------------------------ MODULE MCConversationState ------------------------
EXTENDS ConversationState, TLC

\* The peer has three keys; two offers share the second, and with the last
\* offer a key that this device had before.
O(i, own, peer, inviter) ==
    [id |-> i, own |-> own, peer |-> peer, inviter |-> inviter]
MCOffer == {O(1, TRUE, 1, TRUE), O(2, TRUE, 2, TRUE), O(3, TRUE, 2, FALSE),
            O(4, TRUE, 3, FALSE), O(5, FALSE, 2, TRUE)}
None == [id |-> 0]
=============================================================================
