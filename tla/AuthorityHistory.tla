-------------------------- MODULE AuthorityHistory --------------------------
(***************************************************************************)
(* What the checkpoint protocol promises to the rest of managed work: the  *)
(* authority behaves as one history of committed operations.  At most one  *)
(* decision is ahead of what has been published, an operation is           *)
(* acknowledged only after publication, and whoever passes the currency    *)
(* check reads exactly what has been published, or is turned away.         *)
(***************************************************************************)
VARIABLES
    decided,        \* operations committed to the authority, ever
    published,      \* the decided operations the independent ledger knows
    acknowledged,   \* operations reported to their callers as done
    visible         \* the contents a currency check lets through: {} or one

vars == <<decided, published, acknowledged, visible>>

Init ==
    /\ decided = {}
    /\ published = {}
    /\ acknowledged = {}
    /\ visible = {{}}

\* An operation is committed; nobody passes the check until it is published.
Decide ==
    /\ decided = published
    /\ \E o \in decided' : decided' = decided \cup {o}
    /\ visible = {}
    /\ visible' = {}
    /\ UNCHANGED <<published, acknowledged>>

Publish ==
    /\ published' = decided
    /\ visible' \in {{}, {decided}}
    /\ UNCHANGED <<decided, acknowledged>>

Acknowledge ==
    /\ \E o \in published : acknowledged' = acknowledged \cup {o}
    /\ UNCHANGED <<decided, published, visible>>

\* The authority becomes unavailable, or available again with all of it.
Availability ==
    /\ visible' \in {{}, {published}}
    /\ visible' # {} => decided = published
    /\ UNCHANGED <<decided, published, acknowledged>>

Next == Decide \/ Publish \/ Acknowledge \/ Availability

Spec == Init /\ [][Next]_vars
=============================================================================
