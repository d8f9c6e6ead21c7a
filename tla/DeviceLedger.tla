---------------------------- MODULE DeviceLedger ----------------------------
(***************************************************************************)
(* What the journal of a messaging device promises to the code above it:   *)
(* one ledger per device.  An operation is entered once, with one intent   *)
(* and one outcome; an envelope is fixed before it is released; and only   *)
(* what is in the ledger is ever answered or released.                     *)
(***************************************************************************)
VARIABLES
    operations,     \* the ledger of operations: id, intent and outcome
    envelopes,      \* the fixed routing and expiry of queued messages
    answered,       \* outcomes returned to callers, ever
    released        \* envelopes handed to the transport, ever

vars == <<operations, envelopes, answered, released>>

Init ==
    /\ operations = {}
    /\ envelopes = {}
    /\ answered = {}
    /\ released = {}

Execute ==
    /\ \E e \in operations' :
          /\ \A f \in operations : f.id # e.id
          /\ operations' = operations \cup {e}
    /\ UNCHANGED <<envelopes, answered, released>>

\* Messages that have no envelope get one; the others keep theirs.
Stamp ==
    /\ envelopes \subseteq envelopes'
    /\ \A e, f \in envelopes' : e.message = f.message => e = f
    /\ UNCHANGED <<operations, answered, released>>

Answer ==
    /\ \E e \in operations : answered' = answered \cup {e}
    /\ UNCHANGED <<operations, envelopes, released>>

Release ==
    /\ \E E \in SUBSET envelopes : released' = released \cup E
    /\ UNCHANGED <<operations, envelopes, answered>>

Next == Execute \/ Stamp \/ Answer \/ Release

Spec == Init /\ [][Next]_vars
=============================================================================
