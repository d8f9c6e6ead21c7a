---------------------------- MODULE MCMintEffect ----------------------------
(* Instances of MintEffect for TLC.                                        *)
EXTENDS MintEffect, FiniteSets, TLC

\* Calls of the gate are interchangeable.
CallSymmetry == Permutations(Gate)

\* Bound on what overlaps: two gate calls and the reconciler, or one gate
\* call, the reconciler and the closer; in one history as often as they like.
Concurrency ==
    \/ Cardinality({g \in Gate : actor[g].pc # "idle"}) <= 1
    \/ \A c \in Closer : actor[c].pc = "idle"
=============================================================================
