---------------------------- MODULE GitCopyProofs ----------------------------
(***************************************************************************)
(* Proofs about GitCopy, for any number of repositories, concurrent uses,  *)
(* verifications and foreign events.                                       *)
(*                                                                         *)
(* The argument: a ledger record only moves forward and is never touched   *)
(* once it is closed; the one right to send passes from the record to the  *)
(* transport that takes it (SendInv); a result that reached any program of *)
(* a readback was a look at the disclosed objects, and a repository that   *)
(* is not empty never changes (ResultInv); and a plan that still names the *)
(* checkpoint was made under what the OP's database holds now (PlanInv).   *)
(***************************************************************************)
EXTENDS GitCopy, TLAPS

\* A bearer is sent by the transport that took the permit, and by no other:
\* while the record waits for the permit nothing was sent, and who holds it
\* holds it alone and has not sent.
Unsent == {"none", "admitted", "dispatching"}
MaySend(u) == u.transport \in {"look", "list"}
SendInv ==
    /\ \A k \in Credential : sends[k] <= 1
    /\ \A k \in Credential : ledger[k].git \in Unsent => sends[k] = 0
    /\ \A c \in Call : MaySend(call[c]) =>
          /\ sends[call[c].cred] = 0
          /\ ledger[call[c].cred].git \notin Unsent
    /\ \A c, d \in Call :
          MaySend(call[c]) /\ MaySend(call[d]) /\ call[c].cred = call[d].cred
             => c = d

\* The bearer of a closed record is dead, and a slot without a record has
\* neither a token nor a use.
RecordInv ==
    \A k \in Credential :
        /\ ledger[k].state = "closed" => token[k] = "dead"
        /\ ledger[k].state = "absent" => token[k] = "none" /\ ledger[k].git = "none"

\* A readback that answered, at whatever program, and one that the ledger
\* holds for completed, saw the disclosed objects.
Answered(u) ==
    \/ u.git = "ok" \/ u.host = "ok" \/ u.transport = "ok" \/ u.op = "ok"
ResultInv ==
    /\ \A c \in Call :
          Answered(call[c]) /\ call[c].cred[2] = "readback"
             => repo[call[c].cred[1]] = "disclosed"
    /\ \A r \in Role :
          ledger[<<r, "readback">>].git = "completed" => repo[r] = "disclosed"

\* What a plan was made under, and still stands while the checkpoint does.
Stands(k) ==
    /\ consent = "approved"
    /\ preparation.state = "dispatched"
    /\ row[k] = "captured"
PlanInv ==
    /\ \A k \in Credential : ledger[k].git # "none" =>
          ledger[k].plan <= marker /\ (ledger[k].plan = marker => Stands(k))
    /\ \A c \in Call : call[c].gate = "claim" =>
          /\ call[c].plan <= marker
          /\ call[c].plan = marker => Stands(call[c].cred)

\* Who has read the evidence, and what was verified, has all of it for good.
VerifyInv ==
    /\ \A v \in Verifier : verify[v].pc \in {"recheck", "commit"} =>
          \A k \in Credential : Proven(k)
    /\ preparation.evidence => \A k \in Credential : Proven(k)

IInv == TypeOK /\ SendInv /\ RecordInv /\ ResultInv /\ PlanInv /\ VerifyInv

-----------------------------------------------------------------------------
(* Uses.                                                                   *)

LEMMA NoUseType == NoUse \in Use
<1>1. PICK r \in Role : TRUE
  BY ConstantsAssumption
<1>2. <<r, "upload">> \in Credential
  BY DEF Credential, Purpose
<1>3. (CHOOSE k \in Credential : TRUE) \in Credential
  BY <1>2
<1> QED
  BY <1>3 DEF NoUse, Use

LEMMA KeptType == ASSUME NEW u \in Use PROVE Kept(u) \in Use
  BY NoUseType DEF Kept

\* What a step of one use leaves of the others.
LEMMA SetType ==
    ASSUME TypeOK, NEW c \in Call, NEW u \in Use, Set(c, u)
    PROVE  /\ call' \in [Call -> Use]
           /\ call'[c] = Kept(u)
           /\ \A d \in Call : d # c => call'[d] = call[d]
  BY KeptType DEF Set, TypeOK

-----------------------------------------------------------------------------
(* Type correctness.                                                       *)

LEMMA RequestedType ==
    ASSUME NEW r \in Record
    PROVE  [r EXCEPT !.cleanup_requested = TRUE, !.state = "outcome_unknown"]
              \in Record
  BY Zenon DEF Record

LEMMA TypeInit == Init => TypeOK
  BY NoUseType DEF Init, TypeOK, NoRecord, Record

LEMMA TypeDatabase == TypeOK /\ DatabaseStep => TypeOK'
<1> SUFFICES ASSUME TypeOK, DatabaseStep PROVE TypeOK'
  OBVIOUS
<1> USE DEF TypeOK, Framed, Foreign, database, provider
<1>1. CASE confirm_copy
  BY <1>1 DEF confirm_copy
<1>2. CASE withdraw_copy
  BY <1>2 DEF withdraw_copy
<1>3. CASE dispatch_preparation
  BY <1>3 DEF dispatch_preparation
<1>4. CASE require_preparation_cleanup
  BY <1>4 DEF require_preparation_cleanup
<1>5. CASE confirm_preparation_cleaned
  BY <1>5 DEF confirm_preparation_cleaned
<1>6. CASE OtherWrite
  BY <1>6 DEF OtherWrite
<1>7. CASE LoseAuthority
  <2>1. live' \in BOOLEAN
    BY <1>7, Zenon DEF LoseAuthority
  <2> QED
    BY <1>7, <2>1 DEF LoseAuthority
<1>8. CASE Checkpoint
  BY <1>8 DEF Checkpoint
<1> QED
  BY <1>1, <1>2, <1>3, <1>4, <1>5, <1>6, <1>7, <1>8 DEF DatabaseStep

LEMMA TypeCredential ==
    ASSUME TypeOK, NEW k \in Credential, CredentialStep(k) PROVE TypeOK'
<1> USE DEF TypeOK, Framed, Foreign, database, provider, Record
<1>1. CASE Mint(k)
  <2>1. [ledger[k] EXCEPT !.state = "custodied"] \in Record
    OBVIOUS
  <2>2. ledger' \in [Credential -> Record]
    BY <1>1, <2>1 DEF Mint
  <2> QED
    BY <1>1, <2>2 DEF Mint
<1>2. CASE Expire(k)
  BY <1>2 DEF Expire
<1>3. CASE beginMintCleanup(k)
  <2>1. [ledger[k] EXCEPT !.cleanup_requested = TRUE,
                          !.state = "outcome_unknown"] \in Record
    BY RequestedType
  <2>2. ledger' = [ledger EXCEPT ![k] =
                     [ledger[k] EXCEPT !.cleanup_requested = TRUE,
                                       !.state = "outcome_unknown"]]
    BY <1>3 DEF beginMintCleanup
  <2> QED
    BY <1>3, <2>1, <2>2 DEF beginMintCleanup
<1>4. CASE require_credential_revocation(k)
  BY <1>4 DEF require_credential_revocation
<1>5. CASE Revoke(k)
  BY <1>5 DEF Revoke
<1>6. CASE closeMintRefused(k)
  BY <1>6 DEF closeMintRefused
<1>7. CASE confirm_credential_closed(k)
  BY <1>7 DEF confirm_credential_closed
<1> QED
  BY <1>1, <1>2, <1>3, <1>4, <1>5, <1>6, <1>7 DEF CredentialStep

LEMMA TypeHost == TypeOK /\ (HostPrepare \/ HostPrepared \/ HostRestart) => TypeOK'
<1> SUFFICES ASSUME TypeOK PROVE HostPrepare \/ HostPrepared \/ HostRestart => TypeOK'
  OBVIOUS
<1> USE DEF TypeOK, Foreign, database, provider, hostOnly
<1>1. CASE HostPrepare
  BY <1>1 DEF HostPrepare
<1>2. CASE HostPrepared
  BY <1>2 DEF HostPrepared
<1>3. CASE HostRestart
  <2>1. \A u \in Use : [u EXCEPT !.host = "idle"] \in Use
    BY DEF Use
  <2>2. \A c \in Call : Kept([call[c] EXCEPT !.host = "idle"]) \in Use
    BY <2>1, KeptType
  <2>3. call' \in [Call -> Use]
    BY <1>3, <2>2 DEF HostRestart
  <2>4. host' \in [preflight : BOOLEAN, ready : BOOLEAN, busy : BOOLEAN,
                   preparing : BOOLEAN, attempts : SUBSET Credential]
    BY <1>3 DEF HostRestart
  <2> QED
    BY <1>3, <2>3, <2>4 DEF HostRestart
<1> QED
  BY <1>1, <1>2, <1>3

LEMMA TypeVerify ==
    ASSUME TypeOK, NEW v \in Verifier, VerifyStep(v) PROVE TypeOK'
<1> USE DEF TypeOK, VerifyAt, VerifyEnds, verifyOnly, database, provider
<1>1. CASE VerifyRead(v)
  BY <1>1 DEF VerifyRead
<1>2. CASE VerifyEvidence(v)
  BY <1>2 DEF VerifyEvidence
<1>3. CASE VerifyRecheck(v)
  BY <1>3 DEF VerifyRecheck
<1>4. CASE VerifyCommit(v)
  <2>1. preparation' \in [state : {"reserved", "dispatched", "verified",
                                   "cleanup_pending", "cleaned"},
                          evidence : BOOLEAN]
    <3>1. preparation' = preparation
             \/ preparation' = [state |-> "verified", evidence |-> TRUE]
      BY <1>4 DEF VerifyCommit
    <3>2. [state |-> "verified", evidence |-> TRUE] \in
             [state : {"reserved", "dispatched", "verified",
                       "cleanup_pending", "cleaned"}, evidence : BOOLEAN]
      BY Zenon
    <3> QED
      BY <3>1, <3>2
  <2>2. marker' \in Nat
    BY <1>4 DEF VerifyCommit
  <2> QED
    BY <1>4, <2>1, <2>2 DEF VerifyCommit
<1> QED
  BY <1>1, <1>2, <1>3, <1>4 DEF VerifyStep

Gates == {"idle", "plan", "claim", "wait", "abandon", "cleanup"}
Ops == {"idle", "check", "permit", "recheck", "wait", "ok"}
Transports == {"idle", "check", "take", "look", "list", "wait", "ok"}
Hosts == {"idle", "admit", "wait", "ok"}
Gits == {"idle", "running", "ok"}

\* The updates that the steps of a use make.
LEMMA UseFields ==
    ASSUME NEW u \in Use
    PROVE  /\ \A x \in Gates : [u EXCEPT !.gate = x] \in Use
           /\ \A x \in Ops : [u EXCEPT !.op = x] \in Use
           /\ \A x \in Transports : [u EXCEPT !.transport = x] \in Use
           /\ \A x \in Hosts : [u EXCEPT !.host = x] \in Use
           /\ \A x \in Gits : [u EXCEPT !.git = x] \in Use
           /\ \A x \in Gates, k \in Credential :
                 [u EXCEPT !.cred = k, !.gate = x] \in Use
           /\ \A x \in Gates, n \in Nat : [u EXCEPT !.gate = x, !.plan = n] \in Use
           /\ \A x \in Gates, y \in Ops : [u EXCEPT !.gate = x, !.op = y] \in Use
           /\ \A x \in Ops, y \in Transports :
                 [u EXCEPT !.op = x, !.transport = y] \in Use
           /\ \A x \in Transports, y \in Hosts :
                 [u EXCEPT !.transport = x, !.host = y] \in Use
           /\ \A x \in Hosts, y \in Gits : [u EXCEPT !.host = x, !.git = y] \in Use
<1> USE DEF Use, Gates, Ops, Transports, Hosts, Gits
<1>1. \A x \in Gates : [u EXCEPT !.gate = x] \in Use
  BY Zenon
<1>2. \A x \in Ops : [u EXCEPT !.op = x] \in Use
  BY Zenon
<1>3. \A x \in Transports : [u EXCEPT !.transport = x] \in Use
  BY Zenon
<1>4. \A x \in Hosts : [u EXCEPT !.host = x] \in Use
  BY Zenon
<1>5. \A x \in Gits : [u EXCEPT !.git = x] \in Use
  BY Zenon
<1>6. \A x \in Gates, k \in Credential : [u EXCEPT !.cred = k, !.gate = x] \in Use
  BY Zenon
<1>7. \A x \in Gates, n \in Nat : [u EXCEPT !.gate = x, !.plan = n] \in Use
  BY Zenon
<1>8. \A x \in Gates, y \in Ops : [u EXCEPT !.gate = x, !.op = y] \in Use
  BY Zenon
<1>9. \A x \in Ops, y \in Transports :
         [u EXCEPT !.op = x, !.transport = y] \in Use
  BY Zenon
<1>10. \A x \in Transports, y \in Hosts :
         [u EXCEPT !.transport = x, !.host = y] \in Use
  BY Zenon
<1>11. \A x \in Hosts, y \in Gits : [u EXCEPT !.host = x, !.git = y] \in Use
  BY Zenon
<1> QED
  BY <1>1, <1>2, <1>3, <1>4, <1>5, <1>6, <1>7, <1>8, <1>9, <1>10, <1>11

LEMMA RecordFields ==
    ASSUME NEW r \in Record
    PROVE  /\ \A n \in Nat : [r EXCEPT !.git = "admitted", !.plan = n] \in Record
           /\ [r EXCEPT !.git = "dispatching"] \in Record
           /\ [r EXCEPT !.git = "outcome_unknown"] \in Record
           /\ \A result : Finished(r, result) \in Record
<1>1. \A n \in Nat : [r EXCEPT !.git = "admitted", !.plan = n] \in Record
  BY Zenon DEF Record
<1>2. [r EXCEPT !.git = "dispatching"] \in Record
  BY Zenon DEF Record
<1>3. [r EXCEPT !.git = "outcome_unknown"] \in Record
  BY Zenon DEF Record
<1>4. ASSUME NEW result PROVE Finished(r, result) \in Record
  <2>1. [r EXCEPT !.git = "completed", !.cleanup_requested = TRUE,
                  !.state = "outcome_unknown"] \in Record
    BY Zenon DEF Record
  <2>2. [r EXCEPT !.git = r.git, !.cleanup_requested = TRUE,
                  !.state = "outcome_unknown"] \in Record
    BY Zenon DEF Record
  <2>3. CASE result
    BY <2>1, <2>3, Zenon DEF Finished
  <2>4. CASE ~result
    BY <2>2, <2>4, Zenon DEF Finished
  <2> QED
    BY <2>3, <2>4
<1> QED
  BY <1>1, <1>2, <1>3, <1>4

LEMMA TypeUse ==
    ASSUME TypeOK, NEW c \in Call, UseStep(c) PROVE TypeOK'
<1> DEFINE k == call[c].cred
<1> USE DEF Foreign, database, provider, useOnly, useAndLedger, hostOnly
<1>0. /\ call[c] \in Use /\ k \in Credential /\ call[c].plan \in Nat
      /\ call[c].gate \in Gates /\ call[c].git \in Gits
      /\ ledger[k] \in Record
  BY DEF Use, TypeOK, Gates, Gits
<1>s. ASSUME NEW u \in Use, Set(c, u) PROVE call' \in [Call -> Use]
  BY <1>s, SetType
<1>1. ASSUME NEW q \in Credential, GateLookup(c, q) PROVE TypeOK'
  <2>1. [NoUse EXCEPT !.cred = q, !.gate =
            IF ledger[q].git = "none" THEN "plan" ELSE "abandon"] \in Use
    BY NoUseType, UseFields DEF Gates
  <2>2. call' \in [Call -> Use]
    BY <1>1, <1>s, <2>1 DEF GateLookup
  <2> QED
    BY <1>1, <2>2 DEF GateLookup, TypeOK
<1>2. CASE GatePlan(c)
  <2>1. call' \in [Call -> Use]
    BY <1>2, <1>0, <1>s, UseFields DEF GatePlan, Gates, Ops, Transports, Hosts, Gits, TypeOK
  <2> QED
    BY <1>2, <1>0, <2>1 DEF GatePlan, TypeOK
<1>3. CASE GateClaim(c)
  <2>1. call' \in [Call -> Use]
    BY <1>3, <1>0, <1>s, UseFields DEF GateClaim, Gates, Ops, Transports, Hosts, Gits
  <2>2. [ledger[k] EXCEPT !.git = "admitted", !.plan = call[c].plan] \in Record
    BY <1>0, RecordFields
  <2>3. ledger' = ledger
           \/ ledger' = [ledger EXCEPT ![k] =
                 [ledger[k] EXCEPT !.git = "admitted", !.plan = call[c].plan]]
    BY <1>3 DEF GateClaim, TypeOK
  <2>4. ledger' \in [Credential -> Record]
    BY <2>2, <2>3 DEF TypeOK
  <2> QED
    BY <1>3, <2>1, <2>4 DEF GateClaim, TypeOK
<1>4. CASE GateFinish(c)
  <2>1. call' \in [Call -> Use]
    BY <1>4, <1>0, <1>s, UseFields DEF GateFinish, Gates, Ops, Transports, Hosts, Gits
  <2>2. Finished(ledger[k], call[c].gate = "wait" /\ call[c].op = "ok") \in Record
    BY <1>0, RecordFields
  <2>3. ledger' = ledger
           \/ ledger' = [ledger EXCEPT ![k] =
                 Finished(ledger[k], call[c].gate = "wait" /\ call[c].op = "ok")]
    BY <1>4 DEF GateFinish
  <2>4. ledger' \in [Credential -> Record]
    BY <2>2, <2>3 DEF TypeOK
  <2> QED
    BY <1>4, <2>1, <2>4 DEF GateFinish, TypeOK
<1>5. CASE GateCleanup(c)
  <2>1. call' \in [Call -> Use]
    BY <1>5, <1>0, <1>s, UseFields DEF GateCleanup, Gates, Ops, Transports, Hosts, Gits
  <2> QED
    BY <1>5, <1>0, <2>1 DEF GateCleanup, TypeOK
<1>6. CASE OpCheck(c)
  <2>1. call' \in [Call -> Use]
    BY <1>6, <1>0, <1>s, UseFields DEF OpCheck, Gates, Ops, Transports, Hosts, Gits
  <2> QED
    BY <1>6, <1>0, <2>1 DEF OpCheck, TypeOK
<1>7. CASE OpPermit(c)
  <2>1. call' \in [Call -> Use]
    BY <1>7, <1>0, <1>s, UseFields DEF OpPermit, Gates, Ops, Transports, Hosts, Gits
  <2>2. [ledger[k] EXCEPT !.git = "dispatching"] \in Record
    BY <1>0, RecordFields
  <2>3. ledger' = ledger
           \/ ledger' = [ledger EXCEPT ![k] =
                 [ledger[k] EXCEPT !.git = "dispatching"]]
    BY <1>7 DEF OpPermit, TypeOK
  <2>4. ledger' \in [Credential -> Record]
    BY <2>2, <2>3 DEF TypeOK
  <2> QED
    BY <1>7, <2>1, <2>4 DEF OpPermit, TypeOK
<1>8. CASE OpRecheck(c)
  <2>1. call' \in [Call -> Use]
    BY <1>8, <1>0, <1>s, UseFields DEF OpRecheck, Gates, Ops, Transports, Hosts, Gits
  <2> QED
    BY <1>8, <1>0, <2>1 DEF OpRecheck, TypeOK
<1>9. CASE OpAnswer(c)
  <2>1. call' \in [Call -> Use]
    BY <1>9, <1>0, <1>s, UseFields DEF OpAnswer, Gates, Ops, Transports, Hosts, Gits
  <2> QED
    BY <1>9, <1>0, <2>1 DEF OpAnswer, TypeOK
<1>10. CASE TransportCheck(c)
  <2>1. call' \in [Call -> Use]
    BY <1>10, <1>0, <1>s, UseFields DEF TransportCheck, Gates, Ops, Transports, Hosts, Gits
  <2> QED
    BY <1>10, <1>0, <2>1 DEF TransportCheck, TypeOK
<1>11. CASE TransportTake(c)
  <2>1. call' \in [Call -> Use]
    BY <1>11, <1>0, <1>s, UseFields DEF TransportTake, Gates, Ops, Transports, Hosts, Gits
  <2>2. [ledger[k] EXCEPT !.git = "outcome_unknown"] \in Record
    BY <1>0, RecordFields
  <2>3. ledger' = ledger
           \/ ledger' = [ledger EXCEPT ![k] =
                 [ledger[k] EXCEPT !.git = "outcome_unknown"]]
    BY <1>11 DEF TransportTake, TypeOK
  <2>4. ledger' \in [Credential -> Record]
    BY <2>2, <2>3 DEF TypeOK
  <2> QED
    BY <1>11, <2>1, <2>4 DEF TransportTake, TypeOK
<1>12. CASE TransportLook(c)
  <2>1. call' \in [Call -> Use]
    BY <1>12, <1>0, <1>s, UseFields DEF TransportLook, Gates, Ops, Transports, Hosts, Gits
  <2> QED
    BY <1>12, <1>0, <2>1 DEF TransportLook, TypeOK
<1>13. CASE TransportSend(c)
  <2>1. call' \in [Call -> Use]
    BY <1>13, <1>0, <1>s, UseFields DEF TransportSend, Gates, Ops, Transports, Hosts, Gits
  <2> QED
    BY <1>13, <1>0, <2>1 DEF TransportSend, TypeOK
<1>14. CASE TransportAnswer(c)
  <2>1. call' \in [Call -> Use]
    BY <1>14, <1>0, <1>s, UseFields DEF TransportAnswer, Gates, Ops, Transports, Hosts, Gits
  <2> QED
    BY <1>14, <1>0, <2>1 DEF TransportAnswer, TypeOK
<1>15. CASE HostAdmit(c)
  <2>1. call' \in [Call -> Use]
    BY <1>15, <1>0, <1>s, UseFields DEF HostAdmit, Gates, Ops, Transports, Hosts, Gits
  <2> DEFINE H == [preflight : BOOLEAN, ready : BOOLEAN, busy : BOOLEAN,
                   preparing : BOOLEAN, attempts : SUBSET Credential]
  <2>2. \A s \in SUBSET Credential :
           [host EXCEPT !.busy = TRUE, !.attempts = s] \in H
    BY Zenon DEF TypeOK
  <2>3. host.attempts \cup {k} \in SUBSET Credential
    BY <1>0 DEF TypeOK
  <2>4. host' \in H
    BY <1>15, <2>2, <2>3 DEF HostAdmit, TypeOK
  <2> QED
    BY <1>15, <2>1, <2>4 DEF HostAdmit, TypeOK
<1>16. CASE HostAnswer(c)
  <2>1. call' \in [Call -> Use]
    BY <1>16, <1>0, <1>s, UseFields DEF HostAnswer, Gates, Ops, Transports, Hosts, Gits
  <2>2. host' \in [preflight : BOOLEAN, ready : BOOLEAN, busy : BOOLEAN,
                   preparing : BOOLEAN, attempts : SUBSET Credential]
    BY <1>16, <1>0 DEF HostAnswer, TypeOK
  <2> QED
    BY <1>16, <2>1, <2>2 DEF HostAnswer, TypeOK
<1>17. CASE Push(c)
  <2>1. call' \in [Call -> Use]
    BY <1>17, <1>0, <1>s, UseFields DEF Push, Gates, Ops, Transports, Hosts, Gits
  <2>2. repo' \in [Role -> {"empty", "disclosed", "other"}]
    BY <1>17, <1>0 DEF Push, TypeOK
  <2> QED
    BY <1>17, <2>1, <2>2 DEF Push, TypeOK
<1>18. CASE ReadBack(c)
  <2>1. call' \in [Call -> Use]
    BY <1>18, <1>0, <1>s, UseFields DEF ReadBack, Gates, Ops, Transports, Hosts, Gits
  <2> QED
    BY <1>18, <1>0, <2>1 DEF ReadBack, TypeOK
<1>19. CASE GitFails(c)
  <2>1. call' \in [Call -> Use]
    BY <1>19, <1>0, <1>s, UseFields DEF GitFails, Gates, Ops, Transports, Hosts, Gits
  <2> QED
    BY <1>19, <1>0, <2>1 DEF GitFails, TypeOK
<1>20. CASE Die(c)
  <2>1. call' \in [Call -> Use]
    BY <1>20, <1>0, <1>s, UseFields DEF Die, Gates, Ops, Transports, Hosts, Gits
  <2> QED
    BY <1>20, <1>0, <2>1 DEF Die, TypeOK
<1> QED
  BY <1>1, <1>2, <1>3, <1>4, <1>5, <1>6, <1>7, <1>8, <1>9, <1>10, <1>11, <1>12, <1>13, <1>14, <1>15, <1>16, <1>17, <1>18, <1>19, <1>20 DEF UseStep

-----------------------------------------------------------------------------
(* What a step of a use changes.                                           *)

\* The four ways a use writes its ledger record.
UseWrites(c, k) ==
    /\ k = call[c].cred
    /\ \/ /\ call[c].gate = "claim" /\ call[c].plan = marker
          /\ ledger[k].state = "custodied" /\ ledger[k].git = "none"
          /\ ledger'[k] = [ledger[k] EXCEPT !.git = "admitted", !.plan = call[c].plan]
       \/ /\ ledger[k].state = "custodied" /\ ledger[k].git = "admitted"
          /\ ledger'[k] = [ledger[k] EXCEPT !.git = "dispatching"]
       \/ /\ call[c].transport = "take"
          /\ ledger[k].state = "custodied" /\ ledger[k].git = "dispatching"
          /\ ledger[k].plan = marker
          /\ ledger'[k] = [ledger[k] EXCEPT !.git = "outcome_unknown"]
       \/ \E result \in BOOLEAN :
          /\ ledger[k].state # "closed" /\ ledger[k].git # "none"
          /\ result => /\ call[c].op = "ok"
                       /\ ledger[k].git \in {"outcome_unknown", "completed"}
          /\ ledger'[k] = Finished(ledger[k], result)

LEMMA UseLedger ==
    ASSUME TypeOK, NEW c \in Call, UseStep(c), NEW k \in Credential
    PROVE  ledger'[k] = ledger[k] \/ UseWrites(c, k)
<1>0. ledger \in [Credential -> Record] /\ call[c].cred \in Credential
  BY DEF TypeOK, Use
<1> USE DEF useOnly, useAndLedger, hostOnly
<1>1. CASE GateClaim(c)
  BY <1>0, <1>1 DEF GateClaim, Productive, ClaimStarts, UseWrites
<1>2. CASE OpPermit(c)
  BY <1>0, <1>2 DEF OpPermit, CanTake, Productive, UseWrites
<1>3. CASE TransportTake(c)
  BY <1>0, <1>3 DEF TransportTake, CanTake, Productive, UseWrites
<1>4. CASE GateFinish(c)
  <2> DEFINE result == call[c].gate = "wait" /\ call[c].op = "ok"
  <2>1. result \in BOOLEAN
    OBVIOUS
  <2>2. result => call[c].op = "ok"
    OBVIOUS
  <2> HIDE DEF result
  <2>3. CASE ~CanFinish(call[c].cred, result)
    BY <1>4, <2>3 DEF GateFinish, result
  <2>4. CASE CanFinish(call[c].cred, result)
    <3>1. ledger' = [ledger EXCEPT ![call[c].cred] =
                        Finished(ledger[call[c].cred], result)]
      BY <1>4, <2>4 DEF GateFinish, result
    <3> QED
      BY <1>0, <2>1, <2>2, <2>4, <3>1 DEF CanFinish, UseWrites
  <2> QED
    BY <2>3, <2>4
<1>5. CASE ~(GateClaim(c) \/ OpPermit(c) \/ TransportTake(c) \/ GateFinish(c))
  <2>1. ledger' = ledger
    BY <1>5 DEF UseStep, GateLookup, GatePlan, GateCleanup, OpCheck, OpRecheck, OpAnswer, TransportCheck, TransportLook, TransportSend, TransportAnswer, HostAdmit, HostAnswer, Push, ReadBack, GitFails, Die
  <2> QED
    BY <2>1
<1> QED
  BY <1>1, <1>2, <1>3, <1>4, <1>5

\* Whose turn it is to send: the transport that takes the permit may, until
\* it has.
UseSends(c, u) ==
    /\ MaySend(u) =>
          /\ u.cred = call[c].cred /\ sends' = sends
          /\ \/ MaySend(call[c])
             \/ /\ ledger[call[c].cred].git = "dispatching"
                /\ ledger'[call[c].cred].git = "outcome_unknown"
    /\ \/ sends' = sends
       \/ /\ MaySend(call[c]) /\ ~MaySend(u) /\ ledger' = ledger
          /\ sends' = [sends EXCEPT ![call[c].cred] = sends[call[c].cred] + 1]

\* Where an answer comes from: the callee, or the repository.
UseAnswers(c, u) ==
    Answered(u) =>
        /\ u.cred = call[c].cred
        /\ \/ Answered(call[c])
           \/ call[c].cred[2] = "upload"
           \/ repo[call[c].cred[1]] = "disclosed"

\* Where a plan comes from.
UsePlans(c, u) ==
    u.gate = "claim" =>
        /\ u.cred = call[c].cred
        /\ \/ call[c].gate = "claim" /\ u.plan = call[c].plan
           \/ u.plan = marker /\ Stands(call[c].cred) /\ marker' = marker

UseMove(c, u) == UseSends(c, u) /\ UseAnswers(c, u) /\ UsePlans(c, u)

LEMMA TypeMarker == TypeOK => marker \in Nat
  BY DEF TypeOK

LEMMA UseMoves ==
    ASSUME TypeOK, NEW c \in Call, UseStep(c)
    PROVE  /\ \A d \in Call : d # c => call'[d] = call[d]
           /\ UseMove(c, call'[c])
<1>0. /\ call[c] \in Use /\ call[c].cred \in Credential /\ call[c].plan \in Nat
      /\ call[c].git \in Gits /\ ledger \in [Credential -> Record]
  BY DEF Use, TypeOK, Gits
<1> DEFINE Goal == /\ \A d \in Call : d # c => call'[d] = call[d]
                   /\ UseMove(c, call'[c])
\* A use that ends is forgotten; the move it made is one all the same.
<1>s. ASSUME NEW u \in Use, Set(c, u), UseMove(c, u) PROVE Goal
  <2>1. /\ ~MaySend(NoUse) /\ ~Answered(NoUse) /\ NoUse.gate # "claim"
    BY DEF NoUse, MaySend, Answered
  <2>2. UseMove(c, NoUse)
    BY <1>s, <2>1 DEF UseMove, UseSends, UseAnswers, UsePlans
  <2>3. call'[c] = u \/ call'[c] = NoUse
    BY <1>s, SetType DEF Kept
  <2>4. \A d \in Call : d # c => call'[d] = call[d]
    BY <1>s, SetType
  <2>5. UseMove(c, call'[c])
    <3>1. CASE call'[c] = u
      BY <1>s, <3>1
    <3>2. CASE call'[c] = NoUse
      BY <2>2, <3>2
    <3> QED
      BY <2>3, <3>1, <3>2
  <2> QED
    BY <2>4, <2>5
\* Nothing is obtained.
<1>q. ASSUME NEW u \in Use, Set(c, u), sends' = sends,
             u.cred = call[c].cred, u.plan = call[c].plan,
             MaySend(u) => MaySend(call[c]), Answered(u) => Answered(call[c]),
             u.gate = "claim" => call[c].gate = "claim"
      PROVE  Goal
  <2>1. UseMove(c, u)
    BY <1>q DEF UseMove, UseSends, UseAnswers, UsePlans
  <2> QED
    BY <1>q, <1>s, <2>1
<1> SUFFICES Goal
  OBVIOUS
<1> HIDE DEF Goal
<1> USE DEF Foreign, useOnly, useAndLedger, hostOnly
<1>1. ASSUME NEW q \in Credential, GateLookup(c, q) PROVE Goal
  <2> DEFINE u == [NoUse EXCEPT !.cred = q, !.gate =
                     IF ledger[q].git = "none" THEN "plan" ELSE "abandon"]
  <2>1. u \in Use
    BY NoUseType, UseFields DEF Gates
  <2>2. ~MaySend(u) /\ ~Answered(u) /\ u.gate # "claim"
    BY DEF NoUse, MaySend, Answered
  <2>3. Set(c, u) /\ sends' = sends
    BY <1>1 DEF GateLookup
  <2> HIDE DEF u
  <2>4. UseMove(c, u)
    BY <2>2, <2>3 DEF UseMove, UseSends, UseAnswers, UsePlans
  <2> QED
    BY <2>1, <2>3, <2>4, <1>s
<1>2. CASE GatePlan(c)
  <2>1. \/ Set(c, [call[c] EXCEPT !.gate = "claim", !.plan = marker])
          /\ Stands(call[c].cred) /\ marker' = marker /\ sends' = sends
        \/ Set(c, [call[c] EXCEPT !.gate = "idle"]) /\ sends' = sends
    BY <1>2, <1>0 DEF GatePlan, Planned, ConsentCurrent, Stands
  <2>2. CASE Set(c, [call[c] EXCEPT !.gate = "claim", !.plan = marker])
          /\ Stands(call[c].cred) /\ marker' = marker /\ sends' = sends
    <3> DEFINE u == [call[c] EXCEPT !.gate = "claim", !.plan = marker]
    <3>1. u \in Use
      BY <1>0, UseFields, TypeMarker DEF Gates, Ops, Transports, Hosts, Gits
    <3>2. u.cred = call[c].cred /\ u.plan = marker
          /\ (MaySend(u) => MaySend(call[c])) /\ (Answered(u) => Answered(call[c]))
      BY <2>2, <1>0 DEF Use, MaySend, Answered
    <3>3. Set(c, u)
      BY <2>2
    <3> HIDE DEF u
    <3>4. UseMove(c, u)
      BY <2>2, <3>2 DEF UseMove, UseSends, UseAnswers, UsePlans
    <3> QED
      BY <3>1, <3>3, <3>4, <1>s
  <2>3. CASE Set(c, [call[c] EXCEPT !.gate = "idle"]) /\ sends' = sends
    <3> DEFINE u == [call[c] EXCEPT !.gate = "idle"]
    <3>1. u \in Use
      BY <1>0, UseFields DEF Gates, Ops, Transports, Hosts, Gits
    <3>2. /\ u.cred = call[c].cred /\ u.plan = call[c].plan
          /\ MaySend(u) => MaySend(call[c])
          /\ Answered(u) => Answered(call[c])
          /\ u.gate = "claim" => call[c].gate = "claim"
      BY <2>3, <1>0 DEF Use, MaySend, Answered
    <3>3. Set(c, u) /\ sends' = sends
      BY <2>3
    <3> HIDE DEF u
    <3> QED
      BY <3>1, <3>2, <3>3, <1>q
  <2> QED
    BY <2>1, <2>2, <2>3
<1>3. CASE GateClaim(c)
  <2>1. \/ Set(c, [call[c] EXCEPT !.gate = "wait", !.op = "check"]) /\ sends' = sends
        \/ Set(c, [call[c] EXCEPT !.gate = "idle"]) /\ sends' = sends
    BY <1>3, <1>0 DEF GateClaim
  <2>2. CASE Set(c, [call[c] EXCEPT !.gate = "wait", !.op = "check"]) /\ sends' = sends
    <3> DEFINE u == [call[c] EXCEPT !.gate = "wait", !.op = "check"]
    <3>1. u \in Use
      BY <1>0, UseFields DEF Gates, Ops, Transports, Hosts, Gits
    <3>2. /\ u.cred = call[c].cred /\ u.plan = call[c].plan
          /\ MaySend(u) => MaySend(call[c])
          /\ Answered(u) => Answered(call[c])
          /\ u.gate = "claim" => call[c].gate = "claim"
      BY <2>2, <1>0 DEF Use, MaySend, Answered
    <3>3. Set(c, u) /\ sends' = sends
      BY <2>2
    <3> HIDE DEF u
    <3> QED
      BY <3>1, <3>2, <3>3, <1>q
  <2>3. CASE Set(c, [call[c] EXCEPT !.gate = "idle"]) /\ sends' = sends
    <3> DEFINE u == [call[c] EXCEPT !.gate = "idle"]
    <3>1. u \in Use
      BY <1>0, UseFields DEF Gates, Ops, Transports, Hosts, Gits
    <3>2. /\ u.cred = call[c].cred /\ u.plan = call[c].plan
          /\ MaySend(u) => MaySend(call[c])
          /\ Answered(u) => Answered(call[c])
          /\ u.gate = "claim" => call[c].gate = "claim"
      BY <2>3, <1>0 DEF Use, MaySend, Answered
    <3>3. Set(c, u) /\ sends' = sends
      BY <2>3
    <3> HIDE DEF u
    <3> QED
      BY <3>1, <3>2, <3>3, <1>q
  <2> QED
    BY <2>1, <2>2, <2>3
<1>4. CASE GateFinish(c)
  <2>1. \/ Set(c, [call[c] EXCEPT !.gate = "cleanup", !.op = "idle"]) /\ sends' = sends
        \/ Set(c, [call[c] EXCEPT !.gate = "idle"]) /\ sends' = sends
    BY <1>4, <1>0 DEF GateFinish
  <2>2. CASE Set(c, [call[c] EXCEPT !.gate = "cleanup", !.op = "idle"]) /\ sends' = sends
    <3> DEFINE u == [call[c] EXCEPT !.gate = "cleanup", !.op = "idle"]
    <3>1. u \in Use
      BY <1>0, UseFields DEF Gates, Ops, Transports, Hosts, Gits
    <3>2. /\ u.cred = call[c].cred /\ u.plan = call[c].plan
          /\ MaySend(u) => MaySend(call[c])
          /\ Answered(u) => Answered(call[c])
          /\ u.gate = "claim" => call[c].gate = "claim"
      BY <2>2, <1>0 DEF Use, MaySend, Answered
    <3>3. Set(c, u) /\ sends' = sends
      BY <2>2
    <3> HIDE DEF u
    <3> QED
      BY <3>1, <3>2, <3>3, <1>q
  <2>3. CASE Set(c, [call[c] EXCEPT !.gate = "idle"]) /\ sends' = sends
    <3> DEFINE u == [call[c] EXCEPT !.gate = "idle"]
    <3>1. u \in Use
      BY <1>0, UseFields DEF Gates, Ops, Transports, Hosts, Gits
    <3>2. /\ u.cred = call[c].cred /\ u.plan = call[c].plan
          /\ MaySend(u) => MaySend(call[c])
          /\ Answered(u) => Answered(call[c])
          /\ u.gate = "claim" => call[c].gate = "claim"
      BY <2>3, <1>0 DEF Use, MaySend, Answered
    <3>3. Set(c, u) /\ sends' = sends
      BY <2>3
    <3> HIDE DEF u
    <3> QED
      BY <3>1, <3>2, <3>3, <1>q
  <2> QED
    BY <2>1, <2>2, <2>3
<1>5. CASE GateCleanup(c)
  <2>1. Set(c, [call[c] EXCEPT !.gate = "idle"]) /\ sends' = sends
    BY <1>5, <1>0 DEF GateCleanup
  <2>2. CASE Set(c, [call[c] EXCEPT !.gate = "idle"]) /\ sends' = sends
    <3> DEFINE u == [call[c] EXCEPT !.gate = "idle"]
    <3>1. u \in Use
      BY <1>0, UseFields DEF Gates, Ops, Transports, Hosts, Gits
    <3>2. /\ u.cred = call[c].cred /\ u.plan = call[c].plan
          /\ MaySend(u) => MaySend(call[c])
          /\ Answered(u) => Answered(call[c])
          /\ u.gate = "claim" => call[c].gate = "claim"
      BY <2>2, <1>0 DEF Use, MaySend, Answered
    <3>3. Set(c, u) /\ sends' = sends
      BY <2>2
    <3> HIDE DEF u
    <3> QED
      BY <3>1, <3>2, <3>3, <1>q
  <2> QED
    BY <2>1, <2>2
<1>6. CASE OpCheck(c)
  <2>1. \/ Set(c, [call[c] EXCEPT !.op = "permit"]) /\ sends' = sends
        \/ Set(c, [call[c] EXCEPT !.op = "idle"]) /\ sends' = sends
    BY <1>6, <1>0 DEF OpCheck
  <2>2. CASE Set(c, [call[c] EXCEPT !.op = "permit"]) /\ sends' = sends
    <3> DEFINE u == [call[c] EXCEPT !.op = "permit"]
    <3>1. u \in Use
      BY <1>0, UseFields DEF Gates, Ops, Transports, Hosts, Gits
    <3>2. /\ u.cred = call[c].cred /\ u.plan = call[c].plan
          /\ MaySend(u) => MaySend(call[c])
          /\ Answered(u) => Answered(call[c])
          /\ u.gate = "claim" => call[c].gate = "claim"
      BY <2>2, <1>0 DEF Use, MaySend, Answered
    <3>3. Set(c, u) /\ sends' = sends
      BY <2>2
    <3> HIDE DEF u
    <3> QED
      BY <3>1, <3>2, <3>3, <1>q
  <2>3. CASE Set(c, [call[c] EXCEPT !.op = "idle"]) /\ sends' = sends
    <3> DEFINE u == [call[c] EXCEPT !.op = "idle"]
    <3>1. u \in Use
      BY <1>0, UseFields DEF Gates, Ops, Transports, Hosts, Gits
    <3>2. /\ u.cred = call[c].cred /\ u.plan = call[c].plan
          /\ MaySend(u) => MaySend(call[c])
          /\ Answered(u) => Answered(call[c])
          /\ u.gate = "claim" => call[c].gate = "claim"
      BY <2>3, <1>0 DEF Use, MaySend, Answered
    <3>3. Set(c, u) /\ sends' = sends
      BY <2>3
    <3> HIDE DEF u
    <3> QED
      BY <3>1, <3>2, <3>3, <1>q
  <2> QED
    BY <2>1, <2>2, <2>3
<1>7. CASE OpPermit(c)
  <2>1. \/ Set(c, [call[c] EXCEPT !.op = "recheck"]) /\ sends' = sends
        \/ Set(c, [call[c] EXCEPT !.op = "idle"]) /\ sends' = sends
    BY <1>7, <1>0 DEF OpPermit
  <2>2. CASE Set(c, [call[c] EXCEPT !.op = "recheck"]) /\ sends' = sends
    <3> DEFINE u == [call[c] EXCEPT !.op = "recheck"]
    <3>1. u \in Use
      BY <1>0, UseFields DEF Gates, Ops, Transports, Hosts, Gits
    <3>2. /\ u.cred = call[c].cred /\ u.plan = call[c].plan
          /\ MaySend(u) => MaySend(call[c])
          /\ Answered(u) => Answered(call[c])
          /\ u.gate = "claim" => call[c].gate = "claim"
      BY <2>2, <1>0 DEF Use, MaySend, Answered
    <3>3. Set(c, u) /\ sends' = sends
      BY <2>2
    <3> HIDE DEF u
    <3> QED
      BY <3>1, <3>2, <3>3, <1>q
  <2>3. CASE Set(c, [call[c] EXCEPT !.op = "idle"]) /\ sends' = sends
    <3> DEFINE u == [call[c] EXCEPT !.op = "idle"]
    <3>1. u \in Use
      BY <1>0, UseFields DEF Gates, Ops, Transports, Hosts, Gits
    <3>2. /\ u.cred = call[c].cred /\ u.plan = call[c].plan
          /\ MaySend(u) => MaySend(call[c])
          /\ Answered(u) => Answered(call[c])
          /\ u.gate = "claim" => call[c].gate = "claim"
      BY <2>3, <1>0 DEF Use, MaySend, Answered
    <3>3. Set(c, u) /\ sends' = sends
      BY <2>3
    <3> HIDE DEF u
    <3> QED
      BY <3>1, <3>2, <3>3, <1>q
  <2> QED
    BY <2>1, <2>2, <2>3
<1>8. CASE OpRecheck(c)
  <2>1. \/ Set(c, [call[c] EXCEPT !.op = "wait", !.transport = "check"]) /\ sends' = sends
        \/ Set(c, [call[c] EXCEPT !.op = "idle"]) /\ sends' = sends
    BY <1>8, <1>0 DEF OpRecheck
  <2>2. CASE Set(c, [call[c] EXCEPT !.op = "wait", !.transport = "check"]) /\ sends' = sends
    <3> DEFINE u == [call[c] EXCEPT !.op = "wait", !.transport = "check"]
    <3>1. u \in Use
      BY <1>0, UseFields DEF Gates, Ops, Transports, Hosts, Gits
    <3>2. /\ u.cred = call[c].cred /\ u.plan = call[c].plan
          /\ MaySend(u) => MaySend(call[c])
          /\ Answered(u) => Answered(call[c])
          /\ u.gate = "claim" => call[c].gate = "claim"
      BY <2>2, <1>0 DEF Use, MaySend, Answered
    <3>3. Set(c, u) /\ sends' = sends
      BY <2>2
    <3> HIDE DEF u
    <3> QED
      BY <3>1, <3>2, <3>3, <1>q
  <2>3. CASE Set(c, [call[c] EXCEPT !.op = "idle"]) /\ sends' = sends
    <3> DEFINE u == [call[c] EXCEPT !.op = "idle"]
    <3>1. u \in Use
      BY <1>0, UseFields DEF Gates, Ops, Transports, Hosts, Gits
    <3>2. /\ u.cred = call[c].cred /\ u.plan = call[c].plan
          /\ MaySend(u) => MaySend(call[c])
          /\ Answered(u) => Answered(call[c])
          /\ u.gate = "claim" => call[c].gate = "claim"
      BY <2>3, <1>0 DEF Use, MaySend, Answered
    <3>3. Set(c, u) /\ sends' = sends
      BY <2>3
    <3> HIDE DEF u
    <3> QED
      BY <3>1, <3>2, <3>3, <1>q
  <2> QED
    BY <2>1, <2>2, <2>3
<1>9. CASE OpAnswer(c)
  <2>1. \/ Set(c, [call[c] EXCEPT !.op = "ok", !.transport = "idle"])
          /\ call[c].transport = "ok" /\ sends' = sends
        \/ Set(c, [call[c] EXCEPT !.op = "idle", !.transport = "idle"]) /\ sends' = sends
    BY <1>9, <1>0 DEF OpAnswer
  <2>2. CASE Set(c, [call[c] EXCEPT !.op = "ok", !.transport = "idle"])
          /\ call[c].transport = "ok" /\ sends' = sends
    <3> DEFINE u == [call[c] EXCEPT !.op = "ok", !.transport = "idle"]
    <3>1. u \in Use
      BY <1>0, UseFields DEF Gates, Ops, Transports, Hosts, Gits
    <3>2. /\ u.cred = call[c].cred /\ u.plan = call[c].plan
          /\ MaySend(u) => MaySend(call[c])
          /\ Answered(u) => Answered(call[c])
          /\ u.gate = "claim" => call[c].gate = "claim"
      BY <2>2, <1>0 DEF Use, MaySend, Answered
    <3>3. Set(c, u) /\ sends' = sends
      BY <2>2
    <3> HIDE DEF u
    <3> QED
      BY <3>1, <3>2, <3>3, <1>q
  <2>3. CASE Set(c, [call[c] EXCEPT !.op = "idle", !.transport = "idle"]) /\ sends' = sends
    <3> DEFINE u == [call[c] EXCEPT !.op = "idle", !.transport = "idle"]
    <3>1. u \in Use
      BY <1>0, UseFields DEF Gates, Ops, Transports, Hosts, Gits
    <3>2. /\ u.cred = call[c].cred /\ u.plan = call[c].plan
          /\ MaySend(u) => MaySend(call[c])
          /\ Answered(u) => Answered(call[c])
          /\ u.gate = "claim" => call[c].gate = "claim"
      BY <2>3, <1>0 DEF Use, MaySend, Answered
    <3>3. Set(c, u) /\ sends' = sends
      BY <2>3
    <3> HIDE DEF u
    <3> QED
      BY <3>1, <3>2, <3>3, <1>q
  <2> QED
    BY <2>1, <2>2, <2>3
<1>10. CASE TransportCheck(c)
  <2>1. \/ Set(c, [call[c] EXCEPT !.transport = "take"]) /\ sends' = sends
        \/ Set(c, [call[c] EXCEPT !.transport = "idle"]) /\ sends' = sends
    BY <1>10, <1>0 DEF TransportCheck
  <2>2. CASE Set(c, [call[c] EXCEPT !.transport = "take"]) /\ sends' = sends
    <3> DEFINE u == [call[c] EXCEPT !.transport = "take"]
    <3>1. u \in Use
      BY <1>0, UseFields DEF Gates, Ops, Transports, Hosts, Gits
    <3>2. /\ u.cred = call[c].cred /\ u.plan = call[c].plan
          /\ MaySend(u) => MaySend(call[c])
          /\ Answered(u) => Answered(call[c])
          /\ u.gate = "claim" => call[c].gate = "claim"
      BY <2>2, <1>0 DEF Use, MaySend, Answered
    <3>3. Set(c, u) /\ sends' = sends
      BY <2>2
    <3> HIDE DEF u
    <3> QED
      BY <3>1, <3>2, <3>3, <1>q
  <2>3. CASE Set(c, [call[c] EXCEPT !.transport = "idle"]) /\ sends' = sends
    <3> DEFINE u == [call[c] EXCEPT !.transport = "idle"]
    <3>1. u \in Use
      BY <1>0, UseFields DEF Gates, Ops, Transports, Hosts, Gits
    <3>2. /\ u.cred = call[c].cred /\ u.plan = call[c].plan
          /\ MaySend(u) => MaySend(call[c])
          /\ Answered(u) => Answered(call[c])
          /\ u.gate = "claim" => call[c].gate = "claim"
      BY <2>3, <1>0 DEF Use, MaySend, Answered
    <3>3. Set(c, u) /\ sends' = sends
      BY <2>3
    <3> HIDE DEF u
    <3> QED
      BY <3>1, <3>2, <3>3, <1>q
  <2> QED
    BY <2>1, <2>2, <2>3
<1>11. CASE TransportTake(c)
  <2>1. \/ Set(c, [call[c] EXCEPT !.transport = "look"])
          /\ ledger[call[c].cred].git = "dispatching" /\ ledger'[call[c].cred].git = "outcome_unknown" /\ sends' = sends
        \/ Set(c, [call[c] EXCEPT !.transport = "idle"]) /\ sends' = sends
    BY <1>11, <1>0 DEF TransportTake, CanTake, Productive, Record
  <2>2. CASE Set(c, [call[c] EXCEPT !.transport = "look"])
          /\ ledger[call[c].cred].git = "dispatching" /\ ledger'[call[c].cred].git = "outcome_unknown" /\ sends' = sends
    <3> DEFINE u == [call[c] EXCEPT !.transport = "look"]
    <3>1. u \in Use
      BY <1>0, UseFields DEF Gates, Ops, Transports, Hosts, Gits
    <3>2. u.cred = call[c].cred /\ u.plan = call[c].plan /\ u.gate = call[c].gate
          /\ (Answered(u) => Answered(call[c]))
      BY <2>2, <1>0 DEF Use, MaySend, Answered
    <3>3. Set(c, u)
      BY <2>2
    <3> HIDE DEF u
    <3>4. UseMove(c, u)
      BY <2>2, <3>2 DEF UseMove, UseSends, UseAnswers, UsePlans
    <3> QED
      BY <3>1, <3>3, <3>4, <1>s
  <2>3. CASE Set(c, [call[c] EXCEPT !.transport = "idle"]) /\ sends' = sends
    <3> DEFINE u == [call[c] EXCEPT !.transport = "idle"]
    <3>1. u \in Use
      BY <1>0, UseFields DEF Gates, Ops, Transports, Hosts, Gits
    <3>2. /\ u.cred = call[c].cred /\ u.plan = call[c].plan
          /\ MaySend(u) => MaySend(call[c])
          /\ Answered(u) => Answered(call[c])
          /\ u.gate = "claim" => call[c].gate = "claim"
      BY <2>3, <1>0 DEF Use, MaySend, Answered
    <3>3. Set(c, u) /\ sends' = sends
      BY <2>3
    <3> HIDE DEF u
    <3> QED
      BY <3>1, <3>2, <3>3, <1>q
  <2> QED
    BY <2>1, <2>2, <2>3
<1>12. CASE TransportLook(c)
  <2>1. \/ Set(c, [call[c] EXCEPT !.transport = "list"])
          /\ call[c].transport = "look" /\ sends' = sends
        \/ Set(c, [call[c] EXCEPT !.transport = "idle"]) /\ sends' = sends
    BY <1>12, <1>0 DEF TransportLook
  <2>2. CASE Set(c, [call[c] EXCEPT !.transport = "list"])
          /\ call[c].transport = "look" /\ sends' = sends
    <3> DEFINE u == [call[c] EXCEPT !.transport = "list"]
    <3>1. u \in Use
      BY <1>0, UseFields DEF Gates, Ops, Transports, Hosts, Gits
    <3>2. /\ u.cred = call[c].cred /\ u.plan = call[c].plan
          /\ MaySend(u) => MaySend(call[c])
          /\ Answered(u) => Answered(call[c])
          /\ u.gate = "claim" => call[c].gate = "claim"
      BY <2>2, <1>0 DEF Use, MaySend, Answered
    <3>3. Set(c, u) /\ sends' = sends
      BY <2>2
    <3> HIDE DEF u
    <3> QED
      BY <3>1, <3>2, <3>3, <1>q
  <2>3. CASE Set(c, [call[c] EXCEPT !.transport = "idle"]) /\ sends' = sends
    <3> DEFINE u == [call[c] EXCEPT !.transport = "idle"]
    <3>1. u \in Use
      BY <1>0, UseFields DEF Gates, Ops, Transports, Hosts, Gits
    <3>2. /\ u.cred = call[c].cred /\ u.plan = call[c].plan
          /\ MaySend(u) => MaySend(call[c])
          /\ Answered(u) => Answered(call[c])
          /\ u.gate = "claim" => call[c].gate = "claim"
      BY <2>3, <1>0 DEF Use, MaySend, Answered
    <3>3. Set(c, u) /\ sends' = sends
      BY <2>3
    <3> HIDE DEF u
    <3> QED
      BY <3>1, <3>2, <3>3, <1>q
  <2> QED
    BY <2>1, <2>2, <2>3
<1>13. CASE TransportSend(c)
  <2>1. \/ Set(c, [call[c] EXCEPT !.transport = "wait", !.host = "admit"])
          /\ call[c].transport = "list" /\ ledger' = ledger
             /\ sends' = [sends EXCEPT ![call[c].cred] = sends[call[c].cred] + 1]
        \/ Set(c, [call[c] EXCEPT !.transport = "idle"]) /\ sends' = sends
    BY <1>13, <1>0 DEF TransportSend
  <2>2. CASE Set(c, [call[c] EXCEPT !.transport = "wait", !.host = "admit"])
          /\ call[c].transport = "list" /\ ledger' = ledger
             /\ sends' = [sends EXCEPT ![call[c].cred] = sends[call[c].cred] + 1]
    <3> DEFINE u == [call[c] EXCEPT !.transport = "wait", !.host = "admit"]
    <3>1. u \in Use
      BY <1>0, UseFields DEF Gates, Ops, Transports, Hosts, Gits
    <3>2. u.cred = call[c].cred /\ u.plan = call[c].plan /\ u.gate = call[c].gate
          /\ ~MaySend(u) /\ MaySend(call[c]) /\ (Answered(u) => Answered(call[c]))
      BY <2>2, <1>0 DEF Use, MaySend, Answered
    <3>3. Set(c, u)
      BY <2>2
    <3> HIDE DEF u
    <3>4. UseMove(c, u)
      BY <2>2, <3>2 DEF UseMove, UseSends, UseAnswers, UsePlans
    <3> QED
      BY <3>1, <3>3, <3>4, <1>s
  <2>3. CASE Set(c, [call[c] EXCEPT !.transport = "idle"]) /\ sends' = sends
    <3> DEFINE u == [call[c] EXCEPT !.transport = "idle"]
    <3>1. u \in Use
      BY <1>0, UseFields DEF Gates, Ops, Transports, Hosts, Gits
    <3>2. /\ u.cred = call[c].cred /\ u.plan = call[c].plan
          /\ MaySend(u) => MaySend(call[c])
          /\ Answered(u) => Answered(call[c])
          /\ u.gate = "claim" => call[c].gate = "claim"
      BY <2>3, <1>0 DEF Use, MaySend, Answered
    <3>3. Set(c, u) /\ sends' = sends
      BY <2>3
    <3> HIDE DEF u
    <3> QED
      BY <3>1, <3>2, <3>3, <1>q
  <2> QED
    BY <2>1, <2>2, <2>3
<1>14. CASE TransportAnswer(c)
  <2>1. \/ Set(c, [call[c] EXCEPT !.transport = "ok", !.host = "idle"])
          /\ call[c].host = "ok" /\ sends' = sends
        \/ Set(c, [call[c] EXCEPT !.transport = "idle", !.host = "idle"]) /\ sends' = sends
        \/ Set(c, [call[c] EXCEPT !.transport = "idle"]) /\ sends' = sends
    BY <1>14, <1>0 DEF TransportAnswer
  <2>2. CASE Set(c, [call[c] EXCEPT !.transport = "ok", !.host = "idle"])
          /\ call[c].host = "ok" /\ sends' = sends
    <3> DEFINE u == [call[c] EXCEPT !.transport = "ok", !.host = "idle"]
    <3>1. u \in Use
      BY <1>0, UseFields DEF Gates, Ops, Transports, Hosts, Gits
    <3>2. /\ u.cred = call[c].cred /\ u.plan = call[c].plan
          /\ MaySend(u) => MaySend(call[c])
          /\ Answered(u) => Answered(call[c])
          /\ u.gate = "claim" => call[c].gate = "claim"
      BY <2>2, <1>0 DEF Use, MaySend, Answered
    <3>3. Set(c, u) /\ sends' = sends
      BY <2>2
    <3> HIDE DEF u
    <3> QED
      BY <3>1, <3>2, <3>3, <1>q
  <2>3. CASE Set(c, [call[c] EXCEPT !.transport = "idle", !.host = "idle"]) /\ sends' = sends
    <3> DEFINE u == [call[c] EXCEPT !.transport = "idle", !.host = "idle"]
    <3>1. u \in Use
      BY <1>0, UseFields DEF Gates, Ops, Transports, Hosts, Gits
    <3>2. /\ u.cred = call[c].cred /\ u.plan = call[c].plan
          /\ MaySend(u) => MaySend(call[c])
          /\ Answered(u) => Answered(call[c])
          /\ u.gate = "claim" => call[c].gate = "claim"
      BY <2>3, <1>0 DEF Use, MaySend, Answered
    <3>3. Set(c, u) /\ sends' = sends
      BY <2>3
    <3> HIDE DEF u
    <3> QED
      BY <3>1, <3>2, <3>3, <1>q
  <2>4. CASE Set(c, [call[c] EXCEPT !.transport = "idle"]) /\ sends' = sends
    <3> DEFINE u == [call[c] EXCEPT !.transport = "idle"]
    <3>1. u \in Use
      BY <1>0, UseFields DEF Gates, Ops, Transports, Hosts, Gits
    <3>2. /\ u.cred = call[c].cred /\ u.plan = call[c].plan
          /\ MaySend(u) => MaySend(call[c])
          /\ Answered(u) => Answered(call[c])
          /\ u.gate = "claim" => call[c].gate = "claim"
      BY <2>4, <1>0 DEF Use, MaySend, Answered
    <3>3. Set(c, u) /\ sends' = sends
      BY <2>4
    <3> HIDE DEF u
    <3> QED
      BY <3>1, <3>2, <3>3, <1>q
  <2> QED
    BY <2>1, <2>2, <2>3, <2>4
<1>15. CASE HostAdmit(c)
  <2>1. \/ Set(c, [call[c] EXCEPT !.host = "wait", !.git = "running"]) /\ sends' = sends
        \/ Set(c, [call[c] EXCEPT !.host = "idle"]) /\ sends' = sends
    BY <1>15, <1>0 DEF HostAdmit
  <2>2. CASE Set(c, [call[c] EXCEPT !.host = "wait", !.git = "running"]) /\ sends' = sends
    <3> DEFINE u == [call[c] EXCEPT !.host = "wait", !.git = "running"]
    <3>1. u \in Use
      BY <1>0, UseFields DEF Gates, Ops, Transports, Hosts, Gits
    <3>2. /\ u.cred = call[c].cred /\ u.plan = call[c].plan
          /\ MaySend(u) => MaySend(call[c])
          /\ Answered(u) => Answered(call[c])
          /\ u.gate = "claim" => call[c].gate = "claim"
      BY <2>2, <1>0 DEF Use, MaySend, Answered
    <3>3. Set(c, u) /\ sends' = sends
      BY <2>2
    <3> HIDE DEF u
    <3> QED
      BY <3>1, <3>2, <3>3, <1>q
  <2>3. CASE Set(c, [call[c] EXCEPT !.host = "idle"]) /\ sends' = sends
    <3> DEFINE u == [call[c] EXCEPT !.host = "idle"]
    <3>1. u \in Use
      BY <1>0, UseFields DEF Gates, Ops, Transports, Hosts, Gits
    <3>2. /\ u.cred = call[c].cred /\ u.plan = call[c].plan
          /\ MaySend(u) => MaySend(call[c])
          /\ Answered(u) => Answered(call[c])
          /\ u.gate = "claim" => call[c].gate = "claim"
      BY <2>3, <1>0 DEF Use, MaySend, Answered
    <3>3. Set(c, u) /\ sends' = sends
      BY <2>3
    <3> HIDE DEF u
    <3> QED
      BY <3>1, <3>2, <3>3, <1>q
  <2> QED
    BY <2>1, <2>2, <2>3
<1>16. CASE HostAnswer(c)
  <2>1. \/ Set(c, [call[c] EXCEPT !.host = call[c].git, !.git = "idle"])
          /\ call[c].git \in {"ok", "idle"} /\ sends' = sends
        \/ Set(c, [call[c] EXCEPT !.host = "idle"]) /\ sends' = sends
    BY <1>16, <1>0 DEF HostAnswer, Gits
  <2>2. CASE Set(c, [call[c] EXCEPT !.host = call[c].git, !.git = "idle"])
          /\ call[c].git \in {"ok", "idle"} /\ sends' = sends
    <3> DEFINE u == [call[c] EXCEPT !.host = call[c].git, !.git = "idle"]
    <3>0. call[c].git \in Hosts
      BY <2>2 DEF Hosts
    <3>1. u \in Use
      BY <3>0, <1>0, UseFields DEF Gates, Ops, Transports, Hosts, Gits
    <3>2. /\ u.cred = call[c].cred /\ u.plan = call[c].plan
          /\ MaySend(u) => MaySend(call[c])
          /\ Answered(u) => Answered(call[c])
          /\ u.gate = "claim" => call[c].gate = "claim"
      BY <2>2, <1>0 DEF Use, MaySend, Answered
    <3>3. Set(c, u) /\ sends' = sends
      BY <2>2
    <3> HIDE DEF u
    <3> QED
      BY <3>1, <3>2, <3>3, <1>q
  <2>3. CASE Set(c, [call[c] EXCEPT !.host = "idle"]) /\ sends' = sends
    <3> DEFINE u == [call[c] EXCEPT !.host = "idle"]
    <3>1. u \in Use
      BY <1>0, UseFields DEF Gates, Ops, Transports, Hosts, Gits
    <3>2. /\ u.cred = call[c].cred /\ u.plan = call[c].plan
          /\ MaySend(u) => MaySend(call[c])
          /\ Answered(u) => Answered(call[c])
          /\ u.gate = "claim" => call[c].gate = "claim"
      BY <2>3, <1>0 DEF Use, MaySend, Answered
    <3>3. Set(c, u) /\ sends' = sends
      BY <2>3
    <3> HIDE DEF u
    <3> QED
      BY <3>1, <3>2, <3>3, <1>q
  <2> QED
    BY <2>1, <2>2, <2>3
<1>17. CASE Push(c)
  <2>1. \/ Set(c, [call[c] EXCEPT !.git = "ok"])
          /\ call[c].cred[2] = "upload" /\ sends' = sends
        \/ Set(c, [call[c] EXCEPT !.git = "idle"]) /\ sends' = sends
    BY <1>17, <1>0 DEF Push
  <2>2. CASE Set(c, [call[c] EXCEPT !.git = "ok"])
          /\ call[c].cred[2] = "upload" /\ sends' = sends
    <3> DEFINE u == [call[c] EXCEPT !.git = "ok"]
    <3>1. u \in Use
      BY <1>0, UseFields DEF Gates, Ops, Transports, Hosts, Gits
    <3>2. u.cred = call[c].cred /\ u.plan = call[c].plan /\ u.gate = call[c].gate
          /\ (MaySend(u) => MaySend(call[c]))
      BY <2>2, <1>0 DEF Use, MaySend, Answered
    <3>3. Set(c, u)
      BY <2>2
    <3> HIDE DEF u
    <3>4. UseMove(c, u)
      BY <2>2, <3>2 DEF UseMove, UseSends, UseAnswers, UsePlans
    <3> QED
      BY <3>1, <3>3, <3>4, <1>s
  <2>3. CASE Set(c, [call[c] EXCEPT !.git = "idle"]) /\ sends' = sends
    <3> DEFINE u == [call[c] EXCEPT !.git = "idle"]
    <3>1. u \in Use
      BY <1>0, UseFields DEF Gates, Ops, Transports, Hosts, Gits
    <3>2. /\ u.cred = call[c].cred /\ u.plan = call[c].plan
          /\ MaySend(u) => MaySend(call[c])
          /\ Answered(u) => Answered(call[c])
          /\ u.gate = "claim" => call[c].gate = "claim"
      BY <2>3, <1>0 DEF Use, MaySend, Answered
    <3>3. Set(c, u) /\ sends' = sends
      BY <2>3
    <3> HIDE DEF u
    <3> QED
      BY <3>1, <3>2, <3>3, <1>q
  <2> QED
    BY <2>1, <2>2, <2>3
<1>18. CASE ReadBack(c)
  <2>1. Set(c, [call[c] EXCEPT !.git = "ok"])
          /\ repo[call[c].cred[1]] = "disclosed" /\ sends' = sends
    BY <1>18, <1>0 DEF ReadBack
  <2>2. CASE Set(c, [call[c] EXCEPT !.git = "ok"])
          /\ repo[call[c].cred[1]] = "disclosed" /\ sends' = sends
    <3> DEFINE u == [call[c] EXCEPT !.git = "ok"]
    <3>1. u \in Use
      BY <1>0, UseFields DEF Gates, Ops, Transports, Hosts, Gits
    <3>2. u.cred = call[c].cred /\ u.plan = call[c].plan /\ u.gate = call[c].gate
          /\ (MaySend(u) => MaySend(call[c]))
      BY <2>2, <1>0 DEF Use, MaySend, Answered
    <3>3. Set(c, u)
      BY <2>2
    <3> HIDE DEF u
    <3>4. UseMove(c, u)
      BY <2>2, <3>2 DEF UseMove, UseSends, UseAnswers, UsePlans
    <3> QED
      BY <3>1, <3>3, <3>4, <1>s
  <2> QED
    BY <2>1, <2>2
<1>19. CASE GitFails(c)
  <2>1. Set(c, [call[c] EXCEPT !.git = "idle"]) /\ sends' = sends
    BY <1>19, <1>0 DEF GitFails
  <2>2. CASE Set(c, [call[c] EXCEPT !.git = "idle"]) /\ sends' = sends
    <3> DEFINE u == [call[c] EXCEPT !.git = "idle"]
    <3>1. u \in Use
      BY <1>0, UseFields DEF Gates, Ops, Transports, Hosts, Gits
    <3>2. /\ u.cred = call[c].cred /\ u.plan = call[c].plan
          /\ MaySend(u) => MaySend(call[c])
          /\ Answered(u) => Answered(call[c])
          /\ u.gate = "claim" => call[c].gate = "claim"
      BY <2>2, <1>0 DEF Use, MaySend, Answered
    <3>3. Set(c, u) /\ sends' = sends
      BY <2>2
    <3> HIDE DEF u
    <3> QED
      BY <3>1, <3>2, <3>3, <1>q
  <2> QED
    BY <2>1, <2>2
<1>20. CASE Die(c)
  <2>1. \/ Set(c, [call[c] EXCEPT !.gate = "idle"]) /\ sends' = sends
        \/ Set(c, [call[c] EXCEPT !.op = "idle"]) /\ sends' = sends
        \/ Set(c, [call[c] EXCEPT !.transport = "idle"]) /\ sends' = sends
        \/ Set(c, [call[c] EXCEPT !.host = "idle"]) /\ sends' = sends
    BY <1>20, <1>0 DEF Die
  <2>2. CASE Set(c, [call[c] EXCEPT !.gate = "idle"]) /\ sends' = sends
    <3> DEFINE u == [call[c] EXCEPT !.gate = "idle"]
    <3>1. u \in Use
      BY <1>0, UseFields DEF Gates, Ops, Transports, Hosts, Gits
    <3>2. /\ u.cred = call[c].cred /\ u.plan = call[c].plan
          /\ MaySend(u) => MaySend(call[c])
          /\ Answered(u) => Answered(call[c])
          /\ u.gate = "claim" => call[c].gate = "claim"
      BY <2>2, <1>0 DEF Use, MaySend, Answered
    <3>3. Set(c, u) /\ sends' = sends
      BY <2>2
    <3> HIDE DEF u
    <3> QED
      BY <3>1, <3>2, <3>3, <1>q
  <2>3. CASE Set(c, [call[c] EXCEPT !.op = "idle"]) /\ sends' = sends
    <3> DEFINE u == [call[c] EXCEPT !.op = "idle"]
    <3>1. u \in Use
      BY <1>0, UseFields DEF Gates, Ops, Transports, Hosts, Gits
    <3>2. /\ u.cred = call[c].cred /\ u.plan = call[c].plan
          /\ MaySend(u) => MaySend(call[c])
          /\ Answered(u) => Answered(call[c])
          /\ u.gate = "claim" => call[c].gate = "claim"
      BY <2>3, <1>0 DEF Use, MaySend, Answered
    <3>3. Set(c, u) /\ sends' = sends
      BY <2>3
    <3> HIDE DEF u
    <3> QED
      BY <3>1, <3>2, <3>3, <1>q
  <2>4. CASE Set(c, [call[c] EXCEPT !.transport = "idle"]) /\ sends' = sends
    <3> DEFINE u == [call[c] EXCEPT !.transport = "idle"]
    <3>1. u \in Use
      BY <1>0, UseFields DEF Gates, Ops, Transports, Hosts, Gits
    <3>2. /\ u.cred = call[c].cred /\ u.plan = call[c].plan
          /\ MaySend(u) => MaySend(call[c])
          /\ Answered(u) => Answered(call[c])
          /\ u.gate = "claim" => call[c].gate = "claim"
      BY <2>4, <1>0 DEF Use, MaySend, Answered
    <3>3. Set(c, u) /\ sends' = sends
      BY <2>4
    <3> HIDE DEF u
    <3> QED
      BY <3>1, <3>2, <3>3, <1>q
  <2>5. CASE Set(c, [call[c] EXCEPT !.host = "idle"]) /\ sends' = sends
    <3> DEFINE u == [call[c] EXCEPT !.host = "idle"]
    <3>1. u \in Use
      BY <1>0, UseFields DEF Gates, Ops, Transports, Hosts, Gits
    <3>2. /\ u.cred = call[c].cred /\ u.plan = call[c].plan
          /\ MaySend(u) => MaySend(call[c])
          /\ Answered(u) => Answered(call[c])
          /\ u.gate = "claim" => call[c].gate = "claim"
      BY <2>5, <1>0 DEF Use, MaySend, Answered
    <3>3. Set(c, u) /\ sends' = sends
      BY <2>5
    <3> HIDE DEF u
    <3> QED
      BY <3>1, <3>2, <3>3, <1>q
  <2> QED
    BY <2>1, <2>2, <2>3, <2>4, <2>5
<1> QED
  BY <1>1, <1>2, <1>3, <1>4, <1>5, <1>6, <1>7, <1>8, <1>9, <1>10, <1>11, <1>12, <1>13, <1>14, <1>15, <1>16, <1>17, <1>18, <1>19, <1>20 DEF UseStep

-----------------------------------------------------------------------------
(* What the other steps leave.                                             *)

OtherStep ==
    \/ DatabaseStep
    \/ \E k \in Credential : CredentialStep(k)
    \/ HostPrepare \/ HostPrepared \/ HostRestart
    \/ \E v \in Verifier : VerifyStep(v)
    \/ UNCHANGED vars

\* A use obtains nothing while others step.
Quiet(d) ==
    /\ MaySend(call'[d]) => MaySend(call[d]) /\ call'[d].cred = call[d].cred
    /\ Answered(call'[d]) => Answered(call[d]) /\ call'[d].cred = call[d].cred
    /\ call'[d].gate = "claim" => /\ call[d].gate = "claim"
                                  /\ call'[d].cred = call[d].cred
                                  /\ call'[d].plan = call[d].plan

LEMMA OtherCalls ==
    ASSUME TypeOK, OtherStep, NEW d \in Call PROVE Quiet(d)
<1>1. CASE HostRestart
  <2>0. call[d] \in Use
    BY DEF TypeOK
  <2>1. ~MaySend(NoUse) /\ ~Answered(NoUse) /\ NoUse.gate # "claim"
    BY DEF NoUse, MaySend, Answered
  <2>2. \/ call'[d] = call[d] \/ call'[d] = NoUse
        \/ call'[d] = [call[d] EXCEPT !.host = "idle"]
    BY <1>1 DEF HostRestart, Kept
  <2>3. CASE call'[d] = [call[d] EXCEPT !.host = "idle"]
    BY <2>0, <2>3 DEF Use, Quiet, MaySend, Answered
  <2> QED
    BY <2>1, <2>2, <2>3 DEF Quiet
<1>2. CASE ~HostRestart
  <2>1. call' = call
    BY <1>2 DEF OtherStep, vars, DatabaseStep, CredentialStep, VerifyStep, HostPrepare,
       HostPrepared, hostOnly, verifyOnly, confirm_copy, withdraw_copy, dispatch_preparation, require_preparation_cleanup, confirm_preparation_cleaned, OtherWrite,
       LoseAuthority, Checkpoint, Mint, Expire, beginMintCleanup,
       require_credential_revocation, Revoke, closeMintRefused, confirm_credential_closed,
       VerifyRead, VerifyEvidence, VerifyRecheck, VerifyCommit
  <2> QED
    BY <2>1 DEF Quiet
<1> QED
  BY <1>1, <1>2

LEMMA OtherKeeps ==
    ASSUME TypeOK, OtherStep PROVE sends' = sends /\ repo' = repo
  BY DEF OtherStep, vars, provider, DatabaseStep, CredentialStep, VerifyStep, HostPrepare,
     HostPrepared, HostRestart, hostOnly, verifyOnly, confirm_copy, withdraw_copy, dispatch_preparation, require_preparation_cleanup, confirm_preparation_cleaned, OtherWrite,
     LoseAuthority, Checkpoint, Mint, Expire, beginMintCleanup,
     require_credential_revocation, Revoke, closeMintRefused, confirm_credential_closed,
     VerifyRead, VerifyEvidence, VerifyRecheck, VerifyCommit

\* The record of a closed credential is final, and only a use moves the use.
LEMMA OtherLedger ==
    ASSUME TypeOK, OtherStep, NEW k \in Credential
    PROVE  /\ ledger'[k].git = ledger[k].git /\ ledger'[k].plan = ledger[k].plan
           /\ ledger[k].state = "closed" => ledger'[k] = ledger[k]
<1>0. ledger \in [Credential -> Record]
  BY DEF TypeOK
<1>1. ASSUME NEW q \in Credential, CredentialStep(q)
      PROVE  /\ ledger'[k].git = ledger[k].git /\ ledger'[k].plan = ledger[k].plan
             /\ ledger[k].state = "closed" => ledger'[k] = ledger[k]
  <2>1. CASE Mint(q)
    BY <1>0, <2>1 DEF Mint, Record
  <2>2. CASE Expire(q)
    BY <1>0, <2>2 DEF Expire, Record
  <2>3. CASE beginMintCleanup(q)
    BY <1>0, <2>3 DEF beginMintCleanup, Record
  <2>4. CASE require_credential_revocation(q)
    BY <1>0, <2>4 DEF require_credential_revocation, Record
  <2>5. CASE Revoke(q)
    BY <1>0, <2>5 DEF Revoke, Record
  <2>6. CASE closeMintRefused(q)
    BY <1>0, <2>6 DEF closeMintRefused, Record
  <2>7. CASE confirm_credential_closed(q)
    BY <1>0, <2>7 DEF confirm_credential_closed, Record
  <2> QED
    BY <1>1, <2>1, <2>2, <2>3, <2>4, <2>5, <2>6, <2>7 DEF CredentialStep
<1>2. CASE ~\E q \in Credential : CredentialStep(q)
  <2>1. ledger' = ledger
    BY <1>2 DEF OtherStep, vars, DatabaseStep, VerifyStep, HostPrepare, HostPrepared,
       HostRestart, hostOnly, verifyOnly, confirm_copy, withdraw_copy, dispatch_preparation, require_preparation_cleanup, confirm_preparation_cleaned,
       OtherWrite, LoseAuthority, Checkpoint, VerifyRead, VerifyEvidence, VerifyRecheck, VerifyCommit
  <2> QED
    BY <2>1
<1> QED
  BY <1>1, <1>2

\* Whatever ends what a plan was made under moves the checkpoint.
Framing ==
    \/ /\ marker' = marker /\ consent' = consent /\ row' = row
       /\ preparation'.state = preparation.state
    \/ marker' = marker + 1

LEMMA OtherFraming == ASSUME TypeOK, OtherStep PROVE Framing
<1> USE DEF Framing, Framed, database
<1>1. CASE DatabaseStep
  BY <1>1 DEF DatabaseStep, confirm_copy, withdraw_copy, dispatch_preparation, require_preparation_cleanup, confirm_preparation_cleaned,
     OtherWrite, LoseAuthority, Checkpoint
<1>2. ASSUME NEW k \in Credential, CredentialStep(k) PROVE Framing
  BY <1>2 DEF CredentialStep, Mint, Expire, beginMintCleanup, require_credential_revocation,
     Revoke, closeMintRefused, confirm_credential_closed
<1>3. CASE HostPrepare \/ HostPrepared \/ HostRestart
  BY <1>3 DEF HostPrepare, HostPrepared, HostRestart, hostOnly
<1>4. ASSUME NEW v \in Verifier, VerifyStep(v) PROVE Framing
  BY <1>4 DEF VerifyStep, verifyOnly, VerifyRead, VerifyEvidence, VerifyRecheck, VerifyCommit
<1>5. CASE UNCHANGED vars
  BY <1>5 DEF vars
<1> QED
  BY <1>1, <1>2, <1>3, <1>4, <1>5 DEF OtherStep

LEMMA UseFraming == ASSUME TypeOK, NEW c \in Call, UseStep(c) PROVE Framing
  BY DEF UseStep, Framing, database, useOnly, useAndLedger, hostOnly, GateLookup, GatePlan,
     GateClaim, GateFinish, GateCleanup, OpCheck, OpPermit, OpRecheck, OpAnswer,
     TransportCheck, TransportTake, TransportLook, TransportSend, TransportAnswer,
     HostAdmit, HostAnswer, Push, ReadBack, GitFails, Die

LEMMA Steps == ASSUME [Next]_vars PROVE OtherStep \/ \E c \in Call : UseStep(c)
  BY DEF Next, OtherStep

-----------------------------------------------------------------------------
(* The invariant.                                                          *)

LEMMA TypeNext == TypeOK /\ [Next]_vars => TypeOK'
<1> SUFFICES ASSUME TypeOK, [Next]_vars PROVE TypeOK'
  OBVIOUS
<1>1. CASE UNCHANGED vars
  BY <1>1 DEF vars, TypeOK
<1> QED
  BY <1>1, TypeDatabase, TypeCredential, TypeUse, TypeHost, TypeVerify DEF Next

LEMMA SendNext == TypeOK /\ SendInv /\ [Next]_vars => SendInv'
<1> SUFFICES ASSUME TypeOK, SendInv, [Next]_vars PROVE SendInv'
  OBVIOUS
<1>0. /\ sends \in [Credential -> Nat]
      /\ ledger \in [Credential -> Record]
      /\ \A d \in Call : call[d].cred \in Credential
  BY DEF TypeOK, Use
<1>1. CASE OtherStep
  <2>1. \A k \in Credential : ledger'[k].git = ledger[k].git
    BY <1>1, OtherLedger
  <2>2. \A d \in Call : Quiet(d)
    BY <1>1, OtherCalls
  <2>3. sends' = sends
    BY <1>1, OtherKeeps
  <2> QED
    BY <1>0, <2>1, <2>2, <2>3 DEF SendInv, Quiet
<1>2. ASSUME NEW c \in Call, UseStep(c) PROVE SendInv'
  <2> DEFINE k == call[c].cred
  <2>1. /\ \A d \in Call : d # c => call'[d] = call[d]
        /\ UseSends(c, call'[c])
    BY <1>2, UseMoves DEF UseMove
  <2>2. \A q \in Credential : ledger'[q] = ledger[q] \/ UseWrites(c, q)
    BY <1>2, UseLedger
  \* The use never moves back.
  <2>3. \A q \in Credential : ledger'[q].git \in Unsent => ledger[q].git \in Unsent
    <3> SUFFICES ASSUME NEW q \in Credential, UseWrites(c, q), ledger[q].git \notin Unsent
                 PROVE  ledger'[q].git \notin Unsent
      BY <2>2
    <3>1. PICK result \in BOOLEAN : ledger'[q] = Finished(ledger[q], result)
      BY DEF UseWrites, Unsent
    <3>2. ledger'[q].git \in {"completed", ledger[q].git}
      BY <1>0, <3>1 DEF Finished, Record
    <3> QED
      BY <3>2 DEF Unsent
  <2>4. CASE sends' # sends
    <3>1. /\ MaySend(call[c]) /\ ~MaySend(call'[c]) /\ ledger' = ledger
          /\ sends' = [sends EXCEPT ![k] = sends[k] + 1]
      BY <2>1, <2>4 DEF UseSends
    <3>2. sends[k] = 0 /\ ledger[k].git \notin Unsent
      BY <3>1 DEF SendInv
    <3>3. \A d \in Call : MaySend(call'[d]) => call'[d] = call[d] /\ call[d].cred # k
      BY <2>1, <3>1 DEF SendInv
    <3>4. \A q \in Credential : q # k => sends'[q] = sends[q]
      BY <1>0, <3>1
    <3>5. sends'[k] = 1
      BY <1>0, <3>1, <3>2
    <3> QED
      BY <1>0, <3>1, <3>2, <3>3, <3>4, <3>5 DEF SendInv
  <2>5. CASE sends' = sends
    <3>1. \A q \in Credential : ledger'[q].git \in Unsent => sends'[q] = 0
      BY <2>3, <2>5 DEF SendInv
    <3>2. \A d \in Call : d # c /\ MaySend(call'[d]) =>
             /\ sends'[call'[d].cred] = 0 /\ ledger'[call'[d].cred].git \notin Unsent
      BY <1>0, <2>1, <2>3, <2>5 DEF SendInv
    <3>3. CASE ~MaySend(call'[c])
      BY <2>1, <2>5, <3>1, <3>2, <3>3 DEF SendInv
    <3>4. CASE MaySend(call'[c]) /\ MaySend(call[c])
      <4>1. call'[c].cred = k
        BY <2>1, <3>4 DEF UseSends
      <4> QED
        BY <1>0, <2>1, <2>3, <2>5, <3>1, <3>2, <3>4, <4>1 DEF SendInv
    <3>5. CASE MaySend(call'[c]) /\ ~MaySend(call[c])
      <4>1. /\ call'[c].cred = k
            /\ ledger[k].git = "dispatching" /\ ledger'[k].git = "outcome_unknown"
        BY <2>1, <3>5 DEF UseSends
      <4>2. sends[k] = 0
        BY <1>0, <4>1 DEF SendInv, Unsent
      <4>3. \A d \in Call : MaySend(call[d]) => call[d].cred # k
        BY <4>1 DEF SendInv, Unsent
      <4>4. ledger'[k].git \notin Unsent
        BY <4>1 DEF Unsent
      <4> QED
        BY <1>0, <2>1, <2>5, <3>1, <3>2, <4>1, <4>2, <4>3, <4>4 DEF SendInv
    <3> QED
      BY <3>3, <3>4, <3>5
  <2> QED
    BY <2>4, <2>5
<1> QED
  BY <1>1, <1>2, Steps

LEMMA RecordNext == TypeOK /\ RecordInv /\ [Next]_vars => RecordInv'
<1> SUFFICES ASSUME TypeOK, RecordInv, [Next]_vars PROVE RecordInv'
  OBVIOUS
<1>0. /\ token \in [Credential -> {"none", "active", "dead"}]
      /\ ledger \in [Credential -> Record]
  BY DEF TypeOK
<1>1. ASSUME NEW k \in Credential, CredentialStep(k) PROVE RecordInv'
  <2>1. CASE Mint(k)
    BY <1>0, <2>1 DEF Mint, RecordInv, Record, provider
  <2>2. CASE Expire(k)
    BY <1>0, <2>2 DEF Expire, RecordInv, Record, provider
  <2>3. CASE beginMintCleanup(k)
    BY <1>0, <2>3 DEF beginMintCleanup, RecordInv, Record, provider
  <2>4. CASE require_credential_revocation(k)
    BY <1>0, <2>4 DEF require_credential_revocation, RecordInv, Record, provider
  <2>5. CASE Revoke(k)
    BY <1>0, <2>5 DEF Revoke, RecordInv, Record, provider
  <2>6. CASE closeMintRefused(k)
    BY <1>0, <2>6 DEF closeMintRefused, RecordInv, Record, provider
  <2>7. CASE confirm_credential_closed(k)
    BY <1>0, <2>7 DEF confirm_credential_closed, RecordInv, Record, provider
  <2> QED
    BY <1>1, <2>1, <2>2, <2>3, <2>4, <2>5, <2>6, <2>7 DEF CredentialStep
<1>2. CASE OtherStep /\ ~\E k \in Credential : CredentialStep(k)
  <2>1. ledger' = ledger /\ token' = token
    BY <1>2 DEF OtherStep, vars, provider, DatabaseStep, VerifyStep, HostPrepare,
       HostPrepared, HostRestart, hostOnly, verifyOnly, confirm_copy, withdraw_copy,
       dispatch_preparation, require_preparation_cleanup, confirm_preparation_cleaned,
       OtherWrite, LoseAuthority, Checkpoint, VerifyRead, VerifyEvidence, VerifyRecheck,
       VerifyCommit
  <2> QED
    BY <2>1 DEF RecordInv
<1>3. ASSUME NEW c \in Call, UseStep(c) PROVE RecordInv'
  <2>1. token' = token
    BY <1>3 DEF UseStep, provider, useOnly, useAndLedger, hostOnly, GateLookup, GatePlan,
       GateClaim, GateFinish, GateCleanup, OpCheck, OpPermit, OpRecheck, OpAnswer,
       TransportCheck, TransportTake, TransportLook, TransportSend, TransportAnswer,
       HostAdmit, HostAnswer, Push, ReadBack, GitFails, Die
  <2>2. ASSUME NEW k \in Credential, UseWrites(c, k)
        PROVE  ledger'[k].state \in {"custodied", "outcome_unknown"}
    BY <1>0, <2>2 DEF UseWrites, Finished, Record
  <2>3. \A k \in Credential : ledger'[k] = ledger[k] \/ UseWrites(c, k)
    BY <1>3, UseLedger
  <2> QED
    BY <2>1, <2>2, <2>3 DEF RecordInv
<1> QED
  BY <1>1, <1>2, <1>3, Steps

\* Once closed, a record stays as it is.
LEMMA ClosedIsFinal ==
    ASSUME TypeOK, [Next]_vars, NEW k \in Credential, ledger[k].state = "closed"
    PROVE  ledger'[k] = ledger[k]
<1>1. CASE OtherStep
  BY <1>1, OtherLedger
<1>2. ASSUME NEW c \in Call, UseStep(c) PROVE ledger'[k] = ledger[k]
  BY <1>2, UseLedger DEF UseWrites
<1> QED
  BY <1>1, <1>2, Steps

LEMMA ProvenIsFinal ==
    ASSUME TypeOK, [Next]_vars, NEW k \in Credential, Proven(k) PROVE Proven(k)'
  BY ClosedIsFinal DEF Proven

\* What a repository holds is final: a push creates and never replaces.
LEMMA RepoIsFinal ==
    ASSUME TypeOK, [Next]_vars, NEW r \in Role, repo[r] = "disclosed"
    PROVE  repo'[r] = "disclosed"
<1>1. CASE OtherStep
  BY <1>1, OtherKeeps
<1>2. ASSUME NEW c \in Call, UseStep(c) PROVE repo'[r] = "disclosed"
  <2>1. CASE Push(c)
    BY <2>1 DEF Push, TypeOK
  <2>2. CASE ~Push(c)
    <3>1. repo' = repo
      BY <1>2, <2>2 DEF UseStep, provider, useOnly, useAndLedger, hostOnly, GateLookup, GatePlan,
       GateClaim, GateFinish, GateCleanup, OpCheck, OpPermit, OpRecheck, OpAnswer,
       TransportCheck, TransportTake, TransportLook, TransportSend, TransportAnswer,
       HostAdmit, HostAnswer, ReadBack, GitFails, Die
    <3> QED
      BY <3>1
  <2> QED
    BY <2>1, <2>2
<1> QED
  BY <1>1, <1>2, Steps

LEMMA ResultNext == TypeOK /\ ResultInv /\ [Next]_vars => ResultInv'
<1> SUFFICES ASSUME TypeOK, ResultInv, [Next]_vars PROVE ResultInv'
  OBVIOUS
<1>0. /\ ledger \in [Credential -> Record]
      /\ \A d \in Call : /\ call[d].cred \in Credential /\ call[d].cred[1] \in Role
                         /\ call[d].cred = <<call[d].cred[1], call[d].cred[2]>>
      /\ \A r \in Role : <<r, "readback">> \in Credential
  BY DEF TypeOK, Use, Credential, Purpose
<1>r. \A r \in Role : repo[r] = "disclosed" => repo'[r] = "disclosed"
  BY RepoIsFinal
<1>1. CASE OtherStep
  <2>1. \A d \in Call : Quiet(d)
    BY <1>1, OtherCalls
  <2>2. \A k \in Credential : ledger'[k].git = ledger[k].git
    BY <1>1, OtherLedger
  <2> QED
    BY <1>0, <1>r, <2>1, <2>2 DEF ResultInv, Quiet
<1>2. ASSUME NEW c \in Call, UseStep(c) PROVE ResultInv'
  <2>1. /\ \A d \in Call : d # c => call'[d] = call[d]
        /\ UseAnswers(c, call'[c])
    BY <1>2, UseMoves DEF UseMove
  <2>2. ASSUME NEW d \in Call, Answered(call'[d]), call'[d].cred[2] = "readback"
        PROVE  repo'[call'[d].cred[1]] = "disclosed"
    <3>1. CASE d # c
      BY <1>0, <1>r, <2>1, <2>2, <3>1 DEF ResultInv
    <3>2. CASE d = c
      <4>1. call'[c].cred = call[c].cred /\ call[c].cred[2] = "readback"
        BY <2>1, <2>2, <3>2 DEF UseAnswers
      <4>2. repo[call[c].cred[1]] = "disclosed"
        BY <2>1, <2>2, <3>2, <4>1 DEF UseAnswers, ResultInv
      <4> QED
        BY <1>0, <1>r, <3>2, <4>1, <4>2
    <3> QED
      BY <3>1, <3>2
  <2>3. ASSUME NEW r \in Role, ledger'[<<r, "readback">>].git = "completed"
        PROVE  repo'[r] = "disclosed"
    <3> DEFINE k == <<r, "readback">>
    <3>1. CASE ledger[k].git = "completed"
      BY <1>r, <3>1 DEF ResultInv
    <3>2. CASE ledger[k].git # "completed"
      <4>1. UseWrites(c, k)
        BY <1>0, <1>2, <2>3, <3>2, UseLedger
      <4>2. k = call[c].cred /\ call[c].op = "ok"
        BY <1>0, <2>3, <3>2, <4>1 DEF UseWrites, Finished, Record
      <4>3. repo[call[c].cred[1]] = "disclosed"
        BY <4>2 DEF ResultInv, Answered
      <4> QED
        BY <1>r, <4>2, <4>3
    <3> QED
      BY <3>1, <3>2
  <2> QED
    BY <2>2, <2>3 DEF ResultInv
<1> QED
  BY <1>1, <1>2, Steps

StandsNext(k) ==
    /\ consent' = "approved"
    /\ preparation'.state = "dispatched"
    /\ row'[k] = "captured"

LEMMA PlanNext == TypeOK /\ PlanInv /\ [Next]_vars => PlanInv'
<1> SUFFICES ASSUME TypeOK, PlanInv, [Next]_vars PROVE PlanInv'
  OBVIOUS
<1>0. /\ marker \in Nat /\ ledger \in [Credential -> Record]
      /\ \A d \in Call : call[d].cred \in Credential /\ call[d].plan \in Nat
      /\ \A k \in Credential : ledger[k].plan \in Nat
  BY DEF TypeOK, Use, Record
\* A plan that was sound stays sound while the checkpoint moves or stays.
<1>s. ASSUME Framing, NEW k \in Credential, NEW n \in Nat,
             n <= marker, n = marker => Stands(k)
      PROVE  n <= marker' /\ (n = marker' => StandsNext(k))
  BY <1>0, <1>s DEF Framing, Stands, StandsNext
<1>1. CASE OtherStep
  <2>1. Framing
    BY <1>1, OtherFraming
  <2>2. \A k \in Credential : ledger'[k].git = ledger[k].git /\ ledger'[k].plan = ledger[k].plan
    BY <1>1, OtherLedger
  <2>3. \A d \in Call : Quiet(d)
    BY <1>1, OtherCalls
  <2>4. ASSUME NEW k \in Credential, ledger'[k].git # "none"
        PROVE  ledger'[k].plan <= marker' /\ (ledger'[k].plan = marker' => StandsNext(k))
    BY <1>0, <1>s, <2>1, <2>2, <2>4 DEF PlanInv
  <2>5. ASSUME NEW d \in Call, call'[d].gate = "claim"
        PROVE  call'[d].plan <= marker' /\ (call'[d].plan = marker' => StandsNext(call'[d].cred))
    <3>1. call[d].gate = "claim" /\ call'[d].cred = call[d].cred /\ call'[d].plan = call[d].plan
      BY <2>3, <2>5 DEF Quiet
    <3>2. call[d].plan <= marker' /\ (call[d].plan = marker' => StandsNext(call[d].cred))
      BY <1>0, <1>s, <2>1, <3>1 DEF PlanInv
    <3> QED
      BY <3>1, <3>2
  <2> QED
    BY <2>4, <2>5 DEF PlanInv, Stands, StandsNext
<1>2. ASSUME NEW c \in Call, UseStep(c) PROVE PlanInv'
  <2>1. Framing
    BY <1>2, UseFraming
  <2>2. /\ \A d \in Call : d # c => call'[d] = call[d]
        /\ UsePlans(c, call'[c])
    BY <1>2, UseMoves DEF UseMove
  <2>3. ASSUME NEW k \in Credential, ledger'[k].git # "none"
        PROVE  ledger'[k].plan <= marker' /\ (ledger'[k].plan = marker' => StandsNext(k))
    <3>1. CASE ledger[k].git # "none" /\ ledger'[k].plan = ledger[k].plan
      BY <1>0, <1>s, <2>1, <3>1 DEF PlanInv
    <3>2. CASE ~(ledger[k].git # "none" /\ ledger'[k].plan = ledger[k].plan)
      <4>1. UseWrites(c, k)
        BY <1>2, <2>3, <3>2, UseLedger
      <4>2. /\ k = call[c].cred /\ call[c].gate = "claim" /\ call[c].plan = marker
            /\ ledger'[k].plan = marker
        BY <1>0, <2>3, <3>2, <4>1 DEF UseWrites, Finished, Record
      <4> QED
        BY <1>0, <1>s, <2>1, <4>2 DEF PlanInv
    <3> QED
      BY <3>1, <3>2
  <2>4. ASSUME NEW d \in Call, call'[d].gate = "claim"
        PROVE  call'[d].plan <= marker' /\ (call'[d].plan = marker' => StandsNext(call'[d].cred))
    <3>1. CASE d # c
      <4>1. call'[d] = call[d]
        BY <2>2, <3>1
      <4>2. call[d].plan <= marker' /\ (call[d].plan = marker' => StandsNext(call[d].cred))
        BY <1>0, <1>s, <2>1, <2>4, <4>1 DEF PlanInv
      <4> QED
        BY <4>1, <4>2
    <3>2. CASE d = c
      <4>1. call'[c].cred = call[c].cred
        BY <2>2, <2>4, <3>2 DEF UsePlans
      <4>2. CASE call[c].gate = "claim" /\ call'[c].plan = call[c].plan
        <5>1. call[c].plan <= marker' /\ (call[c].plan = marker' => StandsNext(call[c].cred))
          BY <1>0, <1>s, <2>1, <4>2 DEF PlanInv
        <5> QED
          BY <3>2, <4>1, <4>2, <5>1
      <4>3. CASE call'[c].plan = marker /\ Stands(call[c].cred) /\ marker' = marker
        <5>1. marker <= marker' /\ (marker = marker' => StandsNext(call[c].cred))
          BY <1>0, <1>s, <2>1, <4>3
        <5> QED
          BY <3>2, <4>1, <4>3, <5>1
      <4> QED
        BY <2>2, <2>4, <3>2, <4>2, <4>3 DEF UsePlans
    <3> QED
      BY <3>1, <3>2
  <2> QED
    BY <2>3, <2>4 DEF PlanInv, Stands, StandsNext
<1> QED
  BY <1>1, <1>2, Steps

LEMMA VerifyNext == TypeOK /\ VerifyInv /\ [Next]_vars => VerifyInv'
<1> SUFFICES ASSUME TypeOK, VerifyInv, [Next]_vars PROVE VerifyInv'
  OBVIOUS
<1> DEFINE All == \A k \in Credential : Proven(k)
<1>0. All => All'
  BY ProvenIsFinal
<1>1. ASSUME NEW v \in Verifier, VerifyStep(v) PROVE VerifyInv'
  <2> USE DEF TypeOK, VerifyAt, VerifyEnds, verifyOnly, database, VerifyInv
  <2>1. CASE VerifyRead(v)
    BY <1>0, <2>1 DEF VerifyRead
  <2>2. CASE VerifyEvidence(v)
    BY <1>0, <2>2 DEF VerifyEvidence
  <2>3. CASE VerifyRecheck(v)
    BY <1>0, <2>3 DEF VerifyRecheck
  <2>4. CASE VerifyCommit(v)
    BY <1>0, <2>4 DEF VerifyCommit
  <2> QED
    BY <1>1, <2>1, <2>2, <2>3, <2>4 DEF VerifyStep
<1>2. CASE ~\E v \in Verifier : VerifyStep(v)
  <2>1. verify' = verify
    BY <1>2 DEF Next, vars, DatabaseStep, CredentialStep, HostPrepare, HostPrepared,
       HostRestart, confirm_copy, withdraw_copy, dispatch_preparation,
       require_preparation_cleanup, confirm_preparation_cleaned, OtherWrite,
       LoseAuthority, Checkpoint, Mint, Expire, beginMintCleanup,
       require_credential_revocation, Revoke, closeMintRefused,
       confirm_credential_closed, UseStep, provider, useOnly, useAndLedger, hostOnly, GateLookup, GatePlan,
       GateClaim, GateFinish, GateCleanup, OpCheck, OpPermit, OpRecheck, OpAnswer,
       TransportCheck, TransportTake, TransportLook, TransportSend, TransportAnswer,
       HostAdmit, HostAnswer, Push, ReadBack, GitFails, Die
  <2>2. preparation'.evidence = preparation.evidence
    BY <1>2 DEF Next, vars, database, TypeOK, DatabaseStep, CredentialStep, HostPrepare,
       HostPrepared, HostRestart, confirm_copy, withdraw_copy, dispatch_preparation,
       require_preparation_cleanup, confirm_preparation_cleaned, OtherWrite,
       LoseAuthority, Checkpoint, Mint, Expire, beginMintCleanup,
       require_credential_revocation, Revoke, closeMintRefused,
       confirm_credential_closed, UseStep, provider, useOnly, useAndLedger, hostOnly, GateLookup, GatePlan,
       GateClaim, GateFinish, GateCleanup, OpCheck, OpPermit, OpRecheck, OpAnswer,
       TransportCheck, TransportTake, TransportLook, TransportSend, TransportAnswer,
       HostAdmit, HostAnswer, Push, ReadBack, GitFails, Die
  <2> QED
    BY <1>0, <2>1, <2>2 DEF VerifyInv
<1> QED
  BY <1>1, <1>2

LEMMA InvInit == Init => IInv
<1> SUFFICES ASSUME Init PROVE IInv
  OBVIOUS
<1>1. TypeOK
  BY TypeInit
<1>2. \A k \in Credential : ledger[k] = NoRecord /\ sends[k] = 0 /\ token[k] = "none"
  BY DEF Init
<1>3. \A c \in Call : call[c] = NoUse
  BY DEF Init
<1>4. ~MaySend(NoUse) /\ ~Answered(NoUse) /\ NoUse.gate # "claim"
  BY DEF NoUse, MaySend, Answered
<1>5. \A r \in Role : <<r, "readback">> \in Credential
  BY DEF Credential, Purpose
<1>6. VerifyInv
  BY DEF Init, VerifyInv
<1> QED
  BY <1>1, <1>2, <1>3, <1>4, <1>5, <1>6
  DEF IInv, SendInv, RecordInv, ResultInv, PlanInv, NoRecord

LEMMA Invariance == Spec => []IInv
<1>1. IInv /\ [Next]_vars => IInv'
  BY TypeNext, SendNext, RecordNext, ResultNext, PlanNext, VerifyNext DEF IInv
<1> QED
  BY <1>1, InvInit, PTL DEF Spec

-----------------------------------------------------------------------------
(* Theorems.                                                               *)

\* The types hold for any number of repositories, uses and verifications.
THEOREM TypeCorrect == Spec => []TypeOK
<1>1. IInv => TypeOK
  BY DEF IInv
<1> QED
  BY <1>1, Invariance, PTL

\* However often the gate is called and whatever is lost between the gate, the
\* OP, the transport and the host, a bearer leaves for the host at most once.
THEOREM SentOnce == Spec => []OneSend
<1>1. IInv => OneSend
  BY DEF IInv, SendInv, OneSend
<1> QED
  BY <1>1, Invariance, PTL

\* What verify_preparation records is a copy that nothing can change any more.
THEOREM VerifiedIsACopy == Spec => []VerifiedIsProven
<1>1. IInv => VerifiedIsProven
  <2> SUFFICES ASSUME IInv, preparation.evidence
               PROVE  /\ \A r \in Role : repo[r] = "disclosed"
                      /\ \A k \in Credential :
                            token[k] = "dead" /\ ledger[k].git = "completed"
    BY DEF VerifiedIsProven
  <2>1. \A k \in Credential : Proven(k)
    BY DEF IInv, VerifyInv
  <2>2. \A r \in Role : <<r, "readback">> \in Credential
    BY DEF Credential, Purpose
  <2>3. \A r \in Role : repo[r] = "disclosed"
    BY <2>1, <2>2 DEF IInv, ResultInv, Proven
  <2>4. \A k \in Credential : token[k] = "dead" /\ ledger[k].git = "completed"
    BY <2>1 DEF IInv, RecordInv, Proven
  <2> QED
    BY <2>3, <2>4
<1> QED
  BY <1>1, Invariance, PTL

\* A push that its callers have given up cannot reach a repository whose
\* upload credential the ledger holds for closed.
THEOREM ClosureSilences == Spec => ClosedIsQuiet
<1>1. IInv /\ [Next]_vars =>
        [\A r \in Role : ledger[<<r, "upload">>].state = "closed"
                            => repo'[r] = repo[r]]_vars
  <2> SUFFICES ASSUME IInv, [Next]_vars, NEW r \in Role,
                      ledger[<<r, "upload">>].state = "closed"
               PROVE  repo'[r] = repo[r]
    OBVIOUS
  <2>0. TypeOK /\ <<r, "upload">> \in Credential /\ token[<<r, "upload">>] = "dead"
    BY DEF IInv, RecordInv, Credential, Purpose
  <2>1. CASE OtherStep
    BY <2>0, <2>1, OtherKeeps
  <2>2. ASSUME NEW c \in Call, UseStep(c) PROVE repo'[r] = repo[r]
    <3>1. CASE Push(c)
      <4>1. call[c].cred \in Credential /\ repo \in [Role -> {"empty", "disclosed", "other"}]
        BY <2>0 DEF TypeOK, Use
      <4>2. call[c].cred = <<call[c].cred[1], "upload">>
        BY <3>1, <4>1 DEF Push, Credential
      <4>3. call[c].cred[1] # r
        BY <2>0, <3>1, <4>2 DEF Push
      <4> QED
        BY <3>1, <4>1, <4>3 DEF Push
    <3>2. CASE ~Push(c)
      <4>1. repo' = repo
        BY <2>2, <3>2 DEF UseStep, provider, useOnly, useAndLedger, hostOnly, GateLookup, GatePlan,
       GateClaim, GateFinish, GateCleanup, OpCheck, OpPermit, OpRecheck, OpAnswer,
       TransportCheck, TransportTake, TransportLook, TransportSend, TransportAnswer,
       HostAdmit, HostAnswer, ReadBack, GitFails, Die
      <4> QED
        BY <4>1
    <3> QED
      BY <3>1, <3>2
  <2> QED
    BY <2>1, <2>2, Steps
<1> QED
  BY <1>1, Invariance, PTL DEF Spec, ClosedIsQuiet

\* The permit that lets the bearer leave is taken only under the consent and
\* the custody that the plan was made under.
THEOREM UseUnderConsent == Spec => UseIsConsented
<1>1. IInv /\ [Next]_vars =>
        [\A k \in Credential :
            /\ ledger[k].git = "dispatching"
            /\ ledger'[k].git = "outcome_unknown"
            => /\ consent = "approved" /\ preparation.state = "dispatched"
               /\ row[k] = "captured"]_vars
  <2> SUFFICES ASSUME IInv, [Next]_vars, NEW k \in Credential,
                      ledger[k].git = "dispatching", ledger'[k].git = "outcome_unknown"
               PROVE  Stands(k)
    BY DEF Stands
  <2>0. TypeOK /\ ledger \in [Credential -> Record]
    BY DEF IInv, TypeOK
  <2>1. ~OtherStep
    BY <2>0, OtherLedger
  <2>2. PICK c \in Call : UseStep(c)
    BY <2>1, Steps
  <2>3. UseWrites(c, k)
    BY <2>0, <2>2, UseLedger
  <2>4. ledger[k].plan = marker
    BY <2>0, <2>3 DEF UseWrites, Finished, Record
  <2> QED
    BY <2>4 DEF IInv, PlanInv
<1> QED
  BY <1>1, Invariance, PTL DEF Spec, UseIsConsented
=============================================================================
