------------------------------- MODULE GitCopy -------------------------------
(***************************************************************************)
(* The Git exchanges of a copy, and the verification of its preparation.   *)
(*                                                                         *)
(* For every role of a preparation (the task and the snapshot repository)  *)
(* one credential uploads the disclosed commit and, after that credential  *)
(* was closed and its bearer refused, another one reads it back.  A        *)
(* credential is used once.  The use runs through five programs that call  *)
(* each other and fail one by one: the gate (work-effect-worker/git.ts),   *)
(* the OP (work_effect/git.rs), the transport (git-transport.ts), the host *)
(* (work-git-host-worker) and the Git program in its container.  A caller  *)
(* that gives up does not stop its callee.                                 *)
(*                                                                         *)
(* The admission of each use is kept in the mint ledger's record of the    *)
(* credential (work-checkpoint-worker); its plan names the checkpoint of   *)
(* the OP's database at which it was made, and every framed write of the   *)
(* OP moves that checkpoint (`marker').  Minting and closing a credential  *)
(* are one step each here; MintEffect has their interleavings.             *)
(***************************************************************************)
EXTENDS Naturals

CONSTANTS
    Role,           \* the repositories of the preparation
    Call,           \* concurrent uses: the programs started by one gate call
    Verifier,       \* concurrent calls of preparation-verify
    MaxEvents       \* bound: foreign events of a behaviour

ASSUME ConstantsAssumption == Role # {} /\ MaxEvents \in Nat

Purpose == {"upload", "readback"}
Credential == Role \X Purpose

VARIABLES
    authority,      \* how the checkpoint ledger sees the OP's database
    marker,         \* the checkpoint, as the number of framed writes so far
    events,         \* foreign events so far
    preparation,    \* the row work_preparation: its state and its evidence
    consent,        \* the row work_copy_consent
    live,           \* owner, sources and policies are current, and in time
    row,            \* the rows work_credential_attempt
    ledger,         \* the mint ledger's records
    token,          \* the tokens at the provider
    late,           \* credentials within five seconds of their expiry
    repo,           \* what the repositories at the provider hold
    host,           \* the host's Durable Object
    call,           \* the uses under way
    verify,         \* the verifications under way
    sends           \* how often a bearer was sent to the host

vars == <<authority, marker, events, preparation, consent, live, row, ledger,
          token, late, repo, host, call, verify, sends>>

database == <<preparation, consent, row>>
provider == <<token, late, repo>>

Record == [state : {"absent", "custodied", "outcome_unknown", "closed"},
           cleanup_requested : BOOLEAN, refusal : BOOLEAN,
           git : {"none", "admitted", "dispatching", "outcome_unknown",
                  "completed"},
           plan : Nat]
NoRecord == [state |-> "absent", cleanup_requested |-> FALSE,
             refusal |-> FALSE, git |-> "none", plan |-> 0]

\* One program of a use each: "idle" is not running, "ok" has answered.
Use == [cred : Credential, plan : Nat,
        gate : {"idle", "plan", "claim", "wait", "abandon", "cleanup"},
        op : {"idle", "check", "permit", "recheck", "wait", "ok"},
        transport : {"idle", "check", "take", "look", "list", "wait", "ok"},
        host : {"idle", "admit", "wait", "ok"},
        git : {"idle", "running", "ok"}]

NoUse == [cred |-> CHOOSE k \in Credential : TRUE, plan |-> 0,
          gate |-> "idle", op |-> "idle", transport |-> "idle",
          host |-> "idle", git |-> "idle"]

TypeOK ==
    /\ authority \in {"accepted", "held", "rolled_back"}
    /\ marker \in Nat /\ events \in Nat
    /\ preparation \in [state : {"reserved", "dispatched", "verified",
                                 "cleanup_pending", "cleaned"},
                        evidence : BOOLEAN]
    /\ consent \in {"none", "approved", "withdrawn"}
    /\ live \in BOOLEAN
    /\ row \in [Credential -> {"none", "captured", "revocation_pending",
                               "closed"}]
    /\ ledger \in [Credential -> Record]
    /\ token \in [Credential -> {"none", "active", "dead"}]
    /\ late \subseteq Credential
    /\ repo \in [Role -> {"empty", "disclosed", "other"}]
    /\ host \in [preflight : BOOLEAN, ready : BOOLEAN, busy : BOOLEAN,
                 preparing : BOOLEAN, attempts : SUBSET Credential]
    /\ call \in [Call -> Use]
    /\ verify \in [Verifier -> [pc : {"idle", "evidence", "recheck", "commit"},
                                checkpoint : Nat]]
    /\ sends \in [Credential -> Nat]

Init ==
    /\ authority = "accepted"
    /\ marker = 0 /\ events = 0
    /\ preparation = [state |-> "reserved", evidence |-> FALSE]
    /\ consent = "none"
    /\ live = TRUE
    /\ row = [k \in Credential |-> "none"]
    /\ ledger = [k \in Credential |-> NoRecord]
    /\ token = [k \in Credential |-> "none"]
    /\ late = {}
    /\ repo = [r \in Role |-> "empty"]
    /\ host = [preflight |-> FALSE, ready |-> FALSE, busy |-> FALSE,
               preparing |-> FALSE, attempts |-> {}]
    /\ call = [c \in Call |-> NoUse]
    /\ verify = [v \in Verifier |-> [pc |-> "idle", checkpoint |-> 0]]
    /\ sends = [k \in Credential |-> 0]

-----------------------------------------------------------------------------
(* The OP's database.  A write is framed: it needs an accepted checkpoint  *)
(* and moves it.                                                           *)

\* Something the copy itself does not do: a program dies, a call times out, a
\* credential is about to expire, the owner or an operator intervenes, the OP
\* writes for another reason.
Foreign == events < MaxEvents /\ events' = events + 1

Framed == authority = "accepted" /\ marker' = marker + 1

\* work_copy_consent_current
ConsentCurrent ==
    /\ consent = "approved"
    /\ live
    /\ preparation.state \in {"reserved", "dispatched"}

\* git_effect_plan: what it reads, between two equal reads of the checkpoint.
Planned(k) ==
    /\ authority = "accepted"
    /\ row[k] = "captured"
    /\ ConsentCurrent
    /\ k \notin late
    /\ preparation.state = "dispatched"

AllClosed == \A k \in Credential : row[k] = "closed"

confirm_copy ==
    /\ Framed
    /\ consent = "none" /\ live /\ preparation.state = "reserved"
    /\ consent' = "approved"
    /\ UNCHANGED <<authority, events, preparation, live, row, ledger, provider,
                   host, call, verify, sends>>

withdraw_copy ==
    /\ Framed /\ Foreign
    /\ consent = "approved"
    /\ consent' = "withdrawn"
    /\ UNCHANGED <<authority, preparation, live, row, ledger, provider,
                   host, call, verify, sends>>

\* The first step of the copy: the host answered that it is ready.
dispatch_preparation ==
    /\ Framed
    /\ host.ready
    /\ preparation.state = "reserved" /\ ConsentCurrent
    /\ preparation' = [preparation EXCEPT !.state = "dispatched"]
    /\ UNCHANGED <<authority, events, consent, live, row, ledger, provider,
                   host, call, verify, sends>>

\* With the trigger that sends every credential to revocation.
require_preparation_cleanup ==
    /\ Framed /\ Foreign
    /\ preparation.state \in {"reserved", "dispatched", "verified"}
    /\ preparation' = [preparation EXCEPT !.state =
          IF preparation.state = "reserved" THEN "cleaned"
                                            ELSE "cleanup_pending"]
    /\ row' = [k \in Credential |->
          IF row[k] = "captured" THEN "revocation_pending" ELSE row[k]]
    /\ UNCHANGED <<authority, consent, live, ledger, provider, host,
                   call, verify, sends>>

confirm_preparation_cleaned ==
    /\ Framed
    /\ preparation.state = "cleanup_pending"
    /\ \A k \in Credential : row[k] \in {"none", "closed"}
    /\ preparation' = [preparation EXCEPT !.state = "cleaned"]
    /\ UNCHANGED <<authority, events, consent, live, row, ledger, provider,
                   host, call, verify, sends>>

\* Any other framed write, a lost authority, and what may happen to the
\* checkpoint: a permit is pending or the ledger frozen, or the database is
\* rolled back behind it.
OtherWrite ==
    /\ Framed
    /\ Foreign
    /\ UNCHANGED <<authority, live, database, ledger, provider, host, call,
                   verify, sends>>

LoseAuthority ==
    /\ Foreign
    /\ live
    /\ live' = FALSE
    /\ UNCHANGED <<authority, marker, database, ledger, provider, host,
                   call, verify, sends>>

Checkpoint ==
    /\ \/ /\ authority = "accepted" /\ Foreign
          /\ authority' \in {"held", "rolled_back"}
       \/ /\ authority = "held" /\ UNCHANGED events
          /\ authority' = "accepted"
    /\ UNCHANGED <<marker, live, database, ledger, provider, host,
                   call, verify, sends>>

-----------------------------------------------------------------------------
(* A credential before and after its use.                                  *)

\* The mint gate: an unused slot, and no other active token in the
\* repository; both the ledger and the OP hold the credential afterwards.
Mint(k) ==
    /\ Framed
    /\ preparation.state = "dispatched" /\ ConsentCurrent
    /\ ledger[k].state = "absent"
    /\ \A p \in Purpose : token[<<k[1], p>>] # "active"
    /\ ledger' = [ledger EXCEPT ![k].state = "custodied"]
    /\ row' = [row EXCEPT ![k] = "captured"]
    /\ token' = [token EXCEPT ![k] = "active"]
    /\ UNCHANGED <<authority, events, preparation, consent, live, late, repo,
                   host, call, verify, sends>>

\* Time passes.
Expire(k) ==
    /\ token[k] = "active"
    /\ \/ k \notin late /\ Foreign /\ late' = late \cup {k} /\ token' = token
       \/ /\ k \in late /\ UNCHANGED <<events, late>>
          /\ token' = [token EXCEPT ![k] = "dead"]
    /\ UNCHANGED <<authority, marker, live, database, ledger, repo,
                   host, call, verify, sends>>

\* beginMintCleanup, by the reconciler or the owner's stop
beginMintCleanup(k) ==
    /\ ledger[k].state \in {"custodied", "outcome_unknown"}
    /\ ledger' = [ledger EXCEPT ![k].cleanup_requested = TRUE,
                                ![k].state = "outcome_unknown"]
    /\ UNCHANGED <<authority, marker, events, live, database, provider, host,
                   call, verify, sends>>

require_credential_revocation(k) ==
    /\ Framed
    /\ row[k] = "captured"
    /\ row' = [row EXCEPT ![k] = "revocation_pending"]
    /\ UNCHANGED <<authority, events, preparation, consent, live, ledger,
                   provider, host, call, verify, sends>>

Revoke(k) ==
    /\ ledger[k].cleanup_requested
    /\ token[k] = "active"
    /\ token' = [token EXCEPT ![k] = "dead"]
    /\ UNCHANGED <<authority, marker, events, live, database, ledger, late,
                   repo, host, call, verify, sends>>

\* Mutant: the closer records a refusal without presenting the bearer.
closeMintUnprobed(k) ==
    /\ row[k] = "revocation_pending"
    /\ ledger[k].state = "outcome_unknown" /\ ledger[k].cleanup_requested
    /\ ledger' = [ledger EXCEPT ![k].refusal = TRUE, ![k].state = "closed"]
    /\ UNCHANGED <<authority, marker, events, live, database, provider, host,
                   call, verify, sends>>

\* The closer unseals the secret and has the provider refuse it.
closeMintRefused(k) ==
    /\ row[k] = "revocation_pending"
    /\ ledger[k].state = "outcome_unknown" /\ ledger[k].cleanup_requested
    /\ token[k] = "dead"
    /\ ledger' = [ledger EXCEPT ![k].refusal = TRUE, ![k].state = "closed"]
    /\ UNCHANGED <<authority, marker, events, live, database, provider, host,
                   call, verify, sends>>

confirm_credential_closed(k) ==
    /\ Framed
    /\ row[k] = "revocation_pending"
    /\ ledger[k].state = "closed" /\ ledger[k].refusal
    /\ row' = [row EXCEPT ![k] = "closed"]
    /\ UNCHANGED <<authority, events, preparation, consent, live, ledger,
                   provider, host, call, verify, sends>>

-----------------------------------------------------------------------------
(* The ledger's part of a use: claimGit, takeGit and finishGit.            *)

\* What claimGit and takeGit ask of the ledger, the record and the plan.
Productive(k, plan) ==
    /\ authority # "held" /\ plan = marker
    /\ ledger[k].state = "custodied" /\ ~ledger[k].cleanup_requested
    /\ k \notin late

\* Mutant: the record's own Git use is not looked at.
ClaimStartsAgain(k) ==
    \/ k[2] = "upload"
    \/ LET u == ledger[<<k[1], "upload">>]
       IN  u.state = "closed" /\ u.refusal /\ u.git = "completed"

\* A use starts once, and a readback only after the upload of the same
\* repository completed and its bearer was refused.
ClaimStarts(k) ==
    /\ ledger[k].git = "none"
    /\ \/ k[2] = "upload"
       \/ LET u == ledger[<<k[1], "upload">>]
          IN  u.state = "closed" /\ u.refusal /\ u.git = "completed"

\* Mutant: a permit is taken at whatever checkpoint.
CanTakeStale(k, plan, state) ==
    /\ authority # "held"
    /\ ledger[k].state = "custodied" /\ ~ledger[k].cleanup_requested
    /\ k \notin late
    /\ ledger[k].git = state /\ ledger[k].plan = plan

\* takeGit, by the OP ("admitted") and by the transport ("dispatching")
CanTake(k, plan, state) ==
    /\ Productive(k, plan)
    /\ ledger[k].git = state /\ ledger[k].plan = plan

\* finishGit with a result, or with null
CanFinish(k, result) ==
    /\ ledger[k].git # "none" /\ ledger[k].state # "closed"
    /\ result => ledger[k].git \in {"outcome_unknown", "completed"}
Finished(r, result) ==
    [r EXCEPT !.git = IF result THEN "completed" ELSE r.git,
              !.cleanup_requested = TRUE, !.state = "outcome_unknown"]

-----------------------------------------------------------------------------
(* Steps of a use.                                                         *)

\* A use has ended when nobody waits for an answer and none of its programs
\* is running; what they remember is gone then.
Ended(u) ==
    /\ u.gate = "idle"
    /\ u.op \in {"idle", "ok"} /\ u.transport \in {"idle", "ok"}
    /\ u.host \in {"idle", "ok"} /\ u.git \in {"idle", "ok"}
Kept(u) == IF Ended(u) THEN NoUse ELSE u
Set(c, u) == call' = [call EXCEPT ![c] = Kept(u)]

useOnly == <<authority, marker, events, live, database, ledger, provider,
             host, verify, sends>>
useAndLedger == <<authority, marker, events, live, database, provider, host,
                  verify, sends>>

\* A program dies, a request or a reply is lost: the caller sees a failure,
\* the callee goes on.
Die(c) ==
    /\ Foreign
    /\ \/ call[c].gate # "idle" /\ Set(c, [call[c] EXCEPT !.gate = "idle"])
       \/ call[c].op \notin {"idle", "ok"}
             /\ Set(c, [call[c] EXCEPT !.op = "idle"])
       \/ call[c].transport \notin {"idle", "ok"}
             /\ Set(c, [call[c] EXCEPT !.transport = "idle"])
       \/ call[c].host = "admit" /\ Set(c, [call[c] EXCEPT !.host = "idle"])
    /\ UNCHANGED <<authority, marker, live, database, ledger, provider, host,
                   verify, sends>>

-----------------------------------------------------------------------------
(* WorkGitGate.fetch                                                       *)

\* A use that is in the record already is abandoned, unless it is closed.
GateLookup(c, k) ==
    /\ Ended(call[c])
    /\ ledger[k].git = "none" \/ ledger[k].state # "closed"
    /\ Set(c, [NoUse EXCEPT !.cred = k, !.gate =
                  IF ledger[k].git = "none" THEN "plan" ELSE "abandon"])
    /\ UNCHANGED useOnly

GatePlan(c) ==
    /\ call[c].gate = "plan"
    /\ IF Planned(call[c].cred)
       THEN Set(c, [call[c] EXCEPT !.gate = "claim", !.plan = marker])
       ELSE Set(c, [call[c] EXCEPT !.gate = "idle"])
    /\ UNCHANGED useOnly

\* claimGit; the call that started the use has the OP execute it.
GateClaim(c) ==
    LET k == call[c].cred
        u == call[c]
    IN  /\ u.gate = "claim"
        /\ IF Productive(k, u.plan) /\ ClaimStarts(k)
           THEN /\ ledger' = [ledger EXCEPT ![k].git = "admitted",
                                            ![k].plan = u.plan]
                /\ Set(c, [u EXCEPT !.gate = "wait", !.op = "check"])
           ELSE /\ UNCHANGED ledger
                /\ Set(c, [u EXCEPT !.gate = "idle"])
        /\ UNCHANGED useAndLedger

\* finishGit with the OP's answer, or with null when there is none.
GateFinish(c) ==
    LET k == call[c].cred
        result == call[c].gate = "wait" /\ call[c].op = "ok"
    IN  /\ \/ call[c].gate = "abandon"
           \/ call[c].gate = "wait" /\ call[c].op \in {"ok", "idle"}
        /\ IF CanFinish(k, result)
           THEN /\ ledger' = [ledger EXCEPT ![k] = Finished(ledger[k], result)]
                /\ Set(c, [call[c] EXCEPT !.gate = "cleanup", !.op = "idle"])
           ELSE /\ UNCHANGED ledger
                /\ Set(c, [call[c] EXCEPT !.gate = "idle"])
        /\ UNCHANGED useAndLedger

\* op mint-cleanup; when it fails the ledger's intent stays.
GateCleanup(c) ==
    /\ call[c].gate = "cleanup"
    /\ Set(c, [call[c] EXCEPT !.gate = "idle"])
    /\ IF row[call[c].cred] = "captured" /\ authority = "accepted"
       THEN /\ row' = [row EXCEPT ![call[c].cred] = "revocation_pending"]
            /\ marker' = marker + 1
       ELSE UNCHANGED <<row, marker>>
    /\ UNCHANGED <<authority, events, preparation, consent, live, ledger,
                   provider, host, verify, sends>>

-----------------------------------------------------------------------------
(* work_effect::git::execute                                               *)

\* git_effect_plan still gives the plan, around the decryption too.
OpCurrent(u) == Planned(u.cred) /\ u.plan = marker

OpCheck(c) ==
    /\ call[c].op = "check"
    /\ Set(c, [call[c] EXCEPT !.op = IF OpCurrent(call[c]) THEN "permit"
                                                           ELSE "idle"])
    /\ UNCHANGED useOnly

OpPermit(c) ==
    LET k == call[c].cred
    IN  /\ call[c].op = "permit"
        /\ IF CanTake(k, call[c].plan, "admitted")
           THEN /\ ledger' = [ledger EXCEPT ![k].git = "dispatching"]
                /\ Set(c, [call[c] EXCEPT !.op = "recheck"])
           ELSE /\ UNCHANGED ledger
                /\ Set(c, [call[c] EXCEPT !.op = "idle"])
        /\ UNCHANGED useAndLedger

\* The bearer goes to the transport.
OpRecheck(c) ==
    /\ call[c].op = "recheck"
    /\ IF OpCurrent(call[c])
       THEN Set(c, [call[c] EXCEPT !.op = "wait", !.transport = "check"])
       ELSE Set(c, [call[c] EXCEPT !.op = "idle"])
    /\ UNCHANGED useOnly

\* The transport's answer counts while the authority still stands.
OpAnswer(c) ==
    /\ call[c].op = "wait" /\ call[c].transport \in {"ok", "idle"}
    /\ Set(c, [call[c] EXCEPT
          !.op = IF call[c].transport = "ok" /\ OpCurrent(call[c]) THEN "ok"
                                                                  ELSE "idle",
          !.transport = "idle"])
    /\ UNCHANGED useOnly

-----------------------------------------------------------------------------
(* WorkGitTransport.fetch: check('dispatching'), take, check, the host,    *)
(* check.  A check reads the ledger, then the provider's inventory; that   *)
(* time passes between the two matters right before the bearer leaves.     *)

\* The record is as the transport left it.
Held(u, state) ==
    LET r == ledger[u.cred]
    IN  /\ r.state = "custodied" /\ ~r.cleanup_requested
        /\ r.git = state /\ r.plan = u.plan

\* The token of the plan is the only active one of its repository.
OnlyActive(k) ==
    /\ token[k] = "active" /\ k \notin late
    /\ \A p \in Purpose : token[<<k[1], p>>] = "active" => p = k[2]

TransportCheck(c) ==
    LET u == call[c]
    IN  /\ u.transport = "check"
        /\ Set(c, [u EXCEPT !.transport =
              IF Held(u, "dispatching") /\ OnlyActive(u.cred) THEN "take"
                                                              ELSE "idle"])
        /\ UNCHANGED useOnly

TransportTake(c) ==
    LET k == call[c].cred
    IN  /\ call[c].transport = "take"
        /\ IF CanTake(k, call[c].plan, "dispatching")
           THEN /\ ledger' = [ledger EXCEPT ![k].git = "outcome_unknown"]
                /\ Set(c, [call[c] EXCEPT !.transport = "look"])
           ELSE /\ UNCHANGED ledger
                /\ Set(c, [call[c] EXCEPT !.transport = "idle"])
        /\ UNCHANGED useAndLedger

TransportLook(c) ==
    LET u == call[c]
    IN  /\ u.transport = "look"
        /\ Set(c, [u EXCEPT !.transport =
              IF Held(u, "outcome_unknown") THEN "list" ELSE "idle"])
        /\ UNCHANGED useOnly

\* The bearer goes to the host.
TransportSend(c) ==
    LET k == call[c].cred
    IN  /\ call[c].transport = "list"
        /\ IF OnlyActive(k)
           THEN /\ sends' = [sends EXCEPT ![k] = sends[k] + 1]
                /\ Set(c, [call[c] EXCEPT !.transport = "wait",
                                          !.host = "admit"])
           ELSE /\ UNCHANGED sends
                /\ Set(c, [call[c] EXCEPT !.transport = "idle"])
        /\ UNCHANGED <<authority, marker, events, live, database, ledger,
                       provider, host, verify>>

\* The host answers and the last check passes, or it fails, or there is no
\* answer within a minute.
TransportAnswer(c) ==
    LET u == call[c]
        passed == /\ u.host = "ok"
                  /\ Held(u, "outcome_unknown") /\ OnlyActive(u.cred)
    IN  /\ u.transport = "wait"
        /\ \/ /\ u.host \in {"ok", "idle"}
              /\ Set(c, [u EXCEPT !.transport = IF passed THEN "ok" ELSE "idle",
                                  !.host = "idle"])
              /\ UNCHANGED events
           \/ /\ u.host \notin {"ok", "idle"}
              /\ Foreign
              /\ Set(c, [u EXCEPT !.transport = "idle"])
        /\ UNCHANGED <<authority, marker, live, database, ledger, provider,
                       host, verify, sends>>

-----------------------------------------------------------------------------
(* GitHostContainer: one preflight, then one exchange at a time and one    *)
(* per role and purpose for ever.                                          *)

hostOnly == <<authority, marker, events, live, database, ledger, provider,
              verify, sends>>

\* prepare(), which the copy calls first
HostPrepare ==
    /\ ConsentCurrent /\ authority = "accepted"
    /\ ~host.busy /\ ~host.preflight /\ host.attempts = {}
    /\ host' = [host EXCEPT !.preflight = TRUE, !.busy = TRUE,
                            !.preparing = TRUE]
    /\ UNCHANGED <<hostOnly, call>>

HostPrepared ==
    /\ host.preparing
    /\ \E ready \in BOOLEAN :
          host' = [host EXCEPT !.ready = ready, !.busy = FALSE,
                               !.preparing = FALSE]
    /\ UNCHANGED <<hostOnly, call>>

\* fetch(): an attempt is retained before the exchange, and never twice.
CanAdmit(k) ==
    /\ k \notin late
    /\ ~host.busy /\ host.ready
    /\ k \notin host.attempts

HostAdmit(c) ==
    LET k == call[c].cred
    IN  /\ call[c].host = "admit"
        /\ IF CanAdmit(k)
           THEN /\ host' = [host EXCEPT !.busy = TRUE,
                                        !.attempts = host.attempts \cup {k}]
                /\ Set(c, [call[c] EXCEPT !.host = "wait", !.git = "running"])
           ELSE /\ UNCHANGED host
                /\ Set(c, [call[c] EXCEPT !.host = "idle"])
        /\ UNCHANGED hostOnly

\* The container answers or fails, or there is no answer within a minute.
HostAnswer(c) ==
    /\ call[c].host = "wait"
    /\ \/ /\ call[c].git \in {"ok", "idle"}
          /\ Set(c, [call[c] EXCEPT !.host = call[c].git, !.git = "idle"])
          /\ UNCHANGED events
       \/ /\ call[c].git = "running"
          /\ Foreign
          /\ Set(c, [call[c] EXCEPT !.host = "idle"])
    /\ host' = [host EXCEPT !.busy = FALSE]
    /\ UNCHANGED <<authority, marker, live, database, ledger, provider, verify,
                   sends>>

\* The object is evicted: its flag is gone and so are its handlers.
HostRestart ==
    /\ Foreign
    /\ host.busy
    /\ host' = [host EXCEPT !.busy = FALSE, !.preparing = FALSE]
    /\ call' = [c \in Call |->
          IF call[c].host = "wait"
          THEN Kept([call[c] EXCEPT !.host = "idle"]) ELSE call[c]]
    /\ UNCHANGED <<authority, marker, live, database, ledger, provider, verify,
                   sends>>

-----------------------------------------------------------------------------
(* The Git program in the container.  The provider still has to accept the *)
(* bearer when the request reaches it.                                     *)

\* uploadGitPack: a create-only push into an empty repository.  That it was
\* accepted does not say what the repository holds now, and its report may be
\* lost.
Push(c) ==
    LET k == call[c].cred
    IN  /\ call[c].git = "running" /\ k[2] = "upload"
        /\ token[k] = "active" /\ repo[k[1]] = "empty"
        /\ \E held \in {"disclosed", "other"} :
              repo' = [repo EXCEPT ![k[1]] = held]
        /\ \E report \in {"ok", "idle"} :
              Set(c, [call[c] EXCEPT !.git = report])
        /\ UNCHANGED <<authority, marker, events, live, database, ledger, token,
                       late, host, verify, sends>>

\* readbackGitPack and verifyGitReadback: exactly the disclosed objects.
ReadBack(c) ==
    LET k == call[c].cred
    IN  /\ call[c].git = "running" /\ k[2] = "readback"
        /\ token[k] = "active" /\ repo[k[1]] = "disclosed"
        /\ Set(c, [call[c] EXCEPT !.git = "ok"])
        /\ UNCHANGED useOnly

\* It fails, was refused, or never got the request.
GitFails(c) ==
    /\ call[c].git = "running"
    /\ Set(c, [call[c] EXCEPT !.git = "idle"])
    /\ UNCHANGED useOnly

-----------------------------------------------------------------------------
(* work_effect::preparation::verify                                        *)

VerifyAt(v, pc, checkpoint) ==
    verify' = [verify EXCEPT ![v] = [pc |-> pc, checkpoint |-> checkpoint]]
VerifyEnds(v) == VerifyAt(v, "idle", 0)
verifyOnly == <<authority, marker, events, live, database, ledger, provider,
                host, call, sends>>

\* Mutant: the projection leaves out the Git result.
ProvenClosed(k) == ledger[k].state = "closed" /\ ledger[k].refusal

\* preparationEvidence: what the ledger must hold of every credential.
Proven(k) ==
    /\ ledger[k].state = "closed" /\ ledger[k].refusal
    /\ ledger[k].git = "completed"

\* closed_preparation_credentials
VerifyRead(v) ==
    /\ verify[v].pc = "idle"
    /\ authority = "accepted" /\ AllClosed
    /\ VerifyAt(v, "evidence", marker)
    /\ UNCHANGED verifyOnly

VerifyEvidence(v) ==
    /\ verify[v].pc = "evidence"
    /\ IF \A k \in Credential : Proven(k)
       THEN VerifyAt(v, "recheck", verify[v].checkpoint) ELSE VerifyEnds(v)
    /\ UNCHANGED verifyOnly

\* A preparation that is verified already is answered without a write.
VerifyRecheck(v) ==
    /\ verify[v].pc = "recheck"
    /\ IF /\ authority = "accepted" /\ marker = verify[v].checkpoint
          /\ preparation.state = "dispatched"
       THEN VerifyAt(v, "commit", verify[v].checkpoint) ELSE VerifyEnds(v)
    /\ UNCHANGED verifyOnly

\* verify_preparation: a compare-and-swap on the row, and its triggers.
VerifyCommit(v) ==
    /\ verify[v].pc = "commit"
    /\ VerifyEnds(v)
    /\ IF /\ authority = "accepted" /\ live /\ AllClosed
          /\ preparation.state = "dispatched"
       THEN /\ preparation' = [state |-> "verified", evidence |-> TRUE]
            /\ marker' = marker + 1
       ELSE UNCHANGED <<preparation, marker>>
    /\ UNCHANGED <<authority, events, consent, live, row, ledger, provider,
                   host, call, sends>>

-----------------------------------------------------------------------------
DatabaseStep ==
    \/ confirm_copy \/ withdraw_copy \/ dispatch_preparation
    \/ require_preparation_cleanup \/ confirm_preparation_cleaned
    \/ OtherWrite \/ LoseAuthority \/ Checkpoint

CredentialStep(k) ==
    \/ Mint(k) \/ Expire(k)
    \/ beginMintCleanup(k) \/ require_credential_revocation(k)
    \/ Revoke(k) \/ closeMintRefused(k) \/ confirm_credential_closed(k)

UseStep(c) ==
    \/ \E k \in Credential : GateLookup(c, k)
    \/ GatePlan(c) \/ GateClaim(c) \/ GateFinish(c) \/ GateCleanup(c)
    \/ OpCheck(c) \/ OpPermit(c) \/ OpRecheck(c) \/ OpAnswer(c)
    \/ TransportCheck(c) \/ TransportTake(c) \/ TransportLook(c)
    \/ TransportSend(c) \/ TransportAnswer(c)
    \/ HostAdmit(c) \/ HostAnswer(c)
    \/ Push(c) \/ ReadBack(c) \/ GitFails(c)
    \/ Die(c)

VerifyStep(v) ==
    \/ VerifyRead(v) \/ VerifyEvidence(v) \/ VerifyRecheck(v)
    \/ VerifyCommit(v)

Next ==
    \/ DatabaseStep
    \/ \E k \in Credential : CredentialStep(k)
    \/ \E c \in Call : UseStep(c)
    \/ HostPrepare \/ HostPrepared \/ HostRestart
    \/ \E v \in Verifier : VerifyStep(v)

Spec == Init /\ [][Next]_vars

-----------------------------------------------------------------------------
(* Properties.                                                             *)

\* A bearer is sent to the Git host at most once: whatever replies are lost
\* and however often the gate is called, no call obtains a second send.
OneSend == \A k \in Credential : sends[k] <= 1

\* A preparation with evidence is a copy: each repository holds exactly the
\* disclosed objects, and no credential of it works any more, so that no
\* exchange that is still under way can change them.
VerifiedIsProven ==
    preparation.evidence =>
        /\ \A r \in Role : repo[r] = "disclosed"
        /\ \A k \in Credential : token[k] = "dead" /\ ledger[k].git = "completed"

\* Once the ledger holds an upload credential for closed, nothing changes its
\* repository: a push that its callers have given up has happened or fails.
ClosedIsQuiet ==
    [][\A r \in Role : ledger[<<r, "upload">>].state = "closed"
                          => repo'[r] = repo[r]]_vars

\* When the transport takes the permit, right before the bearer leaves, the
\* owner's consent and the OP's custody stand, although neither the ledger nor
\* the transport can see them: every write that ends them moves the checkpoint.
UseIsConsented ==
    [][\A k \in Credential :
          /\ ledger[k].git = "dispatching"
          /\ ledger'[k].git = "outcome_unknown"
          => /\ consent = "approved" /\ preparation.state = "dispatched"
             /\ row[k] = "captured"]_vars
=============================================================================
