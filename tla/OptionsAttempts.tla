-------------------------- MODULE OptionsAttempts --------------------------
(***************************************************************************)
(* Steps 11 (risk) and 12 (execution) of one options selection on one      *)
(* PAPER account: the claims, receipts and publications they leave in the  *)
(* consumer directory (service/options_directional), the child processes   *)
(* that do the work and may outlive their wrapper, what an execution       *)
(* writes to SQL and to the broker, and the operator's unlock              *)
(* (ihm/services/pipeline_unlock.py).                                      *)
(*                                                                         *)
(* A run is one launch of a step: a wrapper process and its child.  It     *)
(* makes at most one attempt, whose uuid is the run itself; the risk run   *)
(* id that a risk child publishes is that run too.  Every run buys the     *)
(* same symbol, the worst case for a second purchase.                      *)
(***************************************************************************)
EXTENDS Integers, FiniteSets

CONSTANTS
  RiskRuns, ExecRuns,  \* launches of step 11 and of step 12
  Named,               \* launches given the selection's id, the others "auto"
  NoRun, Operator,
  MaxUnlocks,          \* bound: reviews of the operator
  MaxFaults            \* bound: lost journal writes and late answers

Runs == RiskRuns \cup ExecRuns

ASSUME ConstantsAssumption ==
  /\ RiskRuns \cap ExecRuns = {}
  /\ NoRun \notin Runs /\ Operator \notin Runs \cup {NoRun}
  /\ Named \subseteq Runs
  /\ MaxUnlocks \in Nat /\ MaxFaults \in Nat

VARIABLES
  files,     \* the five files an unlock may archive, by the run they name
  effects,   \* execution.effects_possible.<run>.json still in place
  receipts,  \* failure receipts of both steps, never archived
  lock,      \* holders of risk.lock and execution.lock
  wrapper,   \* where each wrapper process is
  child,     \* where each child process is
  bound,     \* the risk run whose binding each execution wrapper has read
  running,   \* rows of execution_runs in status RUNNING
  journal,   \* runs with a row in execution_order_requests
  buy,       \* the purchase of each execution at the broker
  since,     \* purchases filled since the risk and the execution claim
  op,        \* the operator's unlock
  unlocks, faults

disk  == <<files, effects, receipts>>
procs == <<wrapper, child, bound>>
books == <<running, journal, buy, since>>
ops   == <<op, unlocks>>
vars  == <<disk, lock, procs, books, ops, faults>>

Rank      == [riskClaim |-> 1, summary |-> 2, binding |-> 3, claim |-> 4, result |-> 5]
Names     == DOMAIN Rank
RiskFiles == {"riskClaim", "summary", "binding"}
ExecFiles == {"claim", "result"}
Steps     == {"risk", "execution"}
Kinds     == {"risk", "execute"}
Busy      == {"boot", "guarded", "marked", "journaled", "posting", "answered"}
Places    == {"none", "ok", "failed", "dead"} \cup Busy
Purchases == {"none", "flying", "open", "held", "sold", "void"}
Reviewing == {"locked", "scanned", "flat", "quiet", "archiving"}

NoFiles == [name \in Names |-> NoRun]
NoOp    == [at |-> "idle", kind |-> "execute", seal |-> NoFiles, marks |-> {}, todo |-> {}]

Init ==
  /\ files = NoFiles /\ effects = {} /\ receipts = {}
  /\ lock = [s \in Steps |-> NoRun]
  /\ wrapper = [r \in Runs |-> "new"] /\ child = [r \in Runs |-> "none"]
  /\ bound = [e \in ExecRuns |-> NoRun]
  /\ running = {} /\ journal = {}
  /\ buy = [e \in ExecRuns |-> "none"] /\ since = [s \in Steps |-> {}]
  /\ op = NoOp /\ unlocks = 0 /\ faults = 0

There(name)     == files[name] # NoRun
Write(name, r)  == files' = [files EXCEPT ![name] = r]
Live(r)         == child[r] \in Busy
ChildTo(r, p)   == child' = [child EXCEPT ![r] = p]
WrapperTo(r, p) == wrapper' = [wrapper EXCEPT ![r] = p]
Take(s, who)    == lock' = [lock EXCEPT ![s] = who]
StepOf(r)       == IF r \in RiskRuns THEN "risk" ELSE "execution"
Fault           == faults < MaxFaults /\ faults' = faults + 1

\* validate_risk_binding: the binding seals the summary that is on disk.
Published == There("binding") /\ files.summary = files.binding

-----------------------------------------------------------------------------
(***************************************************************************)
(* Step 11: risk_attempt and the child risk_management.                    *)
(***************************************************************************)
RiskProven_Claimed == TRUE
RiskProven == ~There("riskClaim") \/ files.riskClaim \in receipts

RiskBegin(r) ==
  /\ wrapper[r] = "new" /\ lock["risk"] = NoRun
  /\ ~There("summary") /\ ~There("binding") /\ ~There("claim")
  /\ RiskProven
  /\ Take("risk", r) /\ Write("riskClaim", r)
  /\ since' = [since EXCEPT !["risk"] = {}]
  /\ WrapperTo(r, "running") /\ ChildTo(r, "boot")
  /\ UNCHANGED <<effects, receipts, bound, running, journal, buy, ops, faults>>

\* The child accepts the claim only if it is its own.
RiskAccept(r) ==
  /\ child[r] = "boot" /\ files.riskClaim = r /\ ChildTo(r, "guarded")
  /\ UNCHANGED <<disk, lock, wrapper, bound, books, ops, faults>>

\* The universe or the factors cannot be loaded: a receipt, unless there is
\* already an output.
RiskLookupFails(r) ==
  /\ child[r] = "guarded" /\ ChildTo(r, "failed")
  /\ receipts' = IF There("summary") \/ There("binding") \/ There("claim") \/ files.riskClaim # r
                 THEN receipts ELSE receipts \cup {r}
  /\ UNCHANGED <<files, effects, lock, wrapper, bound, books, ops, faults>>

\* A temporary file replaces the summary, whatever was there.
RiskPublish(r) ==
  /\ child[r] = "guarded" /\ ChildTo(r, "ok") /\ Write("summary", r)
  /\ UNCHANGED <<effects, receipts, lock, wrapper, bound, books, ops, faults>>

\* The wrapper reads the summary back and writes the binding, exclusively.
RiskBind(r) ==
  /\ wrapper[r] = "running" /\ child[r] = "ok" /\ There("summary") /\ ~There("binding")
  /\ Write("binding", files.summary)
  /\ WrapperTo(r, "ended") /\ Take("risk", NoRun)
  /\ UNCHANGED <<effects, receipts, child, bound, books, ops, faults>>

-----------------------------------------------------------------------------
(***************************************************************************)
(* Step 12: the wrapper reads the publication, then asks for the lock.     *)
(***************************************************************************)
Load_Unchecked(e) ==
  /\ wrapper[e] = "new"
  /\ bound' = [bound EXCEPT ![e] = files.binding] /\ WrapperTo(e, "loaded")
  /\ UNCHANGED <<disk, lock, child, books, ops, faults>>

Load(e) ==
  /\ wrapper[e] = "new" /\ Published
  /\ bound' = [bound EXCEPT ![e] = files.binding] /\ WrapperTo(e, "loaded")
  /\ UNCHANGED <<disk, lock, child, books, ops, faults>>

\* execution_attempt: a claim is retried on the receipt of its own child only.
MayRetry_NoEffects(c, e) == c \notin effects /\ bound[c] = bound[e]
MayRetry(c, e) == c \in receipts /\ c \notin effects /\ bound[c] = bound[e]

Begin(e) ==
  /\ wrapper[e] = "loaded" /\ lock["execution"] = NoRun
  /\ ~There("result")
  /\ There("claim") => MayRetry(files.claim, e)
  /\ Take("execution", e) /\ Write("claim", e)
  /\ since' = [since EXCEPT !["execution"] = {}]
  /\ WrapperTo(e, "running") /\ ChildTo(e, "boot")
  /\ UNCHANGED <<effects, receipts, bound, running, journal, buy, ops, faults>>

\* execution_child_guard: what it compares is read before its try block, a
\* child it refuses leaves no receipt.
GuardAccepts(e) == Published /\ files.binding = bound[e] /\ files.claim = e

Guard(e) ==
  /\ child[e] = "boot" /\ ChildTo(e, IF GuardAccepts(e) THEN "guarded" ELSE "failed")
  /\ UNCHANGED <<disk, lock, wrapper, bound, books, ops, faults>>

BeforeMark_Any == {"guarded", "marked"}
BeforeMark == {"guarded"}

FailBeforeMark(e) ==
  /\ child[e] \in BeforeMark /\ ChildTo(e, "failed")
  /\ receipts' = receipts \cup {e}
  /\ UNCHANGED <<files, effects, lock, wrapper, bound, books, ops, faults>>

\* mark_execution_effects_possible, then execute_run and its RUNNING row.
Mark(e) ==
  /\ child[e] = "guarded" /\ ChildTo(e, "marked")
  /\ effects' = effects \cup {e} /\ running' = running \cup {e}
  /\ UNCHANGED <<files, receipts, lock, wrapper, bound, journal, buy, since, ops, faults>>

\* The request is recorded before it is sent, by a write that may fail unseen.
Journal(e) ==
  /\ child[e] = "marked" /\ ChildTo(e, "journaled")
  /\ \/ journal' = journal \cup {e} /\ UNCHANGED faults
     \/ Fault /\ UNCHANGED journal
  /\ UNCHANGED <<disk, lock, wrapper, bound, running, buy, since, ops>>

Post(e) ==
  /\ child[e] = "journaled" /\ ChildTo(e, "posting")
  /\ buy' = [buy EXCEPT ![e] = "flying"]
  /\ UNCHANGED <<disk, lock, wrapper, bound, running, journal, since, ops, faults>>

\* The broker has answered, or the last retry has timed out.
Answer(e) ==
  /\ child[e] = "posting" /\ ChildTo(e, "answered")
  /\ \/ buy[e] # "flying" /\ UNCHANGED faults
     \/ Fault
  /\ UNCHANGED <<disk, lock, wrapper, bound, books, ops>>

\* The run closes its row: after its order, before it or without any (an
\* account that is busy, a market check, no target left).
Finish(e) ==
  /\ child[e] \in {"marked", "answered"}
  /\ running' = running \ {e}
  /\ \E end \in {"ok", "failed"} : ChildTo(e, end)
  /\ UNCHANGED <<disk, lock, wrapper, bound, journal, buy, since, ops, faults>>

Complete(e) ==
  /\ wrapper[e] = "running" /\ child[e] = "ok" /\ ~There("result")
  /\ Write("result", e)
  /\ WrapperTo(e, "ended") /\ Take("execution", NoRun)
  /\ UNCHANGED <<effects, receipts, child, bound, books, ops, faults>>

-----------------------------------------------------------------------------
\* Any wrapper whose child has failed; any process, killed.
WrapperFails(r) ==
  /\ wrapper[r] = "running" /\ child[r] \in {"failed", "dead"}
  /\ WrapperTo(r, "ended") /\ Take(StepOf(r), NoRun)
  /\ UNCHANGED <<disk, child, bound, books, ops, faults>>

\* The kernel frees the lock; the child lives on.
KillWrapper(r) ==
  /\ wrapper[r] \in {"loaded", "running"} /\ WrapperTo(r, "ended")
  /\ IF wrapper[r] = "running" THEN Take(StepOf(r), NoRun) ELSE UNCHANGED lock
  /\ UNCHANGED <<disk, child, bound, books, ops, faults>>

KillChild(r) ==
  /\ Live(r) /\ ChildTo(r, "dead")
  /\ UNCHANGED <<disk, lock, wrapper, bound, books, ops, faults>>

\* The broker carries out an order it has been sent, refuses or cancels it,
\* fills it; a filled position may be sold before anyone looks.
Broker(e) ==
  /\ \/ buy[e] = "flying" /\ buy' = [buy EXCEPT ![e] = "open"] /\ UNCHANGED since
     \/ buy[e] \in {"flying", "open"} /\ buy' = [buy EXCEPT ![e] = "void"] /\ UNCHANGED since
     \/ buy[e] = "open" /\ buy' = [buy EXCEPT ![e] = "held"]
        /\ since' = [s \in Steps |-> since[s] \cup {e}]
     \/ buy[e] = "held" /\ buy' = [buy EXCEPT ![e] = "sold"] /\ UNCHANGED since
  /\ UNCHANGED <<disk, lock, procs, running, journal, ops, faults>>

-----------------------------------------------------------------------------
(***************************************************************************)
(* The operator's unlock: inspect_unlock, shown, then confirm_unlock.      *)
(***************************************************************************)
ToArchive(k) ==
  {name \in Names : There(name) /\ (k = "risk" \/ name \in ExecFiles)}
Fingerprint(k) ==
  [name \in Names |-> IF k = "risk" \/ name \in ExecFiles \cup {"binding"}
                      THEN files[name] ELSE NoRun]

FilesAgree(k) ==
  /\ ToArchive(k) # {} \/ effects # {}
  /\ IF There("binding")
     THEN /\ files.summary = files.binding
          /\ IF There("claim")
             THEN /\ bound[files.claim] = files.binding /\ effects \subseteq {files.claim}
                  /\ files.result \in {files.claim, NoRun}
             ELSE ~There("result") /\ effects = {} /\ There("riskClaim")
     ELSE /\ There("riskClaim") /\ files.riskClaim \in receipts
          /\ ~There("summary") /\ ~There("claim") /\ ~There("result")

\* Command lines: children carry every id, an "auto" wrapper only that.
NoneActive_Wrappers == \A r \in Named : wrapper[r] \notin {"loaded", "running"}
NoneActive ==
  /\ \A r \in Runs : ~Live(r)
  /\ \A r \in Named : wrapper[r] \notin {"loaded", "running"}

OfRisk(S) == {e \in S : There("binding") /\ bound[e] = files.binding}
SqlQuiet_Requests == OfRisk(journal) = {}
SqlQuiet == OfRisk(journal) = {} /\ OfRisk(running) = {}

Review(k) ==
  /\ op.at = "idle" /\ unlocks < MaxUnlocks /\ FilesAgree(k)
  /\ op' = [NoOp EXCEPT !.at = "shown", !.kind = k, !.seal = Fingerprint(k), !.marks = effects]
  /\ unlocks' = unlocks + 1
  /\ UNCHANGED <<disk, lock, procs, books, faults>>

Confirm ==
  /\ op.at = "shown" /\ \A s \in Steps : lock[s] = NoRun
  /\ lock' = [s \in Steps |-> Operator]
  /\ op' = [op EXCEPT !.at = "locked"]
  /\ UNCHANGED <<disk, procs, books, unlocks, faults>>

Scan ==
  /\ op.at = "locked" /\ FilesAgree(op.kind)
  /\ Fingerprint(op.kind) = op.seal /\ effects = op.marks
  /\ NoneActive /\ SqlQuiet
  /\ op' = [op EXCEPT !.at = "scanned"]
  /\ UNCHANGED <<disk, lock, procs, books, unlocks, faults>>

\* Positions, open orders and history are three calls; without a risk run
\* there is nothing to ask about.
Unpublished == ~There("binding")

SeePositions ==
  /\ op.at = "scanned" /\ (Unpublished \/ \A e \in ExecRuns : buy[e] # "held")
  /\ op' = [op EXCEPT !.at = "flat"]
  /\ UNCHANGED <<disk, lock, procs, books, unlocks, faults>>

SeeOrders ==
  /\ op.at = "flat" /\ (Unpublished \/ \A e \in ExecRuns : buy[e] # "open")
  /\ op' = [op EXCEPT !.at = "quiet"]
  /\ UNCHANGED <<disk, lock, procs, books, unlocks, faults>>

SeeHistory ==
  /\ op.at = "quiet"
  /\ Unpublished \/ since[IF There("claim") THEN "execution" ELSE "risk"] = {}
  /\ op' = [op EXCEPT !.at = "archiving", !.todo = ToArchive(op.kind)]
  /\ UNCHANGED <<disk, lock, procs, books, unlocks, faults>>

\* One rename after the other, the markers last.
Archive ==
  /\ op.at = "archiving"
  /\ \E name \in op.todo :
       /\ \A other \in op.todo : Rank[name] <= Rank[other]
       /\ Write(name, NoRun)
       /\ op' = [op EXCEPT !.todo = @ \ {name}]
  /\ UNCHANGED <<effects, receipts, lock, procs, books, unlocks, faults>>

Archived ==
  /\ op.at = "archiving" /\ op.todo = {}
  /\ effects' = {} /\ op' = NoOp /\ lock' = [s \in Steps |-> NoRun]
  /\ UNCHANGED <<files, receipts, procs, books, unlocks, faults>>

\* A check has failed, or the interface has died: the locks are freed.
GiveUp ==
  /\ op.at # "idle" /\ op' = NoOp
  /\ lock' = [s \in Steps |-> IF lock[s] = Operator THEN NoRun ELSE lock[s]]
  /\ UNCHANGED <<disk, procs, books, unlocks, faults>>

-----------------------------------------------------------------------------
Risk(r) ==
  RiskBegin(r) \/ RiskAccept(r) \/ RiskLookupFails(r) \/ RiskPublish(r) \/ RiskBind(r)

Execution(e) ==
  \/ Load(e) \/ Begin(e) \/ Guard(e) \/ FailBeforeMark(e) \/ Mark(e)
  \/ Journal(e) \/ Post(e) \/ Answer(e) \/ Finish(e) \/ Complete(e) \/ Broker(e)

Process(r) == WrapperFails(r) \/ KillWrapper(r) \/ KillChild(r)

Unlock ==
  \/ \E k \in Kinds : Review(k)
  \/ Confirm \/ Scan \/ SeePositions \/ SeeOrders \/ SeeHistory
  \/ Archive \/ Archived \/ GiveUp

Next ==
  \/ \E r \in RiskRuns : Risk(r)
  \/ \E e \in ExecRuns : Execution(e)
  \/ \E r \in Runs : Process(r)
  \/ Unlock

Spec == Init /\ [][Next]_vars

-----------------------------------------------------------------------------
(***************************************************************************)
(* Every value has its type, and an execution knows its risk run from the  *)
(* moment it has read a publication.                                       *)
(***************************************************************************)
TypeOK ==
  /\ files \in [Names -> Runs \cup {NoRun}]
  /\ \A name \in RiskFiles : files[name] \in RiskRuns \cup {NoRun}
  /\ \A name \in ExecFiles : files[name] \in ExecRuns \cup {NoRun}
  /\ effects \subseteq ExecRuns /\ receipts \subseteq Runs
  /\ lock \in [Steps -> Runs \cup {NoRun, Operator}]
  /\ wrapper \in [Runs -> {"new", "loaded", "running", "ended"}]
  /\ child \in [Runs -> Places]
  /\ bound \in [ExecRuns -> RiskRuns \cup {NoRun}]
  /\ \A e \in ExecRuns : wrapper[e] # "new" => bound[e] \in RiskRuns
  /\ running \subseteq ExecRuns /\ journal \subseteq ExecRuns
  /\ buy \in [ExecRuns -> Purchases] /\ since \in [Steps -> SUBSET ExecRuns]
  /\ op \in [at : {"idle", "shown"} \cup Reviewing, kind : Kinds, todo : SUBSET Names,
             seal : [Names -> Runs \cup {NoRun}], marks : SUBSET ExecRuns]
  /\ unlocks \in 0 .. MaxUnlocks /\ faults \in 0 .. MaxFaults

(***************************************************************************)
(* One selection is bought at most once, whatever is killed, retried,      *)
(* recomputed or unlocked ("ce verrou evite un doublon").                  *)
(***************************************************************************)
Bought(e) == buy[e] \in {"open", "held", "sold"}
BoughtOnce == \A e, f \in ExecRuns : Bought(e) /\ Bought(f) => e = f

(***************************************************************************)
(* Two children that may still act never pass their guard at the same      *)
(* time, even when the wrapper that started one of them is gone.           *)
(***************************************************************************)
Acting(e) == child[e] \in Busy \ {"boot"}
OneChild == \A e, f \in ExecRuns : Acting(e) /\ Acting(f) => e = f

(***************************************************************************)
(* The risk publication an execution was approved with stays in place as   *)
(* long as its child works: neither a recomputation nor an unlock removes  *)
(* it under the child.                                                     *)
(***************************************************************************)
PublicationHeld == \A e \in ExecRuns : Acting(e) => Published /\ files.binding = bound[e]

(***************************************************************************)
(* A receipt proves what it says: its child has stopped, and it has left   *)
(* no trace in SQL and no order at the broker.                             *)
(***************************************************************************)
ReceiptIsProof ==
  \A e \in ExecRuns \cap receipts :
    ~Live(e) /\ e \notin running \cup journal /\ buy[e] = "none"

(***************************************************************************)
(* A published risk summary is never replaced by that of another run, not  *)
(* even by a risk child left behind by a dead wrapper.                     *)
(***************************************************************************)
SummaryNeverReplaced ==
  [][There("summary") => files'["summary"] \in {files.summary, NoRun}]_vars

(***************************************************************************)
(* "Aucune archive n'est reactivee automatiquement apres une               *)
(* reinitialisation confirmee du risque": a claim is never written for a   *)
(* risk publication that an unlock has archived.                           *)
(***************************************************************************)
NoArchiveReused ==
  [][\A e \in ExecRuns : files'["claim"] = e /\ files.claim # e => files.binding = bound[e]]_vars
=============================================================================
