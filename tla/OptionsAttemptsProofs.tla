----------------------- MODULE OptionsAttemptsProofs -----------------------
(***************************************************************************)
(* Theorems about OptionsAttempts, for any number of launches, reviews and *)
(* faults.                                                                 *)
(***************************************************************************)
EXTENDS OptionsAttempts, TLAPS

\* A running wrapper holds the lock of its step, a confirmed review both.
Held ==
  /\ \A r \in Runs : wrapper[r] = "running" => lock[StepOf(r)] = r
  /\ op.at \in Reviewing => \A s \in Steps : lock[s] = Operator

\* No child has started before its wrapper's attempt.
Fresh == \A r \in Runs :
  wrapper[r] \in {"new", "loaded"} => child[r] = "none" /\ r \notin receipts

\* A live child still owns the claim of its step; a risk child has published
\* nothing, nor has anyone else.
Owned ==
  /\ \A e \in ExecRuns : Live(e) => files.claim = e
  /\ \A r \in RiskRuns : Live(r) => files.riskClaim = r /\ ~There("summary") /\ ~There("binding")

\* Once it has scanned the processes, a review has no child to fear.
Still == op.at \in Reviewing \ {"locked"} => \A r \in Runs : ~Live(r)

\* What a receipt attests; until its mark an execution has left no trace.
NoTrace(e) == e \notin running \cup journal /\ buy[e] = "none"
Clean ==
  /\ \A r \in receipts : ~Live(r)
  /\ \A e \in ExecRuns : child[e] \in {"none", "boot", "guarded"} \/ e \in receipts => NoTrace(e)

IInv == TypeOK /\ Held /\ Fresh /\ Owned /\ Still /\ Clean /\ PublicationHeld
(***************************************************************************)
(* Every step keeps the types.                                             *)
(***************************************************************************)
LEMMA TypeStep ==
  ASSUME TypeOK, [Next]_vars
  PROVE  TypeOK'
<1> USE ConstantsAssumption DEF TypeOK, Runs, Names, Rank, RiskFiles, ExecFiles, Kinds, Steps, Purchases, Places, Busy, Reviewing, disk, procs, books, ops
<1>1. ASSUME NEW r \in RiskRuns, Risk(r) PROVE TypeOK'
  <2>1. CASE RiskBegin(r)
    BY <2>1 DEF RiskBegin, RiskProven, Take, Write, WrapperTo, ChildTo, There
  <2>2. CASE RiskAccept(r)
    BY <2>2 DEF RiskAccept, ChildTo
  <2>3. CASE RiskLookupFails(r)
    BY <2>3 DEF RiskLookupFails, ChildTo, There
  <2>4. CASE RiskPublish(r)
    BY <2>4 DEF RiskPublish, ChildTo, Write
  <2>5. CASE RiskBind(r)
    BY <2>5 DEF RiskBind, There, Write, WrapperTo, Take
  <2> QED
    BY <1>1, <2>1, <2>2, <2>3, <2>4, <2>5 DEF Risk
<1>2. ASSUME NEW e \in ExecRuns, Execution(e) PROVE TypeOK'
  <2>1. CASE Load(e)
    BY <2>1 DEF Load, Published, There, WrapperTo
  <2>2. CASE Begin(e)
    BY <2>2 DEF Begin, There, MayRetry, Take, Write, WrapperTo, ChildTo
  <2>3. CASE Guard(e)
    BY <2>3 DEF Guard, GuardAccepts, Published, There, ChildTo
  <2>4. CASE FailBeforeMark(e)
    BY <2>4 DEF FailBeforeMark, BeforeMark, ChildTo
  <2>5. CASE Mark(e)
    BY <2>5 DEF Mark, ChildTo
  <2>6. CASE Journal(e)
    BY <2>6 DEF Journal, ChildTo, Fault
  <2>7. CASE Post(e)
    BY <2>7 DEF Post, ChildTo
  <2>8. CASE Answer(e)
    BY <2>8 DEF Answer, ChildTo, Fault
  <2>9. CASE Finish(e)
    BY <2>9 DEF Finish, ChildTo
  <2>10. CASE Complete(e)
    BY <2>10 DEF Complete, There, Write, WrapperTo, Take
  <2>11. CASE Broker(e)
    BY <2>11 DEF Broker
  <2> QED
    BY <1>2, <2>1, <2>2, <2>3, <2>4, <2>5, <2>6, <2>7, <2>8, <2>9, <2>10, <2>11 DEF Execution
<1>3. ASSUME NEW r \in Runs, Process(r) PROVE TypeOK'
  <2>1. CASE WrapperFails(r)
    BY <2>1 DEF WrapperFails, WrapperTo, Take, StepOf
  <2>2. CASE KillWrapper(r)
    BY <2>2 DEF KillWrapper, WrapperTo, Take, StepOf
  <2>3. CASE KillChild(r)
    BY <2>3 DEF KillChild, Live, ChildTo
  <2> QED
    BY <1>3, <2>1, <2>2, <2>3 DEF Process
<1>4. ASSUME NEW k \in Kinds, Review(k) PROVE TypeOK'
  <2>1. Fingerprint(k) \in [Names -> Runs \cup {NoRun}]
    BY DEF Fingerprint
  <2>2. op' = [at |-> "shown", kind |-> k, seal |-> Fingerprint(k), marks |-> effects, todo |-> {}]
    BY <1>4 DEF Review, NoOp
  <2> QED
    BY <1>4, <2>1, <2>2 DEF Review
<1>5. ASSUME Confirm \/ Scan \/ SeePositions \/ SeeOrders \/ SeeHistory
             \/ Archive \/ Archived \/ GiveUp
      PROVE  TypeOK'
  <2>1. CASE Confirm
    BY <2>1 DEF Confirm
  <2>2. CASE Scan
    BY <2>2 DEF Scan, NoneActive
  <2>3. CASE SeePositions
    BY <2>3 DEF SeePositions
  <2>4. CASE SeeOrders
    BY <2>4 DEF SeeOrders
  <2>5. CASE SeeHistory
    BY <2>5 DEF SeeHistory, ToArchive
  <2>6. CASE Archive
    BY <2>6 DEF Archive, Write
  <2>7. CASE Archived
    BY <2>7 DEF Archived, NoOp, NoFiles
  <2>8. CASE GiveUp
    BY <2>8 DEF GiveUp, NoOp, NoFiles
  <2> QED
    BY <1>5, <2>1, <2>2, <2>3, <2>4, <2>5, <2>6, <2>7, <2>8
<1>6. CASE UNCHANGED vars
  BY <1>6 DEF vars
<1> QED
  BY <1>1, <1>2, <1>3, <1>4, <1>5, <1>6 DEF Next, Unlock

(***************************************************************************)
(* Only the holder of a step's lock frees it.                              *)
(***************************************************************************)
LEMMA HeldStep ==
  ASSUME TypeOK, Held, [Next]_vars
  PROVE  Held'
<1> USE ConstantsAssumption DEF TypeOK, Runs, Names, Rank, RiskFiles, ExecFiles, Kinds, Steps, Purchases, Places, Busy, Reviewing, disk, procs, books, ops, Held, StepOf
<1>1. ASSUME NEW r \in RiskRuns, Risk(r) PROVE Held'
  <2>1. CASE RiskBegin(r)
    BY <2>1 DEF RiskBegin, RiskProven, Take, Write, WrapperTo, ChildTo, There
  <2>2. CASE RiskAccept(r)
    BY <2>2 DEF RiskAccept, ChildTo
  <2>3. CASE RiskLookupFails(r)
    BY <2>3 DEF RiskLookupFails, ChildTo, There
  <2>4. CASE RiskPublish(r)
    BY <2>4 DEF RiskPublish, ChildTo, Write
  <2>5. CASE RiskBind(r)
    BY <2>5 DEF RiskBind, There, Write, WrapperTo, Take
  <2> QED
    BY <1>1, <2>1, <2>2, <2>3, <2>4, <2>5 DEF Risk
<1>2. ASSUME NEW e \in ExecRuns, Execution(e) PROVE Held'
  <2>1. CASE Load(e)
    BY <2>1 DEF Load, Published, There, WrapperTo
  <2>2. CASE Begin(e)
    BY <2>2 DEF Begin, There, MayRetry, Take, Write, WrapperTo, ChildTo
  <2>3. CASE Guard(e)
    BY <2>3 DEF Guard, GuardAccepts, Published, There, ChildTo
  <2>4. CASE FailBeforeMark(e)
    BY <2>4 DEF FailBeforeMark, BeforeMark, ChildTo
  <2>5. CASE Mark(e)
    BY <2>5 DEF Mark, ChildTo
  <2>6. CASE Journal(e)
    BY <2>6 DEF Journal, ChildTo, Fault
  <2>7. CASE Post(e)
    BY <2>7 DEF Post, ChildTo
  <2>8. CASE Answer(e)
    BY <2>8 DEF Answer, ChildTo, Fault
  <2>9. CASE Finish(e)
    BY <2>9 DEF Finish, ChildTo
  <2>10. CASE Complete(e)
    BY <2>10 DEF Complete, There, Write, WrapperTo, Take
  <2>11. CASE Broker(e)
    BY <2>11 DEF Broker
  <2> QED
    BY <1>2, <2>1, <2>2, <2>3, <2>4, <2>5, <2>6, <2>7, <2>8, <2>9, <2>10, <2>11 DEF Execution
<1>3. ASSUME NEW r \in Runs, Process(r) PROVE Held'
  <2>1. CASE WrapperFails(r)
    BY <2>1 DEF WrapperFails, WrapperTo, Take
  <2>2. CASE KillWrapper(r)
    BY <2>2 DEF KillWrapper, WrapperTo, Take
  <2>3. CASE KillChild(r)
    BY <2>3 DEF KillChild, Live, ChildTo
  <2> QED
    BY <1>3, <2>1, <2>2, <2>3 DEF Process
<1>4. ASSUME NEW k \in Kinds, Review(k) PROVE Held'
  BY <1>4 DEF Review, NoOp
<1>5. ASSUME Confirm \/ Scan \/ SeePositions \/ SeeOrders \/ SeeHistory
             \/ Archive \/ Archived \/ GiveUp
      PROVE  Held'
  <2>1. CASE Confirm
    BY <2>1 DEF Confirm
  <2>2. CASE Scan
    BY <2>2 DEF Scan, NoneActive
  <2>3. CASE SeePositions
    BY <2>3 DEF SeePositions
  <2>4. CASE SeeOrders
    BY <2>4 DEF SeeOrders
  <2>5. CASE SeeHistory
    BY <2>5 DEF SeeHistory, ToArchive
  <2>6. CASE Archive
    BY <2>6 DEF Archive, Write
  <2>7. CASE Archived
    BY <2>7 DEF Archived, NoOp, NoFiles
  <2>8. CASE GiveUp
    BY <2>8 DEF GiveUp, NoOp, NoFiles
  <2> QED
    BY <1>5, <2>1, <2>2, <2>3, <2>4, <2>5, <2>6, <2>7, <2>8
<1>6. CASE UNCHANGED vars
  BY <1>6 DEF vars
<1> QED
  BY <1>1, <1>2, <1>3, <1>4, <1>5, <1>6 DEF Next, Unlock

(***************************************************************************)
(* A child starts with the attempt of its wrapper, never before.           *)
(***************************************************************************)
LEMMA FreshStep ==
  ASSUME TypeOK, Fresh, [Next]_vars
  PROVE  Fresh'
<1> USE ConstantsAssumption DEF TypeOK, Runs, Names, Rank, RiskFiles, ExecFiles, Kinds, Steps, Purchases, Places, Busy, Reviewing, disk, procs, books, ops, Fresh
<1>1. ASSUME NEW r \in RiskRuns, Risk(r) PROVE Fresh'
  <2>1. CASE RiskBegin(r)
    BY <2>1 DEF RiskBegin, RiskProven, Take, Write, WrapperTo, ChildTo, There
  <2>2. CASE RiskAccept(r)
    BY <2>2 DEF RiskAccept, ChildTo
  <2>3. CASE RiskLookupFails(r)
    BY <2>3 DEF RiskLookupFails, ChildTo, There
  <2>4. CASE RiskPublish(r)
    BY <2>4 DEF RiskPublish, ChildTo, Write
  <2>5. CASE RiskBind(r)
    BY <2>5 DEF RiskBind, There, Write, WrapperTo, Take
  <2> QED
    BY <1>1, <2>1, <2>2, <2>3, <2>4, <2>5 DEF Risk
<1>2. ASSUME NEW e \in ExecRuns, Execution(e) PROVE Fresh'
  <2>1. CASE Load(e)
    BY <2>1 DEF Load, Published, There, WrapperTo
  <2>2. CASE Begin(e)
    BY <2>2 DEF Begin, There, MayRetry, Take, Write, WrapperTo, ChildTo
  <2>3. CASE Guard(e)
    BY <2>3 DEF Guard, GuardAccepts, Published, There, ChildTo
  <2>4. CASE FailBeforeMark(e)
    BY <2>4 DEF FailBeforeMark, BeforeMark, ChildTo
  <2>5. CASE Mark(e)
    BY <2>5 DEF Mark, ChildTo
  <2>6. CASE Journal(e)
    BY <2>6 DEF Journal, ChildTo, Fault
  <2>7. CASE Post(e)
    BY <2>7 DEF Post, ChildTo
  <2>8. CASE Answer(e)
    BY <2>8 DEF Answer, ChildTo, Fault
  <2>9. CASE Finish(e)
    BY <2>9 DEF Finish, ChildTo
  <2>10. CASE Complete(e)
    BY <2>10 DEF Complete, There, Write, WrapperTo, Take
  <2>11. CASE Broker(e)
    BY <2>11 DEF Broker
  <2> QED
    BY <1>2, <2>1, <2>2, <2>3, <2>4, <2>5, <2>6, <2>7, <2>8, <2>9, <2>10, <2>11 DEF Execution
<1>3. ASSUME NEW r \in Runs, Process(r) PROVE Fresh'
  <2>1. CASE WrapperFails(r)
    BY <2>1 DEF WrapperFails, WrapperTo, Take, StepOf
  <2>2. CASE KillWrapper(r)
    BY <2>2 DEF KillWrapper, WrapperTo, Take, StepOf
  <2>3. CASE KillChild(r)
    BY <2>3 DEF KillChild, Live, ChildTo
  <2> QED
    BY <1>3, <2>1, <2>2, <2>3 DEF Process
<1>4. ASSUME NEW k \in Kinds, Review(k) PROVE Fresh'
  BY <1>4 DEF Review, NoOp
<1>5. ASSUME Confirm \/ Scan \/ SeePositions \/ SeeOrders \/ SeeHistory
             \/ Archive \/ Archived \/ GiveUp
      PROVE  Fresh'
  <2>1. CASE Confirm
    BY <2>1 DEF Confirm
  <2>2. CASE Scan
    BY <2>2 DEF Scan, NoneActive
  <2>3. CASE SeePositions
    BY <2>3 DEF SeePositions
  <2>4. CASE SeeOrders
    BY <2>4 DEF SeeOrders
  <2>5. CASE SeeHistory
    BY <2>5 DEF SeeHistory, ToArchive
  <2>6. CASE Archive
    BY <2>6 DEF Archive, Write
  <2>7. CASE Archived
    BY <2>7 DEF Archived, NoOp, NoFiles
  <2>8. CASE GiveUp
    BY <2>8 DEF GiveUp, NoOp, NoFiles
  <2> QED
    BY <1>5, <2>1, <2>2, <2>3, <2>4, <2>5, <2>6, <2>7, <2>8
<1>6. CASE UNCHANGED vars
  BY <1>6 DEF vars
<1> QED
  BY <1>1, <1>2, <1>3, <1>4, <1>5, <1>6 DEF Next, Unlock

(***************************************************************************)
(* A child starts under a lock that the review holds.                      *)
(***************************************************************************)
LEMMA StillStep ==
  ASSUME TypeOK, Held, Still, [Next]_vars
  PROVE  Still'
<1> USE ConstantsAssumption DEF TypeOK, Runs, Names, Rank, RiskFiles, ExecFiles, Kinds, Steps, Purchases, Places, Busy, Reviewing, disk, procs, books, ops, Live, There, Held, Still
<1>1. ASSUME NEW r \in RiskRuns, Risk(r) PROVE Still'
  <2>1. CASE RiskBegin(r)
    BY <2>1 DEF RiskBegin, RiskProven, Take, Write, WrapperTo, ChildTo
  <2>2. CASE RiskAccept(r)
    BY <2>2 DEF RiskAccept, ChildTo
  <2>3. CASE RiskLookupFails(r)
    BY <2>3 DEF RiskLookupFails, ChildTo
  <2>4. CASE RiskPublish(r)
    BY <2>4 DEF RiskPublish, ChildTo, Write
  <2>5. CASE RiskBind(r)
    BY <2>5 DEF RiskBind, Write, WrapperTo, Take
  <2> QED
    BY <1>1, <2>1, <2>2, <2>3, <2>4, <2>5 DEF Risk
<1>2. ASSUME NEW e \in ExecRuns, Execution(e) PROVE Still'
  <2>1. CASE Load(e)
    BY <2>1 DEF Load, Published, WrapperTo
  <2>2. CASE Begin(e)
    BY <2>2 DEF Begin, MayRetry, Take, Write, WrapperTo, ChildTo
  <2>3. CASE Guard(e)
    BY <2>3 DEF Guard, GuardAccepts, Published, ChildTo
  <2>4. CASE FailBeforeMark(e)
    BY <2>4 DEF FailBeforeMark, BeforeMark, ChildTo
  <2>5. CASE Mark(e)
    BY <2>5 DEF Mark, ChildTo
  <2>6. CASE Journal(e)
    BY <2>6 DEF Journal, ChildTo, Fault
  <2>7. CASE Post(e)
    BY <2>7 DEF Post, ChildTo
  <2>8. CASE Answer(e)
    BY <2>8 DEF Answer, ChildTo, Fault
  <2>9. CASE Finish(e)
    BY <2>9 DEF Finish, ChildTo
  <2>10. CASE Complete(e)
    BY <2>10 DEF Complete, Write, WrapperTo, Take
  <2>11. CASE Broker(e)
    BY <2>11 DEF Broker
  <2> QED
    BY <1>2, <2>1, <2>2, <2>3, <2>4, <2>5, <2>6, <2>7, <2>8, <2>9, <2>10, <2>11 DEF Execution
<1>3. ASSUME NEW r \in Runs, Process(r) PROVE Still'
  <2>1. CASE WrapperFails(r)
    BY <2>1 DEF WrapperFails, WrapperTo, Take, StepOf
  <2>2. CASE KillWrapper(r)
    BY <2>2 DEF KillWrapper, WrapperTo, Take, StepOf
  <2>3. CASE KillChild(r)
    BY <2>3 DEF KillChild, ChildTo
  <2> QED
    BY <1>3, <2>1, <2>2, <2>3 DEF Process
<1>4. ASSUME NEW k \in Kinds, Review(k) PROVE Still'
  BY <1>4 DEF Review, NoOp
<1>5. ASSUME Confirm \/ Scan \/ SeePositions \/ SeeOrders \/ SeeHistory
             \/ Archive \/ Archived \/ GiveUp
      PROVE  Still'
  <2>1. CASE Confirm
    BY <2>1 DEF Confirm
  <2>2. CASE Scan
    BY <2>2 DEF Scan, NoneActive
  <2>3. CASE SeePositions
    BY <2>3 DEF SeePositions
  <2>4. CASE SeeOrders
    BY <2>4 DEF SeeOrders
  <2>5. CASE SeeHistory
    BY <2>5 DEF SeeHistory, ToArchive
  <2>6. CASE Archive
    BY <2>6 DEF Archive, Write
  <2>7. CASE Archived
    BY <2>7 DEF Archived, NoOp, NoFiles
  <2>8. CASE GiveUp
    BY <2>8 DEF GiveUp, NoOp, NoFiles
  <2> QED
    BY <1>5, <2>1, <2>2, <2>3, <2>4, <2>5, <2>6, <2>7, <2>8
<1>6. CASE UNCHANGED vars
  BY <1>6 DEF vars
<1> QED
  BY <1>1, <1>2, <1>3, <1>4, <1>5, <1>6 DEF Next, Unlock

(***************************************************************************)
(* A receipt is written by a child that has not marked its effects.        *)
(***************************************************************************)
LEMMA CleanStep ==
  ASSUME TypeOK, Fresh, Clean, [Next]_vars
  PROVE  Clean'
<1> USE ConstantsAssumption DEF TypeOK, Runs, Names, Rank, RiskFiles, ExecFiles, Kinds, Steps, Purchases, Places, Busy, Reviewing, disk, procs, books, ops, Live, There, Fresh, Clean, NoTrace
<1>1. ASSUME NEW r \in RiskRuns, Risk(r) PROVE Clean'
  <2>1. CASE RiskBegin(r)
    BY <2>1 DEF RiskBegin, RiskProven, Take, Write, WrapperTo, ChildTo
  <2>2. CASE RiskAccept(r)
    BY <2>2 DEF RiskAccept, ChildTo
  <2>3. CASE RiskLookupFails(r)
    BY <2>3 DEF RiskLookupFails, ChildTo
  <2>4. CASE RiskPublish(r)
    BY <2>4 DEF RiskPublish, ChildTo, Write
  <2>5. CASE RiskBind(r)
    BY <2>5 DEF RiskBind, Write, WrapperTo, Take
  <2> QED
    BY <1>1, <2>1, <2>2, <2>3, <2>4, <2>5 DEF Risk
<1>2. ASSUME NEW e \in ExecRuns, Execution(e) PROVE Clean'
  <2>1. CASE Load(e)
    BY <2>1 DEF Load, Published, WrapperTo
  <2>2. CASE Begin(e)
    BY <2>2 DEF Begin, MayRetry, Take, Write, WrapperTo, ChildTo
  <2>3. CASE Guard(e)
    BY <2>3 DEF Guard, GuardAccepts, Published, ChildTo
  <2>4. CASE FailBeforeMark(e)
    BY <2>4 DEF FailBeforeMark, BeforeMark, ChildTo
  <2>5. CASE Mark(e)
    BY <2>5 DEF Mark, ChildTo
  <2>6. CASE Journal(e)
    BY <2>6 DEF Journal, ChildTo, Fault
  <2>7. CASE Post(e)
    BY <2>7 DEF Post, ChildTo
  <2>8. CASE Answer(e)
    BY <2>8 DEF Answer, ChildTo, Fault
  <2>9. CASE Finish(e)
    BY <2>9 DEF Finish, ChildTo
  <2>10. CASE Complete(e)
    BY <2>10 DEF Complete, Write, WrapperTo, Take
  <2>11. CASE Broker(e)
    BY <2>11 DEF Broker
  <2> QED
    BY <1>2, <2>1, <2>2, <2>3, <2>4, <2>5, <2>6, <2>7, <2>8, <2>9, <2>10, <2>11 DEF Execution
<1>3. ASSUME NEW r \in Runs, Process(r) PROVE Clean'
  <2>1. CASE WrapperFails(r)
    BY <2>1 DEF WrapperFails, WrapperTo, Take, StepOf
  <2>2. CASE KillWrapper(r)
    BY <2>2 DEF KillWrapper, WrapperTo, Take, StepOf
  <2>3. CASE KillChild(r)
    BY <2>3 DEF KillChild, ChildTo
  <2> QED
    BY <1>3, <2>1, <2>2, <2>3 DEF Process
<1>4. ASSUME NEW k \in Kinds, Review(k) PROVE Clean'
  BY <1>4 DEF Review, NoOp
<1>5. ASSUME Confirm \/ Scan \/ SeePositions \/ SeeOrders \/ SeeHistory
             \/ Archive \/ Archived \/ GiveUp
      PROVE  Clean'
  <2>1. CASE Confirm
    BY <2>1 DEF Confirm
  <2>2. CASE Scan
    BY <2>2 DEF Scan, NoneActive
  <2>3. CASE SeePositions
    BY <2>3 DEF SeePositions
  <2>4. CASE SeeOrders
    BY <2>4 DEF SeeOrders
  <2>5. CASE SeeHistory
    BY <2>5 DEF SeeHistory, ToArchive
  <2>6. CASE Archive
    BY <2>6 DEF Archive, Write
  <2>7. CASE Archived
    BY <2>7 DEF Archived, NoOp, NoFiles
  <2>8. CASE GiveUp
    BY <2>8 DEF GiveUp, NoOp, NoFiles
  <2> QED
    BY <1>5, <2>1, <2>2, <2>3, <2>4, <2>5, <2>6, <2>7, <2>8
<1>6. CASE UNCHANGED vars
  BY <1>6 DEF vars
<1> QED
  BY <1>1, <1>2, <1>3, <1>4, <1>5, <1>6 DEF Next, Unlock

(***************************************************************************)
(* A claim is replaced or archived only when its child has stopped.        *)
(***************************************************************************)
LEMMA OwnedStep ==
  ASSUME TypeOK, Still, Clean, Owned, [Next]_vars
  PROVE  Owned'
<1> USE ConstantsAssumption DEF TypeOK, Runs, Names, Rank, RiskFiles, ExecFiles, Kinds, Steps, Purchases, Places, Busy, Reviewing, disk, procs, books, ops, Live, There, Still, Clean, Owned
<1>1. ASSUME NEW r \in RiskRuns, Risk(r) PROVE Owned'
  <2>1. CASE RiskBegin(r)
    BY <2>1 DEF RiskBegin, RiskProven, Take, Write, WrapperTo, ChildTo
  <2>2. CASE RiskAccept(r)
    BY <2>2 DEF RiskAccept, ChildTo
  <2>3. CASE RiskLookupFails(r)
    BY <2>3 DEF RiskLookupFails, ChildTo
  <2>4. CASE RiskPublish(r)
    BY <2>4 DEF RiskPublish, ChildTo, Write
  <2>5. CASE RiskBind(r)
    BY <2>5 DEF RiskBind, Write, WrapperTo, Take
  <2> QED
    BY <1>1, <2>1, <2>2, <2>3, <2>4, <2>5 DEF Risk
<1>2. ASSUME NEW e \in ExecRuns, Execution(e) PROVE Owned'
  <2>1. CASE Load(e)
    BY <2>1 DEF Load, Published, WrapperTo
  <2>2. CASE Begin(e)
    BY <2>2 DEF Begin, MayRetry, Take, Write, WrapperTo, ChildTo
  <2>3. CASE Guard(e)
    BY <2>3 DEF Guard, GuardAccepts, Published, ChildTo
  <2>4. CASE FailBeforeMark(e)
    BY <2>4 DEF FailBeforeMark, BeforeMark, ChildTo
  <2>5. CASE Mark(e)
    BY <2>5 DEF Mark, ChildTo
  <2>6. CASE Journal(e)
    BY <2>6 DEF Journal, ChildTo, Fault
  <2>7. CASE Post(e)
    BY <2>7 DEF Post, ChildTo
  <2>8. CASE Answer(e)
    BY <2>8 DEF Answer, ChildTo, Fault
  <2>9. CASE Finish(e)
    BY <2>9 DEF Finish, ChildTo
  <2>10. CASE Complete(e)
    BY <2>10 DEF Complete, Write, WrapperTo, Take
  <2>11. CASE Broker(e)
    BY <2>11 DEF Broker
  <2> QED
    BY <1>2, <2>1, <2>2, <2>3, <2>4, <2>5, <2>6, <2>7, <2>8, <2>9, <2>10, <2>11 DEF Execution
<1>3. ASSUME NEW r \in Runs, Process(r) PROVE Owned'
  <2>1. CASE WrapperFails(r)
    BY <2>1 DEF WrapperFails, WrapperTo, Take, StepOf
  <2>2. CASE KillWrapper(r)
    BY <2>2 DEF KillWrapper, WrapperTo, Take, StepOf
  <2>3. CASE KillChild(r)
    BY <2>3 DEF KillChild, ChildTo
  <2> QED
    BY <1>3, <2>1, <2>2, <2>3 DEF Process
<1>4. ASSUME NEW k \in Kinds, Review(k) PROVE Owned'
  BY <1>4 DEF Review, NoOp
<1>5. ASSUME Confirm \/ Scan \/ SeePositions \/ SeeOrders \/ SeeHistory
             \/ Archive \/ Archived \/ GiveUp
      PROVE  Owned'
  <2>1. CASE Confirm
    BY <2>1 DEF Confirm
  <2>2. CASE Scan
    BY <2>2 DEF Scan, NoneActive
  <2>3. CASE SeePositions
    BY <2>3 DEF SeePositions
  <2>4. CASE SeeOrders
    BY <2>4 DEF SeeOrders
  <2>5. CASE SeeHistory
    BY <2>5 DEF SeeHistory, ToArchive
  <2>6. CASE Archive
    BY <2>6 DEF Archive, Write
  <2>7. CASE Archived
    BY <2>7 DEF Archived, NoOp, NoFiles
  <2>8. CASE GiveUp
    BY <2>8 DEF GiveUp, NoOp, NoFiles
  <2> QED
    BY <1>5, <2>1, <2>2, <2>3, <2>4, <2>5, <2>6, <2>7, <2>8
<1>6. CASE UNCHANGED vars
  BY <1>6 DEF vars
<1> QED
  BY <1>1, <1>2, <1>3, <1>4, <1>5, <1>6 DEF Next, Unlock

(***************************************************************************)
(* A publication is written and archived only when no execution acts.      *)
(***************************************************************************)
LEMMA PublicationStep ==
  ASSUME TypeOK, Still, Owned, PublicationHeld, [Next]_vars
  PROVE  PublicationHeld'
<1> USE ConstantsAssumption DEF TypeOK, Runs, Names, Rank, RiskFiles, ExecFiles, Kinds, Steps, Purchases, Places, Busy, Reviewing, disk, procs, books, ops, Live, There, Still, Owned, PublicationHeld, Published, Acting
<1>1. ASSUME NEW r \in RiskRuns, Risk(r) PROVE PublicationHeld'
  <2>1. CASE RiskBegin(r)
    BY <2>1 DEF RiskBegin, RiskProven, Take, Write, WrapperTo, ChildTo
  <2>2. CASE RiskAccept(r)
    BY <2>2 DEF RiskAccept, ChildTo
  <2>3. CASE RiskLookupFails(r)
    BY <2>3 DEF RiskLookupFails, ChildTo
  <2>4. CASE RiskPublish(r)
    BY <2>4 DEF RiskPublish, ChildTo, Write
  <2>5. CASE RiskBind(r)
    BY <2>5 DEF RiskBind, Write, WrapperTo, Take
  <2> QED
    BY <1>1, <2>1, <2>2, <2>3, <2>4, <2>5 DEF Risk
<1>2. ASSUME NEW e \in ExecRuns, Execution(e) PROVE PublicationHeld'
  <2>1. CASE Load(e)
    BY <2>1 DEF Load, WrapperTo
  <2>2. CASE Begin(e)
    BY <2>2 DEF Begin, MayRetry, Take, Write, WrapperTo, ChildTo
  <2>3. CASE Guard(e)
    BY <2>3 DEF Guard, GuardAccepts, ChildTo
  <2>4. CASE FailBeforeMark(e)
    BY <2>4 DEF FailBeforeMark, BeforeMark, ChildTo
  <2>5. CASE Mark(e)
    BY <2>5 DEF Mark, ChildTo
  <2>6. CASE Journal(e)
    BY <2>6 DEF Journal, ChildTo, Fault
  <2>7. CASE Post(e)
    BY <2>7 DEF Post, ChildTo
  <2>8. CASE Answer(e)
    BY <2>8 DEF Answer, ChildTo, Fault
  <2>9. CASE Finish(e)
    BY <2>9 DEF Finish, ChildTo
  <2>10. CASE Complete(e)
    BY <2>10 DEF Complete, Write, WrapperTo, Take
  <2>11. CASE Broker(e)
    BY <2>11 DEF Broker
  <2> QED
    BY <1>2, <2>1, <2>2, <2>3, <2>4, <2>5, <2>6, <2>7, <2>8, <2>9, <2>10, <2>11 DEF Execution
<1>3. ASSUME NEW r \in Runs, Process(r) PROVE PublicationHeld'
  <2>1. CASE WrapperFails(r)
    BY <2>1 DEF WrapperFails, WrapperTo, Take, StepOf
  <2>2. CASE KillWrapper(r)
    BY <2>2 DEF KillWrapper, WrapperTo, Take, StepOf
  <2>3. CASE KillChild(r)
    BY <2>3 DEF KillChild, ChildTo
  <2> QED
    BY <1>3, <2>1, <2>2, <2>3 DEF Process
<1>4. ASSUME NEW k \in Kinds, Review(k) PROVE PublicationHeld'
  BY <1>4 DEF Review, NoOp
<1>5. ASSUME Confirm \/ Scan \/ SeePositions \/ SeeOrders \/ SeeHistory
             \/ Archive \/ Archived \/ GiveUp
      PROVE  PublicationHeld'
  <2>1. CASE Confirm
    BY <2>1 DEF Confirm
  <2>2. CASE Scan
    BY <2>2 DEF Scan, NoneActive
  <2>3. CASE SeePositions
    BY <2>3 DEF SeePositions
  <2>4. CASE SeeOrders
    BY <2>4 DEF SeeOrders
  <2>5. CASE SeeHistory
    BY <2>5 DEF SeeHistory, ToArchive
  <2>6. CASE Archive
    BY <2>6 DEF Archive, Write
  <2>7. CASE Archived
    BY <2>7 DEF Archived, NoOp, NoFiles
  <2>8. CASE GiveUp
    BY <2>8 DEF GiveUp, NoOp, NoFiles
  <2> QED
    BY <1>5, <2>1, <2>2, <2>3, <2>4, <2>5, <2>6, <2>7, <2>8
<1>6. CASE UNCHANGED vars
  BY <1>6 DEF vars
<1> QED
  BY <1>1, <1>2, <1>3, <1>4, <1>5, <1>6 DEF Next, Unlock

(***************************************************************************)
(* No step breaks the inductive invariant.                                 *)
(***************************************************************************)
LEMMA InvStep == IInv /\ [Next]_vars => IInv'
  BY TypeStep, HeldStep, FreshStep, StillStep, CleanStep, OwnedStep, PublicationStep DEF IInv

(***************************************************************************)
(* Nothing has been launched yet.                                          *)
(***************************************************************************)
LEMMA InvInit == Init => IInv
<1> SUFFICES ASSUME Init PROVE IInv
  OBVIOUS
<1> USE ConstantsAssumption DEF Init
<1>1. TypeOK
  BY DEF TypeOK, Runs, Names, Rank, RiskFiles, ExecFiles, Kinds, Steps, Purchases,
         Places, Busy, Reviewing, NoOp, NoFiles
<1>2. Held /\ Fresh /\ Still
  BY DEF Held, Fresh, Still, Live, Busy, Reviewing, NoOp
<1>3. Owned /\ Clean /\ PublicationHeld
  BY DEF Owned, Clean, NoTrace, PublicationHeld, Acting, Live, Busy, Runs
<1> QED
  BY <1>1, <1>2, <1>3 DEF IInv

(***************************************************************************)
(* The inductive invariant holds for any number of launches, reviews,      *)
(* faults and kills.                                                       *)
(***************************************************************************)
THEOREM Invariant == Spec => []IInv
  BY InvInit, InvStep, PTL DEF Spec

(***************************************************************************)
(* Every state is well typed.                                              *)
(***************************************************************************)
THEOREM TypeCorrect == Spec => []TypeOK
<1>1. IInv => TypeOK
  BY DEF IInv
<1> QED
  BY <1>1, Invariant, PTL

(***************************************************************************)
(* Two execution children never act at the same time: each owns the one    *)
(* claim of the selection.                                                 *)
(***************************************************************************)
THEOREM OneChildAlways == Spec => []OneChild
<1>1. IInv => OneChild
  BY DEF IInv, Owned, OneChild, Acting, Live
<1> QED
  BY <1>1, Invariant, PTL

(***************************************************************************)
(* The risk publication stays under an execution that acts on it.          *)
(***************************************************************************)
THEOREM PublicationAlwaysHeld == Spec => []PublicationHeld
<1>1. IInv => PublicationHeld
  BY DEF IInv
<1> QED
  BY <1>1, Invariant, PTL

(***************************************************************************)
(* A receipt always proves that its execution has stopped without a trace. *)
(***************************************************************************)
THEOREM ReceiptsAreProof == Spec => []ReceiptIsProof
<1>1. IInv => ReceiptIsProof
  BY DEF IInv, Clean, NoTrace, ReceiptIsProof
<1> QED
  BY <1>1, Invariant, PTL

(***************************************************************************)
(* The only writer of summaries is a live risk child, and while one lives  *)
(* nothing has been published: no summary is ever overwritten.             *)
(***************************************************************************)
THEOREM SummariesAreKept == Spec => SummaryNeverReplaced
<1>1. IInv /\ [Next]_vars => (There("summary") => files'["summary"] \in {files.summary, NoRun})
  <2> SUFFICES ASSUME IInv, [Next]_vars, There("summary")
               PROVE  files'["summary"] \in {files.summary, NoRun}
    OBVIOUS
  <2> USE ConstantsAssumption DEF IInv, TypeOK, Names, Rank, disk, procs, books, ops
  <2>1. ASSUME NEW r \in RiskRuns, RiskPublish(r) PROVE FALSE
    BY <2>1 DEF RiskPublish, Owned, Live, Busy
  <2>2. ASSUME NEW r \in RiskRuns, Risk(r) PROVE files'["summary"] = files.summary
    BY <2>1, <2>2 DEF Risk, RiskBegin, RiskAccept, RiskLookupFails, RiskBind, Write
  <2>3. ASSUME NEW e \in ExecRuns, Execution(e) PROVE files'["summary"] = files.summary
    BY <2>3 DEF Execution, Load, Begin, Guard, FailBeforeMark, Mark, Journal, Post, Answer,
                Finish, Complete, Broker, Write
  <2>4. ASSUME NEW r \in Runs, Process(r) PROVE files'["summary"] = files.summary
    BY <2>4 DEF Process, WrapperFails, KillWrapper, KillChild
  <2>5. ASSUME Unlock PROVE files'["summary"] \in {files.summary, NoRun}
    BY <2>5 DEF Unlock, Review, Confirm, Scan, SeePositions, SeeOrders, SeeHistory, Archive,
                Archived, GiveUp, Write
  <2>6. CASE UNCHANGED vars
    BY <2>6 DEF vars
  <2> QED
    BY <2>2, <2>3, <2>4, <2>5, <2>6 DEF Next
<1> QED
  BY <1>1, Invariant, PTL DEF Spec, SummaryNeverReplaced

-----------------------------------------------------------------------------
(***************************************************************************)
(* One purchase (BoughtOnce), when at most one of the journal's writes and *)
(* the broker's answers is lost.  The argument: whoever may have bought    *)
(* owns the claim (Claimed), and an unlock archives a claim only when its  *)
(* run bought nothing (Cleared).  That holds although no single check of   *)
(* the unlock shows it: a purchase without a row of the journal has used   *)
(* up the fault, so that its answer came and its run's own row was still   *)
(* there until then (Lost); it is open when the orders are read, or it has *)
(* been filled since the claim and the history shows it (Filled).  With    *)
(* two faults neither would.                                               *)
(***************************************************************************)
Working == {"marked", "journaled", "posting", "answered"}

\* A child that works has its row; it buys after its mark and its journal.
Rowed == \A e \in ExecRuns : child[e] \in Working => e \in running
Unsent == \A e \in ExecRuns : child[e] \in {"marked", "journaled"} => buy[e] = "none"

\* Without a row in the journal the one fault is used up: the answer came, and
\* an order whose outcome is not known yet still has the row of its run.
Lost == \A e \in ExecRuns :
  e \notin journal =>
    /\ child[e] \in {"journaled", "posting", "answered"} => faults >= 1
    /\ child[e] = "answered" => buy[e] # "flying"
    /\ buy[e] = "flying" => e \in running

\* What the claim's run has bought was filled since the claim.
Filled == \A e \in ExecRuns :
  files.claim = e /\ buy[e] \in {"held", "sold"} => e \in since["execution"]

\* A purchase that may exist is that of the claim.
Claimed == \A e \in ExecRuns : buy[e] \notin {"none", "void"} => files.claim = e

\* What the unlock's checks have excluded so far of the claim's run.
Cleared == There("claim") =>
  /\ op.at \in {"scanned", "flat", "quiet"} =>
       There("binding") /\ files.claim \notin journal \cup running
  /\ op.at = "quiet" => buy[files.claim] # "open"
  /\ op.at = "archiving" => buy[files.claim] \in {"none", "void"}

OnceInv == Rowed /\ Unsent /\ Lost /\ Filled /\ Claimed /\ Cleared

\* Every step keeps it, if there is one fault at most.
LEMMA OnceStep ==
  ASSUME IInv, OnceInv, MaxFaults <= 1, [Next]_vars
  PROVE  OnceInv'
<1> USE ConstantsAssumption DEF IInv, TypeOK, Runs, Names, Rank, RiskFiles, ExecFiles,
       Kinds, Steps, Purchases, Places, Busy, Reviewing, disk, procs, books, ops, Live,
       There, Fresh, Clean, NoTrace, Owned, Still, Held, OnceInv, Working, Rowed,
       Unsent, Lost, Filled, Claimed, Cleared
<1>1. ASSUME NEW r \in RiskRuns, Risk(r) PROVE OnceInv'
  <2>1. CASE RiskBegin(r)
    BY <2>1 DEF RiskBegin, RiskProven, Take, Write, WrapperTo, ChildTo
  <2>2. CASE RiskAccept(r)
    BY <2>2 DEF RiskAccept, ChildTo
  <2>3. CASE RiskLookupFails(r)
    BY <2>3 DEF RiskLookupFails, ChildTo
  <2>4. CASE RiskPublish(r)
    BY <2>4 DEF RiskPublish, ChildTo, Write
  <2>5. CASE RiskBind(r)
    BY <2>5 DEF RiskBind, Write, WrapperTo, Take
  <2> QED
    BY <1>1, <2>1, <2>2, <2>3, <2>4, <2>5 DEF Risk
<1>2. ASSUME NEW e \in ExecRuns, Execution(e) PROVE OnceInv'
  <2>1. CASE Load(e)
    BY <2>1 DEF Load, Published, WrapperTo
  <2>2. CASE Begin(e)
    BY <2>2 DEF Begin, MayRetry, Take, Write, WrapperTo, ChildTo
  <2>3. CASE Guard(e)
    BY <2>3 DEF Guard, GuardAccepts, Published, ChildTo
  <2>4. CASE FailBeforeMark(e)
    BY <2>4 DEF FailBeforeMark, ChildTo
  <2>5. CASE Mark(e)
    BY <2>5 DEF Mark, ChildTo
  <2>6. CASE Journal(e)
    BY <2>6 DEF Journal, ChildTo, Fault
  <2>7. CASE Post(e)
    BY <2>7 DEF Post, ChildTo
  <2>8. CASE Answer(e)
    BY <2>8 DEF Answer, ChildTo, Fault
  <2>9. CASE Finish(e)
    BY <2>9 DEF Finish, ChildTo
  <2>10. CASE Complete(e)
    BY <2>10 DEF Complete, Write, WrapperTo, Take
  <2>11. CASE Broker(e)
    BY <2>11 DEF Broker
  <2> QED
    BY <1>2, <2>1, <2>2, <2>3, <2>4, <2>5, <2>6, <2>7, <2>8, <2>9, <2>10, <2>11 DEF Execution
<1>3. ASSUME NEW r \in Runs, Process(r) PROVE OnceInv'
  <2>1. CASE WrapperFails(r)
    BY <2>1 DEF WrapperFails, WrapperTo, Take, StepOf
  <2>2. CASE KillWrapper(r)
    BY <2>2 DEF KillWrapper, WrapperTo, Take, StepOf
  <2>3. CASE KillChild(r)
    BY <2>3 DEF KillChild, ChildTo
  <2> QED
    BY <1>3, <2>1, <2>2, <2>3 DEF Process
<1>4. ASSUME NEW k \in Kinds, Review(k) PROVE OnceInv'
  BY <1>4 DEF Review, NoOp
<1>5. ASSUME Confirm \/ Scan \/ SeePositions \/ SeeOrders \/ SeeHistory
             \/ Archive \/ Archived \/ GiveUp
      PROVE  OnceInv'
  <2>1. CASE Confirm
    BY <2>1 DEF Confirm
  <2>2. CASE Scan
    BY <2>2 DEF Scan, NoneActive, FilesAgree, SqlQuiet, OfRisk
  <2>3. CASE SeePositions
    BY <2>3 DEF SeePositions
  <2>4. CASE SeeOrders
    BY <2>4 DEF SeeOrders, Unpublished
  <2>5. CASE SeeHistory
    BY <2>5 DEF SeeHistory, ToArchive, Unpublished
  <2>6. CASE Archive
    BY <2>6 DEF Archive, Write
  <2>7. CASE Archived
    BY <2>7 DEF Archived, NoOp, NoFiles
  <2>8. CASE GiveUp
    BY <2>8 DEF GiveUp, NoOp, NoFiles
  <2> QED
    BY <1>5, <2>1, <2>2, <2>3, <2>4, <2>5, <2>6, <2>7, <2>8
<1>6. CASE UNCHANGED vars
  BY <1>6 DEF vars
<1> QED
  BY <1>1, <1>2, <1>3, <1>4, <1>5, <1>6 DEF Next, Unlock

\* Nothing has been bought initially.
LEMMA OnceInit == Init => OnceInv
  BY ConstantsAssumption
     DEF Init, OnceInv, Rowed, Unsent, Lost, Filled, Claimed, Cleared, Working, NoFiles, Names,
         Rank, There, NoOp, Runs

(***************************************************************************)
(* One selection is bought at most once, for any number of launches, kills *)
(* and reviews, when one journal write or one answer at most is lost.      *)
(***************************************************************************)
THEOREM BoughtOnceAlways ==
  ASSUME MaxFaults <= 1
  PROVE  Spec => []BoughtOnce
<1>1. OnceInv => BoughtOnce
  BY DEF OnceInv, Claimed, BoughtOnce, Bought
<1>2. Init => IInv /\ OnceInv
  BY InvInit, OnceInit
<1>3. IInv /\ OnceInv /\ [Next]_vars => (IInv /\ OnceInv)'
  BY InvStep, OnceStep
<1> QED
  BY <1>1, <1>2, <1>3, PTL DEF Spec

=============================================================================
