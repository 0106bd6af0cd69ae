------------------------ MODULE WinnerCampaignProofs ------------------------
(***************************************************************************)
(* A campaign and its orders, for every quantity, policy and failure.      *)
(*                                                                         *)
(* The outbox: the tick implements WinnerOutbox.  Every step is of one of  *)
(* three kinds.  A quiet step sends nothing and leaves the set of reserved *)
(* operations alone; a reserving step makes one new operation durable and  *)
(* goes on to its request; a sending step sends the request the tick is    *)
(* about to make.  The invariant says which operation that is: it is       *)
(* durable and nothing was ever sent for it.                               *)
(*                                                                         *)
(* The books: steps are sorted once more, by what they do to the lots      *)
(* (LotsMove), to the orders (OrdersMove), to the operations (OpsMove), to *)
(* the request under way (Turns) and to the stops of the lots.  BooksInv   *)
(* is what those kinds of step keep: the books of each lot and of each     *)
(* buy, orders that shrink together, one replacement of a stop at a time,  *)
(* and no more bought than the target.  It gives the types of all          *)
(* variables and BooksBalance.                                             *)
(*                                                                         *)
(* The buys: ControlInv follows the tick past protect() and says what is   *)
(* settled there, up to the request of a buy.                              *)
(*                                                                         *)
(* The sales: SellInv says of each order on a lot who will look it up      *)
(* (Known), how much of the lot it may still sell (Cover), and that the    *)
(* deadline takes them all down before the exit is asked for (DownInv,     *)
(* SoldInv, ExitInv).  Summed over the lots it gives NeverOversold,        *)
(* NoLostOrder and ReleasedIsFlat.                                         *)
(***************************************************************************)
EXTENDS WinnerCampaign, SumTheorems, TLAPS

\* The families of client identifiers do not overlap, and each of them may be
\* reserved: what the broker and the campaign tell apart by the action's name.
LEMMA KeyFacts ==
  /\ Entry \in OpKeys /\ AddOn \in OpKeys /\ Exit \in OpKeys
  /\ NoKey \notin OpKeys
  /\ BuyKeys \subseteq OpKeys /\ BuyKeys \subseteq PostKeys
  /\ Exit \in PostKeys
  /\ EmergencyKeys \subseteq PostKeys
  /\ \A i \in LotIx : Protect(i) \in PostKeys /\ Rearm(i) \in PostKeys
  /\ \A i \in LotIx, l \in 2 .. MaxStop : Tighten(i, l) \in TightenKeys
  /\ TightenKeys \subseteq OpKeys
<1>1. \A k \in TightenKeys : k[1] = "TIGHTEN"
  BY DEF TightenKeys, Tighten
<1>2. \A k \in EmergencyKeys : k[1] = "EMERGENCY_STOP"
  BY DEF EmergencyKeys, Emergency
<1>3. \A i \in LotIx : Protect(i)[1] = "PROTECT" /\ Rearm(i)[1] = "REARM"
  BY DEF Protect, Rearm
<1>4. Entry[1] = "ENTRY" /\ AddOn[1] = "ADD" /\ Exit[1] = "EXIT" /\ NoKey[1] = "NONE"
  BY DEF Entry, AddOn, Exit, NoKey
<1>5. QED BY <1>1, <1>2, <1>3, <1>4 DEF OpKeys, PostKeys, BuyKeys, TightenKeys

-----------------------------------------------------------------------------
Typed   == ops \in [OpKeys -> OpStatus] /\ posts \in [OpKeys -> Nat]
Listed  == \A k \in todo : k \in OpKeys /\ ops[k] # "none"
Durable == pc \in {"attach", "post"} =>
             req \in OpKeys /\ ops[req] # "none" /\ (req \in PostKeys => posts[req] = 0)
NoExit  == pc = "deadline" => ops[Exit] = "none"
Once    == \A k \in PostKeys : /\ posts[k] \in {0, 1}
                               /\ ops[k] = "none" => posts[k] = 0

OutboxInv == Typed /\ Listed /\ Durable /\ NoExit /\ Once

\* What the three kinds of steps have in common.
Kept    == \A k \in OpKeys : ops'[k] = "none" <=> ops[k] = "none"
TodoOK  == \A k \in todo' : k \in todo \/ (k \in OpKeys /\ ops'[k] # "none")
Elsewhere == pc' \notin {"attach", "post", "deadline"}

Quiet == /\ ops' \in [OpKeys -> OpStatus] /\ posts' = posts /\ Kept /\ TodoOK
         /\ \/ Elsewhere
            \/ pc' = pc /\ req' = req
            \/ pc = "attach" /\ pc' = "post" /\ req' = req
            \/ pc' = "deadline" /\ ops[Exit] = "none"

Reserving == \E k \in OpKeys :
  /\ ops' = [ops EXCEPT ![k] = "RESERVED"] /\ posts' = posts /\ todo' = todo
  /\ req' = k /\ pc' \in {"attach", "post"}
  /\ ops[k] = "none" \/ k \notin PostKeys

Sending == /\ pc = "post" /\ posts' = [posts EXCEPT ![req] = @ + 1]
           /\ ops' \in [OpKeys -> OpStatus] /\ Kept /\ TodoOK /\ Elsewhere

Moves == Quiet \/ Reserving \/ Sending

\* Looking operations up sends nothing; only the emergency stop is reserved.
LEMMA ReconcileMoves == ASSUME OutboxInv, Reconcile PROVE Moves
<1> USE KeyFacts DEF OutboxInv, Typed, Listed, OpStatus, Moves, Quiet, Kept, TodoOK, Elsewhere
<1>1. ASSUME NEW k \in OpKeys, ReconcileBare(k) PROVE Moves
  BY <1>1 DEF ReconcileBare, At, Abort, Goto, Keep, saved
<1>2. ASSUME NEW k \in OpKeys, ReconcileMissing(k) PROVE Moves
  BY <1>2 DEF ReconcileMissing, At
<1>3. ASSUME NEW k \in OpKeys, ReconcileEmergency(k) PROVE Moves
  BY <1>3 DEF ReconcileEmergency, Found, At, saved
<1>4. ASSUME NEW k \in BuyKeys, ReconcileBuy(k) PROVE Moves
  BY <1>4 DEF ReconcileBuy, Found, Settled, At
<1>5. ASSUME NEW i \in LotIx, ReconcileProtect(i) PROVE Moves
  BY <1>5 DEF ReconcileProtect, Found, At
<1>6. ASSUME NEW i \in LotIx, ReconcileRearm(i) PROVE Moves
  BY <1>6 DEF ReconcileRearm, Found, At, Abort, Goto, Keep
<1>7. ASSUME NEW i \in LotIx, NEW l \in 2 .. MaxStop, ReconcileTighten(i, l) PROVE Moves
  BY <1>7 DEF ReconcileTighten, Found, At
<1>8. ASSUME ReconcileExit PROVE Moves
  BY <1>8 DEF ReconcileExit, Found, Settled, At, Abort, Goto, Keep
<1>9. ASSUME ReconcileDone PROVE Moves
  BY <1>9 DEF ReconcileDone, At, Abort, Goto, Keep
<1>10. QED
  BY <1>1, <1>2, <1>3, <1>4, <1>5, <1>6, <1>7, <1>8, <1>9 DEF Reconcile

\* A failed exit reserves one safety stop for a lot, never a second one.
LEMMA RearmMoves == ASSUME OutboxInv, RearmFailedExit PROVE Moves
<1> USE KeyFacts DEF OutboxInv, Typed, Listed, OpStatus, Moves, Quiet, Kept, TodoOK, Elsewhere
<1>1. ASSUME RearmStart PROVE Moves
  BY <1>1 DEF RearmStart, saved, At, Abort, Goto, Keep
<1>2. ASSUME RearmSkip PROVE Moves
  BY <1>2 DEF RearmSkip, saved, At
<1>3. ASSUME RearmEnd PROVE Moves
  BY <1>3 DEF RearmEnd, StartReconcile, Pending, Unresolved, saved, At, Abort, Goto, Keep
<1>4. ASSUME NEW i \in LotIx, RearmReserve(i) PROVE Moves
  BY <1>4 DEF RearmReserve, Reserve, Reserving, Rearmed, At, Goto, PostKeys
<1>5. QED
  BY <1>1, <1>2, <1>3, <1>4 DEF RearmFailedExit

\* protect() reserves the protection of a lot that never had one.
LEMMA ProtectMoves == ASSUME OutboxInv, ProtectLots PROVE Moves
<1> USE KeyFacts DEF OutboxInv, Typed, Listed, OpStatus, Moves, Quiet, Kept, TodoOK, Elsewhere
<1>1. ASSUME ProtectFrozen PROVE Moves
  BY <1>1 DEF ProtectFrozen, saved, At, Abort, Goto, Keep
<1>2. ASSUME ProtectEnd PROVE Moves
  BY <1>2 DEF ProtectEnd, saved, At, Abort, Goto, Keep
<1>3. ASSUME NEW i \in LotIx, ProtectReserve(i) PROVE Moves
  BY <1>3 DEF ProtectReserve, MayProtect, Reserve, Reserving, At, Goto, PostKeys
<1>4. QED
  BY <1>1, <1>2, <1>3 DEF ProtectLots

\* Observing the standing protections reserves and sends nothing.
LEMMA ObserveMoves == ASSUME OutboxInv, ReconcileLots PROVE Moves
<1> USE KeyFacts DEF OutboxInv, Typed, Listed, OpStatus, Moves, Quiet, Kept, TodoOK, Elsewhere
<1>1. ASSUME ObserveLot PROVE Moves
  BY <1>1 DEF ObserveLot, At, Abort, Goto, Keep
<1>2. ASSUME ObserveEnd PROVE Moves
  BY <1>2 DEF ObserveEnd, saved, At, Abort, Goto, Keep
<1>3. QED
  BY <1>1, <1>2 DEF ReconcileLots

\* Canceling the queued standard order reserves and sends nothing.
LEMMA StandardMoves == ASSUME OutboxInv, StandardEntry PROVE Moves
<1> USE KeyFacts DEF OutboxInv, Typed, Listed, OpStatus, Moves, Quiet, Kept, TodoOK, Elsewhere
<1>1. ASSUME StandardCancel PROVE Moves
  BY <1>1 DEF StandardCancel, StartReconcile, Pending, Unresolved, saved, At, Abort, Goto, Keep
<1>2. ASSUME StandardSkip PROVE Moves
  BY <1>2 DEF StandardSkip, saved, At, Abort, Goto, Keep
<1>3. QED
  BY <1>1, <1>2 DEF StandardEntry

\* Waiting, releasing and turning to the exit reserve and send nothing.
LEMMA GateMoves == ASSUME OutboxInv, Gate PROVE Moves
<1> USE KeyFacts DEF OutboxInv, Typed, Listed, OpStatus, Moves, Quiet, Kept, TodoOK, Elsewhere
<1>1. ASSUME GatePending PROVE Moves
  BY <1>1 DEF GatePending, saved, At, Abort, Goto, Keep
<1>2. ASSUME GateClosed PROVE Moves
  BY <1>2 DEF GateClosed, At, Abort, Goto, Keep
<1>3. ASSUME GateDeadline PROVE Moves
  BY <1>3 DEF GateDeadline, saved, At, Abort, Goto, Keep
<1>4. ASSUME GateExpired PROVE Moves
  BY <1>4 DEF GateExpired, At, Abort, Goto, Keep
<1>5. ASSUME GateWait PROVE Moves
  BY <1>5 DEF GateWait, saved, At, Abort, Goto, Keep
<1>6. ASSUME GateMarket PROVE Moves
  BY <1>6 DEF GateMarket, saved, At, Abort, Goto, Keep
<1>7. QED
  BY <1>1, <1>2, <1>3, <1>4, <1>5, <1>6 DEF Gate

\* deadline() reserves the exit once.
LEMMA DeadlineMoves == ASSUME OutboxInv, Deadline PROVE Moves
<1> USE KeyFacts DEF OutboxInv, Typed, Listed, OpStatus, Moves, Quiet, Kept, TodoOK, Elsewhere
<1>1. ASSUME DeadlineSkip PROVE Moves
  BY <1>1 DEF DeadlineSkip, saved, At
<1>2. ASSUME DeadlineCancel PROVE Moves
  BY <1>2 DEF DeadlineCancel, CancelLegs, CancelUnconfirmed, Fault, local, At, Abort, Goto, Keep
<1>3. ASSUME DeadlineSell PROVE Moves
  BY <1>3 DEF DeadlineSell, Reserve, Reserving, NoExit, PostKeys, At, Abort, Goto, Keep
<1>4. QED
  BY <1>1, <1>2, <1>3 DEF Deadline

\* A raised stop is an amendment: it reserves an operation of its own.
LEMMA TightenMoves == ASSUME OutboxInv, TightenStops PROVE Moves
<1> USE KeyFacts DEF OutboxInv, Typed, Listed, OpStatus, Moves, Quiet, Kept, TodoOK, Elsewhere
<1>1. ASSUME NEW i \in LotIx, NEW l \in 2 .. MaxStop, TightenReserve(i, l) PROVE Moves
  BY <1>1 DEF TightenReserve, Reserve, Reserving, At, Goto, PostKeys
<1>2. ASSUME TightenNext PROVE Moves
  BY <1>2 DEF TightenNext, saved, At
<1>3. ASSUME TightenEnd PROVE Moves
  BY <1>3 DEF TightenEnd, saved, At, Abort, Goto, Keep
<1>4. QED
  BY <1>1, <1>2, <1>3 DEF TightenStops

\* A buy is reserved once; attaching its exact order sends nothing.
LEMMA BuyMoves == ASSUME OutboxInv, Buy PROVE Moves
<1> USE KeyFacts DEF OutboxInv, Typed, Listed, OpStatus, Moves, Quiet, Kept, TodoOK, Elsewhere
<1>1. ASSUME BuyClosed PROVE Moves
  BY <1>1 DEF BuyClosed, At, Abort, Goto, Keep
<1>2. ASSUME BuyNothing PROVE Moves
  BY <1>2 DEF BuyNothing, saved, At, Abort, Goto, Keep
<1>3. ASSUME BuyAttach PROVE Moves
  BY <1>3 DEF BuyAttach, At, Abort, Goto, Keep
<1>4. ASSUME NEW k \in BuyKeys, NEW q \in LotIx, BuyReserve(k, q) PROVE Moves
  BY <1>4 DEF BuyReserve, MayEnter, MayAdd, Reserving, At, Goto, BuyKeys
<1>5. QED
  BY <1>1, <1>2, <1>3, <1>4 DEF Buy

\* An accepted request is the reserved one, sent for the first time.
LEMMA AcceptMoves == ASSUME OutboxInv, Accept PROVE Moves
<1> USE KeyFacts DEF OutboxInv, Typed, Listed, OpStatus, Moves, Quiet, Kept, TodoOK, Elsewhere
<1>1. ASSUME AcceptBuy PROVE Moves
  BY <1>1 DEF AcceptBuy, Posting, Sending, Durable, Ends, Action, At, Abort, Goto, Keep
<1>2. ASSUME AcceptProtect PROVE Moves
  BY <1>2 DEF AcceptProtect, Posting, Sending, Durable, Ends, Action, At, Abort, Goto, Keep
<1>3. ASSUME AcceptTighten PROVE Moves
  BY <1>3 DEF AcceptTighten, Posting, Sending, Durable, Ends, Action, At, Abort, Goto, Keep
<1>4. ASSUME TightenRefused PROVE Moves
  BY <1>4 DEF TightenRefused, saved, At, Abort, Goto, Keep
<1>5. ASSUME AcceptRearm PROVE Moves
  BY <1>5 DEF AcceptRearm, Posting, Sending, Durable, Ends, Action, At, Abort, Goto, Keep
<1>6. ASSUME AcceptExit PROVE Moves
  BY <1>6 DEF AcceptExit, Posting, Sending, Durable, Ends, Action, At, Abort, Goto, Keep
<1>7. ASSUME AcceptEmergency PROVE Moves
  BY <1>7 DEF AcceptEmergency, Posting, Sending, Durable, Ends, Action, At, Abort, Goto, Keep
<1>8. QED
  BY <1>1, <1>2, <1>3, <1>4, <1>5, <1>6, <1>7 DEF Accept

\* A failing request was reserved too, and a failure reserves nothing else
\* than the emergency stop.
LEMMA FailureMoves == ASSUME OutboxInv, Failure PROVE Moves
<1> USE KeyFacts DEF OutboxInv, Typed, Listed, OpStatus, Moves, Quiet, Kept, TodoOK, Elsewhere
<1>1. ASSUME NEW k \in BuyKeys, NEW q \in LotIx, ReceiptMissing(k, q) PROVE Moves
  BY <1>1 DEF ReceiptMissing, Found, Fault, Reserve, Reserving, EmergencyKeys, PostKeys, At,
     Abort, Goto, Keep
<1>2. ASSUME AnswerLost PROVE Moves
  BY <1>2 DEF AnswerLost, Posting, Sending, Fault, saved, At, Abort, Goto, Keep
<1>3. ASSUME Undelivered PROVE Moves
  BY <1>3 DEF Undelivered, Posting, Sending, Fault, saved, At, Abort, Goto, Keep
<1>4. ASSUME Rejected PROVE Moves
  BY <1>4 DEF Rejected, Posting, Sending, Durable, Ends, Fault, At, Abort, Goto, Keep
<1>5. ASSUME Crash PROVE Moves
  BY <1>5 DEF Crash, Fault, saved, At, Abort, Goto, Keep
<1>6. ASSUME NEW k \in SellKeys \ {Exit}, BrokerCancel(k) PROVE Moves
  BY <1>6 DEF BrokerCancel, Fault, saved, local
<1>7. QED
  BY <1>1, <1>2, <1>3, <1>4, <1>5, <1>6 DEF Failure

\* The market and the clock reserve and send nothing.
LEMMA MarketMoves == ASSUME OutboxInv, Market PROVE Moves
<1> USE KeyFacts DEF OutboxInv, Typed, Listed, OpStatus, Moves, Quiet, Kept, TodoOK, Elsewhere
<1>1. ASSUME NEW k \in Keys, BrokerFill(k) PROVE Moves
  BY <1>1 DEF BrokerFill, saved, local
<1>2. ASSUME NEW k \in Keys, BrokerTerminate(k) PROVE Moves
  BY <1>2 DEF BrokerTerminate, saved, local
<1>3. ASSUME Expire PROVE Moves
  BY <1>3 DEF Expire, saved, local
<1>4. ASSUME DueArrives PROVE Moves
  BY <1>4 DEF DueArrives, saved, local
<1>5. ASSUME SwitchOff PROVE Moves
  BY <1>5 DEF SwitchOff, saved, local
<1>6. QED
  BY <1>1, <1>2, <1>3, <1>4, <1>5 DEF Market

\* Every step reserves one operation, sends the reserved one, or does neither.
LEMMA StepMoves == ASSUME OutboxInv, [Next]_vars PROVE Moves
<1>1. CASE TickStart
  BY <1>1, KeyFacts DEF OutboxInv, Typed, Moves, Quiet, Kept, TodoOK, Elsewhere,
     TickStart, StartReconcile, Pending, Unresolved, saved, At, Goto, Keep
<1>2. CASE Tick
  BY <1>2, ReconcileMoves, RearmMoves, ProtectMoves, ObserveMoves, StandardMoves,
     GateMoves, DeadlineMoves, TightenMoves, BuyMoves, AcceptMoves DEF Tick
<1>3. CASE Failure
  BY <1>3, FailureMoves
<1>4. CASE Market
  BY <1>4, MarketMoves
<1>5. CASE UNCHANGED vars
  BY <1>5 DEF OutboxInv, Typed, Moves, Quiet, Kept, TodoOK, vars, saved, local
<1>6. QED BY <1>1, <1>2, <1>3, <1>4, <1>5 DEF Next

-----------------------------------------------------------------------------
\* A new campaign has reserved and sent nothing.
LEMMA OutboxInit == Init => OutboxInv
  BY KeyFacts DEF Init, OutboxInv, Typed, Listed, Durable, NoExit, Once, OpStatus, PostKeys

\* The three kinds of step preserve the invariant of the outbox.
LEMMA OutboxStep == OutboxInv /\ [Next]_vars => OutboxInv'
<1> SUFFICES ASSUME OutboxInv, [Next]_vars PROVE OutboxInv'
  OBVIOUS
<1> USE KeyFacts DEF OutboxInv, Typed, Listed, Durable, NoExit, Once, OpStatus, PostKeys,
        Kept, TodoOK, Elsewhere
<1>1. CASE Quiet
  BY <1>1 DEF Quiet
<1>2. CASE Reserving
  BY <1>2 DEF Reserving
<1>3. CASE Sending
  BY <1>3 DEF Sending
<1>4. QED BY <1>1, <1>2, <1>3, StepMoves DEF Moves

\* The invariant of the outbox: what the tick is about to send is durable and
\* was never sent, and nothing that may not be sent again was sent twice.
THEOREM OutboxInvariant == Spec => []OutboxInv
  BY OutboxInit, OutboxStep, PTL DEF Spec

\* Whatever fails, the runtime's requests follow WinnerOutbox: durable before
\* the POST, and no second POST of an operation (winner_runtime.py, reserve).
THEOREM OutboxRefinement == Spec => OutboxSpec
<1>1. Init => Outbox!Init
  BY DEF Init, Outbox!Init, PostKeys
<1>2. ASSUME OutboxInv, [Next]_vars PROVE [Outbox!Next]_(Outbox!outbox)
  <2> USE KeyFacts DEF OutboxInv, Typed, Once, Durable, PostKeys, Kept, Outbox!outbox,
          Outbox!Next
  <2>1. CASE Quiet
    BY <2>1 DEF Quiet
  <2>2. CASE Reserving
    <3>1. PICK k \in OpKeys : /\ ops' = [ops EXCEPT ![k] = "RESERVED"] /\ posts' = posts
                              /\ ops[k] = "none" \/ k \notin PostKeys
      BY <2>2 DEF Reserving
    <3>2. CASE k \in PostKeys
      BY <3>1, <3>2 DEF Outbox!Reserve
    <3>3. CASE k \notin PostKeys
      BY <3>1, <3>3
    <3>4. QED BY <3>2, <3>3
  <2>3. CASE Sending
    <3>1. CASE req \in PostKeys
      <4> DEFINE count == [k \in PostKeys |-> posts[k]]
      <4>1. PICK k \in PostKeys : k = req
        BY <3>1
      <4>2. posts[k] = 0 /\ ops[k] # "none"
        BY <1>2, <2>3, <4>1 DEF Sending
      <4>3. posts' = [posts EXCEPT ![k] = 1]
        BY <2>3, <4>1, <4>2 DEF Sending
      <4>4. count' = [count EXCEPT ![k] = 1]
        BY <1>2, <4>3
      <4>5. UNCHANGED {j \in PostKeys : ops[j] # "none"}
        BY <2>3 DEF Sending
      <4>6. Outbox!Send(k)
        BY <4>2, <4>4, <4>5 DEF Outbox!Send
      <4>7. QED BY <4>6
    <3>2. CASE req \notin PostKeys
      BY <2>3, <3>2 DEF Sending
    <3>3. QED BY <3>1, <3>2
  <2>4. QED BY <1>2, <2>1, <2>2, <2>3, StepMoves DEF Moves
<1>3. QED
  BY <1>1, <1>2, OutboxInvariant, PTL DEF Spec, OutboxSpec, Outbox!Spec

-----------------------------------------------------------------------------
LotNames(i) == LotKeys(i) \cup {Rearm(i)}

\* The identifiers by their action's name.
LEMMA Families ==
  /\ \A k \in BuyKeys : k \in OpKeys /\ k \in Keys /\ k[1] \in {"ENTRY", "ADD"}
  /\ Entry[1] = "ENTRY" /\ AddOn[1] = "ADD" /\ Exit[1] = "EXIT" /\ NoKey[1] = "NONE"
  /\ Exit \in OpKeys /\ Exit \in Keys /\ NoKey \notin Keys
  /\ \A k \in EmergencyKeys : k \in OpKeys /\ k \in Keys /\ k[1] = "EMERGENCY_STOP"
  /\ \A i \in LotIx :
       /\ Protect(i) \in OpKeys /\ Protect(i) \in Keys
       /\ Protect(i)[1] = "PROTECT" /\ Protect(i)[2] = i
       /\ Rearm(i) \in OpKeys /\ Rearm(i) \in Keys
       /\ Rearm(i)[1] = "REARM" /\ Rearm(i)[2] = i
       /\ StopLeg(i) \in Keys /\ StopLeg(i)[1] = "LEG" /\ StopLeg(i)[2] = i
  /\ \A i \in LotIx, l \in 2 .. MaxStop :
       /\ Tighten(i, l) \in TightenKeys /\ Tighten(i, l) \in OpKeys /\ Tighten(i, l) \in Keys
       /\ Tighten(i, l)[1] = "TIGHTEN" /\ Tighten(i, l)[2] = i /\ Tighten(i, l)[3] = l
  /\ \A k \in TightenKeys : k \in OpKeys /\ k[1] = "TIGHTEN"
<1>1. Entry \in Keys /\ AddOn \in Keys /\ Exit \in Keys
  BY DEF Keys, OpKeys, BuyKeys
<1>2. Entry[1] = "ENTRY" /\ AddOn[1] = "ADD" /\ Exit[1] = "EXIT" /\ NoKey[1] = "NONE"
  BY DEF Entry, AddOn, Exit, NoKey
<1>3. \A k \in EmergencyKeys : k \in OpKeys /\ k[1] = "EMERGENCY_STOP"
  BY DEF EmergencyKeys, Emergency, OpKeys
<1>4. \A i \in LotIx : /\ Protect(i) \in OpKeys /\ Rearm(i) \in OpKeys /\ StopLeg(i) \in Keys
                       /\ Protect(i)[1] = "PROTECT" /\ Protect(i)[2] = i
                       /\ Rearm(i)[1] = "REARM" /\ Rearm(i)[2] = i
                       /\ StopLeg(i)[1] = "LEG" /\ StopLeg(i)[2] = i
  BY DEF Protect, Rearm, StopLeg, OpKeys, Keys
<1>5. \A i \in LotIx, l \in 2 .. MaxStop :
       /\ Tighten(i, l) \in TightenKeys
       /\ Tighten(i, l)[1] = "TIGHTEN" /\ Tighten(i, l)[2] = i /\ Tighten(i, l)[3] = l
  BY DEF TightenKeys, Tighten
<1>6. \A k \in TightenKeys : k \in OpKeys /\ k[1] = "TIGHTEN"
  BY DEF TightenKeys, Tighten, OpKeys
<1>7. OpKeys \subseteq Keys
  BY DEF Keys
<1>8. \A k \in Keys : k[1] # "NONE"
  <2>1. \A k \in BuyKeys : k[1] # "NONE"
    BY <1>2 DEF BuyKeys
  <2> QED BY <2>1, <1>2, <1>3, <1>4, <1>6 DEF Keys, OpKeys
<1>9. \A k \in BuyKeys : k \in OpKeys /\ k[1] \in {"ENTRY", "ADD"}
  BY <1>2 DEF BuyKeys, OpKeys
<1>10. Exit \in OpKeys
  BY DEF OpKeys
<1> QED BY <1>9, <1>10, <1>1, <1>2, <1>3, <1>4, <1>5, <1>6, <1>7, <1>8

\* Every operation is of one of six kinds.
LEMMA OpKinds ==
  \A k \in OpKeys : \/ k \in BuyKeys \/ k = Exit \/ k \in EmergencyKeys
                    \/ \E i \in LotIx : k = Protect(i) \/ k = Rearm(i)
                    \/ \E i \in LotIx, l \in 2 .. MaxStop : k = Tighten(i, l)
  BY DEF OpKeys, TightenKeys

\* The orders on the shares of a lot, by number of lot.
LEMMA LotKeyFacts ==
  \A i \in LotIx :
    /\ LotKeys(i) \subseteq SellKeys /\ LotNames(i) \subseteq SellKeys
    /\ Exit \notin LotNames(i) /\ NoKey \notin LotNames(i)
    /\ \A k \in LotNames(i) : k[2] = i /\ k[1] \in {"PROTECT", "LEG", "TIGHTEN", "REARM"}
    /\ \A k \in LotKeys(i) : k[2] = i /\ k[1] \in {"PROTECT", "LEG", "TIGHTEN"}
    /\ Protect(i) \in LotKeys(i) /\ StopLeg(i) \in LotKeys(i) /\ Rearm(i) \in LotNames(i)
    /\ \A l \in 2 .. MaxStop : Tighten(i, l) \in LotKeys(i)
  BY Families DEF LotKeys, LotNames, SellKeys

\* The other orders on the same shares.
LEMMA SiblingFacts ==
  /\ \A i \in LotIx : \A k \in LotKeys(i) : Siblings(k) = LotKeys(i) \ {k}
  /\ \A k : (\A i \in LotIx : k \notin LotKeys(i)) => Siblings(k) = {}
  /\ \A k : k \notin Siblings(k)
  BY LotKeyFacts DEF Siblings

\* There are finitely many identifiers, whatever the target and the stop levels.
LEMMA KeysFinite == IsFiniteSet(Keys) /\ IsFiniteSet(SellKeys)
<1> DEFINE Tags == {"ENTRY", "ADD", "EXIT", "PROTECT", "LEG", "TIGHTEN", "REARM", "EMERGENCY_STOP"}
           Pairs == (0 .. FullQty) \X (0 .. MaxStop)
           From == Tags \X Pairs
           All == {<<x[1], x[2][1], x[2][2]>> : x \in From}
           f == [x \in From |-> <<x[1], x[2][1], x[2][2]>>]
<1>1. IsFiniteSet(Tags)
  <2> DEFINE A(x) == {x}
             B == {"ENTRY", "ADD"} \cup {"EXIT", "PROTECT"}
             C == {"LEG", "TIGHTEN"} \cup {"REARM", "EMERGENCY_STOP"}
  <2>1. \A x, y : {x, y} = {x} \cup {y}
    OBVIOUS
  <2>2. \A x, y : IsFiniteSet({x, y})
    <3> TAKE x, y
    <3>1. IsFiniteSet({x}) /\ IsFiniteSet({y})
      BY FS_Singleton
    <3>2. IsFiniteSet({x} \cup {y})
      BY <3>1, FS_Union
    <3> QED BY <2>1, <3>2
  <2>3. IsFiniteSet(B) /\ IsFiniteSet(C)
    BY <2>2, FS_Union
  <2>4. Tags = B \cup C
    BY Zenon
  <2> HIDE DEF B, C, Tags
  <2> QED BY <2>3, <2>4, FS_Union
<1>2. IsFiniteSet(0 .. FullQty) /\ IsFiniteSet(0 .. MaxStop)
  BY FS_Interval, ConstantsAssumption
<1>3. IsFiniteSet(From)
  BY <1>1, <1>2, FS_Product
<1>4. f \in Surjection(From, All)
  BY DEF Surjection
<1>5. IsFiniteSet(All)
  <2> HIDE DEF All, From, f
  <2> QED BY <1>3, <1>4, FS_Surjection
<1>6. \A a \in Tags, b \in 0 .. FullQty, c \in 0 .. MaxStop : <<a, b, c>> \in All
  <2> TAKE a \in Tags, b \in 0 .. FullQty, c \in 0 .. MaxStop
  <2>1. <<a, <<b, c>>>> \in From
    OBVIOUS
  <2> QED BY <2>1
<1> HIDE DEF All, Tags
<1>7. Keys \subseteq All
  <2>1. MaxStop >= 1 /\ MaxStop \in Nat /\ FullQty \in Nat /\ 0 \in 0 .. FullQty /\ 0 \in 0 .. MaxStop /\ 1 \in 0 .. MaxStop
    BY ConstantsAssumption
  <2>2. Entry \in All /\ AddOn \in All /\ Exit \in All
    BY <1>6, <2>1 DEF Entry, AddOn, Exit, Tags
  <2>3. \A i \in LotIx : i \in 0 .. FullQty
    BY <2>1 DEF LotIx
  <2>4. \A i \in LotIx : Protect(i) \in All /\ Rearm(i) \in All /\ StopLeg(i) \in All
    BY <1>6, <2>1, <2>3 DEF Protect, Rearm, StopLeg, Tags
  <2>5. \A i \in LotIx, l \in 2 .. MaxStop : Tighten(i, l) \in All
    <3>1. \A l \in 2 .. MaxStop : l \in 0 .. MaxStop
      BY <2>1
    <3> QED BY <1>6, <2>3, <3>1 DEF Tighten, Tags
  <2>6. \A k \in BuyKeys, q \in LotIx : Emergency(k, q) \in All
    BY <1>6, <2>1, <2>3 DEF Emergency, Tags
  <2> QED BY <2>2, <2>4, <2>5, <2>6 DEF Keys, OpKeys, BuyKeys, EmergencyKeys, TightenKeys
<1>8. SellKeys \subseteq Keys
  BY DEF SellKeys
<1> QED BY <1>5, <1>7, <1>8, FS_Subset

-----------------------------------------------------------------------------
\* The books of a lot: what was bought, less what each order sold of it.
GoodLot(o, i, lot) ==
  /\ lot \in Lot /\ lot.qty > 0 /\ lot.rem <= lot.qty
  /\ lot.stopId \in LotNames(i) \cup {NoKey} /\ lot.tpId \in {Protect(i), NoKey}
  /\ lot.stopId = NoKey => lot.tpId = NoKey
  /\ \A k \in SellKeys \ {Exit} : lot.seen[k] <= o[k].filled
  /\ \A k \in SellKeys : lot.seen[k] # 0 => k \in LotNames(i) \cup {Exit}
  /\ lot.qty - lot.rem = SumFunctionOnSet(lot.seen, SellKeys)

\* A sale seen: the lot has lost what the order sold since.
LEMMA SaleGood ==
  ASSUME NEW o, o \in [Keys -> Order], NEW i \in LotIx, NEW lot, GoodLot(o, i, lot),
         NEW k \in LotNames(i) \cup {NoKey}, SaleOk(o, lot, k)
  PROVE  LET new == SaleOf(o, lot, k) IN
         /\ GoodLot(o, i, new)
         /\ new.parent = lot.parent /\ new.qty = lot.qty /\ new.seen[Exit] = lot.seen[Exit]
         /\ new.stopId = lot.stopId /\ new.tpId = lot.tpId /\ new.stop = lot.stop
         /\ new.rem <= lot.rem
<1>1. CASE k = NoKey
  BY <1>1 DEF SaleOf, GoodLot, Lot
<1>2. CASE k # NoKey
  <2> DEFINE d == o[k].filled - lot.seen[k]
             new == [lot EXCEPT !.rem = @ - d, !.seen[k] = o[k].filled]
  <2>1. k \in SellKeys /\ k # Exit /\ k \in LotNames(i) /\ k \in Keys
    BY <1>2, LotKeyFacts DEF SellKeys
  <2>2. lot \in Lot /\ o[k].filled \in Nat /\ lot.rem \in Nat /\ lot.qty \in Nat
          /\ lot.seen \in [SellKeys -> Nat] /\ lot.seen[k] \in Nat
    BY <2>1 DEF GoodLot, Lot, Order
  <2>3. SaleOf(o, lot, k) = new /\ d \in 0 .. lot.rem
    BY <1>2 DEF SaleOf, SaleOk, SaleDelta
  <2>4. new.seen = [lot.seen EXCEPT ![k] = o[k].filled] /\ new.rem = lot.rem - d /\ new.rem \in Nat
          /\ new.rem <= lot.rem
    BY <2>2, <2>3 DEF Lot
  <2>5. /\ new.parent = lot.parent /\ new.qty = lot.qty
        /\ new.stopId = lot.stopId /\ new.tpId = lot.tpId /\ new.stop = lot.stop
    BY <2>2 DEF Lot
  <2>6. new \in Lot
    BY <2>1, <2>2, <2>4 DEF Lot
  <2> HIDE DEF new
  <2>7. new.seen \in [SellKeys -> Nat] /\ new.seen[k] = o[k].filled
        /\ \A x \in SellKeys \ {k} : new.seen[x] = lot.seen[x]
    BY <2>1, <2>2, <2>4
  <2>8. SumFunctionOnSet(new.seen, SellKeys)
          = SumFunctionOnSet(lot.seen, SellKeys) + new.seen[k] - lot.seen[k]
    <3>1. \A x \in SellKeys : lot.seen[x] \in Int /\ new.seen[x] \in Int
      BY <2>2, <2>7
    <3> QED BY <3>1, <2>1, <2>7, KeysFinite, SumChange
  <2>9. SumFunctionOnSet(lot.seen, SellKeys) = lot.qty - lot.rem
    BY DEF GoodLot
  <2>10. new.qty - new.rem = SumFunctionOnSet(new.seen, SellKeys)
    BY <2>2, <2>4, <2>5, <2>7, <2>8, <2>9
  <2>11. GoodLot(o, i, new)
    <3>1. \A x \in SellKeys \ {Exit} : new.seen[x] <= o[x].filled
      BY <2>1, <2>2, <2>7 DEF GoodLot
    <3>2. \A x \in SellKeys : new.seen[x] # 0 => x \in LotNames(i) \cup {Exit}
      BY <2>1, <2>7 DEF GoodLot
    <3>3. new.qty > 0 /\ new.rem <= new.qty
      BY <2>2, <2>4, <2>5 DEF GoodLot
    <3> QED BY <2>5, <2>6, <2>10, <3>1, <3>2, <3>3 DEF GoodLot
  <2>12. Exit \in SellKeys
    BY Families DEF SellKeys, BuyKeys
  <2> QED BY <2>1, <2>3, <2>4, <2>5, <2>7, <2>11, <2>12
<1> QED BY <1>1, <1>2

\* A new lot has sold nothing.
LEMMA NewLotGood ==
  ASSUME NEW o, o \in [Keys -> Order], NEW i, NEW k \in BuyKeys, NEW q \in Nat \ {0}
  PROVE  GoodLot(o, i, NewLot(k, q))
<1> DEFINE lot == NewLot(k, q)
<1>1. /\ lot.seen = [s \in SellKeys |-> 0] /\ lot.qty = q /\ lot.rem = q /\ lot.stop = 1
      /\ lot.stopId = NoKey /\ lot.tpId = NoKey /\ lot.parent = k
  BY DEF NewLot
<1>2. lot \in Lot
  BY ConstantsAssumption DEF NewLot, Lot
<1>3. SumFunctionOnSet(lot.seen, SellKeys) = 0
  BY <1>1, KeysFinite, SumZero
<1>4. \A x \in SellKeys : o[x].filled \in Nat
  BY DEF SellKeys, Order
<1> HIDE DEF lot
<1>5. GoodLot(o, i, lot)
  BY <1>1, <1>2, <1>3, <1>4 DEF GoodLot
<1> QED BY <1>5 DEF lot

\* A lot whose protection is another one.
WithStop(lot, s, t, l) == [lot EXCEPT !.stopId = s, !.tpId = t, !.stop = l]

\* Another stop leaves the books of a lot alone.
LEMMA StopGood ==
  ASSUME NEW o, NEW i \in LotIx, NEW lot, GoodLot(o, i, lot),
         NEW s \in LotNames(i), NEW t \in {Protect(i), NoKey}, NEW l \in 1 .. MaxStop
  PROVE  LET new == WithStop(lot, s, t, l) IN
         /\ GoodLot(o, i, new) /\ new.parent = lot.parent /\ new.qty = lot.qty
         /\ new.rem = lot.rem /\ new.seen = lot.seen
         /\ new.stopId = s /\ new.tpId = t /\ new.stop = l
<1> DEFINE new == WithStop(lot, s, t, l)
<1>1. s \in SellKeys /\ t \in SellKeys \cup {NoKey} /\ s # NoKey
  BY LotKeyFacts
<1>2. lot \in Lot
  BY DEF GoodLot
<1>3. /\ new \in Lot /\ new.parent = lot.parent /\ new.qty = lot.qty
      /\ new.rem = lot.rem /\ new.seen = lot.seen
      /\ new.stopId = s /\ new.tpId = t /\ new.stop = l
  BY <1>1, <1>2 DEF Lot, WithStop
<1> QED BY <1>1, <1>3 DEF GoodLot

\* More fills at the broker leave the books of a lot alone.
LEMMA GrowGood ==
  ASSUME NEW o, NEW p, o \in [Keys -> Order], p \in [Keys -> Order],
         \A k \in Keys : o[k].filled <= p[k].filled, NEW i, NEW lot, GoodLot(o, i, lot)
  PROVE  GoodLot(p, i, lot)
<1>1. \A k \in SellKeys \ {Exit} : lot.seen[k] <= p[k].filled
  <2> TAKE k \in SellKeys \ {Exit}
  <2>1. k \in Keys /\ lot.seen[k] \in Nat /\ o[k].filled \in Nat /\ p[k].filled \in Nat
    BY DEF SellKeys, GoodLot, Lot, Order
  <2>2. lot.seen[k] <= o[k].filled /\ o[k].filled <= p[k].filled
    BY <2>1 DEF GoodLot
  <2> QED BY <2>1, <2>2
<1> QED BY <1>1 DEF GoodLot

-----------------------------------------------------------------------------
\* The sum over the lots, one lot after the other.
LEMMA UpToNext ==
  ASSUME NEW n \in Nat, NEW f, \A j \in 1 .. (n + 1) : f[j] \in Int
  PROVE  SumFunctionOnSet(f, 1 .. (n + 1)) = SumFunctionOnSet(f, 1 .. n) + f[n + 1]
<1>1. IsFiniteSet(1 .. n) /\ n + 1 \notin 1 .. n /\ 1 .. (n + 1) = (1 .. n) \cup {n + 1}
  BY FS_Interval
<1> DEFINE U == 1 .. n
           y == n + 1
<1>2. IsFiniteSet(U) /\ y \notin U /\ \A x \in U \cup {y} : f[x] \in Int
  BY <1>1
<1>3. SumFunctionOnSet(f, U \cup {y}) = SumFunctionOnSet(f, U) + f[y]
  <2> HIDE DEF U, y
  <2> QED BY <1>2, SumAdd
<1> QED BY <1>1, <1>3

\* Positive numbers add up to at least as much as there are of them.
LEMMA SumOfOnes ==
  ASSUME NEW n \in Nat, NEW f, \A j \in 1 .. n : f[j] \in Nat \ {0}
  PROVE  n <= SumFunctionOnSet(f, 1 .. n)
<1> DEFINE T == {m \in Nat : m <= n => m <= SumFunctionOnSet(f, 1 .. m)}
<1>1. 0 \in T
  <2>1. 1 .. 0 = {}
    OBVIOUS
  <2> QED BY <2>1, SumEmpty
<1>2. ASSUME NEW m \in Nat, m \in T PROVE m + 1 \in T
  <2> SUFFICES ASSUME m + 1 <= n PROVE m + 1 <= SumFunctionOnSet(f, 1 .. (m + 1))
    OBVIOUS
  <2>1. m <= SumFunctionOnSet(f, 1 .. m) /\ f[m + 1] \in Nat \ {0}
    BY <1>2
  <2>2. SumFunctionOnSet(f, 1 .. (m + 1)) = SumFunctionOnSet(f, 1 .. m) + f[m + 1]
    <3>1. \A j \in 1 .. (m + 1) : f[j] \in Int
      OBVIOUS
    <3> QED BY <3>1, UpToNext
  <2>3. SumFunctionOnSet(f, 1 .. m) \in Int
    <3>1. IsFiniteSet(1 .. m) /\ \A j \in 1 .. m : f[j] \in Int
      BY FS_Interval
    <3> QED BY <3>1, SumInt
  <2> QED BY <2>1, <2>2, <2>3
<1> HIDE DEF T
<1>3. Nat \subseteq T
  BY <1>1, <1>2, NatAll
<1> QED BY <1>3 DEF T

\* Spreading d over the shares r, in order, takes the smaller of d and the sum.
LEMMA SpreadSum ==
  ASSUME NEW n \in Nat, NEW r, NEW s, NEW d \in Nat, \A j \in 1 .. n : r[j] \in Nat,
         \A j \in 1 .. n : s[j] = LET b == SumFunctionOnSet(r, 1 .. (j - 1))
                                      e == IF d > b THEN d - b ELSE 0
                                  IN  IF r[j] < e THEN r[j] ELSE e
  PROVE  LET all == SumFunctionOnSet(r, 1 .. n)
         IN  SumFunctionOnSet(s, 1 .. n) = IF d < all THEN d ELSE all
<1> DEFINE R(m) == SumFunctionOnSet(r, 1 .. m)
           T == {m \in Nat : m <= n => SumFunctionOnSet(s, 1 .. m) = IF d < R(m) THEN d ELSE R(m)}
<1>0. ASSUME NEW m \in Nat, m <= n PROVE R(m) \in Nat
  <2>1. IsFiniteSet(1 .. m) /\ \A j \in 1 .. m : r[j] \in Nat
    BY <1>0, FS_Interval
  <2> QED BY <2>1, SumNat
<1>1. 0 \in T
  <2>1. 1 .. 0 = {}
    OBVIOUS
  <2> QED BY <2>1, SumEmpty
<1>2. ASSUME NEW m \in Nat, m \in T PROVE m + 1 \in T
  <2> SUFFICES ASSUME m + 1 <= n
               PROVE  SumFunctionOnSet(s, 1 .. (m + 1)) = IF d < R(m + 1) THEN d ELSE R(m + 1)
    OBVIOUS
  <2>1. SumFunctionOnSet(s, 1 .. m) = IF d < R(m) THEN d ELSE R(m)
    BY <1>2
  <2>2. R(m) \in Nat
    BY <1>0
  <2>3. \A j \in 1 .. (m + 1) : r[j] \in Nat /\ s[j] \in Nat
    <3> TAKE j \in 1 .. (m + 1)
    <3>1. R(j - 1) \in Nat /\ r[j] \in Nat
      BY <1>0
    <3> QED BY <3>1
  <2>4. R(m + 1) = R(m) + r[m + 1]
    BY <2>3, UpToNext
  <2>5. SumFunctionOnSet(s, 1 .. (m + 1)) = SumFunctionOnSet(s, 1 .. m) + s[m + 1]
    BY <2>3, UpToNext
  <2>6. s[m + 1] = LET e == IF d > R(m) THEN d - R(m) ELSE 0 IN IF r[m + 1] < e THEN r[m + 1] ELSE e
    <3>1. (m + 1) - 1 = m
      OBVIOUS
    <3> QED BY <3>1
  <2> HIDE DEF R
  <2> QED BY <2>1, <2>2, <2>3, <2>4, <2>5, <2>6
<1> HIDE DEF T
<1>3. Nat \subseteq T
  BY <1>1, <1>2, NatAll
<1> QED BY <1>3 DEF T

-----------------------------------------------------------------------------
\* The types of the books and of the tick in progress.
BookTypes ==
  /\ want \in [BuyKeys -> Nat] /\ booked \in [BuyKeys -> Nat] /\ exitBooked \in Nat
  /\ ord \in [Keys -> Order] /\ lots \in Seq(Lot) /\ DOMAIN lots \subseteq LotIx
TickTypes ==
  /\ status \in {"PENDING", "OPEN", "CLOSED", "EXPIRED"} /\ bare \subseteq BuyKeys
  /\ {refused, review, expired, due, off} \subseteq BOOLEAN
  /\ pc \in Places /\ stage \in Stages /\ cur \in Nat \ {0}
  /\ req \in OpKeys \cup {NoKey} /\ faults \in 0 .. MaxFaults

GoodLots == \A i \in DOMAIN lots : GoodLot(ord, i, lots[i])

\* Who is named for what: an operation on a lot has its lot.
LotOps == \A i \in LotIx :
  /\ ops[Protect(i)] # "none" \/ ops[Rearm(i)] # "none" => i \in DOMAIN lots
  /\ \A l \in 2 .. MaxStop : ops[Tighten(i, l)] # "none" => i \in DOMAIN lots /\ lots[i].stopId # NoKey

\* What the request is about.
Asked == pc = "post" =>
  /\ req \in BuyKeys => want[req] \in LotIx
  /\ \A i \in LotIx : req = Protect(i) => i \in DOMAIN lots /\ Held(i) /\ lots[i].stopId = NoKey
  /\ \A i \in LotIx, l \in 2 .. MaxStop : req = Tighten(i, l) =>
       /\ i \in DOMAIN lots /\ Held(i) /\ lots[i].stopId # NoKey /\ l > lots[i].stop
       /\ ops[Exit] = "none"
  /\ \A i \in LotIx : req = Rearm(i) => i \in DOMAIN lots /\ Held(i)
  /\ req = Exit => RemTotal(lots) > 0
  /\ \A k \in BuyKeys, q \in LotIx : req = Emergency(k, q) => q > booked[k]

\* The steps that give a lot another stop.
Restops == \/ \E i \in LotIx : ReconcileProtect(i) \/ ReconcileRearm(i)
           \/ \E i \in LotIx, l \in 2 .. MaxStop : ReconcileTighten(i, l)
           \/ AcceptProtect \/ AcceptTighten

\* What a step does to the lots.
Same == UNCHANGED <<lots, booked, exitBooked>>
Appends == \E k \in BuyKeys :
  /\ NewFill(k) # 0 /\ lots' = Append(lots, NewLot(k, NewFill(k)))
  /\ booked' = [booked EXCEPT ![k] = ord[k].filled]
  /\ UNCHANGED <<exitBooked, ord, want>>
Sells == \E i \in DOMAIN lots :
  /\ LET half == SaleOf(ord', lots[i], lots[i].stopId)
     IN  /\ SaleOk(ord', lots[i], lots[i].stopId)
         /\ \/ lots' = [lots EXCEPT ![i] = half]
            \/ SaleOk(ord', half, lots[i].tpId) /\ lots' = [lots EXCEPT ![i] = SaleOf(ord', half, lots[i].tpId)]
  /\ UNCHANGED <<booked, exitBooked, want>>
Stops == Restops /\ \E i \in DOMAIN lots, s \in SellKeys, t \in SellKeys \cup {NoKey}, l \in 1 .. MaxStop :
  /\ s \in LotNames(i) /\ t \in {Protect(i), NoKey}
  /\ lots' = [lots EXCEPT ![i] = [@ EXCEPT !.stopId = s, !.tpId = t, !.stop = l]]
  /\ UNCHANGED <<booked, exitBooked, want>>
Spreads ==
  /\ pc = "reconcile" /\ Exit \in todo
  /\ ord[Exit].filled - exitBooked \in 0 .. RemTotal(lots)
  /\ lots' = ExitSpread(ord[Exit].filled - exitBooked) /\ exitBooked' = ord[Exit].filled
  /\ UNCHANGED <<booked, want, ord>>
LotsMove == Same \/ Appends \/ Sells \/ Stops \/ Spreads

\* What a step does to the orders.
Cancels == \E k : ord' = Canceled(ord, k)
Fills == \E k \in Keys : BrokerFill(k)
Sends == pc = "post" /\ Sendable /\ ord' = Placed(req) /\ posts' = [posts EXCEPT ![req] = @ + 1]
OrdersMove == ord' = ord \/ Cancels \/ Fills \/ Sends

BaseInv == OutboxInv /\ BookTypes /\ TickTypes /\ GoodLots /\ LotOps /\ Asked

\* The fields of a lot have their types.
LEMMA LotFields ==
  ASSUME BookTypes, NEW i \in DOMAIN lots
  PROVE  /\ i \in LotIx /\ i \in 1 .. Len(lots) /\ Len(lots) \in Nat /\ lots[i] \in Lot
         /\ lots[i].qty \in Nat /\ lots[i].rem \in Nat /\ lots[i].stop \in 1 .. MaxStop
         /\ lots[i].stopId \in SellKeys \cup {NoKey} /\ lots[i].tpId \in SellKeys \cup {NoKey}
         /\ lots[i].seen \in [SellKeys -> Nat] /\ lots[i].parent \in BuyKeys
<1>1. lots \in Seq(Lot) /\ DOMAIN lots \subseteq LotIx
  BY DEF BookTypes
<1>2. lots[i] \in Lot /\ Len(lots) \in Nat /\ i \in 1 .. Len(lots) /\ i \in LotIx
  BY <1>1
<1> QED BY <1>2 DEF Lot

\* One field of one lot, in the form of Stops.
LEMMA StopsForm ==
  ASSUME BookTypes, NEW i \in DOMAIN lots, NEW s \in LotNames(i), NEW t \in {Protect(i), NoKey},
         NEW l \in 1 .. MaxStop
  PROVE  /\ [lots EXCEPT ![i].stopId = s, ![i].tpId = t, ![i].stop = l]
              = [lots EXCEPT ![i] = [@ EXCEPT !.stopId = s, !.tpId = t, !.stop = l]]
         /\ t = lots[i].tpId => [lots EXCEPT ![i].stopId = s, ![i].stop = l]
              = [lots EXCEPT ![i] = [@ EXCEPT !.stopId = s, !.tpId = t, !.stop = l]]
         /\ l = lots[i].stop => [lots EXCEPT ![i].stopId = s, ![i].tpId = t]
              = [lots EXCEPT ![i] = [@ EXCEPT !.stopId = s, !.tpId = t, !.stop = l]]
<1>1. lots[i] \in Lot
  BY DEF BookTypes
<1> QED BY <1>1 DEF BookTypes, Lot

\* Looking operations up books fills and attaches stops, and changes no order.
LEMMA ReconcileBooks ==
  ASSUME BaseInv, Reconcile
  PROVE  LotsMove /\ OrdersMove
<1> USE DEF BaseInv, LotsMove, OrdersMove, Same
<1>1. ASSUME NEW k \in OpKeys, ReconcileBare(k) PROVE LotsMove /\ OrdersMove
  BY <1>1 DEF ReconcileBare, saved
<1>2. ASSUME NEW k \in OpKeys, ReconcileMissing(k) PROVE LotsMove /\ OrdersMove
  BY <1>2 DEF ReconcileMissing
<1>3. ASSUME NEW k \in OpKeys, ReconcileEmergency(k) PROVE LotsMove /\ OrdersMove
  BY <1>3 DEF ReconcileEmergency, saved
<1>4. ASSUME NEW k \in BuyKeys, ReconcileBuy(k) PROVE LotsMove /\ OrdersMove
  BY <1>4 DEF ReconcileBuy, Appends
<1>5. ASSUME NEW i \in LotIx, ReconcileProtect(i) PROVE LotsMove /\ OrdersMove
  <2>1. i \in DOMAIN lots
    BY <1>5 DEF ReconcileProtect, Found, OutboxInv, Listed, LotOps
  <2> DEFINE s == IF TakeProfit THEN StopLeg(i) ELSE Protect(i)
             t == IF TakeProfit THEN Protect(i) ELSE NoKey
             l == lots[i].stop
  <2>2. s \in LotNames(i) /\ t \in {Protect(i), NoKey} /\ l \in 1 .. MaxStop
    <3>1. s \in LotNames(i)
      BY LotKeyFacts DEF LotNames
    <3> QED BY <2>1, <3>1, LotFields
  <2>3. lots' = [lots EXCEPT ![i].stopId = s, ![i].tpId = t]
    BY <1>5 DEF ReconcileProtect, Attached
  <2>4. UNCHANGED <<booked, exitBooked, want, ord>>
    BY <1>5 DEF ReconcileProtect
  <2>5. s \in SellKeys /\ t \in SellKeys \cup {NoKey}
    BY <2>2, LotKeyFacts
  <2> HIDE DEF s, t, l
  <2>6. lots' = [lots EXCEPT ![i] = [@ EXCEPT !.stopId = s, !.tpId = t, !.stop = l]]
    BY <2>1, <2>2, <2>3, StopsForm DEF l
  <2>7. Restops
    BY <1>5 DEF Restops
  <2> QED BY <2>1, <2>2, <2>4, <2>5, <2>6, <2>7 DEF Stops
<1>6. ASSUME NEW i \in LotIx, ReconcileRearm(i) PROVE LotsMove /\ OrdersMove
  <2>1. i \in DOMAIN lots
    BY <1>6 DEF ReconcileRearm, Found, OutboxInv, Listed, LotOps
  <2>2. UNCHANGED <<booked, exitBooked, want, ord>>
    BY <1>6 DEF ReconcileRearm
  <2>3. CASE UNCHANGED lots
    BY <2>2, <2>3
  <2>4. CASE lots' = [lots EXCEPT ![i].stopId = Rearm(i), ![i].tpId = NoKey]
    <3> DEFINE l == lots[i].stop
    <3>1. Rearm(i) \in LotNames(i) /\ Rearm(i) \in SellKeys /\ l \in 1 .. MaxStop
      BY <2>1, LotKeyFacts, LotFields
    <3>2. lots' = [lots EXCEPT ![i] = [@ EXCEPT !.stopId = Rearm(i), !.tpId = NoKey, !.stop = l]]
      BY <2>1, <2>4, <3>1, StopsForm
    <3> HIDE DEF l
    <3>3. Restops
      BY <1>6 DEF Restops
    <3> QED BY <2>1, <2>2, <3>1, <3>2, <3>3 DEF Stops
  <2> QED BY <1>6, <2>3, <2>4 DEF ReconcileRearm
<1>7. ASSUME NEW i \in LotIx, NEW l \in 2 .. MaxStop, ReconcileTighten(i, l)
      PROVE  LotsMove /\ OrdersMove
  <2>1. i \in DOMAIN lots
    BY <1>7 DEF ReconcileTighten, Found, OutboxInv, Listed, LotOps
  <2>2. UNCHANGED <<booked, exitBooked, want, ord>>
    BY <1>7 DEF ReconcileTighten
  <2>3. CASE UNCHANGED lots
    BY <2>2, <2>3
  <2>4. CASE lots' = [lots EXCEPT ![i].stopId = Tighten(i, l), ![i].stop = l]
    <3> DEFINE t == lots[i].tpId
               s == Tighten(i, l)
    <3>1. s \in LotNames(i) /\ s \in SellKeys /\ l \in 1 .. MaxStop
          /\ t \in {Protect(i), NoKey} /\ t \in SellKeys \cup {NoKey}
      BY <2>1, LotKeyFacts, LotFields, ConstantsAssumption DEF LotNames, GoodLots, GoodLot
    <3>2. lots' = [lots EXCEPT ![i] = [@ EXCEPT !.stopId = s, !.tpId = t, !.stop = l]]
      BY <2>1, <2>4, <3>1, StopsForm
    <3> HIDE DEF t, s
    <3>3. Restops
      BY <1>7 DEF Restops
    <3> QED BY <2>1, <2>2, <3>1, <3>2, <3>3 DEF Stops
  <2> QED BY <1>7, <2>3, <2>4 DEF ReconcileTighten
<1>8. ASSUME ReconcileExit PROVE LotsMove /\ OrdersMove
  BY <1>8 DEF ReconcileExit, Spreads, Found, At
<1>9. ASSUME ReconcileDone PROVE LotsMove /\ OrdersMove
  BY <1>9 DEF ReconcileDone
<1> QED BY <1>1, <1>2, <1>3, <1>4, <1>5, <1>6, <1>7, <1>8, <1>9 DEF Reconcile

-----------------------------------------------------------------------------
\* Rearming changes no lot and no order before its request.
LEMMA RearmBooks == ASSUME BaseInv, RearmFailedExit PROVE LotsMove /\ OrdersMove
<1> USE DEF BaseInv, LotsMove, OrdersMove, Same
<1>1. ASSUME RearmStart PROVE LotsMove /\ OrdersMove
  BY <1>1 DEF RearmStart, saved, local
<1>2. ASSUME RearmSkip PROVE LotsMove /\ OrdersMove
  BY <1>2 DEF RearmSkip, saved, local
<1>3. ASSUME RearmEnd PROVE LotsMove /\ OrdersMove
  BY <1>3 DEF RearmEnd, saved, local
<1>4. ASSUME NEW i \in LotIx, RearmReserve(i) PROVE LotsMove /\ OrdersMove
  BY <1>4 DEF RearmReserve
<1> QED BY <1>1, <1>2, <1>3, <1>4 DEF RearmFailedExit

\* protect() changes no lot and no order before its request.
LEMMA ProtectBooks == ASSUME BaseInv, ProtectLots PROVE LotsMove /\ OrdersMove
<1> USE DEF BaseInv, LotsMove, OrdersMove, Same
<1>1. ASSUME ProtectFrozen PROVE LotsMove /\ OrdersMove
  BY <1>1 DEF ProtectFrozen, saved, local
<1>2. ASSUME ProtectEnd PROVE LotsMove /\ OrdersMove
  BY <1>2 DEF ProtectEnd, saved, local
<1>3. ASSUME NEW i \in LotIx, ProtectReserve(i) PROVE LotsMove /\ OrdersMove
  BY <1>3 DEF ProtectReserve
<1> QED BY <1>1, <1>2, <1>3 DEF ProtectLots

\* What the standing protections sold is taken off the lot they stand for.
LEMMA ObserveBooks == ASSUME BaseInv, ReconcileLots PROVE LotsMove /\ OrdersMove
<1> USE DEF BaseInv, LotsMove, OrdersMove, Same
<1>1. ASSUME ObserveLot PROVE LotsMove /\ OrdersMove
  <2>1. cur \in DOMAIN lots
    BY <1>1 DEF ObserveLot, TickTypes, BookTypes
  <2>2. ord' = ord /\ UNCHANGED <<booked, exitBooked, want>>
    BY <1>1 DEF ObserveLot
  <2>3. CASE LegsOk(ord, lots[cur]) /\ lots' = [lots EXCEPT ![cur] = Observed(ord, lots[cur])]
    BY <2>1, <2>2, <2>3 DEF Sells, LegsOk, Observed
  <2> QED BY <1>1, <2>2, <2>3 DEF ObserveLot
<1>2. ASSUME ObserveEnd PROVE LotsMove /\ OrdersMove
  BY <1>2 DEF ObserveEnd, saved, local
<1> QED BY <1>1, <1>2 DEF ReconcileLots

\* Canceling the queued standard order changes that order only.
LEMMA StandardBooks == ASSUME BaseInv, StandardEntry PROVE LotsMove /\ OrdersMove
<1> USE DEF BaseInv, LotsMove, OrdersMove, Same
<1>1. ASSUME StandardCancel PROVE LotsMove /\ OrdersMove
  BY <1>1 DEF StandardCancel, Cancels, saved
<1>2. ASSUME StandardSkip PROVE LotsMove /\ OrdersMove
  BY <1>2 DEF StandardSkip, saved, local
<1> QED BY <1>1, <1>2 DEF StandardEntry

\* Waiting, releasing and turning to the exit change no lot and no order.
LEMMA GateBooks == ASSUME BaseInv, Gate PROVE LotsMove /\ OrdersMove
<1> USE DEF BaseInv, LotsMove, OrdersMove, Same
<1>1. ASSUME GatePending PROVE LotsMove /\ OrdersMove
  BY <1>1 DEF GatePending, saved, local
<1>2. ASSUME GateClosed PROVE LotsMove /\ OrdersMove
  BY <1>2 DEF GateClosed, saved, local
<1>3. ASSUME GateDeadline PROVE LotsMove /\ OrdersMove
  BY <1>3 DEF GateDeadline, saved, local
<1>4. ASSUME GateExpired PROVE LotsMove /\ OrdersMove
  BY <1>4 DEF GateExpired, saved, local
<1>5. ASSUME GateWait PROVE LotsMove /\ OrdersMove
  BY <1>5 DEF GateWait, saved, local
<1>6. ASSUME GateMarket PROVE LotsMove /\ OrdersMove
  BY <1>6 DEF GateMarket, saved, local
<1> QED BY <1>1, <1>2, <1>3, <1>4, <1>5, <1>6 DEF Gate

\* A cancel takes the orders of a lot down, and what they sold off the lot.
LEMMA DeadlineBooks == ASSUME BaseInv, Deadline PROVE LotsMove /\ OrdersMove
<1> USE DEF BaseInv, LotsMove, OrdersMove, Same
<1>1. ASSUME DeadlineSkip PROVE LotsMove /\ OrdersMove
  BY <1>1 DEF DeadlineSkip, saved, local
<1>2. ASSUME DeadlineCancel PROVE LotsMove /\ OrdersMove
  <2>1. cur \in DOMAIN lots
    BY <1>2 DEF DeadlineCancel, TickTypes, BookTypes
  <2>2. UNCHANGED <<booked, exitBooked, want>> /\ OrdersMove
    BY <1>2 DEF DeadlineCancel, CancelLegs, CancelUnconfirmed, Cancels
  <2>3. CASE UNCHANGED lots
    BY <2>2, <2>3
  <2>4. CASE CancelLegs(cur) /\ ~UNCHANGED lots
    BY <2>1, <2>2, <2>4 DEF CancelLegs, Sells, LegsOk, Observed
  <2> QED BY <1>2, <2>2, <2>3, <2>4 DEF DeadlineCancel, CancelUnconfirmed
<1>3. ASSUME DeadlineSell PROVE LotsMove /\ OrdersMove
  BY <1>3 DEF DeadlineSell, saved, local
<1> QED BY <1>1, <1>2, <1>3 DEF Deadline

\* Raising stops changes no lot and no order before its request.
LEMMA TightenBooks == ASSUME BaseInv, TightenStops PROVE LotsMove /\ OrdersMove
<1> USE DEF BaseInv, LotsMove, OrdersMove, Same
<1>1. ASSUME NEW i \in LotIx, NEW l \in 2 .. MaxStop, TightenReserve(i, l)
     PROVE  LotsMove /\ OrdersMove
  BY <1>1 DEF TightenReserve
<1>2. ASSUME TightenNext PROVE LotsMove /\ OrdersMove
  BY <1>2 DEF TightenNext, saved, local
<1>3. ASSUME TightenEnd PROVE LotsMove /\ OrdersMove
  BY <1>3 DEF TightenEnd, saved, local
<1> QED BY <1>1, <1>2, <1>3 DEF TightenStops

\* A buy changes no lot and no order before its request.
LEMMA BuyBooked == ASSUME BaseInv, Buy PROVE LotsMove /\ OrdersMove
<1> USE DEF BaseInv, LotsMove, OrdersMove, Same
<1>1. ASSUME BuyClosed PROVE LotsMove /\ OrdersMove
  BY <1>1 DEF BuyClosed, saved, local
<1>2. ASSUME BuyNothing PROVE LotsMove /\ OrdersMove
  BY <1>2 DEF BuyNothing, saved, local
<1>3. ASSUME BuyAttach PROVE LotsMove /\ OrdersMove
  BY <1>3 DEF BuyAttach, saved, local
<1>4. ASSUME NEW k \in BuyKeys, NEW q \in LotIx, BuyReserve(k, q) PROVE LotsMove /\ OrdersMove
  BY <1>4 DEF BuyReserve
<1> QED BY <1>1, <1>2, <1>3, <1>4 DEF Buy

\* An accepted request places its order; a protection or a raised stop is then the lot's.
LEMMA AcceptBooks == ASSUME BaseInv, Accept PROVE LotsMove /\ OrdersMove
<1> USE DEF BaseInv, LotsMove, OrdersMove, Same
<1>1. ASSUME AcceptBuy PROVE LotsMove /\ OrdersMove
  BY <1>1, Families DEF AcceptBuy, Posting, Sends, Sendable, Action, At
<1>2. ASSUME AcceptProtect PROVE LotsMove /\ OrdersMove
  <2>1. PICK i \in LotIx : req = Protect(i)
    BY <1>2, OpKinds, Families DEF AcceptProtect, Posting, Action, At, OutboxInv, Durable,
       BuyKeys
  <2>2. i \in DOMAIN lots /\ req[2] = i
    BY <1>2, <2>1, Families DEF AcceptProtect, Posting, At, Asked
  <2> DEFINE s == IF TakeProfit THEN StopLeg(i) ELSE Protect(i)
             t == IF TakeProfit THEN Protect(i) ELSE NoKey
             l == lots[i].stop
  <2>3. s \in LotNames(i) /\ t \in {Protect(i), NoKey} /\ l \in 1 .. MaxStop
    <3>1. s \in LotNames(i)
      BY LotKeyFacts DEF LotNames
    <3> QED BY <2>2, <3>1, LotFields
  <2>4. lots' = [lots EXCEPT ![i].stopId = s, ![i].tpId = t]
    BY <1>2, <2>2 DEF AcceptProtect, Attached
  <2>5. UNCHANGED <<booked, exitBooked, want>>
    BY <1>2 DEF AcceptProtect
  <2>6. s \in SellKeys /\ t \in SellKeys \cup {NoKey}
    BY <2>3, LotKeyFacts
  <2>7. OrdersMove
    BY <1>2 DEF AcceptProtect, Posting, Sends, Sendable, At
  <2> HIDE DEF s, t, l
  <2>8. lots' = [lots EXCEPT ![i] = [@ EXCEPT !.stopId = s, !.tpId = t, !.stop = l]]
    <3>1. BookTypes /\ i \in DOMAIN lots
      BY <2>2
    <3> HIDE DEF BaseInv, LotsMove, OrdersMove, Same
    <3> QED BY <2>3, <2>4, <3>1, StopsForm DEF l
  <2>9. Restops
    BY <1>2 DEF Restops
  <2> QED BY <2>2, <2>3, <2>5, <2>6, <2>7, <2>8, <2>9 DEF Stops
<1>3. ASSUME AcceptTighten PROVE LotsMove /\ OrdersMove
  <2>1. PICK i \in LotIx, l \in 2 .. MaxStop : req = Tighten(i, l)
    BY <1>3, OpKinds, Families DEF AcceptTighten, Posting, Action, At, OutboxInv, Durable,
       BuyKeys
  <2>2. i \in DOMAIN lots /\ req[2] = i /\ req[3] = l
    BY <1>3, <2>1, Families DEF AcceptTighten, Posting, At, Asked
  <2> DEFINE t == lots[i].tpId
             s == Tighten(i, l)
  <2>3. /\ s \in LotNames(i) /\ s \in SellKeys /\ l \in 1 .. MaxStop
        /\ t \in {Protect(i), NoKey} /\ t \in SellKeys \cup {NoKey}
    BY <2>2, LotKeyFacts, LotFields, ConstantsAssumption DEF LotNames, GoodLots, GoodLot
  <2>4. lots' = [lots EXCEPT ![i].stopId = s, ![i].stop = l]
    BY <1>3, <2>1, <2>2 DEF AcceptTighten
  <2>5. UNCHANGED <<booked, exitBooked, want>>
    BY <1>3 DEF AcceptTighten
  <2>6. OrdersMove
    BY <1>3 DEF AcceptTighten, Posting, Sends, Sendable, At
  <2>7. lots' = [lots EXCEPT ![i] = [@ EXCEPT !.stopId = s, !.tpId = t, !.stop = l]]
    <3>1. BookTypes /\ i \in DOMAIN lots
      BY <2>2
    <3> HIDE DEF BaseInv, LotsMove, OrdersMove, Same
    <3> QED BY <2>3, <2>4, <3>1, StopsForm
  <2> HIDE DEF s, t
  <2>8. Restops
    BY <1>3 DEF Restops
  <2> QED BY <2>2, <2>3, <2>5, <2>6, <2>7, <2>8 DEF Stops
<1>4. ASSUME TightenRefused PROVE LotsMove /\ OrdersMove
  BY <1>4 DEF TightenRefused, saved, local
<1>5. ASSUME AcceptRearm PROVE LotsMove /\ OrdersMove
  BY <1>5, Families DEF AcceptRearm, Posting, Sends, Sendable, Action, At
<1>6. ASSUME AcceptExit PROVE LotsMove /\ OrdersMove
  BY <1>6, Families DEF AcceptExit, Posting, Sends, Sendable, Action, At
<1>7. ASSUME AcceptEmergency PROVE LotsMove /\ OrdersMove
  BY <1>7, Families DEF AcceptEmergency, Posting, Sends, Sendable, Action, At
<1> QED BY <1>1, <1>2, <1>3, <1>4, <1>5, <1>6, <1>7 DEF Accept

\* A failure changes no lot; a lost answer places its order.
LEMMA FailureBooks == ASSUME BaseInv, Failure PROVE LotsMove /\ OrdersMove
<1> USE DEF BaseInv, LotsMove, OrdersMove, Same
<1>1. ASSUME NEW k \in BuyKeys, NEW q \in LotIx, ReceiptMissing(k, q)
     PROVE  LotsMove /\ OrdersMove
  BY <1>1 DEF ReceiptMissing
<1>2. ASSUME AnswerLost PROVE LotsMove /\ OrdersMove
  BY <1>2 DEF AnswerLost, Posting, Sends, At, saved
<1>3. ASSUME Undelivered PROVE LotsMove /\ OrdersMove
  BY <1>3 DEF Undelivered, saved
<1>4. ASSUME Rejected PROVE LotsMove /\ OrdersMove
  BY <1>4 DEF Rejected
<1>5. ASSUME Crash PROVE LotsMove /\ OrdersMove
  BY <1>5 DEF Crash, saved
<1>6. ASSUME NEW k \in SellKeys \ {Exit}, BrokerCancel(k) PROVE LotsMove /\ OrdersMove
  BY <1>6 DEF BrokerCancel, Cancels, saved
<1> QED BY <1>1, <1>2, <1>3, <1>4, <1>5, <1>6 DEF Failure

\* The market changes orders and no lot.
LEMMA MarketBooks == ASSUME BaseInv, Market PROVE LotsMove /\ OrdersMove
<1> USE DEF BaseInv, LotsMove, OrdersMove, Same
<1>1. ASSUME NEW k \in Keys, BrokerFill(k) PROVE LotsMove /\ OrdersMove
  <2>1. Fills
    BY <1>1 DEF Fills
  <2> QED BY <1>1, <2>1 DEF BrokerFill, saved
<1>2. ASSUME NEW k \in Keys, BrokerTerminate(k) PROVE LotsMove /\ OrdersMove
  BY <1>2 DEF BrokerTerminate, Cancels, saved
<1>3. ASSUME Expire PROVE LotsMove /\ OrdersMove
  BY <1>3 DEF Expire, saved, local
<1>4. ASSUME DueArrives PROVE LotsMove /\ OrdersMove
  BY <1>4 DEF DueArrives, saved, local
<1>5. ASSUME SwitchOff PROVE LotsMove /\ OrdersMove
  BY <1>5 DEF SwitchOff, saved, local
<1> QED BY <1>1, <1>2, <1>3, <1>4, <1>5 DEF Market

\* Every step changes lots and orders in one of these ways.
LEMMA StepBooks == ASSUME BaseInv, [Next]_vars PROVE LotsMove /\ OrdersMove
<1>1. CASE TickStart
  BY <1>1 DEF TickStart, saved, LotsMove, OrdersMove, Same
<1>2. CASE Tick
  BY <1>2, ReconcileBooks, RearmBooks, ProtectBooks, ObserveBooks, StandardBooks, GateBooks,
     DeadlineBooks, TightenBooks, BuyBooked, AcceptBooks DEF Tick
<1>3. CASE Failure
  BY <1>3, FailureBooks
<1>4. CASE Market
  BY <1>4, MarketBooks
<1>5. CASE UNCHANGED vars
  BY <1>5 DEF vars, saved, LotsMove, OrdersMove, Same
<1> QED BY <1>1, <1>2, <1>3, <1>4, <1>5 DEF Next

-----------------------------------------------------------------------------
\* Orders that work have shares left, the same for all that work on a lot.
Left(k) == ord[k].qty - ord[k].filled
Working == \A k \in Keys : Live(ord, k) => ord[k].filled < ord[k].qty
Paired == \A i \in LotIx : \A k, x \in LotKeys(i) : Live(ord, k) /\ Live(ord, x) => Left(k) = Left(x)

\* No order precedes its request.
Fresh ==
  /\ \A k \in PostKeys : posts[k] = 0 => ord[k] = NoOrder
  /\ \A k \in TightenKeys : ops[k] = "none" => ord[k] = NoOrder
  /\ \A i \in LotIx : posts[Protect(i)] = 0 => ord[StopLeg(i)] = NoOrder

\* What is about to be placed is not there yet.
Unplaced == pc = "post" /\ Sendable =>
  /\ ord[req] = NoOrder
  /\ \A i \in LotIx : req = Protect(i) => \A k \in LotKeys(i) : ord[k] = NoOrder
  /\ \A i \in LotIx, l \in 2 .. MaxStop : req = Tighten(i, l) => lots[i].stopId \in LotKeys(i)

OrdersInv == Working /\ Paired /\ Fresh

NewOrder(q) == [st |-> "live", qty |-> q, filled |-> 0]

\* The fields of an order have their types.
LEMMA OrderFields ==
  ASSUME BookTypes, NEW k \in Keys
  PROVE  /\ ord[k] \in Order /\ ord[k].qty \in Nat /\ ord[k].filled \in Nat
         /\ ord[k].st \in OrderStatus
  BY DEF BookTypes, Order

\* The shares still held are a number.
LEMMA RemNat ==
  ASSUME BookTypes
  PROVE  RemTotal(lots) \in Nat
<1> DEFINE f == [i \in DOMAIN lots |-> lots[i].rem]
<1>1. IsFiniteSet(DOMAIN lots)
  <2>1. DOMAIN lots = 1 .. Len(lots) /\ Len(lots) \in Nat
    BY DEF BookTypes
  <2> QED BY <2>1, FS_Interval
<1>2. \A i \in DOMAIN lots : f[i] \in Nat
  BY LotFields
<1>3. DOMAIN f = DOMAIN lots
  OBVIOUS
<1>4. RemTotal(lots) = SumFunctionOnSet(f, DOMAIN f)
  BY DEF RemTotal, SumFunction
<1> HIDE DEF f
<1> QED BY <1>1, <1>2, <1>3, <1>4, SumNat

\* The shares of a new order: there are some.
LEMMA QuantityIs ==
  ASSUME BaseInv, Working, pc = "post", Sendable
  PROVE  /\ req \in OpKeys /\ Quantity(req) \in Nat \ {0}
         /\ req \in BuyKeys => Quantity(req) = want[req]
         /\ \A i \in LotIx : req = Protect(i) => Quantity(req) = lots[i].rem
         /\ \A i \in LotIx : req = Rearm(i) => Quantity(req) = lots[i].rem
         /\ req = Exit => Quantity(req) = RemTotal(lots)
         /\ \A i \in LotIx, l \in 2 .. MaxStop : req = Tighten(i, l) =>
              /\ Live(ord, lots[i].stopId) /\ lots[i].stopId \in Keys
              /\ Quantity(req) = Left(lots[i].stopId)
<1>1. req \in OpKeys /\ Asked
  BY DEF BaseInv, OutboxInv, Durable
<1>2. CASE req \in BuyKeys
  <2>1. Quantity(req) = want[req] /\ req[1] \in {"ENTRY", "ADD"}
    BY <1>2, Families DEF Quantity
  <2>2. want[req] \in Nat \ {0}
    BY <1>1, <1>2, ConstantsAssumption DEF Asked, LotIx
  <2> QED BY <1>1, <1>2, <2>1, <2>2, Families
<1>3. ASSUME NEW i \in LotIx, req = Protect(i) \/ req = Rearm(i)
     PROVE  Quantity(req) = lots[i].rem /\ lots[i].rem \in Nat \ {0}
  <2>1. req[1] \in {"PROTECT", "REARM"} /\ req[2] = i /\ req \notin BuyKeys
    BY <1>3, Families
  <2>2. i \in DOMAIN lots /\ lots[i].rem > 0 /\ lots[i].rem \in Nat
    BY <1>1, <1>3, LotFields DEF Asked, Held, BaseInv
  <2> QED BY <2>1, <2>2 DEF Quantity
<1>4. ASSUME NEW i \in LotIx, NEW l \in 2 .. MaxStop, req = Tighten(i, l)
      PROVE  /\ Live(ord, lots[i].stopId) /\ lots[i].stopId \in Keys
             /\ Quantity(req) = Left(lots[i].stopId) /\ Quantity(req) \in Nat \ {0}
  <2>1. req[1] = "TIGHTEN" /\ req[2] = i /\ req \notin BuyKeys
    BY <1>4, Families
  <2>2. i \in DOMAIN lots /\ lots[i].stopId # NoKey
    BY <1>1, <1>4 DEF Asked
  <2>3. lots[i].stopId \in Keys /\ BookTypes
    BY <2>2, LotFields DEF SellKeys, BaseInv
  <2>4. Live(ord, lots[i].stopId)
    BY <2>1 DEF Sendable, Action
  <2>5. Quantity(req) = Left(lots[i].stopId)
    BY <2>1 DEF Quantity, Left
  <2> QED BY <2>3, <2>4, <2>5, OrderFields DEF Working, Left
<1>5. CASE req = Exit
  <2>1. Quantity(req) = RemTotal(lots)
    BY <1>5, Families DEF Quantity
  <2>2. RemTotal(lots) \in Nat \ {0}
    BY <1>1, <1>5, RemNat DEF Asked, BaseInv
  <2> QED BY <1>1, <1>5, <2>1, <2>2, Families
<1>6. CASE req \in EmergencyKeys
  <2>1. PICK k \in BuyKeys, q \in LotIx : req = Emergency(k, q)
    BY <1>6 DEF EmergencyKeys
  <2>2. req[1] = "EMERGENCY_STOP" /\ req[2] = q /\ req[3] = (IF k = Entry THEN 0 ELSE 1)
    BY <2>1 DEF Emergency
  <2>3. Quantity(req) = q - booked[k]
    BY <1>6, <2>2, Families DEF Quantity, BuyKeys
  <2>4. q > booked[k] /\ booked[k] \in Nat /\ q \in Nat
    BY <1>1, <2>1, ConstantsAssumption DEF Asked, BaseInv, BookTypes, LotIx
  <2> QED BY <1>1, <1>6, <2>3, <2>4, Families
<1> QED BY <1>1, <1>2, <1>3, <1>4, <1>5, <1>6, OpKinds, Families

\* A request makes one order, both legs of an OCO, or replaces the stop of a lot.
LEMMA PlacedIs ==
  ASSUME BaseInv, Working, pc = "post", Sendable
  PROVE  LET new == NewOrder(Quantity(req)) IN
         \/ /\ req \notin TightenKeys /\ (\A i \in LotIx : req = Protect(i) => ~TakeProfit)
            /\ Placed(req) = [ord EXCEPT ![req] = new]
         \/ \E i \in LotIx :
              /\ req = Protect(i) /\ TakeProfit
              /\ Placed(req) = [ord EXCEPT ![req] = new, ![StopLeg(i)] = new]
         \/ \E i \in LotIx, l \in 2 .. MaxStop :
              /\ req = Tighten(i, l)
              /\ Placed(req) = [ord EXCEPT ![lots[i].stopId].st = "replaced", ![req] = new]
<1>1. req \in OpKeys
  BY QuantityIs
<1>2. ASSUME NEW i \in LotIx, req = Protect(i)
     PROVE  req[1] = "PROTECT" /\ req[2] = i /\ req \notin TightenKeys
  BY <1>2, Families
<1>3. ASSUME NEW i \in LotIx, NEW l \in 2 .. MaxStop, req = Tighten(i, l)
     PROVE  req[1] = "TIGHTEN" /\ req[2] = i
  BY <1>3, Families
<1>4. CASE \E i \in LotIx : req = Protect(i) /\ TakeProfit
  BY <1>2, <1>4 DEF Placed, NewOrder
<1>5. CASE \E i \in LotIx, l \in 2 .. MaxStop : req = Tighten(i, l)
  BY <1>3, <1>5 DEF Placed, NewOrder
<1>6. CASE req \notin TightenKeys /\ \A i \in LotIx : req = Protect(i) => ~TakeProfit
  <2>1. req[1] = "PROTECT" => ~TakeProfit
    <3>1. req[1] = "PROTECT" => \E i \in LotIx : req = Protect(i)
      BY <1>1, OpKinds, Families
    <3> QED BY <1>6, <3>1
  <2>2. req[1] # "TIGHTEN"
    BY <1>1, <1>6, OpKinds, Families
  <2> QED BY <1>6, <2>1, <2>2 DEF Placed, NewOrder
<1> QED
  <2>1. req \in TightenKeys => \E i \in LotIx, l \in 2 .. MaxStop : req = Tighten(i, l)
    BY DEF TightenKeys
  <2> QED BY <1>4, <1>5, <1>6, <2>1

-----------------------------------------------------------------------------
\* What a step does to one order: it stays, is canceled or replaced, fills, or
\* is new.
LEMMA CanceledIs ==
  ASSUME BookTypes, NEW k
  PROVE  LET o == Canceled(ord, k) IN
         /\ o \in [Keys -> Order]
         /\ \A x \in Keys : /\ o[x].qty = ord[x].qty /\ o[x].filled = ord[x].filled
                            /\ \/ o[x] = ord[x]
                               \/ o[x].st = "canceled" /\ Live(ord, x)
<1> DEFINE o == Canceled(ord, k)
<1>1. ASSUME NEW x \in Keys
     PROVE  /\ o[x] \in Order /\ o[x].qty = ord[x].qty /\ o[x].filled = ord[x].filled
                            /\ \/ o[x] = ord[x]
                               \/ o[x].st = "canceled" /\ Live(ord, x)
  BY <1>1, OrderFields DEF Canceled, Order, OrderStatus, Live
<1>2. o = [x \in Keys |-> o[x]]
  BY DEF Canceled
<1> HIDE DEF o
<1>3. o \in [Keys -> Order]
  BY <1>1, <1>2
<1> QED BY <1>1, <1>3 DEF o

\* One share trades: the orders on the same shares shrink, or end with it.
LEMMA FilledIs ==
  ASSUME BaseInv, Working, Paired, NEW k \in Keys, BrokerFill(k)
  PROVE  /\ ord' \in [Keys -> Order] /\ Live(ord, k)
         /\ \A x \in Keys : /\ ord'[x].filled = IF x = k THEN ord[x].filled + 1 ELSE ord[x].filled
                            /\ ord'[x].qty = IF x \in Siblings(k) /\ Live(ord, x) THEN ord[x].qty - 1 ELSE ord[x].qty
                            /\ ord'[x].st = IF x = k /\ ord[k].filled + 1 = ord[k].qty THEN "filled"
                                 ELSE IF x \in Siblings(k) /\ Live(ord, x) /\ ord[k].filled + 1 = ord[k].qty
                                 THEN "canceled" ELSE ord[x].st
<1> DEFINE full == ord[k].filled + 1 = ord[k].qty
<1>1. Live(ord, k) /\ k \notin Siblings(k) /\ BookTypes
  BY SiblingFacts DEF BrokerFill, BaseInv
<1>2. ord' = [x \in Keys |->
           IF x = k
           THEN [ord[k] EXCEPT !.filled = @ + 1, !.st = IF full THEN "filled" ELSE @]
           ELSE IF x \in Siblings(k) /\ Live(ord, x)
           THEN [ord[x] EXCEPT !.qty = @ - 1, !.st = IF full THEN "canceled" ELSE @]
           ELSE ord[x]]
  BY DEF BrokerFill
<1>3. ASSUME NEW x \in Keys
      PROVE  /\ ord'[x].filled = IF x = k THEN ord[x].filled + 1 ELSE ord[x].filled
             /\ ord'[x].qty = IF x \in Siblings(k) /\ Live(ord, x) THEN ord[x].qty - 1 ELSE ord[x].qty
             /\ ord'[x].st = IF x = k /\ full THEN "filled"
                              ELSE IF x \in Siblings(k) /\ Live(ord, x) /\ full
                              THEN "canceled" ELSE ord[x].st
             /\ ord'[x] \in Order
  <2>1. ord[x] \in Order /\ ord[k] \in Order
    BY <1>1, OrderFields
  <2>0. /\ ord[x] = [st |-> ord[x].st, qty |-> ord[x].qty, filled |-> ord[x].filled]
        /\ ord[x].st \in OrderStatus /\ ord[x].qty \in Nat /\ ord[x].filled \in Nat
    BY <2>1 DEF Order
  <2>2. CASE x = k
    <3> DEFINE st == IF full THEN "filled" ELSE ord[x].st
    <3>1. st \in OrderStatus
      BY <2>0 DEF OrderStatus
    <3> HIDE DEF st
    <3>2. ord'[x] = [ord[x] EXCEPT !.filled = @ + 1, !.st = st]
      BY <1>2, <2>2 DEF st
    <3>3. ord'[x] = [st |-> st, qty |-> ord[x].qty, filled |-> ord[x].filled + 1]
      BY <2>0, <3>2
    <3>4. ord'[x] \in Order /\ ord'[x].filled = ord[x].filled + 1 /\ ord'[x].qty = ord[x].qty /\ ord'[x].st = st
      BY <2>0, <3>1, <3>3 DEF Order
    <3>5. ~(x \in Siblings(k))
      BY <1>1, <2>2
    <3> QED BY <2>2, <3>4, <3>5 DEF st
  <2>3. CASE x # k /\ x \in Siblings(k) /\ Live(ord, x)
    <3> DEFINE st == IF full THEN "canceled" ELSE ord[x].st
    <3>1. ord[x].qty > 0
      BY <2>0, <2>3 DEF Working
    <3>2. st \in OrderStatus
      BY <2>0 DEF OrderStatus
    <3> HIDE DEF st
    <3>3. ord'[x] = [ord[x] EXCEPT !.qty = @ - 1, !.st = st]
      BY <1>2, <2>3 DEF st
    <3>4. ord'[x] = [st |-> st, qty |-> ord[x].qty - 1, filled |-> ord[x].filled]
      BY <2>0, <3>3
    <3>5. ord'[x] \in Order /\ ord'[x].filled = ord[x].filled /\ ord'[x].qty = ord[x].qty - 1 /\ ord'[x].st = st
      BY <2>0, <3>1, <3>2, <3>4 DEF Order
    <3> QED BY <2>3, <3>5 DEF st
  <2>4. CASE x # k /\ ~(x \in Siblings(k) /\ Live(ord, x))
    BY <1>1, <1>2, <2>1, <2>4
  <2> QED BY <2>2, <2>3, <2>4
<1>4. ord' \in [Keys -> Order]
  BY <1>2, <1>3
<1> QED BY <1>1, <1>3, <1>4

-----------------------------------------------------------------------------
Growth == \A k \in Keys : ord[k].filled <= ord'[k].filled
OrdersGood == ord' \in [Keys -> Order] /\ Growth /\ Working' /\ Paired'

\* An order on the shares of a lot is an order.
LEMMA PairedKeys ==
  ASSUME BookTypes, NEW i \in LotIx, NEW k \in LotKeys(i)
  PROVE  k \in Keys /\ ord[k] \in Order /\ ord[k].qty \in Nat /\ ord[k].filled \in Nat
  BY LotKeyFacts, OrderFields DEF SellKeys

\* A cancel leaves the orders in order.
LEMMA CancelGood ==
  ASSUME BaseInv, OrdersInv, NEW k, ord' = Canceled(ord, k) PROVE OrdersGood
<1>1. /\ ord' \in [Keys -> Order]
      /\ \A x \in Keys : /\ ord'[x].qty = ord[x].qty /\ ord'[x].filled = ord[x].filled
                         /\ ord'[x] = ord[x] \/ ord'[x].st = "canceled"
  BY CanceledIs DEF BaseInv
<1>2. \A x \in Keys : Live(ord, x)' => Live(ord, x)
  BY <1>1 DEF Live
<1>3. Growth
  <2>1. \A x \in Keys : ord[x].filled \in Nat
    BY OrderFields DEF BaseInv
  <2> QED BY <1>1, <2>1 DEF Growth
<1>4. Working'
  BY <1>1, <1>2 DEF Working, OrdersInv
<1>5. Paired'
  BY <1>1, <1>2, LotKeyFacts DEF Paired, OrdersInv, Left, SellKeys
<1> QED BY <1>1, <1>3, <1>4, <1>5 DEF OrdersGood

\* A fill leaves the orders in order.
LEMMA FillGood ==
  ASSUME BaseInv, OrdersInv, NEW k \in Keys, BrokerFill(k) PROVE OrdersGood
<1>1. /\ ord' \in [Keys -> Order] /\ Live(ord, k)
      /\ \A x \in Keys : /\ ord'[x].filled = IF x = k THEN ord[x].filled + 1 ELSE ord[x].filled
                         /\ ord'[x].qty = IF x \in Siblings(k) /\ Live(ord, x) THEN ord[x].qty - 1 ELSE ord[x].qty
                         /\ ord'[x].st = IF x = k /\ ord[k].filled + 1 = ord[k].qty THEN "filled"
                              ELSE IF x \in Siblings(k) /\ Live(ord, x) /\ ord[k].filled + 1 = ord[k].qty
                              THEN "canceled" ELSE ord[x].st
  BY FilledIs DEF OrdersInv
<1>2. \A x \in Keys : ord[x].filled \in Nat /\ ord[x].qty \in Nat
  BY OrderFields DEF BaseInv
<1>3. Growth
  BY <1>1, <1>2 DEF Growth
<1>4. ord[k].filled < ord[k].qty /\ k \notin Siblings(k)
  BY <1>1, SiblingFacts DEF OrdersInv, Working
<1>5. ASSUME NEW x \in Keys, Live(ord, x)'
      PROVE  /\ Live(ord, x) /\ (x = k => ord[k].filled + 1 < ord[k].qty)
             /\ x \in Siblings(k) => ord[k].filled + 1 # ord[k].qty
  <2>1. x = k => ord[k].filled + 1 # ord[k].qty
    BY <1>1, <1>5 DEF Live
  <2>2. x \in Siblings(k) /\ Live(ord, x) => ord[k].filled + 1 # ord[k].qty
    BY <1>1, <1>4, <1>5 DEF Live
  <2>3. Live(ord, x)
    BY <1>1, <1>5 DEF Live
  <2> QED BY <1>2, <1>4, <2>1, <2>2, <2>3
<1>6. ASSUME NEW i \in LotIx, NEW x \in LotKeys(i), Live(ord, x)'
      PROVE  Left(x)' = IF k \in LotKeys(i) THEN Left(x) - 1 ELSE Left(x)
  <2>1. x \in Keys /\ Live(ord, x)
    BY <1>5, <1>6, LotKeyFacts DEF SellKeys
  <2>2. CASE k \in LotKeys(i)
    <3>1. Siblings(k) = LotKeys(i) \ {k}
      BY <2>2, SiblingFacts
    <3> QED BY <1>1, <1>2, <2>1, <2>2, <3>1 DEF Left
  <2>3. CASE k \notin LotKeys(i)
    <3>1. x \notin Siblings(k) /\ x # k
      <4>1. ASSUME NEW j \in LotIx, k \in LotKeys(j) PROVE x \notin LotKeys(j)
        BY <1>6, <2>3, <4>1, LotKeyFacts
      <4> QED BY <1>6, <2>3, <4>1, SiblingFacts
    <3> QED BY <1>1, <1>2, <2>1, <2>3, <3>1 DEF Left
  <2> QED BY <2>2, <2>3
<1>7. Paired'
  <2> SUFFICES ASSUME NEW i \in LotIx, NEW x \in LotKeys(i), NEW y \in LotKeys(i),
                      Live(ord, x)', Live(ord, y)'
               PROVE  Left(x)' = Left(y)'
    BY DEF Paired
  <2>1. Live(ord, x) /\ Live(ord, y)
    BY <1>5, LotKeyFacts DEF SellKeys
  <2>2. Left(x) = Left(y)
    BY <2>1 DEF OrdersInv, Paired
  <2> QED BY <1>6, <2>2
<1>8. Working'
  <2> SUFFICES ASSUME NEW x \in Keys, Live(ord, x)' PROVE ord'[x].filled < ord'[x].qty
    BY DEF Working
  <2>1. CASE x = k
    BY <1>1, <1>2, <1>4, <1>5, <2>1
  <2>2. CASE x # k /\ x \in Siblings(k)
    <3>1. PICK i \in LotIx : k \in LotKeys(i) /\ x \in LotKeys(i)
      BY <2>2, SiblingFacts
    <3>2. Left(x) = Left(k)
      BY <1>1, <1>5, <3>1 DEF OrdersInv, Paired
    <3>3. ord[k].filled + 1 < ord[k].qty
      BY <1>2, <1>4, <1>5, <2>2
    <3> QED BY <1>1, <1>2, <1>5, <2>2, <3>2, <3>3 DEF Left
  <2>3. CASE x # k /\ x \notin Siblings(k)
    BY <1>1, <1>5, <2>3 DEF OrdersInv, Working
  <2> QED BY <2>1, <2>2, <2>3
<1> QED BY <1>1, <1>3, <1>7, <1>8 DEF OrdersGood

\* The request's own key is new; a lot whose protection is sent has no order.
LEMMA SendGood ==
  ASSUME BaseInv, OrdersInv, Unplaced, Sends PROVE OrdersGood
<1> DEFINE q == Quantity(req)
           new == NewOrder(q)
<1>1. pc = "post" /\ Sendable /\ ord' = Placed(req) /\ BookTypes /\ ord \in [Keys -> Order]
  BY DEF Sends, BaseInv, BookTypes
<1>2. /\ req \in OpKeys /\ req \in Keys /\ q \in Nat \ {0} /\ ord[req] = NoOrder
      /\ \A i \in LotIx : req = Protect(i) => \A k \in LotKeys(i) : ord[k] = NoOrder
  BY <1>1, QuantityIs DEF Unplaced, Keys, OrdersInv
<1>3. new \in Order /\ new.st = "live" /\ new.qty = q /\ new.filled = 0
  BY <1>2 DEF NewOrder, Order, OrderStatus
<1>4. \A x \in Keys : ord[x].filled \in Nat /\ ord[x].qty \in Nat
  BY <1>1, OrderFields
<1>5. NoOrder.st = "none" /\ NoOrder.filled = 0
  BY DEF NoOrder
<1> HIDE DEF new, q
<1>6. CASE /\ req \notin TightenKeys /\ (\A i \in LotIx : req = Protect(i) => ~TakeProfit)
           /\ ord' = [ord EXCEPT ![req] = new]
  <2>1. ord' \in [Keys -> Order] /\ ord'[req] = new /\ \A x \in Keys \ {req} : ord'[x] = ord[x]
    BY <1>1, <1>2, <1>3, <1>6
  <2>2. Growth /\ Working'
    BY <1>2, <1>3, <1>4, <1>5, <2>1 DEF Growth, Working, OrdersInv, Live
  <2>3. Paired'
    <3> SUFFICES ASSUME NEW i \in LotIx, NEW x \in LotKeys(i), NEW y \in LotKeys(i),
                        Live(ord, x)', Live(ord, y)'
                 PROVE  Left(x)' = Left(y)'
      BY DEF Paired
    <3>0. x \in Keys /\ y \in Keys
      BY LotKeyFacts DEF SellKeys
    <3>1. CASE req \in LotKeys(i)
      <4>1. req = Protect(i)
        BY <1>2, <1>6, <3>1, Families, OpKinds, LotKeyFacts DEF LotKeys
      <4>2. x = req /\ y = req
        BY <1>2, <1>5, <2>1, <3>0, <4>1 DEF Live
      <4> QED BY <4>2
    <3>2. CASE req \notin LotKeys(i)
      <4>1. ord'[x] = ord[x] /\ ord'[y] = ord[y]
        BY <2>1, <3>0, <3>2
      <4>2. Left(x) = Left(y)
        BY <4>1 DEF OrdersInv, Paired, Live
      <4> QED BY <4>1, <4>2 DEF Left
    <3> QED BY <3>1, <3>2
  <2> QED BY <2>1, <2>2, <2>3 DEF OrdersGood
<1>7. ASSUME NEW i \in LotIx, req = Protect(i), ord' = [ord EXCEPT ![req] = new,
     ![StopLeg(i)] = new]
      PROVE  OrdersGood
  <2>1. StopLeg(i) \in LotKeys(i) /\ StopLeg(i) \in Keys /\ ord[StopLeg(i)] = NoOrder
    BY <1>2, <1>7, LotKeyFacts DEF SellKeys
  <2>2. /\ ord' \in [Keys -> Order] /\ ord'[req] = new /\ ord'[StopLeg(i)] = new
        /\ \A x \in Keys \ {req, StopLeg(i)} : ord'[x] = ord[x]
    BY <1>1, <1>2, <1>3, <1>7, <2>1
  <2>3. Growth /\ Working'
    BY <1>2, <1>3, <1>4, <1>5, <2>1, <2>2 DEF Growth, Working, OrdersInv, Live
  <2>4. Paired'
    <3> SUFFICES ASSUME NEW j \in LotIx, NEW x \in LotKeys(j), NEW y \in LotKeys(j),
                        Live(ord, x)', Live(ord, y)'
                 PROVE  Left(x)' = Left(y)'
      BY DEF Paired
    <3>0. x \in Keys /\ y \in Keys
      BY LotKeyFacts DEF SellKeys
    <3>1. CASE j = i
      <4>1. x \in {req, StopLeg(i)} /\ y \in {req, StopLeg(i)}
        BY <1>2, <1>5, <1>7, <2>2, <3>0, <3>1 DEF Live
      <4> QED BY <2>2, <4>1 DEF Left
    <3>2. CASE j # i
      <4>1. x \notin {req, StopLeg(i)} /\ y \notin {req, StopLeg(i)}
        BY <1>7, <3>2, LotKeyFacts
      <4>2. ord'[x] = ord[x] /\ ord'[y] = ord[y]
        BY <2>2, <3>0, <4>1
      <4>3. Left(x) = Left(y)
        BY <4>2 DEF OrdersInv, Paired, Live
      <4> QED BY <4>2, <4>3 DEF Left
    <3> QED BY <3>1, <3>2
  <2> QED BY <2>2, <2>3, <2>4 DEF OrdersGood
<1>8. ASSUME NEW i \in LotIx, NEW l \in 2 .. MaxStop, req = Tighten(i, l),
             ord' = [ord EXCEPT ![lots[i].stopId].st = "replaced", ![req] = new]
      PROVE  OrdersGood
  <2> DEFINE s == lots[i].stopId
  <2>1. s \in LotKeys(i) /\ s \in Keys /\ Live(ord, s) /\ q = Left(s) /\ req \in LotKeys(i)
    BY <1>1, <1>8, QuantityIs, LotKeyFacts DEF Unplaced, q, OrdersInv
  <2>2. s # req
    BY <1>2, <1>5, <2>1 DEF Live
  <2> HIDE DEF s
  <2>3. ord[s] = [st |-> ord[s].st, qty |-> ord[s].qty, filled |-> ord[s].filled] /\ ord[s].qty \in Nat /\ ord[s].filled \in Nat
    BY <1>1, <2>1 DEF Order
  <2>4. ord' = [ord EXCEPT ![s] = [@ EXCEPT !.st = "replaced"], ![req] = new]
    BY <1>8 DEF s
  <2>5. [ord[s] EXCEPT !.st = "replaced"] = [st |-> "replaced", qty |-> ord[s].qty, filled |-> ord[s].filled]
    BY <2>3
  <2>6. [ord[s] EXCEPT !.st = "replaced"] \in Order
    BY <2>3, <2>5 DEF Order, OrderStatus
  <2>7. /\ ord' \in [Keys -> Order] /\ ord'[req] = new /\ ord'[s].st = "replaced" /\ ord'[s].filled = ord[s].filled
        /\ \A x \in Keys \ {req, s} : ord'[x] = ord[x]
    BY <1>1, <1>2, <1>3, <2>1, <2>2, <2>4, <2>5, <2>6
  <2>8. Growth /\ Working'
    BY <1>2, <1>3, <1>4, <1>5, <2>1, <2>7 DEF Growth, Working, OrdersInv, Live
  <2>9. Paired'
    <3>1. ASSUME NEW x \in LotKeys(i), Live(ord, x)' PROVE Left(x)' = q
      <4>0. x \in Keys
        BY LotKeyFacts DEF SellKeys
      <4>1. CASE x = req
        BY <1>2, <1>3, <2>7, <4>1 DEF Left
      <4>2. CASE x # req
        <5>1. ord'[x] = ord[x]
          BY <2>7, <3>1, <4>0, <4>2 DEF Live
        <5>2. Left(x) = Left(s)
          BY <2>1, <3>1, <5>1 DEF OrdersInv, Paired, Live
        <5> QED BY <2>1, <5>1, <5>2 DEF Left
      <4> QED BY <4>1, <4>2
    <3> SUFFICES ASSUME NEW j \in LotIx, NEW x \in LotKeys(j), NEW y \in LotKeys(j),
                        Live(ord, x)', Live(ord, y)'
                 PROVE  Left(x)' = Left(y)'
      BY DEF Paired
    <3>2. CASE j = i
      BY <3>1, <3>2
    <3>3. CASE j # i
      <4>1. x \notin {req, s} /\ y \notin {req, s} /\ x \in Keys /\ y \in Keys
        BY <2>1, <3>3, LotKeyFacts DEF SellKeys
      <4>2. ord'[x] = ord[x] /\ ord'[y] = ord[y]
        BY <2>7, <4>1
      <4>3. Left(x) = Left(y)
        BY <4>2 DEF OrdersInv, Paired, Live
      <4> QED BY <4>2, <4>3 DEF Left
    <3> QED BY <3>2, <3>3
  <2> QED BY <2>7, <2>8, <2>9 DEF OrdersGood
<1>9. \/ /\ req \notin TightenKeys /\ (\A i \in LotIx : req = Protect(i) => ~TakeProfit)
         /\ ord' = [ord EXCEPT ![req] = new]
      \/ \E i \in LotIx :
           /\ req = Protect(i) /\ TakeProfit
           /\ ord' = [ord EXCEPT ![req] = new, ![StopLeg(i)] = new]
      \/ \E i \in LotIx, l \in 2 .. MaxStop :
           /\ req = Tighten(i, l)
           /\ ord' = [ord EXCEPT ![lots[i].stopId].st = "replaced", ![req] = new]
  BY <1>1, PlacedIs DEF new, q, OrdersInv
<1> QED BY <1>6, <1>7, <1>8, <1>9

\* Every step leaves the orders in order, and no fill is undone.
LEMMA OrdersGrow ==
  ASSUME BaseInv, OrdersInv, Unplaced, OrdersMove PROVE OrdersGood
<1>1. CASE ord' = ord
  <2>1. ord \in [Keys -> Order] /\ \A x \in Keys : ord[x].filled \in Nat
    BY OrderFields DEF BaseInv, BookTypes
  <2> QED BY <1>1, <2>1 DEF OrdersGood, Growth, OrdersInv, Working, Paired, Live, Left
<1>2. CASE Cancels
  BY <1>2, CancelGood DEF Cancels
<1>3. CASE Fills
  BY <1>3, FillGood DEF Fills
<1>4. CASE Sends
  BY <1>4, SendGood
<1> QED BY <1>1, <1>2, <1>3, <1>4 DEF OrdersMove

-----------------------------------------------------------------------------
\* What the exit sold of each lot, and the shares of the lots of one buy.
ExitSeen == [i \in DOMAIN lots |-> lots[i].seen[Exit]]
Parts(k) == [i \in DOMAIN lots |-> IF lots[i].parent = k THEN lots[i].qty ELSE 0]

ExitBooks == SumFunctionOnSet(ExitSeen, DOMAIN lots) = exitBooked /\ exitBooked <= ord[Exit].filled
BuySums == \A k \in BuyKeys : LotsOf(k) = booked[k] /\ booked[k] <= ord[k].filled
Sums == ExitBooks /\ BuySums

\* A step on the lots there are.
LotsKept ==
  /\ lots' \in Seq(Lot) /\ DOMAIN lots' = DOMAIN lots
  /\ \A i \in DOMAIN lots : /\ GoodLot(ord', i, lots'[i])
                            /\ lots'[i].parent = lots[i].parent /\ lots'[i].qty = lots[i].qty

\* The exit is a sell order.
LEMMA ExitIsSell == Exit \in SellKeys /\ Exit \in Keys /\ BuyKeys \subseteq Keys
  BY Families DEF SellKeys, BuyKeys

\* The lots are numbered from one.
LEMMA LotsFinite ==
  ASSUME BookTypes
  PROVE  DOMAIN lots = 1 .. Len(lots) /\ Len(lots) \in Nat /\ IsFiniteSet(DOMAIN lots)
<1>1. DOMAIN lots = 1 .. Len(lots) /\ Len(lots) \in Nat
  BY DEF BookTypes
<1> QED BY <1>1, FS_Interval

\* After a step of the orders the lots are as good as before.
LEMMA LotsStillGood ==
  ASSUME BaseInv, OrdersGood, NEW i \in DOMAIN lots PROVE GoodLot(ord', i, lots[i])
<1>1. ord \in [Keys -> Order] /\ GoodLot(ord, i, lots[i])
  BY DEF BaseInv, BookTypes, GoodLots
<1> QED BY <1>1, GrowGood DEF OrdersGood, Growth

\* One lot changes to a good one of as many shares.
LEMMA OneLot ==
  ASSUME BaseInv, OrdersGood, NEW i \in DOMAIN lots, NEW new, lots' = [lots EXCEPT ![i] = new],
         GoodLot(ord', i, new), new.parent = lots[i].parent, new.qty = lots[i].qty,
         new.seen[Exit] = lots[i].seen[Exit]
  PROVE  LotsKept /\ ExitSeen' = ExitSeen
<1>1. new \in Lot /\ lots \in Seq(Lot)
  BY DEF GoodLot, BaseInv, BookTypes
<1>2. lots' \in Seq(Lot) /\ DOMAIN lots' = DOMAIN lots /\ lots'[i] = new
      /\ \A j \in DOMAIN lots \ {i} : lots'[j] = lots[j]
  BY <1>1
<1>3. LotsKept
  BY <1>2, LotsStillGood DEF LotsKept
<1>4. ExitSeen' = ExitSeen
  BY <1>2 DEF ExitSeen
<1> QED BY <1>3, <1>4

\* A step on the lots sees nothing or all of what an order sold; most steps
\* leave the protections of the lots.
SeesMore == \A i \in DOMAIN lots :
  /\ lots'[i].rem <= lots[i].rem
  /\ \A k \in SellKeys \ {Exit} : lots'[i].seen[k] \in {lots[i].seen[k], ord'[k].filled}
NamesKept == \A i \in DOMAIN lots : lots'[i].stopId = lots[i].stopId /\ lots'[i].tpId = lots[i].tpId

\* A sale seen is all that the order sold.
LEMMA SaleSeen ==
  ASSUME NEW o, NEW lot \in Lot, NEW k \in SellKeys \cup {NoKey}, NEW x \in SellKeys
  PROVE  SaleOf(o, lot, k).seen[x] \in {lot.seen[x], o[x].filled}
<1>1. CASE k = NoKey
  BY <1>1 DEF SaleOf
<1>2. CASE k # NoKey
  <2> DEFINE rem == lot.rem - SaleDelta(o, lot, k)
             seen == [lot.seen EXCEPT ![k] = o[k].filled]
  <2>1. SaleOf(o, lot, k) = [lot EXCEPT !.rem = rem, !.seen = seen]
    BY <1>2 DEF SaleOf
  <2>2. seen[x] \in {lot.seen[x], o[x].filled}
    BY DEF Lot
  <2> HIDE DEF rem, seen
  <2>3. SaleOf(o, lot, k).seen = seen
    BY <2>1 DEF Lot
  <2> QED BY <2>2, <2>3
<1> QED BY <1>1, <1>2

\* A sale that is seen keeps the books of the lots.
LEMMA SellsKeep ==
  ASSUME BaseInv, OrdersGood, Sells
  PROVE  LotsKept /\ ExitSeen' = ExitSeen /\ SeesMore /\ NamesKept
<1>1. PICK i \in DOMAIN lots :
        LET half == SaleOf(ord', lots[i], lots[i].stopId)
        IN  /\ SaleOk(ord', lots[i], lots[i].stopId)
            /\ \/ lots' = [lots EXCEPT ![i] = half]
               \/ SaleOk(ord', half, lots[i].tpId) /\ lots' = [lots EXCEPT ![i] = SaleOf(ord', half, lots[i].tpId)]
  BY DEF Sells
<1> DEFINE lot == lots[i]
           half == SaleOf(ord', lot, lot.stopId)
           last == SaleOf(ord', half, lot.tpId)
<1>2. GoodLot(ord', i, lot) /\ i \in LotIx /\ ord' \in [Keys -> Order]
  BY LotsStillGood, LotFields DEF BaseInv, OrdersGood
<1>3. lot.stopId \in LotNames(i) \cup {NoKey} /\ lot.tpId \in LotNames(i) \cup {NoKey}
  BY <1>2, LotKeyFacts DEF GoodLot, LotNames
<1>4. SaleOk(ord', lot, lot.stopId)
  BY <1>1
<1> HIDE DEF lot, last
<1>5. /\ GoodLot(ord', i, half) /\ half.parent = lot.parent /\ half.qty = lot.qty
      /\ half.seen[Exit] = lot.seen[Exit] /\ half.rem <= lot.rem
      /\ half.stopId = lot.stopId /\ half.tpId = lot.tpId
  BY <1>2, <1>3, <1>4, SaleGood
<1>0. /\ i \in LotIx /\ LotNames(i) \subseteq SellKeys
      /\ lot \in Lot /\ half \in Lot /\ lot.rem \in Nat /\ half.rem \in Nat
      /\ \A x \in SellKeys : half.seen[x] \in {lot.seen[x], ord'[x].filled}
  <2>1. lot \in Lot /\ half \in Lot /\ LotNames(i) \subseteq SellKeys
    BY <1>2, <1>5, LotKeyFacts DEF GoodLot
  <2>2. \A x \in SellKeys : half.seen[x] \in {lot.seen[x], ord'[x].filled}
    BY <1>3, <2>1, SaleSeen
  <2> QED BY <1>2, <2>1, <2>2 DEF Lot
<1>10. \A j \in DOMAIN lots : lots[j].rem \in Nat
  BY LotFields DEF BaseInv
<1> HIDE DEF half
<1>6. CASE lots' = [lots EXCEPT ![i] = half]
  <2>1. LotsKept /\ ExitSeen' = ExitSeen
    BY <1>5, <1>6, OneLot DEF lot
  <2>2. SeesMore /\ NamesKept
    BY <1>0, <1>5, <1>6, <1>10 DEF SeesMore, NamesKept, lot
  <2> QED BY <2>1, <2>2
<1>7. CASE SaleOk(ord', half, lot.tpId) /\ lots' = [lots EXCEPT ![i] = last]
  <2>1. /\ GoodLot(ord', i, last) /\ last.parent = half.parent /\ last.qty = half.qty
        /\ last.seen[Exit] = half.seen[Exit] /\ last.rem <= half.rem
        /\ last.stopId = half.stopId /\ last.tpId = half.tpId
    BY <1>2, <1>3, <1>5, <1>7, SaleGood DEF last
  <2>2. LotsKept /\ ExitSeen' = ExitSeen
    BY <1>5, <1>7, <2>1, OneLot DEF lot
  <2>3. \A x \in SellKeys : last.seen[x] \in {half.seen[x], ord'[x].filled}
    BY <1>0, <1>3, SaleSeen DEF last
  <2>4. last.rem <= lot.rem
    BY <1>0, <1>5, <2>1 DEF GoodLot, Lot
  <2>5. SeesMore /\ NamesKept
    BY <1>0, <1>5, <1>7, <1>10, <2>1, <2>3, <2>4 DEF SeesMore, NamesKept, lot
  <2> QED BY <2>2, <2>5
<1> QED BY <1>1, <1>6, <1>7 DEF lot, half, last

\* Another stop keeps the books of the lots.
LEMMA StopsKeep ==
  ASSUME BaseInv, OrdersGood, Stops PROVE LotsKept /\ ExitSeen' = ExitSeen /\ SeesMore
<1>1. PICK i \in DOMAIN lots, s \in SellKeys, t \in SellKeys \cup {NoKey}, l \in 1 .. MaxStop :
        /\ s \in LotNames(i) /\ t \in {Protect(i), NoKey}
        /\ lots' = [lots EXCEPT ![i] = [@ EXCEPT !.stopId = s, !.tpId = t, !.stop = l]]
  BY DEF Stops
<1> DEFINE lot == lots[i]
           new == WithStop(lot, s, t, l)
<1>2. GoodLot(ord', i, lot) /\ i \in LotIx
  BY LotsStillGood, LotFields DEF BaseInv
<1>3. lots' = [lots EXCEPT ![i] = new]
  BY <1>1 DEF WithStop
<1> HIDE DEF lot
<1>4. s \in LotNames(i) /\ t \in {Protect(i), NoKey} /\ l \in 1 .. MaxStop
  BY <1>1
<1>6. \A p \in {Protect(i), NoKey} : LET w == WithStop(lot, s, p, l) IN
        /\ GoodLot(ord', i, w) /\ w.parent = lot.parent /\ w.qty = lot.qty /\ w.seen = lot.seen
  BY <1>2, <1>4, StopGood
<1>9. \A p \in {Protect(i), NoKey} : WithStop(lot, s, p, l).rem = lot.rem
  BY <1>2, <1>4, StopGood
<1>5. /\ GoodLot(ord', i, new) /\ new.parent = lot.parent /\ new.qty = lot.qty
      /\ new.seen = lot.seen /\ new.rem = lot.rem
  BY <1>4, <1>6, <1>9
<1> HIDE DEF new
<1>7. \A j \in DOMAIN lots : lots[j].rem \in Nat
  BY LotFields DEF BaseInv
<1>8. SeesMore
  BY <1>3, <1>5, <1>7 DEF SeesMore, lot
<1> QED BY <1>3, <1>5, <1>8, OneLot DEF lot

\* A step that leaves the lots alone keeps their books.
LEMMA SameKeeps ==
  ASSUME BaseInv, OrdersGood, Same
  PROVE  LotsKept /\ ExitSeen' = ExitSeen /\ SeesMore /\ NamesKept
<1>1. LotsKept /\ ExitSeen' = ExitSeen
  BY LotsStillGood DEF Same, LotsKept, ExitSeen, BaseInv, BookTypes
<1>2. \A j \in DOMAIN lots : lots[j].rem \in Nat
  BY LotFields DEF BaseInv
<1> QED BY <1>1, <1>2 DEF Same, SeesMore, NamesKept

\* The exit's new fill, spread over the lots, is booked share by share.
LEMMA SpreadsKeep ==
  ASSUME BaseInv, Sums, Spreads
  PROVE  /\ LotsKept /\ ExitBooks' /\ SeesMore /\ NamesKept
         /\ \A i \in DOMAIN lots : lots'[i].seen[Exit] <= lots[i].seen[Exit] + lots[i].rem
<1> DEFINE d == ord[Exit].filled - exitBooked
           r == [j \in DOMAIN lots |-> lots[j].rem]
           sh == [j \in DOMAIN lots |-> Share(j, d)]
           n == Len(lots)
<1>1. /\ d \in 0 .. RemTotal(lots) /\ lots' = ExitSpread(d)
      /\ exitBooked' = ord[Exit].filled /\ ord' = ord
  BY DEF Spreads
<1>2. BookTypes /\ DOMAIN lots = 1 .. n /\ n \in Nat /\ IsFiniteSet(DOMAIN lots) /\ GoodLots
  BY LotsFinite DEF BaseInv
<1>3. \A j \in DOMAIN lots : lots[j].rem \in Nat /\ lots[j].seen \in [SellKeys -> Nat] /\ lots[j].qty \in Nat
  BY <1>2, LotFields
<1>4. d \in Nat /\ d <= RemTotal(lots)
  BY <1>1, <1>2, RemNat
<1>5. ASSUME NEW j \in DOMAIN lots
      PROVE  /\ RemBefore(j) \in Nat
             /\ Share(j, d) = IF r[j] < (IF d > RemBefore(j) THEN d - RemBefore(j) ELSE 0)
                              THEN r[j] ELSE (IF d > RemBefore(j) THEN d - RemBefore(j) ELSE 0)
             /\ Share(j, d) \in 0 .. lots[j].rem
  <2>1. IsFiniteSet(1 .. (j - 1)) /\ \A x \in 1 .. (j - 1) : r[x] \in Nat
    <3>1. j \in 1 .. n /\ 1 .. (j - 1) \subseteq DOMAIN lots /\ j - 1 \in Int
      BY <1>2
    <3>2. IsFiniteSet(1 .. (j - 1))
      BY <3>1, FS_Interval
    <3> QED BY <1>3, <3>1, <3>2
  <2>2. RemBefore(j) \in Nat
    <3>1. SumFunctionOnSet(r, 1 .. (j - 1)) \in Nat
      <4> HIDE DEF r
      <4> QED BY <2>1, SumNat
    <3> QED BY <3>1 DEF RemBefore
  <2>3. r[j] = lots[j].rem
    OBVIOUS
  <2> HIDE DEF r, d
  <2>4. Share(j, d) = IF r[j] < (IF d > RemBefore(j) THEN d - RemBefore(j) ELSE 0)
                      THEN r[j] ELSE (IF d > RemBefore(j) THEN d - RemBefore(j) ELSE 0)
    BY <2>3 DEF Share, Minimum
  <2> QED BY <1>3, <1>4, <2>2, <2>3, <2>4
<1>6. SumFunctionOnSet(sh, 1 .. n) = d
  <2>1. \A j \in 1 .. n : r[j] \in Nat
    BY <1>2, <1>3
  <2>2. \A j \in 1 .. n : sh[j] = LET b == SumFunctionOnSet(r, 1 .. (j - 1))
                                      e == IF d > b THEN d - b ELSE 0
                                  IN  IF r[j] < e THEN r[j] ELSE e
    <3> TAKE j \in 1 .. n
    <3>1. RemBefore(j) = SumFunctionOnSet(r, 1 .. (j - 1)) /\ sh[j] = Share(j, d) /\ j \in DOMAIN lots
      BY <1>2 DEF RemBefore
    <3> HIDE DEF sh, r, d
    <3> QED BY <1>5, <3>1
  <2>3. RemTotal(lots) = SumFunctionOnSet(r, 1 .. n)
    BY <1>2 DEF RemTotal, SumFunction
  <2> HIDE DEF r, sh, d, n
  <2>4. SumFunctionOnSet(sh, 1 .. n) = IF d < RemTotal(lots) THEN d ELSE RemTotal(lots)
    BY <1>2, <1>4, <2>1, <2>2, <2>3, SpreadSum
  <2> QED BY <1>2, <1>4, <2>4, RemNat
<1> HIDE DEF d, r
<1>7. ASSUME NEW j \in DOMAIN lots
      PROVE  /\ lots'[j] \in Lot /\ GoodLot(ord, j, lots'[j])
             /\ lots'[j].parent = lots[j].parent /\ lots'[j].qty = lots[j].qty
             /\ lots'[j].seen[Exit] = lots[j].seen[Exit] + Share(j, d)
             /\ lots'[j].rem = lots[j].rem - Share(j, d)
             /\ \A k \in SellKeys \ {Exit} : lots'[j].seen[k] = lots[j].seen[k]
             /\ lots'[j].stopId = lots[j].stopId /\ lots'[j].tpId = lots[j].tpId
  <2> DEFINE new == [lots[j] EXCEPT !.rem = @ - Share(j, d), !.seen[Exit] = @ + Share(j, d)]
             lot == lots[j]
             s == Share(j, d)
  <2>1. lots'[j] = new
    BY <1>1 DEF ExitSpread
  <2>2. lot \in Lot /\ GoodLot(ord, j, lot) /\ s \in 0 .. lot.rem /\ lot.rem \in Nat /\ lot.qty \in Nat
        /\ lot.seen \in [SellKeys -> Nat] /\ s \in Nat
    BY <1>2, <1>3, <1>5, LotFields DEF GoodLots
  <2> HIDE DEF s
  <2> DEFINE seen == [lot.seen EXCEPT ![Exit] = @ + s]
  <2>3. new = [lot EXCEPT !.rem = lot.rem - s, !.seen = seen]
    BY DEF s
  <2>0. seen \in [SellKeys -> Nat] /\ lot.rem - s \in Nat
    BY <2>2, ExitIsSell
  <2> HIDE DEF new, lot, seen
  <2>4. /\ new.rem = lot.rem - s /\ new.rem \in Nat /\ new.seen = seen
        /\ new.parent = lot.parent /\ new.qty = lot.qty
        /\ new.stopId = lot.stopId /\ new.tpId = lot.tpId /\ new.stop = lot.stop
    BY <2>0, <2>2, <2>3 DEF Lot
  <2>5. new \in Lot
    BY <2>0, <2>2, <2>3 DEF Lot
  <2>6. /\ new.seen \in [SellKeys -> Nat] /\ new.seen[Exit] = lot.seen[Exit] + s
        /\ \A x \in SellKeys \ {Exit} : new.seen[x] = lot.seen[x]
    BY <2>2, <2>4, ExitIsSell DEF seen
  <2>7. SumFunctionOnSet(new.seen, SellKeys) = SumFunctionOnSet(lot.seen, SellKeys) + s
    <3>1. \A x \in SellKeys : lot.seen[x] \in Int /\ new.seen[x] \in Int
      BY <2>2, <2>6
    <3>2. SumFunctionOnSet(new.seen, SellKeys)
            = SumFunctionOnSet(lot.seen, SellKeys) + new.seen[Exit] - lot.seen[Exit]
      BY <3>1, <2>6, ExitIsSell, KeysFinite, SumChange
    <3>3. SumFunctionOnSet(lot.seen, SellKeys) \in Int
      BY <3>1, KeysFinite, SumInt
    <3> QED BY <2>2, <2>6, <3>1, <3>2, <3>3, ExitIsSell
  <2>8. SumFunctionOnSet(lot.seen, SellKeys) = lot.qty - lot.rem
    BY <2>2 DEF GoodLot
  <2>9. GoodLot(ord, j, new)
    <3>1. new.qty - new.rem = SumFunctionOnSet(new.seen, SellKeys)
      BY <2>2, <2>4, <2>7, <2>8
    <3>2. new.qty > 0 /\ new.rem <= new.qty
      BY <2>2, <2>4 DEF GoodLot
    <3>3. \A k \in SellKeys : new.seen[k] # 0 => k \in LotNames(j) \cup {Exit}
      BY <2>2, <2>6 DEF GoodLot
    <3>4. \A k \in SellKeys \ {Exit} : new.seen[k] <= ord[k].filled
      BY <2>2, <2>6 DEF GoodLot
    <3> QED BY <2>2, <2>4, <2>5, <3>1, <3>2, <3>3, <3>4 DEF GoodLot
  <2> QED BY <2>1, <2>4, <2>5, <2>6, <2>9 DEF lot, s
<1>8. DOMAIN lots' = DOMAIN lots /\ lots' = [j \in 1 .. n |-> lots'[j]]
  BY <1>1, <1>2 DEF ExitSpread
<1>9. lots' \in Seq(Lot)
  BY <1>2, <1>7, <1>8
<1>10. LotsKept
  BY <1>1, <1>7, <1>8, <1>9 DEF LotsKept
<1>11. SumFunctionOnSet(ExitSeen', DOMAIN lots) = SumFunctionOnSet(ExitSeen, DOMAIN lots) + SumFunctionOnSet(sh, DOMAIN lots)
  <2>1. \A j \in DOMAIN lots : ExitSeen[j] \in Int /\ sh[j] \in Int /\ ExitSeen'[j] = ExitSeen[j] + sh[j]
    BY <1>3, <1>5, <1>7, <1>8, ExitIsSell DEF ExitSeen
  <2> HIDE DEF sh
  <2> QED BY <1>2, <2>1, SumPlus
<1>12. exitBooked + d = ord[Exit].filled /\ ord[Exit].filled \in Nat
  <2>1. exitBooked \in Nat /\ ord[Exit].filled \in Nat
    BY <1>2, OrderFields, ExitIsSell DEF BookTypes
  <2> QED BY <2>1 DEF d
<1>13. ExitBooks'
  <2>1. SumFunctionOnSet(ExitSeen', DOMAIN lots) = ord[Exit].filled
    BY <1>2, <1>6, <1>11, <1>12 DEF Sums, ExitBooks
  <2> QED BY <1>1, <1>8, <1>12, <2>1 DEF ExitBooks
<1>14. SeesMore /\ NamesKept
  BY <1>3, <1>5, <1>7 DEF SeesMore, NamesKept
<1>15. \A i \in DOMAIN lots : lots'[i].seen[Exit] <= lots[i].seen[Exit] + lots[i].rem
  BY <1>3, <1>5, <1>7, ExitIsSell
<1> QED BY <1>10, <1>13, <1>14, <1>15

\* The shares of a buy's lots stay its shares.
LEMMA KeptSums ==
  ASSUME BaseInv, Sums, OrdersGood, LotsKept, UNCHANGED booked PROVE BuySums'
<1> SUFFICES ASSUME NEW k \in BuyKeys PROVE LotsOf(k)' = booked'[k] /\ booked'[k] <= ord'[k].filled
  BY DEF BuySums
<1>1. Parts(k)' = Parts(k)
  BY DEF LotsKept, Parts
<1>2. LotsOf(k) = SumFunction(Parts(k)) /\ LotsOf(k)' = SumFunction(Parts(k)')
  BY DEF LotsOf, Parts
<1>3. booked[k] <= ord[k].filled /\ LotsOf(k) = booked[k]
  BY DEF Sums, BuySums
<1>4. ord[k].filled <= ord'[k].filled
  BY ExitIsSell DEF OrdersGood, Growth
<1>5. ord[k].filled \in Nat /\ ord'[k].filled \in Nat /\ booked[k] \in Nat
  BY ExitIsSell DEF BaseInv, BookTypes, OrdersGood, Order
<1> QED BY <1>1, <1>2, <1>3, <1>4, <1>5

-----------------------------------------------------------------------------
\* The list of a reconciliation is of unresolved operations, and a request
\* about to be sent is of a reserved one.
TodoPending == pc = "reconcile" => todo \subseteq Pending
Reserved == pc \in {"attach", "post"} => ops[req] = "RESERVED"

\* Only what is unresolved is looked up; only what is reserved is sent.
LEMMA TickStep ==
  ASSUME OutboxInv, TodoPending, Reserved, [Next]_vars PROVE TodoPending' /\ Reserved'
<1> USE DEF TodoPending, Reserved, Pending, Unresolved, OutboxInv, Typed, At, Abort, Goto,
          Keep, saved, local, world
<1>1. ASSUME TickStart PROVE TodoPending' /\ Reserved'
  BY <1>1 DEF TickStart, StartReconcile
<1>2. ASSUME NEW k \in OpKeys, ReconcileBare(k) PROVE TodoPending' /\ Reserved'
  BY <1>2 DEF ReconcileBare
<1>3. ASSUME NEW k \in OpKeys, ReconcileMissing(k) PROVE TodoPending' /\ Reserved'
  BY <1>3 DEF ReconcileMissing
<1>4. ASSUME NEW k \in OpKeys, ReconcileEmergency(k) PROVE TodoPending' /\ Reserved'
  BY <1>4 DEF ReconcileEmergency, Found
<1>5. ASSUME NEW k \in BuyKeys, ReconcileBuy(k) PROVE TodoPending' /\ Reserved'
  BY <1>5 DEF ReconcileBuy, Found, Settled, NewFill
<1>6. ASSUME NEW i \in LotIx, ReconcileProtect(i) PROVE TodoPending' /\ Reserved'
  BY <1>6 DEF ReconcileProtect, Found
<1>7. ASSUME NEW i \in LotIx, ReconcileRearm(i) PROVE TodoPending' /\ Reserved'
  BY <1>7 DEF ReconcileRearm, Found
<1>8. ASSUME NEW i \in LotIx, NEW l \in 2 .. MaxStop, ReconcileTighten(i, l)
     PROVE  TodoPending' /\ Reserved'
  BY <1>8 DEF ReconcileTighten, Found
<1>9. ASSUME ReconcileExit PROVE TodoPending' /\ Reserved'
  BY <1>9 DEF ReconcileExit, Found, Settled
<1>10. ASSUME ReconcileDone PROVE TodoPending' /\ Reserved'
  BY <1>10 DEF ReconcileDone
<1>11. Reconcile => TodoPending' /\ Reserved'
  BY <1>2, <1>3, <1>4, <1>5, <1>6, <1>7, <1>8, <1>9, <1>10 DEF Reconcile
<1>12. ASSUME RearmStart PROVE TodoPending' /\ Reserved'
  BY <1>12 DEF RearmStart
<1>13. ASSUME RearmSkip PROVE TodoPending' /\ Reserved'
  BY <1>13 DEF RearmSkip
<1>14. ASSUME RearmEnd PROVE TodoPending' /\ Reserved'
  BY <1>14 DEF RearmEnd, StartReconcile
<1>15. ASSUME NEW i \in LotIx, RearmReserve(i) PROVE TodoPending' /\ Reserved'
  BY <1>15, Families DEF RearmReserve, Reserve, Rearmed
<1>16. RearmFailedExit => TodoPending' /\ Reserved'
  BY <1>12, <1>13, <1>14, <1>15 DEF RearmFailedExit
<1>17. ASSUME ProtectFrozen PROVE TodoPending' /\ Reserved'
  BY <1>17 DEF ProtectFrozen
<1>18. ASSUME ProtectEnd PROVE TodoPending' /\ Reserved'
  BY <1>18 DEF ProtectEnd
<1>19. ASSUME NEW i \in LotIx, ProtectReserve(i) PROVE TodoPending' /\ Reserved'
  BY <1>19, Families DEF ProtectReserve, Reserve, MayProtect, First, Unprotected
<1>20. ProtectLots => TodoPending' /\ Reserved'
  BY <1>17, <1>18, <1>19 DEF ProtectLots
<1>21. ASSUME ObserveLot PROVE TodoPending' /\ Reserved'
  BY <1>21 DEF ObserveLot
<1>22. ASSUME ObserveEnd PROVE TodoPending' /\ Reserved'
  BY <1>22 DEF ObserveEnd
<1>23. ReconcileLots => TodoPending' /\ Reserved'
  BY <1>21, <1>22 DEF ReconcileLots
<1>24. ASSUME StandardCancel PROVE TodoPending' /\ Reserved'
  BY <1>24 DEF StandardCancel, StartReconcile
<1>25. ASSUME StandardSkip PROVE TodoPending' /\ Reserved'
  BY <1>25 DEF StandardSkip
<1>26. StandardEntry => TodoPending' /\ Reserved'
  BY <1>24, <1>25 DEF StandardEntry
<1>27. ASSUME GatePending PROVE TodoPending' /\ Reserved'
  BY <1>27 DEF GatePending
<1>28. ASSUME GateClosed PROVE TodoPending' /\ Reserved'
  BY <1>28 DEF GateClosed
<1>29. ASSUME GateDeadline PROVE TodoPending' /\ Reserved'
  BY <1>29 DEF GateDeadline
<1>30. ASSUME GateExpired PROVE TodoPending' /\ Reserved'
  BY <1>30 DEF GateExpired
<1>31. ASSUME GateWait PROVE TodoPending' /\ Reserved'
  BY <1>31 DEF GateWait
<1>32. ASSUME GateMarket PROVE TodoPending' /\ Reserved'
  BY <1>32 DEF GateMarket
<1>33. Gate => TodoPending' /\ Reserved'
  BY <1>27, <1>28, <1>29, <1>30, <1>31, <1>32 DEF Gate
<1>34. ASSUME DeadlineSkip PROVE TodoPending' /\ Reserved'
  BY <1>34 DEF DeadlineSkip
<1>35. ASSUME DeadlineCancel PROVE TodoPending' /\ Reserved'
  BY <1>35 DEF DeadlineCancel, CancelLegs, CancelUnconfirmed, Fault
<1>36. ASSUME DeadlineSell PROVE TodoPending' /\ Reserved'
  BY <1>36, Families DEF DeadlineSell, Reserve
<1>37. Deadline => TodoPending' /\ Reserved'
  BY <1>34, <1>35, <1>36 DEF Deadline
<1>38. ASSUME NEW i \in LotIx, NEW l \in 2 .. MaxStop, TightenReserve(i, l)
     PROVE  TodoPending' /\ Reserved'
  BY <1>38, Families DEF TightenReserve, Reserve, Tightening
<1>39. ASSUME TightenNext PROVE TodoPending' /\ Reserved'
  BY <1>39 DEF TightenNext
<1>40. ASSUME TightenEnd PROVE TodoPending' /\ Reserved'
  BY <1>40 DEF TightenEnd
<1>41. TightenStops => TodoPending' /\ Reserved'
  BY <1>38, <1>39, <1>40 DEF TightenStops
<1>42. ASSUME BuyClosed PROVE TodoPending' /\ Reserved'
  BY <1>42 DEF BuyClosed
<1>43. ASSUME BuyNothing PROVE TodoPending' /\ Reserved'
  BY <1>43 DEF BuyNothing
<1>44. ASSUME BuyAttach PROVE TodoPending' /\ Reserved'
  BY <1>44 DEF BuyAttach
<1>45. ASSUME NEW k \in BuyKeys, NEW q \in LotIx, BuyReserve(k, q)
     PROVE  TodoPending' /\ Reserved'
  BY <1>45, Families DEF BuyReserve
<1>46. Buy => TodoPending' /\ Reserved'
  BY <1>42, <1>43, <1>44, <1>45 DEF Buy
<1>47. ASSUME AcceptBuy PROVE TodoPending' /\ Reserved'
  BY <1>47, Families DEF AcceptBuy, Posting, Ends
<1>48. ASSUME AcceptProtect PROVE TodoPending' /\ Reserved'
  BY <1>48 DEF AcceptProtect, Posting, Ends, Action
<1>49. ASSUME AcceptTighten PROVE TodoPending' /\ Reserved'
  BY <1>49 DEF AcceptTighten, Posting, Ends, Action
<1>50. ASSUME TightenRefused PROVE TodoPending' /\ Reserved'
  BY <1>50 DEF TightenRefused
<1>51. ASSUME AcceptRearm PROVE TodoPending' /\ Reserved'
  BY <1>51 DEF AcceptRearm, Posting, Ends, Action
<1>52. ASSUME AcceptExit PROVE TodoPending' /\ Reserved'
  BY <1>52 DEF AcceptExit, Posting, Ends
<1>53. ASSUME AcceptEmergency PROVE TodoPending' /\ Reserved'
  BY <1>53 DEF AcceptEmergency, Posting, Ends
<1>54. Accept => TodoPending' /\ Reserved'
  BY <1>47, <1>48, <1>49, <1>50, <1>51, <1>52, <1>53 DEF Accept
<1>55. ASSUME NEW k \in BuyKeys, NEW q \in LotIx, ReceiptMissing(k, q)
     PROVE  TodoPending' /\ Reserved'
  BY <1>55, Families DEF ReceiptMissing, Found, Fault, Reserve, EmergencyKeys
<1>56. ASSUME AnswerLost PROVE TodoPending' /\ Reserved'
  BY <1>56 DEF AnswerLost, Posting, Fault
<1>57. ASSUME Undelivered PROVE TodoPending' /\ Reserved'
  BY <1>57 DEF Undelivered, Posting, Fault
<1>58. ASSUME Rejected PROVE TodoPending' /\ Reserved'
  BY <1>58 DEF Rejected, Posting, Ends, Fault
<1>59. ASSUME Crash PROVE TodoPending' /\ Reserved'
  BY <1>59 DEF Crash, Fault
<1>60. ASSUME NEW k \in SellKeys \ {Exit}, BrokerCancel(k) PROVE TodoPending' /\ Reserved'
  BY <1>60 DEF BrokerCancel, Fault
<1>61. Failure => TodoPending' /\ Reserved'
  BY <1>55, <1>56, <1>57, <1>58, <1>59, <1>60 DEF Failure
<1>62. ASSUME NEW k \in Keys, BrokerFill(k) PROVE TodoPending' /\ Reserved'
  BY <1>62 DEF BrokerFill
<1>63. ASSUME NEW k \in Keys, BrokerTerminate(k) PROVE TodoPending' /\ Reserved'
  BY <1>63 DEF BrokerTerminate
<1>64. ASSUME Expire PROVE TodoPending' /\ Reserved'
  BY <1>64 DEF Expire
<1>65. ASSUME DueArrives PROVE TodoPending' /\ Reserved'
  BY <1>65 DEF DueArrives
<1>66. ASSUME SwitchOff PROVE TodoPending' /\ Reserved'
  BY <1>66 DEF SwitchOff
<1>67. Market => TodoPending' /\ Reserved'
  BY <1>62, <1>63, <1>64, <1>65, <1>66 DEF Market
<1>68. ASSUME UNCHANGED vars PROVE TodoPending' /\ Reserved'
  BY <1>68 DEF vars
<1> QED BY <1>1, <1>11, <1>16, <1>20, <1>23, <1>26, <1>33, <1>37, <1>41, <1>46, <1>54, <1>61,
     <1>67, <1>68 DEF Next, Tick

-----------------------------------------------------------------------------
Flags == {refused, review, expired, due, off} \subseteq BOOLEAN
PlaceTypes ==
  /\ status \in {"PENDING", "OPEN", "CLOSED", "EXPIRED"} /\ bare \subseteq BuyKeys
  /\ pc \in Places /\ stage \in Stages /\ cur \in Nat \ {0}
  /\ req \in OpKeys \cup {NoKey} /\ faults \in 0 .. MaxFaults

\* The flags stay flags.
LEMMA FlagStep ==
  ASSUME Flags, [Next]_vars PROVE Flags'
<1> USE DEF Flags, At, Abort, Goto, Keep, saved, local, world
<1>1. ASSUME TickStart PROVE Flags'
  BY <1>1 DEF TickStart, StartReconcile
<1>2. ASSUME NEW k \in OpKeys, ReconcileBare(k) PROVE Flags'
  BY <1>2 DEF ReconcileBare
<1>3. ASSUME NEW k \in OpKeys, ReconcileMissing(k) PROVE Flags'
  BY <1>3 DEF ReconcileMissing
<1>4. ASSUME NEW k \in OpKeys, ReconcileEmergency(k) PROVE Flags'
  BY <1>4 DEF ReconcileEmergency, Found
<1>5. ASSUME NEW k \in BuyKeys, ReconcileBuy(k) PROVE Flags'
  BY <1>5 DEF ReconcileBuy, Found, Settled, NewFill
<1>6. ASSUME NEW i \in LotIx, ReconcileProtect(i) PROVE Flags'
  BY <1>6 DEF ReconcileProtect, Found
<1>7. ASSUME NEW i \in LotIx, ReconcileRearm(i) PROVE Flags'
  BY <1>7 DEF ReconcileRearm, Found
<1>8. ASSUME NEW i \in LotIx, NEW l \in 2 .. MaxStop, ReconcileTighten(i, l) PROVE Flags'
  BY <1>8 DEF ReconcileTighten, Found
<1>9. ASSUME ReconcileExit PROVE Flags'
  BY <1>9 DEF ReconcileExit, Found, Settled
<1>10. ASSUME ReconcileDone PROVE Flags'
  BY <1>10 DEF ReconcileDone
<1>11. Reconcile => Flags'
  BY <1>2, <1>3, <1>4, <1>5, <1>6, <1>7, <1>8, <1>9, <1>10 DEF Reconcile
<1>12. ASSUME RearmStart PROVE Flags'
  BY <1>12 DEF RearmStart
<1>13. ASSUME RearmSkip PROVE Flags'
  BY <1>13 DEF RearmSkip
<1>14. ASSUME RearmEnd PROVE Flags'
  BY <1>14 DEF RearmEnd, StartReconcile
<1>15. ASSUME NEW i \in LotIx, RearmReserve(i) PROVE Flags'
  BY <1>15 DEF RearmReserve, Reserve, Rearmed
<1>16. RearmFailedExit => Flags'
  BY <1>12, <1>13, <1>14, <1>15 DEF RearmFailedExit
<1>17. ASSUME ProtectFrozen PROVE Flags'
  BY <1>17 DEF ProtectFrozen
<1>18. ASSUME ProtectEnd PROVE Flags'
  BY <1>18 DEF ProtectEnd
<1>19. ASSUME NEW i \in LotIx, ProtectReserve(i) PROVE Flags'
  BY <1>19 DEF ProtectReserve, Reserve, MayProtect, First, Unprotected
<1>20. ProtectLots => Flags'
  BY <1>17, <1>18, <1>19 DEF ProtectLots
<1>21. ASSUME ObserveLot PROVE Flags'
  BY <1>21 DEF ObserveLot
<1>22. ASSUME ObserveEnd PROVE Flags'
  BY <1>22 DEF ObserveEnd
<1>23. ReconcileLots => Flags'
  BY <1>21, <1>22 DEF ReconcileLots
<1>24. ASSUME StandardCancel PROVE Flags'
  BY <1>24 DEF StandardCancel, StartReconcile
<1>25. ASSUME StandardSkip PROVE Flags'
  BY <1>25 DEF StandardSkip
<1>26. StandardEntry => Flags'
  BY <1>24, <1>25 DEF StandardEntry
<1>27. ASSUME GatePending PROVE Flags'
  BY <1>27 DEF GatePending
<1>28. ASSUME GateClosed PROVE Flags'
  BY <1>28 DEF GateClosed
<1>29. ASSUME GateDeadline PROVE Flags'
  BY <1>29 DEF GateDeadline
<1>30. ASSUME GateExpired PROVE Flags'
  BY <1>30 DEF GateExpired
<1>31. ASSUME GateWait PROVE Flags'
  BY <1>31 DEF GateWait
<1>32. ASSUME GateMarket PROVE Flags'
  BY <1>32 DEF GateMarket
<1>33. Gate => Flags'
  BY <1>27, <1>28, <1>29, <1>30, <1>31, <1>32 DEF Gate
<1>34. ASSUME DeadlineSkip PROVE Flags'
  BY <1>34 DEF DeadlineSkip
<1>35. ASSUME DeadlineCancel PROVE Flags'
  BY <1>35 DEF DeadlineCancel, CancelLegs, CancelUnconfirmed, Fault
<1>36. ASSUME DeadlineSell PROVE Flags'
  BY <1>36 DEF DeadlineSell, Reserve
<1>37. Deadline => Flags'
  BY <1>34, <1>35, <1>36 DEF Deadline
<1>38. ASSUME NEW i \in LotIx, NEW l \in 2 .. MaxStop, TightenReserve(i, l) PROVE Flags'
  BY <1>38 DEF TightenReserve, Reserve, Tightening
<1>39. ASSUME TightenNext PROVE Flags'
  BY <1>39 DEF TightenNext
<1>40. ASSUME TightenEnd PROVE Flags'
  BY <1>40 DEF TightenEnd
<1>41. TightenStops => Flags'
  BY <1>38, <1>39, <1>40 DEF TightenStops
<1>42. ASSUME BuyClosed PROVE Flags'
  BY <1>42 DEF BuyClosed
<1>43. ASSUME BuyNothing PROVE Flags'
  BY <1>43 DEF BuyNothing
<1>44. ASSUME BuyAttach PROVE Flags'
  BY <1>44 DEF BuyAttach
<1>45. ASSUME NEW k \in BuyKeys, NEW q \in LotIx, BuyReserve(k, q) PROVE Flags'
  BY <1>45 DEF BuyReserve
<1>46. Buy => Flags'
  BY <1>42, <1>43, <1>44, <1>45 DEF Buy
<1>47. ASSUME AcceptBuy PROVE Flags'
  BY <1>47 DEF AcceptBuy, Posting, Ends
<1>48. ASSUME AcceptProtect PROVE Flags'
  BY <1>48 DEF AcceptProtect, Posting, Ends, Action
<1>49. ASSUME AcceptTighten PROVE Flags'
  BY <1>49 DEF AcceptTighten, Posting, Ends, Action
<1>50. ASSUME TightenRefused PROVE Flags'
  BY <1>50 DEF TightenRefused
<1>51. ASSUME AcceptRearm PROVE Flags'
  BY <1>51 DEF AcceptRearm, Posting, Ends, Action
<1>52. ASSUME AcceptExit PROVE Flags'
  BY <1>52 DEF AcceptExit, Posting, Ends
<1>53. ASSUME AcceptEmergency PROVE Flags'
  BY <1>53 DEF AcceptEmergency, Posting, Ends
<1>54. Accept => Flags'
  BY <1>47, <1>48, <1>49, <1>50, <1>51, <1>52, <1>53 DEF Accept
<1>55. ASSUME NEW k \in BuyKeys, NEW q \in LotIx, ReceiptMissing(k, q) PROVE Flags'
  BY <1>55 DEF ReceiptMissing, Found, Fault, Reserve
<1>56. ASSUME AnswerLost PROVE Flags'
  BY <1>56 DEF AnswerLost, Posting, Fault
<1>57. ASSUME Undelivered PROVE Flags'
  BY <1>57 DEF Undelivered, Posting, Fault
<1>58. ASSUME Rejected PROVE Flags'
  BY <1>58 DEF Rejected, Posting, Ends, Fault
<1>59. ASSUME Crash PROVE Flags'
  BY <1>59 DEF Crash, Fault
<1>60. ASSUME NEW k \in SellKeys \ {Exit}, BrokerCancel(k) PROVE Flags'
  BY <1>60 DEF BrokerCancel, Fault
<1>61. Failure => Flags'
  BY <1>55, <1>56, <1>57, <1>58, <1>59, <1>60 DEF Failure
<1>62. ASSUME NEW k \in Keys, BrokerFill(k) PROVE Flags'
  BY <1>62 DEF BrokerFill
<1>63. ASSUME NEW k \in Keys, BrokerTerminate(k) PROVE Flags'
  BY <1>63 DEF BrokerTerminate
<1>64. ASSUME Expire PROVE Flags'
  BY <1>64 DEF Expire
<1>65. ASSUME DueArrives PROVE Flags'
  BY <1>65 DEF DueArrives
<1>66. ASSUME SwitchOff PROVE Flags'
  BY <1>66 DEF SwitchOff
<1>67. Market => Flags'
  BY <1>62, <1>63, <1>64, <1>65, <1>66 DEF Market
<1>68. ASSUME UNCHANGED vars PROVE Flags'
  BY <1>68 DEF vars
<1> QED BY <1>1, <1>11, <1>16, <1>20, <1>23, <1>26, <1>33, <1>37, <1>41, <1>46, <1>54, <1>61,
     <1>67, <1>68 DEF Next, Tick

\* The tick goes from one of its places to another.
LEMMA PlaceStep ==
  ASSUME PlaceTypes, OutboxInv, [Next]_vars PROVE PlaceTypes'
<1> USE ConstantsAssumption DEF PlaceTypes, Places, Stages, Fault, At, Abort, Goto, Keep,
          saved, local, world
<1>1. ASSUME TickStart PROVE PlaceTypes'
  BY <1>1 DEF TickStart, StartReconcile
<1>2. ASSUME NEW k \in OpKeys, ReconcileBare(k) PROVE PlaceTypes'
  BY <1>2 DEF ReconcileBare
<1>3. ASSUME NEW k \in OpKeys, ReconcileMissing(k) PROVE PlaceTypes'
  BY <1>3 DEF ReconcileMissing
<1>4. ASSUME NEW k \in OpKeys, ReconcileEmergency(k) PROVE PlaceTypes'
  BY <1>4 DEF ReconcileEmergency, Found
<1>5. ASSUME NEW k \in BuyKeys, ReconcileBuy(k) PROVE PlaceTypes'
  BY <1>5 DEF ReconcileBuy, Found, Settled, NewFill
<1>6. ASSUME NEW i \in LotIx, ReconcileProtect(i) PROVE PlaceTypes'
  BY <1>6 DEF ReconcileProtect, Found
<1>7. ASSUME NEW i \in LotIx, ReconcileRearm(i) PROVE PlaceTypes'
  BY <1>7 DEF ReconcileRearm, Found
<1>8. ASSUME NEW i \in LotIx, NEW l \in 2 .. MaxStop, ReconcileTighten(i, l) PROVE PlaceTypes'
  BY <1>8 DEF ReconcileTighten, Found
<1>9. ASSUME ReconcileExit PROVE PlaceTypes'
  BY <1>9 DEF ReconcileExit, Found, Settled
<1>10. ASSUME ReconcileDone PROVE PlaceTypes'
  BY <1>10 DEF ReconcileDone
<1>11. Reconcile => PlaceTypes'
  BY <1>2, <1>3, <1>4, <1>5, <1>6, <1>7, <1>8, <1>9, <1>10 DEF Reconcile
<1>12. ASSUME RearmStart PROVE PlaceTypes'
  BY <1>12 DEF RearmStart
<1>13. ASSUME RearmSkip PROVE PlaceTypes'
  BY <1>13 DEF RearmSkip
<1>14. ASSUME RearmEnd PROVE PlaceTypes'
  BY <1>14 DEF RearmEnd, StartReconcile
<1>15. ASSUME NEW i \in LotIx, RearmReserve(i) PROVE PlaceTypes'
  BY <1>15, Families DEF RearmReserve, Reserve, Rearmed
<1>16. RearmFailedExit => PlaceTypes'
  BY <1>12, <1>13, <1>14, <1>15 DEF RearmFailedExit
<1>17. ASSUME ProtectFrozen PROVE PlaceTypes'
  BY <1>17 DEF ProtectFrozen
<1>18. ASSUME ProtectEnd PROVE PlaceTypes'
  BY <1>18 DEF ProtectEnd
<1>19. ASSUME NEW i \in LotIx, ProtectReserve(i) PROVE PlaceTypes'
  BY <1>19, Families DEF ProtectReserve, Reserve, MayProtect, First, Unprotected
<1>20. ProtectLots => PlaceTypes'
  BY <1>17, <1>18, <1>19 DEF ProtectLots
<1>21. ASSUME ObserveLot PROVE PlaceTypes'
  BY <1>21 DEF ObserveLot
<1>22. ASSUME ObserveEnd PROVE PlaceTypes'
  BY <1>22 DEF ObserveEnd
<1>23. ReconcileLots => PlaceTypes'
  BY <1>21, <1>22 DEF ReconcileLots
<1>24. ASSUME StandardCancel PROVE PlaceTypes'
  BY <1>24 DEF StandardCancel, StartReconcile
<1>25. ASSUME StandardSkip PROVE PlaceTypes'
  BY <1>25 DEF StandardSkip
<1>26. StandardEntry => PlaceTypes'
  BY <1>24, <1>25 DEF StandardEntry
<1>27. ASSUME GatePending PROVE PlaceTypes'
  BY <1>27 DEF GatePending
<1>28. ASSUME GateClosed PROVE PlaceTypes'
  BY <1>28 DEF GateClosed
<1>29. ASSUME GateDeadline PROVE PlaceTypes'
  BY <1>29 DEF GateDeadline
<1>30. ASSUME GateExpired PROVE PlaceTypes'
  BY <1>30 DEF GateExpired
<1>31. ASSUME GateWait PROVE PlaceTypes'
  BY <1>31 DEF GateWait
<1>32. ASSUME GateMarket PROVE PlaceTypes'
  BY <1>32 DEF GateMarket
<1>33. Gate => PlaceTypes'
  BY <1>27, <1>28, <1>29, <1>30, <1>31, <1>32 DEF Gate
<1>34. ASSUME DeadlineSkip PROVE PlaceTypes'
  BY <1>34 DEF DeadlineSkip
<1>35. ASSUME DeadlineCancel PROVE PlaceTypes'
  BY <1>35 DEF DeadlineCancel, CancelLegs, CancelUnconfirmed, Fault
<1>36. ASSUME DeadlineSell PROVE PlaceTypes'
  BY <1>36, Families DEF DeadlineSell, Reserve
<1>37. Deadline => PlaceTypes'
  BY <1>34, <1>35, <1>36 DEF Deadline
<1>38. ASSUME NEW i \in LotIx, NEW l \in 2 .. MaxStop, TightenReserve(i, l) PROVE PlaceTypes'
  BY <1>38, Families DEF TightenReserve, Reserve, Tightening
<1>39. ASSUME TightenNext PROVE PlaceTypes'
  BY <1>39 DEF TightenNext
<1>40. ASSUME TightenEnd PROVE PlaceTypes'
  BY <1>40 DEF TightenEnd
<1>41. TightenStops => PlaceTypes'
  BY <1>38, <1>39, <1>40 DEF TightenStops
<1>42. ASSUME BuyClosed PROVE PlaceTypes'
  BY <1>42 DEF BuyClosed
<1>43. ASSUME BuyNothing PROVE PlaceTypes'
  BY <1>43 DEF BuyNothing
<1>44. ASSUME BuyAttach PROVE PlaceTypes'
  BY <1>44 DEF BuyAttach
<1>45. ASSUME NEW k \in BuyKeys, NEW q \in LotIx, BuyReserve(k, q) PROVE PlaceTypes'
  BY <1>45, Families DEF BuyReserve
<1>46. Buy => PlaceTypes'
  BY <1>42, <1>43, <1>44, <1>45 DEF Buy
<1>47. ASSUME AcceptBuy PROVE PlaceTypes'
  BY <1>47, Families DEF AcceptBuy, Posting, Ends
<1>48. ASSUME AcceptProtect PROVE PlaceTypes'
  BY <1>48 DEF AcceptProtect, Posting, Ends, Action
<1>49. ASSUME AcceptTighten PROVE PlaceTypes'
  BY <1>49 DEF AcceptTighten, Posting, Ends, Action
<1>50. ASSUME TightenRefused PROVE PlaceTypes'
  BY <1>50 DEF TightenRefused
<1>51. ASSUME AcceptRearm PROVE PlaceTypes'
  BY <1>51 DEF AcceptRearm, Posting, Ends, Action
<1>52. ASSUME AcceptExit PROVE PlaceTypes'
  BY <1>52 DEF AcceptExit, Posting, Ends
<1>53. ASSUME AcceptEmergency PROVE PlaceTypes'
  BY <1>53 DEF AcceptEmergency, Posting, Ends
<1>54. Accept => PlaceTypes'
  BY <1>47, <1>48, <1>49, <1>50, <1>51, <1>52, <1>53 DEF Accept
<1>55. ASSUME NEW k \in BuyKeys, NEW q \in LotIx, ReceiptMissing(k, q) PROVE PlaceTypes'
  BY <1>55, Families DEF ReceiptMissing, Found, Fault, Reserve, EmergencyKeys
<1>56. ASSUME AnswerLost PROVE PlaceTypes'
  BY <1>56 DEF AnswerLost, Posting, Fault
<1>57. ASSUME Undelivered PROVE PlaceTypes'
  BY <1>57 DEF Undelivered, Posting, Fault
<1>58. ASSUME Rejected PROVE PlaceTypes'
  BY <1>58 DEF Rejected, Posting, Ends, Fault
<1>59. ASSUME Crash PROVE PlaceTypes'
  BY <1>59 DEF Crash, Fault
<1>60. ASSUME NEW k \in SellKeys \ {Exit}, BrokerCancel(k) PROVE PlaceTypes'
  BY <1>60 DEF BrokerCancel, Fault
<1>61. Failure => PlaceTypes'
  BY <1>55, <1>56, <1>57, <1>58, <1>59, <1>60 DEF Failure
<1>62. ASSUME NEW k \in Keys, BrokerFill(k) PROVE PlaceTypes'
  BY <1>62 DEF BrokerFill
<1>63. ASSUME NEW k \in Keys, BrokerTerminate(k) PROVE PlaceTypes'
  BY <1>63 DEF BrokerTerminate
<1>64. ASSUME Expire PROVE PlaceTypes'
  BY <1>64 DEF Expire
<1>65. ASSUME DueArrives PROVE PlaceTypes'
  BY <1>65 DEF DueArrives
<1>66. ASSUME SwitchOff PROVE PlaceTypes'
  BY <1>66 DEF SwitchOff
<1>67. Market => PlaceTypes'
  BY <1>62, <1>63, <1>64, <1>65, <1>66 DEF Market
<1>68. ASSUME UNCHANGED vars PROVE PlaceTypes'
  BY <1>68 DEF vars
<1> QED BY <1>1, <1>11, <1>16, <1>20, <1>23, <1>26, <1>33, <1>37, <1>41, <1>46, <1>54, <1>61,
     <1>67, <1>68 DEF Next, Tick

\* The types of the tick in two parts.
LEMMA TickTypesAre == TickTypes <=> Flags /\ PlaceTypes
  BY DEF TickTypes, Flags, PlaceTypes

-----------------------------------------------------------------------------
\* What has to be so for an operation to be reserved.
Granted(k) ==
  /\ k \in OpKeys
  /\ k \in BuyKeys => want'[k] \in LotIx
  /\ \A i \in LotIx : k = Protect(i) => i \in DOMAIN lots /\ Held(i) /\ lots[i].stopId = NoKey
                                       /\ ops[k] = "none" /\ pc = "protect"
  /\ \A i \in LotIx, l \in 2 .. MaxStop : k = Tighten(i, l) =>
       /\ i \in DOMAIN lots /\ Held(i) /\ lots[i].stopId # NoKey /\ l > lots[i].stop
       /\ pc = "tighten" /\ Pending = {}
  /\ \A i \in LotIx : k = Rearm(i) => i \in DOMAIN lots /\ Held(i) /\ pc = "rearmLots"
  /\ k = Exit => RemTotal(lots) > 0 /\ pc = "deadline"
  /\ \A x \in BuyKeys, q \in LotIx : k = Emergency(x, q) => q > booked[x]

\* How the request a tick is about to make comes about.
Reserves == /\ Granted(req') /\ ops' = [ops EXCEPT ![req'] = "RESERVED"]
            /\ UNCHANGED <<lots, booked, exitBooked, ord, posts>>
            /\ (pc' = "attach" <=> req' \in BuyKeys)
            /\ req' \notin BuyKeys => UNCHANGED <<want, bare>>
Waits    == /\ UNCHANGED <<ops, lots, booked, want, req>>
            /\ pc' = pc \/ (pc = "attach" /\ pc' = "post")
Turns    == pc' \notin {"attach", "post"} \/ Waits \/ Reserves

\* What protect() may reserve.
LEMMA GrantProtect ==
  ASSUME NEW i \in LotIx, i \in DOMAIN lots, Held(i), lots[i].stopId = NoKey,
         ops[Protect(i)] = "none", pc = "protect"
  PROVE  Granted(Protect(i)) /\ Protect(i) \notin BuyKeys
<1>1. /\ Protect(i) \in OpKeys /\ Protect(i) \notin BuyKeys /\ Protect(i) # Exit
      /\ Protect(i) \notin EmergencyKeys
      /\ \A j \in LotIx : Protect(i) = Protect(j) => i = j
      /\ \A j \in LotIx : Protect(i) # Rearm(j)
      /\ \A j \in LotIx, l \in 2 .. MaxStop : Protect(i) # Tighten(j, l)
  BY Families
<1> QED BY <1>1 DEF Granted, EmergencyKeys

\* What tighten() may reserve.
LEMMA GrantTighten ==
  ASSUME NEW i \in LotIx, NEW l \in 2 .. MaxStop, i \in DOMAIN lots, Held(i),
         lots[i].stopId # NoKey, l > lots[i].stop, pc = "tighten", Pending = {}
  PROVE  Granted(Tighten(i, l)) /\ Tighten(i, l) \notin BuyKeys
<1> DEFINE k == Tighten(i, l)
<1>1. /\ k \in OpKeys /\ k \notin BuyKeys /\ k # Exit /\ k \notin EmergencyKeys
      /\ \A j \in LotIx : k # Rearm(j) /\ k # Protect(j)
      /\ \A j \in LotIx, m \in 2 .. MaxStop : k = Tighten(j, m) => i = j /\ l = m
  BY Families
<1> QED BY <1>1 DEF Granted, EmergencyKeys

\* What rearm_failed_exit() may reserve.
LEMMA GrantRearm ==
  ASSUME NEW i \in LotIx, i \in DOMAIN lots, Held(i), pc = "rearmLots"
  PROVE  Granted(Rearm(i)) /\ Rearm(i) \notin BuyKeys
<1> DEFINE k == Rearm(i)
<1>1. /\ k \in OpKeys /\ k \notin BuyKeys /\ k # Exit /\ k \notin EmergencyKeys
      /\ \A j \in LotIx : k # Protect(j) /\ (k = Rearm(j) => i = j)
      /\ \A j \in LotIx, l \in 2 .. MaxStop : k # Tighten(j, l)
  BY Families
<1> QED BY <1>1 DEF Granted, EmergencyKeys

\* What deadline() may reserve.
LEMMA GrantExit ==
  ASSUME BookTypes, RemTotal(lots) # 0, pc = "deadline"
  PROVE  Granted(Exit) /\ Exit \notin BuyKeys
<1>1. /\ Exit \in OpKeys /\ Exit \notin BuyKeys /\ Exit \notin EmergencyKeys
      /\ \A j \in LotIx : Exit # Protect(j) /\ Exit # Rearm(j)
      /\ \A j \in LotIx, l \in 2 .. MaxStop : Exit # Tighten(j, l)
  BY Families
<1>2. RemTotal(lots) > 0
  BY RemNat
<1> QED BY <1>1, <1>2 DEF Granted, EmergencyKeys

\* An emergency stop is named after its buy and the cumulative fill.
LEMMA EmergencySame ==
  ASSUME NEW k \in BuyKeys, NEW q \in LotIx, NEW x \in BuyKeys, NEW r \in LotIx,
         Emergency(k, q) = Emergency(x, r)
  PROVE  k = x /\ q = r
<1>1. Entry # AddOn /\ k \in {Entry, AddOn} /\ x \in {Entry, AddOn}
  BY DEF Entry, AddOn, BuyKeys
<1>2. Emergency(k, q)[2] = q /\ Emergency(x, r)[2] = r
      /\ Emergency(k, q)[3] = (IF k = Entry THEN 0 ELSE 1)
      /\ Emergency(x, r)[3] = (IF x = Entry THEN 0 ELSE 1)
  BY DEF Emergency
<1> QED BY <1>1, <1>2

\* What emergency_stop() may reserve.
LEMMA GrantEmergency ==
  ASSUME NEW k \in BuyKeys, NEW q \in LotIx, q > booked[k]
  PROVE  Granted(Emergency(k, q)) /\ Emergency(k, q) \notin BuyKeys
<1> DEFINE s == Emergency(k, q)
<1>1. s \in EmergencyKeys
  BY DEF EmergencyKeys
<1>2. /\ s \in OpKeys /\ s \notin BuyKeys /\ s # Exit
      /\ \A j \in LotIx : s # Protect(j) /\ s # Rearm(j)
      /\ \A j \in LotIx, l \in 2 .. MaxStop : s # Tighten(j, l)
  BY <1>1, Families
<1> QED BY <1>2, EmergencySame DEF Granted

\* What a buy may reserve.
LEMMA GrantBuy ==
  ASSUME NEW k \in BuyKeys, want'[k] \in LotIx PROVE Granted(k)
<1>1. /\ k \in OpKeys /\ k # Exit /\ k \notin EmergencyKeys
      /\ \A j \in LotIx : k # Protect(j) /\ k # Rearm(j)
      /\ \A j \in LotIx, l \in 2 .. MaxStop : k # Tighten(j, l)
  BY Families
<1> QED BY <1>1 DEF Granted, EmergencyKeys

\* A request is reserved, waits, or is over.
LEMMA RequestTurns ==
  ASSUME BaseInv, Sums, [Next]_vars PROVE Turns
<1> USE DEF Turns, Waits, At, Abort, Goto, Keep, saved, local, world
<1>1. ASSUME TickStart PROVE Turns
  BY <1>1 DEF TickStart, StartReconcile
<1>2. ASSUME NEW k \in OpKeys, ReconcileBare(k) PROVE Turns
  BY <1>2 DEF ReconcileBare
<1>3. ASSUME NEW k \in OpKeys, ReconcileMissing(k) PROVE Turns
  BY <1>3 DEF ReconcileMissing
<1>4. ASSUME NEW k \in OpKeys, ReconcileEmergency(k) PROVE Turns
  BY <1>4 DEF ReconcileEmergency, Found
<1>5. ASSUME NEW k \in BuyKeys, ReconcileBuy(k) PROVE Turns
  BY <1>5 DEF ReconcileBuy, Found, Settled, NewFill
<1>6. ASSUME NEW i \in LotIx, ReconcileProtect(i) PROVE Turns
  BY <1>6 DEF ReconcileProtect, Found
<1>7. ASSUME NEW i \in LotIx, ReconcileRearm(i) PROVE Turns
  BY <1>7 DEF ReconcileRearm, Found
<1>8. ASSUME NEW i \in LotIx, NEW l \in 2 .. MaxStop, ReconcileTighten(i, l) PROVE Turns
  BY <1>8 DEF ReconcileTighten, Found
<1>9. ASSUME ReconcileExit PROVE Turns
  BY <1>9 DEF ReconcileExit, Found, Settled
<1>10. ASSUME ReconcileDone PROVE Turns
  BY <1>10 DEF ReconcileDone
<1>11. Reconcile => Turns
  BY <1>2, <1>3, <1>4, <1>5, <1>6, <1>7, <1>8, <1>9, <1>10 DEF Reconcile
<1>12. ASSUME RearmStart PROVE Turns
  BY <1>12 DEF RearmStart
<1>13. ASSUME RearmSkip PROVE Turns
  BY <1>13 DEF RearmSkip
<1>14. ASSUME RearmEnd PROVE Turns
  BY <1>14 DEF RearmEnd, StartReconcile
<1>15. ASSUME NEW i \in LotIx, RearmReserve(i) PROVE Turns
  <2>1. i \in DOMAIN lots /\ Held(i) /\ pc = "rearmLots"
    BY <1>15, LotsFinite DEF RearmReserve, Rearmed, BaseInv, LotIx
  <2>2. Granted(Rearm(i)) /\ Rearm(i) \notin BuyKeys
    BY <2>1, GrantRearm
  <2> QED BY <1>15, <2>2 DEF RearmReserve, Reserve, Reserves
<1>16. RearmFailedExit => Turns
  BY <1>12, <1>13, <1>14, <1>15 DEF RearmFailedExit
<1>17. ASSUME ProtectFrozen PROVE Turns
  BY <1>17 DEF ProtectFrozen
<1>18. ASSUME ProtectEnd PROVE Turns
  BY <1>18 DEF ProtectEnd
<1>19. ASSUME NEW i \in LotIx, ProtectReserve(i) PROVE Turns
  <2>1. Granted(Protect(i)) /\ Protect(i) \notin BuyKeys
    BY <1>19, GrantProtect DEF ProtectReserve, MayProtect, First, Unprotected
  <2> QED BY <1>19, <2>1 DEF ProtectReserve, Reserve, Reserves
<1>20. ProtectLots => Turns
  BY <1>17, <1>18, <1>19 DEF ProtectLots
<1>21. ASSUME ObserveLot PROVE Turns
  BY <1>21 DEF ObserveLot
<1>22. ASSUME ObserveEnd PROVE Turns
  BY <1>22 DEF ObserveEnd
<1>23. ReconcileLots => Turns
  BY <1>21, <1>22 DEF ReconcileLots
<1>24. ASSUME StandardCancel PROVE Turns
  BY <1>24 DEF StandardCancel, StartReconcile
<1>25. ASSUME StandardSkip PROVE Turns
  BY <1>25 DEF StandardSkip
<1>26. StandardEntry => Turns
  BY <1>24, <1>25 DEF StandardEntry
<1>27. ASSUME GatePending PROVE Turns
  BY <1>27 DEF GatePending
<1>28. ASSUME GateClosed PROVE Turns
  BY <1>28 DEF GateClosed
<1>29. ASSUME GateDeadline PROVE Turns
  BY <1>29 DEF GateDeadline
<1>30. ASSUME GateExpired PROVE Turns
  BY <1>30 DEF GateExpired
<1>31. ASSUME GateWait PROVE Turns
  BY <1>31 DEF GateWait
<1>32. ASSUME GateMarket PROVE Turns
  BY <1>32 DEF GateMarket
<1>33. Gate => Turns
  BY <1>27, <1>28, <1>29, <1>30, <1>31, <1>32 DEF Gate
<1>34. ASSUME DeadlineSkip PROVE Turns
  BY <1>34 DEF DeadlineSkip
<1>35. ASSUME DeadlineCancel PROVE Turns
  BY <1>35 DEF DeadlineCancel, CancelLegs, CancelUnconfirmed, Fault
<1>36. ASSUME DeadlineSell PROVE Turns
  <2>1. RemTotal(lots) # 0 => Granted(Exit) /\ Exit \notin BuyKeys
    BY <1>36, GrantExit DEF DeadlineSell, BaseInv
  <2> QED BY <1>36, <2>1 DEF DeadlineSell, Reserve, Reserves
<1>37. Deadline => Turns
  BY <1>34, <1>35, <1>36 DEF Deadline
<1>38. ASSUME NEW i \in LotIx, NEW l \in 2 .. MaxStop, TightenReserve(i, l) PROVE Turns
  <2>1. i \in DOMAIN lots
    BY <1>38, LotsFinite DEF TightenReserve, Tightening, BaseInv, LotIx
  <2>2. Granted(Tighten(i, l)) /\ Tighten(i, l) \notin BuyKeys
    BY <1>38, <2>1, GrantTighten DEF TightenReserve, Tightening
  <2> QED BY <1>38, <2>2 DEF TightenReserve, Reserve, Reserves
<1>39. ASSUME TightenNext PROVE Turns
  BY <1>39 DEF TightenNext
<1>40. ASSUME TightenEnd PROVE Turns
  BY <1>40 DEF TightenEnd
<1>41. TightenStops => Turns
  BY <1>38, <1>39, <1>40 DEF TightenStops
<1>42. ASSUME BuyClosed PROVE Turns
  BY <1>42 DEF BuyClosed
<1>43. ASSUME BuyNothing PROVE Turns
  BY <1>43 DEF BuyNothing
<1>44. ASSUME BuyAttach PROVE Turns
  BY <1>44 DEF BuyAttach
<1>45. ASSUME NEW k \in BuyKeys, NEW q \in LotIx, BuyReserve(k, q) PROVE Turns
  <2>1. want'[k] = q
    BY <1>45 DEF BuyReserve, BaseInv, BookTypes
  <2>2. Granted(k)
    BY <2>1, GrantBuy
  <2> QED BY <1>45, <2>2 DEF BuyReserve, Reserves
<1>46. Buy => Turns
  BY <1>42, <1>43, <1>44, <1>45 DEF Buy
<1>47. ASSUME AcceptBuy PROVE Turns
  BY <1>47 DEF AcceptBuy, Posting, Ends
<1>48. ASSUME AcceptProtect PROVE Turns
  BY <1>48 DEF AcceptProtect, Posting, Ends, Action
<1>49. ASSUME AcceptTighten PROVE Turns
  BY <1>49 DEF AcceptTighten, Posting, Ends, Action
<1>50. ASSUME TightenRefused PROVE Turns
  BY <1>50 DEF TightenRefused
<1>51. ASSUME AcceptRearm PROVE Turns
  BY <1>51 DEF AcceptRearm, Posting, Ends, Action
<1>52. ASSUME AcceptExit PROVE Turns
  BY <1>52 DEF AcceptExit, Posting, Ends
<1>53. ASSUME AcceptEmergency PROVE Turns
  BY <1>53 DEF AcceptEmergency, Posting, Ends
<1>54. Accept => Turns
  BY <1>47, <1>48, <1>49, <1>50, <1>51, <1>52, <1>53 DEF Accept
<1>55. ASSUME NEW k \in BuyKeys, NEW q \in LotIx, ReceiptMissing(k, q) PROVE Turns
  <2>1. booked[k] \in Nat /\ ord[k].filled \in Nat
    BY ExitIsSell, OrderFields DEF BaseInv, BookTypes
  <2>2. Granted(Emergency(k, q)) /\ Emergency(k, q) \notin BuyKeys
    BY <1>55, <2>1, GrantEmergency DEF ReceiptMissing, NewFill
  <2> QED BY <1>55, <2>2 DEF ReceiptMissing, Fault, Reserve, Reserves
<1>56. ASSUME AnswerLost PROVE Turns
  BY <1>56 DEF AnswerLost, Posting, Fault
<1>57. ASSUME Undelivered PROVE Turns
  BY <1>57 DEF Undelivered, Posting, Fault
<1>58. ASSUME Rejected PROVE Turns
  BY <1>58 DEF Rejected, Posting, Ends, Fault
<1>59. ASSUME Crash PROVE Turns
  BY <1>59 DEF Crash, Fault
<1>60. ASSUME NEW k \in SellKeys \ {Exit}, BrokerCancel(k) PROVE Turns
  BY <1>60 DEF BrokerCancel, Fault
<1>61. Failure => Turns
  BY <1>55, <1>56, <1>57, <1>58, <1>59, <1>60 DEF Failure
<1>62. ASSUME NEW k \in Keys, BrokerFill(k) PROVE Turns
  BY <1>62 DEF BrokerFill
<1>63. ASSUME NEW k \in Keys, BrokerTerminate(k) PROVE Turns
  BY <1>63 DEF BrokerTerminate
<1>64. ASSUME Expire PROVE Turns
  BY <1>64 DEF Expire
<1>65. ASSUME DueArrives PROVE Turns
  BY <1>65 DEF DueArrives
<1>66. ASSUME SwitchOff PROVE Turns
  BY <1>66 DEF SwitchOff
<1>67. Market => Turns
  BY <1>62, <1>63, <1>64, <1>65, <1>66 DEF Market
<1>68. ASSUME UNCHANGED vars PROVE Turns
  BY <1>68 DEF vars
<1> QED BY <1>1, <1>11, <1>16, <1>20, <1>23, <1>26, <1>33, <1>37, <1>41, <1>46, <1>54, <1>61,
     <1>67, <1>68 DEF Next, Tick

-----------------------------------------------------------------------------
\* Nothing but an unresolved operation changes, unless it is being reserved.
OpsMove == \A k \in OpKeys :
  ops'[k] # ops[k] => ops[k] \in Unresolved \/ (Reserves /\ k = req')

\* Only unresolved operations change, but for the one that is reserved.
LEMMA OperationsMove ==
  ASSUME BaseInv, Sums, TodoPending, Reserved, [Next]_vars PROVE OpsMove
<1> USE DEF OpsMove, BaseInv, OutboxInv, Typed, TodoPending, Reserved, Pending, Unresolved,
          At, Abort, Goto, Keep, saved, local, world
<1>1. ASSUME TickStart PROVE OpsMove
  BY <1>1 DEF TickStart, StartReconcile
<1>2. ASSUME NEW k \in OpKeys, ReconcileBare(k) PROVE OpsMove
  BY <1>2 DEF ReconcileBare
<1>3. ASSUME NEW k \in OpKeys, ReconcileMissing(k) PROVE OpsMove
  BY <1>3 DEF ReconcileMissing
<1>4. ASSUME NEW k \in OpKeys, ReconcileEmergency(k) PROVE OpsMove
  BY <1>4 DEF ReconcileEmergency, Found
<1>5. ASSUME NEW k \in BuyKeys, ReconcileBuy(k) PROVE OpsMove
  BY <1>5 DEF ReconcileBuy, Found, Settled, NewFill
<1>6. ASSUME NEW i \in LotIx, ReconcileProtect(i) PROVE OpsMove
  BY <1>6 DEF ReconcileProtect, Found
<1>7. ASSUME NEW i \in LotIx, ReconcileRearm(i) PROVE OpsMove
  BY <1>7 DEF ReconcileRearm, Found
<1>8. ASSUME NEW i \in LotIx, NEW l \in 2 .. MaxStop, ReconcileTighten(i, l) PROVE OpsMove
  BY <1>8 DEF ReconcileTighten, Found
<1>9. ASSUME ReconcileExit PROVE OpsMove
  BY <1>9 DEF ReconcileExit, Found, Settled
<1>10. ASSUME ReconcileDone PROVE OpsMove
  BY <1>10 DEF ReconcileDone
<1>11. Reconcile => OpsMove
  BY <1>2, <1>3, <1>4, <1>5, <1>6, <1>7, <1>8, <1>9, <1>10 DEF Reconcile
<1>12. ASSUME RearmStart PROVE OpsMove
  BY <1>12 DEF RearmStart
<1>13. ASSUME RearmSkip PROVE OpsMove
  BY <1>13 DEF RearmSkip
<1>14. ASSUME RearmEnd PROVE OpsMove
  BY <1>14 DEF RearmEnd, StartReconcile
<1>15. ASSUME NEW i \in LotIx, RearmReserve(i) PROVE OpsMove
  BY <1>15, RequestTurns DEF RearmReserve, Reserve, Rearmed, Turns, Waits
<1>16. RearmFailedExit => OpsMove
  BY <1>12, <1>13, <1>14, <1>15 DEF RearmFailedExit
<1>17. ASSUME ProtectFrozen PROVE OpsMove
  BY <1>17 DEF ProtectFrozen
<1>18. ASSUME ProtectEnd PROVE OpsMove
  BY <1>18 DEF ProtectEnd
<1>19. ASSUME NEW i \in LotIx, ProtectReserve(i) PROVE OpsMove
  BY <1>19, RequestTurns DEF ProtectReserve, Reserve, MayProtect, First, Unprotected, Turns,
     Waits
<1>20. ProtectLots => OpsMove
  BY <1>17, <1>18, <1>19 DEF ProtectLots
<1>21. ASSUME ObserveLot PROVE OpsMove
  BY <1>21 DEF ObserveLot
<1>22. ASSUME ObserveEnd PROVE OpsMove
  BY <1>22 DEF ObserveEnd
<1>23. ReconcileLots => OpsMove
  BY <1>21, <1>22 DEF ReconcileLots
<1>24. ASSUME StandardCancel PROVE OpsMove
  BY <1>24 DEF StandardCancel, StartReconcile
<1>25. ASSUME StandardSkip PROVE OpsMove
  BY <1>25 DEF StandardSkip
<1>26. StandardEntry => OpsMove
  BY <1>24, <1>25 DEF StandardEntry
<1>27. ASSUME GatePending PROVE OpsMove
  BY <1>27 DEF GatePending
<1>28. ASSUME GateClosed PROVE OpsMove
  BY <1>28 DEF GateClosed
<1>29. ASSUME GateDeadline PROVE OpsMove
  BY <1>29 DEF GateDeadline
<1>30. ASSUME GateExpired PROVE OpsMove
  BY <1>30 DEF GateExpired
<1>31. ASSUME GateWait PROVE OpsMove
  BY <1>31 DEF GateWait
<1>32. ASSUME GateMarket PROVE OpsMove
  BY <1>32 DEF GateMarket
<1>33. Gate => OpsMove
  BY <1>27, <1>28, <1>29, <1>30, <1>31, <1>32 DEF Gate
<1>34. ASSUME DeadlineSkip PROVE OpsMove
  BY <1>34 DEF DeadlineSkip
<1>35. ASSUME DeadlineCancel PROVE OpsMove
  BY <1>35 DEF DeadlineCancel, CancelLegs, CancelUnconfirmed, Fault
<1>36. ASSUME DeadlineSell PROVE OpsMove
  BY <1>36, RequestTurns DEF DeadlineSell, Reserve, Turns, Waits
<1>37. Deadline => OpsMove
  BY <1>34, <1>35, <1>36 DEF Deadline
<1>38. ASSUME NEW i \in LotIx, NEW l \in 2 .. MaxStop, TightenReserve(i, l) PROVE OpsMove
  BY <1>38, RequestTurns DEF TightenReserve, Reserve, Tightening, Turns, Waits
<1>39. ASSUME TightenNext PROVE OpsMove
  BY <1>39 DEF TightenNext
<1>40. ASSUME TightenEnd PROVE OpsMove
  BY <1>40 DEF TightenEnd
<1>41. TightenStops => OpsMove
  BY <1>38, <1>39, <1>40 DEF TightenStops
<1>42. ASSUME BuyClosed PROVE OpsMove
  BY <1>42 DEF BuyClosed
<1>43. ASSUME BuyNothing PROVE OpsMove
  BY <1>43 DEF BuyNothing
<1>44. ASSUME BuyAttach PROVE OpsMove
  BY <1>44 DEF BuyAttach
<1>45. ASSUME NEW k \in BuyKeys, NEW q \in LotIx, BuyReserve(k, q) PROVE OpsMove
  BY <1>45, RequestTurns DEF BuyReserve, Turns, Waits
<1>46. Buy => OpsMove
  BY <1>42, <1>43, <1>44, <1>45 DEF Buy
<1>47. ASSUME AcceptBuy PROVE OpsMove
  BY <1>47 DEF AcceptBuy, Posting, Ends
<1>48. ASSUME AcceptProtect PROVE OpsMove
  BY <1>48 DEF AcceptProtect, Posting, Ends, Action
<1>49. ASSUME AcceptTighten PROVE OpsMove
  BY <1>49 DEF AcceptTighten, Posting, Ends, Action
<1>50. ASSUME TightenRefused PROVE OpsMove
  BY <1>50 DEF TightenRefused
<1>51. ASSUME AcceptRearm PROVE OpsMove
  BY <1>51 DEF AcceptRearm, Posting, Ends, Action
<1>52. ASSUME AcceptExit PROVE OpsMove
  BY <1>52 DEF AcceptExit, Posting, Ends
<1>53. ASSUME AcceptEmergency PROVE OpsMove
  BY <1>53 DEF AcceptEmergency, Posting, Ends
<1>54. Accept => OpsMove
  BY <1>47, <1>48, <1>49, <1>50, <1>51, <1>52, <1>53 DEF Accept
<1>55. ASSUME NEW k \in BuyKeys, NEW q \in LotIx, ReceiptMissing(k, q) PROVE OpsMove
  BY <1>55, RequestTurns DEF ReceiptMissing, Found, Fault, Reserve, Turns, Waits
<1>56. ASSUME AnswerLost PROVE OpsMove
  BY <1>56 DEF AnswerLost, Posting, Fault
<1>57. ASSUME Undelivered PROVE OpsMove
  BY <1>57 DEF Undelivered, Posting, Fault
<1>58. ASSUME Rejected PROVE OpsMove
  BY <1>58 DEF Rejected, Posting, Ends, Fault
<1>59. ASSUME Crash PROVE OpsMove
  BY <1>59 DEF Crash, Fault
<1>60. ASSUME NEW k \in SellKeys \ {Exit}, BrokerCancel(k) PROVE OpsMove
  BY <1>60 DEF BrokerCancel, Fault
<1>61. Failure => OpsMove
  BY <1>55, <1>56, <1>57, <1>58, <1>59, <1>60 DEF Failure
<1>62. ASSUME NEW k \in Keys, BrokerFill(k) PROVE OpsMove
  BY <1>62 DEF BrokerFill
<1>63. ASSUME NEW k \in Keys, BrokerTerminate(k) PROVE OpsMove
  BY <1>63 DEF BrokerTerminate
<1>64. ASSUME Expire PROVE OpsMove
  BY <1>64 DEF Expire
<1>65. ASSUME DueArrives PROVE OpsMove
  BY <1>65 DEF DueArrives
<1>66. ASSUME SwitchOff PROVE OpsMove
  BY <1>66 DEF SwitchOff
<1>67. Market => OpsMove
  BY <1>62, <1>63, <1>64, <1>65, <1>66 DEF Market
<1>68. ASSUME UNCHANGED vars PROVE OpsMove
  BY <1>68 DEF vars
<1> QED BY <1>1, <1>11, <1>16, <1>20, <1>23, <1>26, <1>33, <1>37, <1>41, <1>46, <1>54, <1>61,
     <1>67, <1>68 DEF Next, Tick

\* The stops of the lots stay, and a new lot has none.
StopsStay ==
  /\ DOMAIN lots \subseteq DOMAIN lots'
  /\ \A i \in DOMAIN lots : lots'[i].stopId = lots[i].stopId /\ lots'[i].stop = lots[i].stop
  /\ \A i \in DOMAIN lots' \ DOMAIN lots : lots'[i].stopId = NoKey

\* A record with the fields of a lot.
Shaped(lot) == lot = [parent |-> lot.parent, qty |-> lot.qty, rem |-> lot.rem,
  stop |-> lot.stop, stopId |-> lot.stopId, tpId |-> lot.tpId, seen |-> lot.seen]

\* A sale leaves the stop of its lot.
LEMMA SaleKeepsStop ==
  ASSUME NEW o, NEW lot, Shaped(lot), NEW k
  PROVE  LET new == SaleOf(o, lot, k) IN
         /\ new.stopId = lot.stopId /\ new.stop = lot.stop /\ new.tpId = lot.tpId
         /\ Shaped(new)
<1>1. CASE k = NoKey
  BY <1>1 DEF SaleOf
<1>2. CASE k # NoKey
  <2> DEFINE r == lot.rem - SaleDelta(o, lot, k)
             s == [lot.seen EXCEPT ![k] = o[k].filled]
  <2>1. SaleOf(o, lot, k) = [lot EXCEPT !.rem = r, !.seen = s]
    BY <1>2 DEF SaleOf
  <2> HIDE DEF r, s
  <2>2. SaleOf(o, lot, k) = [parent |-> lot.parent, qty |-> lot.qty, rem |-> r,
          stop |-> lot.stop, stopId |-> lot.stopId, tpId |-> lot.tpId, seen |-> s]
    BY <2>1 DEF Shaped
  <2> QED BY <2>2 DEF Shaped
<1> QED BY <1>1, <1>2

\* Observing the protections of a lot leaves its stop.
LEMMA ObservedKeepsStop ==
  ASSUME NEW o, NEW lot \in Lot
  PROVE  /\ Observed(o, lot).stopId = lot.stopId /\ Observed(o, lot).stop = lot.stop
         /\ SaleOf(o, lot, lot.stopId).stopId = lot.stopId
         /\ SaleOf(o, lot, lot.stopId).stop = lot.stop
<1> DEFINE half == SaleOf(o, lot, lot.stopId)
<1>1. Shaped(lot)
  BY DEF Lot, Shaped
<1>2. Shaped(half) /\ half.stopId = lot.stopId /\ half.stop = lot.stop
  BY <1>1, SaleKeepsStop
<1> HIDE DEF half
<1>3. SaleOf(o, half, lot.tpId).stopId = half.stopId /\ SaleOf(o, half, lot.tpId).stop = half.stop
  BY <1>2, SaleKeepsStop
<1> QED BY <1>2, <1>3 DEF half, Observed

\* A step on one lot that leaves its stop leaves all stops.
LEMMA OneLotStays ==
  ASSUME NEW i \in DOMAIN lots, NEW new, lots' = [lots EXCEPT ![i] = new], BookTypes,
         new.stopId = lots[i].stopId, new.stop = lots[i].stop
  PROVE  StopsStay
<1>1. DOMAIN lots' = DOMAIN lots /\ lots'[i] = new /\ \A j \in DOMAIN lots \ {i} : lots'[j] = lots[j]
  BY DEF BookTypes
<1> QED BY <1>1 DEF StopsStay

\* Few steps give a lot another stop.
LEMMA StopsMove ==
  ASSUME BaseInv, [Next]_vars PROVE StopsStay \/ Restops
<1> USE DEF At, Abort, Goto, Keep, saved, local, world
<1>1. ASSUME TickStart PROVE StopsStay \/ Restops
  BY <1>1 DEF StopsStay, TickStart, StartReconcile
<1>2. ASSUME NEW k \in OpKeys, ReconcileBare(k) PROVE StopsStay \/ Restops
  BY <1>2 DEF StopsStay, ReconcileBare
<1>3. ASSUME NEW k \in OpKeys, ReconcileMissing(k) PROVE StopsStay \/ Restops
  BY <1>3 DEF StopsStay, ReconcileMissing
<1>4. ASSUME NEW k \in OpKeys, ReconcileEmergency(k) PROVE StopsStay \/ Restops
  BY <1>4 DEF StopsStay, ReconcileEmergency, Found
<1>5. ASSUME NEW k \in BuyKeys, ReconcileBuy(k) PROVE StopsStay \/ Restops
  <2>1. CASE UNCHANGED lots
    BY <2>1 DEF StopsStay
  <2>2. CASE lots' = Append(lots, NewLot(k, NewFill(k)))
    <3>1. NewLot(k, NewFill(k)).stopId = NoKey
      BY DEF NewLot
    <3>2. lots \in Seq(Lot)
      BY DEF BaseInv, BookTypes
    <3>3. /\ DOMAIN lots = 1 .. Len(lots) /\ DOMAIN lots' = 1 .. (Len(lots) + 1) /\ Len(lots) \in Nat
          /\ \A j \in DOMAIN lots : lots'[j] = lots[j]
          /\ lots'[Len(lots) + 1] = NewLot(k, NewFill(k))
      BY <2>2, <3>2
    <3> QED BY <3>1, <3>3 DEF StopsStay
  <2> QED BY <1>5, <2>1, <2>2 DEF ReconcileBuy
<1>6. ASSUME NEW i \in LotIx, ReconcileProtect(i) PROVE StopsStay \/ Restops
  BY <1>6 DEF Restops
<1>7. ASSUME NEW i \in LotIx, ReconcileRearm(i) PROVE StopsStay \/ Restops
  BY <1>7 DEF Restops
<1>8. ASSUME NEW i \in LotIx, NEW l \in 2 .. MaxStop, ReconcileTighten(i, l)
     PROVE  StopsStay \/ Restops
  BY <1>8 DEF Restops
<1>9. ASSUME ReconcileExit PROVE StopsStay \/ Restops
  <2>1. CASE UNCHANGED lots
    BY <2>1 DEF StopsStay
  <2>2. ASSUME NEW d, lots' = ExitSpread(d) PROVE StopsStay
    <3>2. ASSUME NEW i \in DOMAIN lots
          PROVE  lots'[i].stopId = lots[i].stopId /\ lots'[i].stop = lots[i].stop
      <4> DEFINE r == lots[i].rem - Share(i, d)
                 s == [lots[i].seen EXCEPT ![Exit] = lots[i].seen[Exit] + Share(i, d)]
      <4>1. lots[i] \in Lot
        BY LotFields DEF BaseInv
      <4>2. lots'[i] = [lots[i] EXCEPT !.rem = r, !.seen = s]
        BY <2>2 DEF ExitSpread
      <4> HIDE DEF r, s
      <4> QED BY <4>1, <4>2 DEF Lot
    <3> QED BY <2>2, <3>2 DEF StopsStay, ExitSpread
  <2> QED BY <1>9, <2>1, <2>2 DEF ReconcileExit
<1>10. ASSUME ReconcileDone PROVE StopsStay \/ Restops
  BY <1>10 DEF StopsStay, ReconcileDone
<1>11. Reconcile => StopsStay \/ Restops
  BY <1>2, <1>3, <1>4, <1>5, <1>6, <1>7, <1>8, <1>9, <1>10 DEF Reconcile
<1>12. ASSUME RearmStart PROVE StopsStay \/ Restops
  BY <1>12 DEF StopsStay, RearmStart
<1>13. ASSUME RearmSkip PROVE StopsStay \/ Restops
  BY <1>13 DEF StopsStay, RearmSkip
<1>14. ASSUME RearmEnd PROVE StopsStay \/ Restops
  BY <1>14 DEF StopsStay, RearmEnd, StartReconcile
<1>15. ASSUME NEW i \in LotIx, RearmReserve(i) PROVE StopsStay \/ Restops
  BY <1>15 DEF StopsStay, RearmReserve, Reserve, Rearmed
<1>16. RearmFailedExit => StopsStay \/ Restops
  BY <1>12, <1>13, <1>14, <1>15 DEF RearmFailedExit
<1>17. ASSUME ProtectFrozen PROVE StopsStay \/ Restops
  BY <1>17 DEF StopsStay, ProtectFrozen
<1>18. ASSUME ProtectEnd PROVE StopsStay \/ Restops
  BY <1>18 DEF StopsStay, ProtectEnd
<1>19. ASSUME NEW i \in LotIx, ProtectReserve(i) PROVE StopsStay \/ Restops
  BY <1>19 DEF StopsStay, ProtectReserve, Reserve, MayProtect, First, Unprotected
<1>20. ProtectLots => StopsStay \/ Restops
  BY <1>17, <1>18, <1>19 DEF ProtectLots
<1>21. ASSUME ObserveLot PROVE StopsStay \/ Restops
  <2>1. cur \in DOMAIN lots
    BY <1>21, LotsFinite DEF ObserveLot, BaseInv, TickTypes
  <2>2. lots[cur] \in Lot
    BY <2>1, LotFields DEF BaseInv
  <2>3. CASE UNCHANGED lots
    BY <2>3 DEF StopsStay
  <2>4. CASE lots' = [lots EXCEPT ![cur] = Observed(ord, lots[cur])]
    BY <2>1, <2>2, <2>4, ObservedKeepsStop, OneLotStays DEF BaseInv
  <2> QED BY <1>21, <2>3, <2>4 DEF ObserveLot
<1>22. ASSUME ObserveEnd PROVE StopsStay \/ Restops
  BY <1>22 DEF StopsStay, ObserveEnd
<1>23. ReconcileLots => StopsStay \/ Restops
  BY <1>21, <1>22 DEF ReconcileLots
<1>24. ASSUME StandardCancel PROVE StopsStay \/ Restops
  BY <1>24 DEF StopsStay, StandardCancel, StartReconcile
<1>25. ASSUME StandardSkip PROVE StopsStay \/ Restops
  BY <1>25 DEF StopsStay, StandardSkip
<1>26. StandardEntry => StopsStay \/ Restops
  BY <1>24, <1>25 DEF StandardEntry
<1>27. ASSUME GatePending PROVE StopsStay \/ Restops
  BY <1>27 DEF StopsStay, GatePending
<1>28. ASSUME GateClosed PROVE StopsStay \/ Restops
  BY <1>28 DEF StopsStay, GateClosed
<1>29. ASSUME GateDeadline PROVE StopsStay \/ Restops
  BY <1>29 DEF StopsStay, GateDeadline
<1>30. ASSUME GateExpired PROVE StopsStay \/ Restops
  BY <1>30 DEF StopsStay, GateExpired
<1>31. ASSUME GateWait PROVE StopsStay \/ Restops
  BY <1>31 DEF StopsStay, GateWait
<1>32. ASSUME GateMarket PROVE StopsStay \/ Restops
  BY <1>32 DEF StopsStay, GateMarket
<1>33. Gate => StopsStay \/ Restops
  BY <1>27, <1>28, <1>29, <1>30, <1>31, <1>32 DEF Gate
<1>34. ASSUME DeadlineSkip PROVE StopsStay \/ Restops
  BY <1>34 DEF StopsStay, DeadlineSkip
<1>35. ASSUME DeadlineCancel PROVE StopsStay \/ Restops
  <2>1. cur \in DOMAIN lots
    BY <1>35, LotsFinite DEF DeadlineCancel, BaseInv, TickTypes
  <2>2. lots[cur] \in Lot
    BY <2>1, LotFields DEF BaseInv
  <2> DEFINE o == Canceled(ord, lots[cur].stopId)
  <2>3. CASE UNCHANGED lots
    BY <2>3 DEF StopsStay
  <2>4. CASE lots' = [lots EXCEPT ![cur] = Observed(o, lots[cur])]
    BY <2>1, <2>2, <2>4, ObservedKeepsStop, OneLotStays DEF BaseInv
  <2>5. CASE lots' = [lots EXCEPT ![cur] = SaleOf(o, lots[cur], lots[cur].stopId)]
    BY <2>1, <2>2, <2>5, ObservedKeepsStop, OneLotStays DEF BaseInv
  <2>6. UNCHANGED lots \/ lots' = [lots EXCEPT ![cur] = Observed(o, lots[cur])]
          \/ lots' = [lots EXCEPT ![cur] = SaleOf(o, lots[cur], lots[cur].stopId)]
    BY <1>35 DEF DeadlineCancel, CancelLegs, CancelUnconfirmed
  <2> QED BY <2>3, <2>4, <2>5, <2>6
<1>36. ASSUME DeadlineSell PROVE StopsStay \/ Restops
  BY <1>36 DEF StopsStay, DeadlineSell, Reserve
<1>37. Deadline => StopsStay \/ Restops
  BY <1>34, <1>35, <1>36 DEF Deadline
<1>38. ASSUME NEW i \in LotIx, NEW l \in 2 .. MaxStop, TightenReserve(i, l)
     PROVE  StopsStay \/ Restops
  BY <1>38 DEF StopsStay, TightenReserve, Reserve, Tightening
<1>39. ASSUME TightenNext PROVE StopsStay \/ Restops
  BY <1>39 DEF StopsStay, TightenNext
<1>40. ASSUME TightenEnd PROVE StopsStay \/ Restops
  BY <1>40 DEF StopsStay, TightenEnd
<1>41. TightenStops => StopsStay \/ Restops
  BY <1>38, <1>39, <1>40 DEF TightenStops
<1>42. ASSUME BuyClosed PROVE StopsStay \/ Restops
  BY <1>42 DEF StopsStay, BuyClosed
<1>43. ASSUME BuyNothing PROVE StopsStay \/ Restops
  BY <1>43 DEF StopsStay, BuyNothing
<1>44. ASSUME BuyAttach PROVE StopsStay \/ Restops
  BY <1>44 DEF StopsStay, BuyAttach
<1>45. ASSUME NEW k \in BuyKeys, NEW q \in LotIx, BuyReserve(k, q) PROVE StopsStay \/ Restops
  BY <1>45 DEF StopsStay, BuyReserve
<1>46. Buy => StopsStay \/ Restops
  BY <1>42, <1>43, <1>44, <1>45 DEF Buy
<1>47. ASSUME AcceptBuy PROVE StopsStay \/ Restops
  BY <1>47 DEF StopsStay, AcceptBuy, Posting, Ends
<1>48. ASSUME AcceptProtect PROVE StopsStay \/ Restops
  BY <1>48 DEF Restops
<1>49. ASSUME AcceptTighten PROVE StopsStay \/ Restops
  BY <1>49 DEF Restops
<1>50. ASSUME TightenRefused PROVE StopsStay \/ Restops
  BY <1>50 DEF StopsStay, TightenRefused
<1>51. ASSUME AcceptRearm PROVE StopsStay \/ Restops
  BY <1>51 DEF StopsStay, AcceptRearm, Posting, Ends, Action
<1>52. ASSUME AcceptExit PROVE StopsStay \/ Restops
  BY <1>52 DEF StopsStay, AcceptExit, Posting, Ends
<1>53. ASSUME AcceptEmergency PROVE StopsStay \/ Restops
  BY <1>53 DEF StopsStay, AcceptEmergency, Posting, Ends
<1>54. Accept => StopsStay \/ Restops
  BY <1>47, <1>48, <1>49, <1>50, <1>51, <1>52, <1>53 DEF Accept
<1>55. ASSUME NEW k \in BuyKeys, NEW q \in LotIx, ReceiptMissing(k, q)
     PROVE  StopsStay \/ Restops
  BY <1>55 DEF StopsStay, ReceiptMissing, Found, Fault, Reserve
<1>56. ASSUME AnswerLost PROVE StopsStay \/ Restops
  BY <1>56 DEF StopsStay, AnswerLost, Posting, Fault
<1>57. ASSUME Undelivered PROVE StopsStay \/ Restops
  BY <1>57 DEF StopsStay, Undelivered, Posting, Fault
<1>58. ASSUME Rejected PROVE StopsStay \/ Restops
  BY <1>58 DEF StopsStay, Rejected, Posting, Ends, Fault
<1>59. ASSUME Crash PROVE StopsStay \/ Restops
  BY <1>59 DEF StopsStay, Crash, Fault
<1>60. ASSUME NEW k \in SellKeys \ {Exit}, BrokerCancel(k) PROVE StopsStay \/ Restops
  BY <1>60 DEF StopsStay, BrokerCancel, Fault
<1>61. Failure => StopsStay \/ Restops
  BY <1>55, <1>56, <1>57, <1>58, <1>59, <1>60 DEF Failure
<1>62. ASSUME NEW k \in Keys, BrokerFill(k) PROVE StopsStay \/ Restops
  BY <1>62 DEF StopsStay, BrokerFill
<1>63. ASSUME NEW k \in Keys, BrokerTerminate(k) PROVE StopsStay \/ Restops
  BY <1>63 DEF StopsStay, BrokerTerminate
<1>64. ASSUME Expire PROVE StopsStay \/ Restops
  BY <1>64 DEF StopsStay, Expire
<1>65. ASSUME DueArrives PROVE StopsStay \/ Restops
  BY <1>65 DEF StopsStay, DueArrives
<1>66. ASSUME SwitchOff PROVE StopsStay \/ Restops
  BY <1>66 DEF StopsStay, SwitchOff
<1>67. Market => StopsStay \/ Restops
  BY <1>62, <1>63, <1>64, <1>65, <1>66 DEF Market
<1>68. ASSUME UNCHANGED vars PROVE StopsStay \/ Restops
  BY <1>68 DEF StopsStay, vars
<1> QED BY <1>1, <1>11, <1>16, <1>20, <1>23, <1>26, <1>33, <1>37, <1>41, <1>46, <1>54, <1>61,
     <1>67, <1>68 DEF Next, Tick

-----------------------------------------------------------------------------
\* A new operation is the one that is reserved; none is forgotten.
OnlyReserved == \A k \in OpKeys :
  /\ ops[k] # "none" => ops'[k] # "none"
  /\ ops'[k] # "none" => ops[k] # "none" \/ (Reserves /\ k = req')

\* Each kind of step adds the operation it reserves and forgets none.
LEMMA NewOps == ASSUME Moves, Turns, OutboxInv PROVE OnlyReserved
<1>1. CASE Quiet
  BY <1>1 DEF Quiet, Kept, OnlyReserved
<1>2. CASE Sending
  BY <1>2 DEF Sending, Kept, OnlyReserved
<1>3. CASE Reserving
  <2>1. PICK k \in OpKeys : ops' = [ops EXCEPT ![k] = "RESERVED"] /\ req' = k /\ pc' \in {"attach", "post"}
    BY <1>3 DEF Reserving
  <2>2. CASE Reserves
    BY <2>1, <2>2 DEF OnlyReserved, OutboxInv, Typed, OpStatus
  <2>3. CASE Waits
    BY <2>3 DEF Waits, OnlyReserved
  <2> QED BY <2>1, <2>2, <2>3 DEF Turns
<1> QED BY <1>1, <1>2, <1>3 DEF Moves

\* Lot i gets the stop s, at level l.
Restop(i, s, l) ==
  /\ i \in DOMAIN lots /\ s # NoKey /\ DOMAIN lots' = DOMAIN lots
  /\ lots'[i].stopId = s /\ lots'[i].stop = l
  /\ \A j \in DOMAIN lots \ {i} : lots'[j] = lots[j]

\* How a lot comes to another stop.
Protected == \E i \in LotIx : \E s \in LotKeys(i) :
  /\ ReconcileProtect(i) \/ (AcceptProtect /\ req = Protect(i))
  /\ Restop(i, s, lots[i].stop)
Rearming == \E i \in LotIx : ReconcileRearm(i) /\ Restop(i, Rearm(i), lots[i].stop)
Raised == \E i \in LotIx, l \in 2 .. MaxStop :
  /\ ReconcileTighten(i, l) \/ (AcceptTighten /\ req = Tighten(i, l))
  /\ Restop(i, Tighten(i, l), l)

\* Attaching a protection gives the lot its stop.
LEMMA AttachedIs ==
  ASSUME BookTypes, NEW i \in DOMAIN lots, lots' = Attached(i)
  PROVE  \E s \in LotKeys(i) : Restop(i, s, lots[i].stop)
<1> DEFINE s == IF TakeProfit THEN StopLeg(i) ELSE Protect(i)
           t == IF TakeProfit THEN Protect(i) ELSE NoKey
<1>1. s \in LotKeys(i) /\ s # NoKey
  BY LotFields, LotKeyFacts, Families DEF SellKeys
<1>2. lots' = [lots EXCEPT ![i].stopId = s, ![i].tpId = t] /\ lots[i] \in Lot
  BY LotFields DEF Attached
<1> HIDE DEF s, t
<1>3. DOMAIN lots' = DOMAIN lots /\ \A j \in DOMAIN lots \ {i} : lots'[j] = lots[j]
  BY <1>2 DEF BookTypes
<1>4. lots'[i] = [lots[i] EXCEPT !.stopId = s, !.tpId = t]
  BY <1>2 DEF BookTypes
<1>5. lots'[i].stopId = s /\ lots'[i].stop = lots[i].stop
  BY <1>2, <1>4 DEF Lot
<1> QED BY <1>1, <1>3, <1>5 DEF Restop

\* A stop changes by a protection, a rearming or a replacement.
LEMMA RestopsAre ==
  ASSUME BaseInv, Restops
  PROVE  UNCHANGED lots \/ Protected \/ Rearming \/ Raised
<1>0. BookTypes /\ LotOps
  BY DEF BaseInv
<1>1. ASSUME NEW i \in LotIx, ReconcileProtect(i) PROVE Protected
  <2>1. i \in DOMAIN lots
    BY <1>1 DEF ReconcileProtect, Found, BaseInv, OutboxInv, Listed, LotOps
  <2> QED BY <1>0, <1>1, <2>1, AttachedIs DEF ReconcileProtect, Protected
<1>2. ASSUME AcceptProtect PROVE Protected
  <2>1. PICK i \in LotIx : req = Protect(i)
    BY <1>2, OpKinds, Families DEF AcceptProtect, Posting, Action, At, BaseInv, OutboxInv,
       Durable, BuyKeys
  <2>2. i \in DOMAIN lots /\ req[2] = i
    BY <1>2, <2>1, Families DEF AcceptProtect, Posting, At, BaseInv, Asked
  <2> QED BY <1>0, <1>2, <2>1, <2>2, AttachedIs DEF AcceptProtect, Protected
<1>3. ASSUME NEW i \in LotIx, ReconcileRearm(i), ~UNCHANGED lots PROVE Rearming
  <2>1. i \in DOMAIN lots
    BY <1>3 DEF ReconcileRearm, Found, BaseInv, OutboxInv, Listed, LotOps
  <2>2. lots' = [lots EXCEPT ![i].stopId = Rearm(i), ![i].tpId = NoKey] /\ lots[i] \in Lot
    BY <1>0, <1>3, <2>1, LotFields DEF ReconcileRearm
  <2>3. DOMAIN lots' = DOMAIN lots /\ \A j \in DOMAIN lots \ {i} : lots'[j] = lots[j]
    BY <1>0, <2>2 DEF BookTypes
  <2>4. lots'[i] = [lots[i] EXCEPT !.stopId = Rearm(i), !.tpId = NoKey]
    BY <1>0, <2>1, <2>2 DEF BookTypes
  <2>5. lots'[i].stopId = Rearm(i) /\ lots'[i].stop = lots[i].stop
    BY <2>2, <2>4 DEF Lot
  <2>6. Rearm(i) # NoKey
    BY Families
  <2> QED BY <1>3, <2>1, <2>3, <2>5, <2>6 DEF Rearming, Restop
<1>4. ASSUME NEW i \in LotIx, NEW l \in 2 .. MaxStop, i \in DOMAIN lots,
             lots' = [lots EXCEPT ![i].stopId = Tighten(i, l), ![i].stop = l]
      PROVE  Restop(i, Tighten(i, l), l)
  <2>1. lots[i] \in Lot
    BY <1>0, <1>4, LotFields
  <2>3. DOMAIN lots' = DOMAIN lots /\ \A j \in DOMAIN lots \ {i} : lots'[j] = lots[j]
    BY <1>0, <1>4 DEF BookTypes
  <2>4. lots'[i] = [lots[i] EXCEPT !.stopId = Tighten(i, l), !.stop = l]
    BY <1>0, <1>4 DEF BookTypes
  <2>5. lots'[i].stopId = Tighten(i, l) /\ lots'[i].stop = l /\ Tighten(i, l) # NoKey
    BY <2>1, <2>4, Families DEF Lot
  <2> QED BY <1>4, <2>3, <2>5 DEF Restop
<1>5. ASSUME NEW i \in LotIx, NEW l \in 2 .. MaxStop, ReconcileTighten(i, l), ~UNCHANGED lots
      PROVE  Raised
  <2>1. i \in DOMAIN lots
    BY <1>5 DEF ReconcileTighten, Found, BaseInv, OutboxInv, Listed, LotOps
  <2> QED BY <1>4, <1>5, <2>1 DEF ReconcileTighten, Raised
<1>6. ASSUME AcceptTighten PROVE Raised
  <2>1. PICK i \in LotIx, l \in 2 .. MaxStop : req = Tighten(i, l)
    BY <1>6, OpKinds, Families DEF AcceptTighten, Posting, Action, At, BaseInv, OutboxInv,
       Durable, BuyKeys
  <2>2. i \in DOMAIN lots /\ req[2] = i /\ req[3] = l
    BY <1>6, <2>1, Families DEF AcceptTighten, Posting, At, BaseInv, Asked
  <2>3. lots' = [lots EXCEPT ![i].stopId = Tighten(i, l), ![i].stop = l]
    BY <1>6, <2>1, <2>2 DEF AcceptTighten
  <2> QED BY <1>4, <1>6, <2>1, <2>2, <2>3 DEF Raised
<1> QED BY <1>1, <1>2, <1>3, <1>5, <1>6 DEF Restops

\* Lots are added, never removed, and a lot keeps having a stop.
LotsStay == /\ DOMAIN lots \subseteq DOMAIN lots'
            /\ \A i \in DOMAIN lots : lots[i].stopId # NoKey => lots'[i].stopId # NoKey

\* Every step keeps the lots, and the stops they have.
LEMMA LotsGrow == ASSUME BaseInv, StopsStay \/ Restops PROVE LotsStay
  BY RestopsAre DEF StopsStay, LotsStay, Protected, Rearming, Raised, Restop

\* Where the tick stands with the exit.
ExitPath ==
  /\ pc = "tighten" => ops[Exit] = "none"
  /\ pc = "rearmLots" => ops[Exit] # "none"
  /\ ops[Exit] # "none" \/ pc = "deadline" => due /\ DOMAIN lots # {}
  /\ \A i \in LotIx : ops[Rearm(i)] # "none" => ops[Exit] # "none"
  /\ pc = "attach" => req \in BuyKeys /\ want[req] \in LotIx
ExitPlaces == (pc = "tighten" => ops[Exit] = "none") /\ (pc = "rearmLots" => ops[Exit] # "none")

\* The action's name tells the kind of the request.
LEMMA RequestKinds ==
  ASSUME BaseInv, pc = "post"
  PROVE  /\ Action = "TIGHTEN" => \E i \in LotIx, l \in 2 .. MaxStop : req = Tighten(i, l)
         /\ Action = "REARM" => \E i \in LotIx : req = Rearm(i)
         /\ Action = "PROTECT" => \E i \in LotIx : req = Protect(i)
         /\ req \in OpKeys /\ ops[req] # "none"
  BY OpKinds, Families DEF Action, BaseInv, OutboxInv, Durable, BuyKeys

\* Stops are raised before any exit, and lots rearmed after one.
LEMMA ExitPlacesStep ==
  ASSUME BaseInv, ExitPath, OnlyReserved, Turns, [Next]_vars PROVE ExitPlaces'
<1>0. (ops'[Exit] = "none" <=> ops[Exit] = "none") \/ (Reserves /\ req' = Exit)
  BY Families DEF OnlyReserved
<1> USE <1>0 DEF ExitPath, ExitPlaces, At, Abort, Goto, Keep, saved, local, world
<1>1. ASSUME TickStart PROVE ExitPlaces'
  BY <1>1 DEF TickStart, StartReconcile
<1>2. ASSUME NEW k \in OpKeys, ReconcileBare(k) PROVE ExitPlaces'
  BY <1>2 DEF ReconcileBare
<1>3. ASSUME NEW k \in OpKeys, ReconcileMissing(k) PROVE ExitPlaces'
  BY <1>3 DEF ReconcileMissing
<1>4. ASSUME NEW k \in OpKeys, ReconcileEmergency(k) PROVE ExitPlaces'
  BY <1>4 DEF ReconcileEmergency, Found
<1>5. ASSUME NEW k \in BuyKeys, ReconcileBuy(k) PROVE ExitPlaces'
  BY <1>5 DEF ReconcileBuy, Found, Settled, NewFill
<1>6. ASSUME NEW i \in LotIx, ReconcileProtect(i) PROVE ExitPlaces'
  BY <1>6 DEF ReconcileProtect, Found
<1>7. ASSUME NEW i \in LotIx, ReconcileRearm(i) PROVE ExitPlaces'
  BY <1>7 DEF ReconcileRearm, Found
<1>8. ASSUME NEW i \in LotIx, NEW l \in 2 .. MaxStop, ReconcileTighten(i, l) PROVE ExitPlaces'
  BY <1>8 DEF ReconcileTighten, Found
<1>9. ASSUME ReconcileExit PROVE ExitPlaces'
  BY <1>9 DEF ReconcileExit, Found, Settled
<1>10. ASSUME ReconcileDone PROVE ExitPlaces'
  BY <1>10 DEF ReconcileDone
<1>11. Reconcile => ExitPlaces'
  BY <1>2, <1>3, <1>4, <1>5, <1>6, <1>7, <1>8, <1>9, <1>10 DEF Reconcile
<1>12. ASSUME RearmStart PROVE ExitPlaces'
  BY <1>12 DEF RearmStart, ExitFailed
<1>13. ASSUME RearmSkip PROVE ExitPlaces'
  BY <1>13 DEF RearmSkip
<1>14. ASSUME RearmEnd PROVE ExitPlaces'
  BY <1>14 DEF RearmEnd, StartReconcile
<1>15. ASSUME NEW i \in LotIx, RearmReserve(i) PROVE ExitPlaces'
  BY <1>15 DEF RearmReserve, Reserve, Rearmed
<1>16. RearmFailedExit => ExitPlaces'
  BY <1>12, <1>13, <1>14, <1>15 DEF RearmFailedExit
<1>17. ASSUME ProtectFrozen PROVE ExitPlaces'
  BY <1>17 DEF ProtectFrozen
<1>18. ASSUME ProtectEnd PROVE ExitPlaces'
  BY <1>18 DEF ProtectEnd
<1>19. ASSUME NEW i \in LotIx, ProtectReserve(i) PROVE ExitPlaces'
  BY <1>19 DEF ProtectReserve, Reserve, MayProtect, First, Unprotected
<1>20. ProtectLots => ExitPlaces'
  BY <1>17, <1>18, <1>19 DEF ProtectLots
<1>21. ASSUME ObserveLot PROVE ExitPlaces'
  BY <1>21 DEF ObserveLot
<1>22. ASSUME ObserveEnd PROVE ExitPlaces'
  BY <1>22 DEF ObserveEnd
<1>23. ReconcileLots => ExitPlaces'
  BY <1>21, <1>22 DEF ReconcileLots
<1>24. ASSUME StandardCancel PROVE ExitPlaces'
  BY <1>24 DEF StandardCancel, StartReconcile
<1>25. ASSUME StandardSkip PROVE ExitPlaces'
  BY <1>25 DEF StandardSkip
<1>26. StandardEntry => ExitPlaces'
  BY <1>24, <1>25 DEF StandardEntry
<1>27. ASSUME GatePending PROVE ExitPlaces'
  BY <1>27 DEF GatePending
<1>28. ASSUME GateClosed PROVE ExitPlaces'
  BY <1>28 DEF GateClosed
<1>29. ASSUME GateDeadline PROVE ExitPlaces'
  BY <1>29 DEF GateDeadline
<1>30. ASSUME GateExpired PROVE ExitPlaces'
  BY <1>30 DEF GateExpired
<1>31. ASSUME GateWait PROVE ExitPlaces'
  BY <1>31 DEF GateWait
<1>32. ASSUME GateMarket PROVE ExitPlaces'
  <2>1. MustExit \/ AllSold \/ ops[Exit] = "none"
    BY DEF ExitPath, MustExit, AllSold, BaseInv, BookTypes, AnyHeld
  <2> QED BY <1>32, <2>1 DEF GateMarket
<1>33. Gate => ExitPlaces'
  BY <1>27, <1>28, <1>29, <1>30, <1>31, <1>32 DEF Gate
<1>34. ASSUME DeadlineSkip PROVE ExitPlaces'
  BY <1>34 DEF DeadlineSkip
<1>35. ASSUME DeadlineCancel PROVE ExitPlaces'
  BY <1>35 DEF DeadlineCancel, CancelLegs, CancelUnconfirmed, Fault
<1>36. ASSUME DeadlineSell PROVE ExitPlaces'
  BY <1>36 DEF DeadlineSell, Reserve
<1>37. Deadline => ExitPlaces'
  BY <1>34, <1>35, <1>36 DEF Deadline
<1>38. ASSUME NEW i \in LotIx, NEW l \in 2 .. MaxStop, TightenReserve(i, l) PROVE ExitPlaces'
  BY <1>38 DEF TightenReserve, Reserve, Tightening
<1>39. ASSUME TightenNext PROVE ExitPlaces'
  BY <1>39 DEF TightenNext
<1>40. ASSUME TightenEnd PROVE ExitPlaces'
  BY <1>40 DEF TightenEnd
<1>41. TightenStops => ExitPlaces'
  BY <1>38, <1>39, <1>40 DEF TightenStops
<1>42. ASSUME BuyClosed PROVE ExitPlaces'
  BY <1>42 DEF BuyClosed
<1>43. ASSUME BuyNothing PROVE ExitPlaces'
  BY <1>43 DEF BuyNothing
<1>44. ASSUME BuyAttach PROVE ExitPlaces'
  BY <1>44 DEF BuyAttach
<1>45. ASSUME NEW k \in BuyKeys, NEW q \in LotIx, BuyReserve(k, q) PROVE ExitPlaces'
  BY <1>45 DEF BuyReserve
<1>46. Buy => ExitPlaces'
  BY <1>42, <1>43, <1>44, <1>45 DEF Buy
<1>47. ASSUME AcceptBuy PROVE ExitPlaces'
  BY <1>47 DEF AcceptBuy, Posting, Ends
<1>48. ASSUME AcceptProtect PROVE ExitPlaces'
  BY <1>48 DEF AcceptProtect, Posting, Ends, Action
<1>49. ASSUME AcceptTighten PROVE ExitPlaces'
  BY <1>49, RequestKinds, Families DEF AcceptTighten, Posting, Ends, Action, BaseInv, Asked
<1>50. ASSUME TightenRefused PROVE ExitPlaces'
  BY <1>50 DEF TightenRefused
<1>51. ASSUME AcceptRearm PROVE ExitPlaces'
  BY <1>51, RequestKinds, Families DEF AcceptRearm, Posting, Ends, Action, ExitPath
<1>52. ASSUME AcceptExit PROVE ExitPlaces'
  BY <1>52 DEF AcceptExit, Posting, Ends
<1>53. ASSUME AcceptEmergency PROVE ExitPlaces'
  BY <1>53 DEF AcceptEmergency, Posting, Ends
<1>54. Accept => ExitPlaces'
  BY <1>47, <1>48, <1>49, <1>50, <1>51, <1>52, <1>53 DEF Accept
<1>55. ASSUME NEW k \in BuyKeys, NEW q \in LotIx, ReceiptMissing(k, q) PROVE ExitPlaces'
  BY <1>55 DEF ReceiptMissing, Found, Fault, Reserve
<1>56. ASSUME AnswerLost PROVE ExitPlaces'
  BY <1>56 DEF AnswerLost, Posting, Fault
<1>57. ASSUME Undelivered PROVE ExitPlaces'
  BY <1>57 DEF Undelivered, Posting, Fault
<1>58. ASSUME Rejected PROVE ExitPlaces'
  BY <1>58 DEF Rejected, Posting, Ends, Fault
<1>59. ASSUME Crash PROVE ExitPlaces'
  BY <1>59 DEF Crash, Fault
<1>60. ASSUME NEW k \in SellKeys \ {Exit}, BrokerCancel(k) PROVE ExitPlaces'
  BY <1>60 DEF BrokerCancel, Fault
<1>61. Failure => ExitPlaces'
  BY <1>55, <1>56, <1>57, <1>58, <1>59, <1>60 DEF Failure
<1>62. ASSUME NEW k \in Keys, BrokerFill(k) PROVE ExitPlaces'
  BY <1>62 DEF BrokerFill
<1>63. ASSUME NEW k \in Keys, BrokerTerminate(k) PROVE ExitPlaces'
  BY <1>63 DEF BrokerTerminate
<1>64. ASSUME Expire PROVE ExitPlaces'
  BY <1>64 DEF Expire
<1>65. ASSUME DueArrives PROVE ExitPlaces'
  BY <1>65 DEF DueArrives
<1>66. ASSUME SwitchOff PROVE ExitPlaces'
  BY <1>66 DEF SwitchOff
<1>67. Market => ExitPlaces'
  BY <1>62, <1>63, <1>64, <1>65, <1>66 DEF Market
<1>68. ASSUME UNCHANGED vars PROVE ExitPlaces'
  BY <1>68 DEF vars
<1> QED BY <1>1, <1>11, <1>16, <1>20, <1>23, <1>26, <1>33, <1>37, <1>41, <1>46, <1>54, <1>61,
     <1>67, <1>68 DEF Next, Tick

-----------------------------------------------------------------------------
\* The horizon does not move back, and the exit is for it.
DueStays == (due => due') /\ (pc' = "deadline" => pc = "deadline" \/ (due /\ DOMAIN lots # {}))

\* The horizon does not move back, and only it leads to the exit.
LEMMA DueStep ==
  ASSUME BaseInv, [Next]_vars PROVE DueStays
<1> USE DEF DueStays, At, Abort, Goto, Keep, saved, local, world
<1>1. ASSUME TickStart PROVE DueStays
  BY <1>1 DEF TickStart, StartReconcile
<1>2. ASSUME NEW k \in OpKeys, ReconcileBare(k) PROVE DueStays
  BY <1>2 DEF ReconcileBare
<1>3. ASSUME NEW k \in OpKeys, ReconcileMissing(k) PROVE DueStays
  BY <1>3 DEF ReconcileMissing
<1>4. ASSUME NEW k \in OpKeys, ReconcileEmergency(k) PROVE DueStays
  BY <1>4 DEF ReconcileEmergency, Found
<1>5. ASSUME NEW k \in BuyKeys, ReconcileBuy(k) PROVE DueStays
  BY <1>5 DEF ReconcileBuy, Found, Settled, NewFill
<1>6. ASSUME NEW i \in LotIx, ReconcileProtect(i) PROVE DueStays
  BY <1>6 DEF ReconcileProtect, Found
<1>7. ASSUME NEW i \in LotIx, ReconcileRearm(i) PROVE DueStays
  BY <1>7 DEF ReconcileRearm, Found
<1>8. ASSUME NEW i \in LotIx, NEW l \in 2 .. MaxStop, ReconcileTighten(i, l) PROVE DueStays
  BY <1>8 DEF ReconcileTighten, Found
<1>9. ASSUME ReconcileExit PROVE DueStays
  BY <1>9 DEF ReconcileExit, Found, Settled
<1>10. ASSUME ReconcileDone PROVE DueStays
  BY <1>10 DEF ReconcileDone
<1>11. Reconcile => DueStays
  BY <1>2, <1>3, <1>4, <1>5, <1>6, <1>7, <1>8, <1>9, <1>10 DEF Reconcile
<1>12. ASSUME RearmStart PROVE DueStays
  BY <1>12 DEF RearmStart
<1>13. ASSUME RearmSkip PROVE DueStays
  BY <1>13 DEF RearmSkip
<1>14. ASSUME RearmEnd PROVE DueStays
  BY <1>14 DEF RearmEnd, StartReconcile
<1>15. ASSUME NEW i \in LotIx, RearmReserve(i) PROVE DueStays
  BY <1>15 DEF RearmReserve, Reserve, Rearmed
<1>16. RearmFailedExit => DueStays
  BY <1>12, <1>13, <1>14, <1>15 DEF RearmFailedExit
<1>17. ASSUME ProtectFrozen PROVE DueStays
  BY <1>17 DEF ProtectFrozen
<1>18. ASSUME ProtectEnd PROVE DueStays
  BY <1>18 DEF ProtectEnd
<1>19. ASSUME NEW i \in LotIx, ProtectReserve(i) PROVE DueStays
  BY <1>19 DEF ProtectReserve, Reserve, MayProtect, First, Unprotected
<1>20. ProtectLots => DueStays
  BY <1>17, <1>18, <1>19 DEF ProtectLots
<1>21. ASSUME ObserveLot PROVE DueStays
  BY <1>21 DEF ObserveLot
<1>22. ASSUME ObserveEnd PROVE DueStays
  BY <1>22 DEF ObserveEnd
<1>23. ReconcileLots => DueStays
  BY <1>21, <1>22 DEF ReconcileLots
<1>24. ASSUME StandardCancel PROVE DueStays
  BY <1>24 DEF StandardCancel, StartReconcile
<1>25. ASSUME StandardSkip PROVE DueStays
  BY <1>25 DEF StandardSkip
<1>26. StandardEntry => DueStays
  BY <1>24, <1>25 DEF StandardEntry
<1>27. ASSUME GatePending PROVE DueStays
  BY <1>27 DEF GatePending
<1>28. ASSUME GateClosed PROVE DueStays
  BY <1>28 DEF GateClosed
<1>29. ASSUME GateDeadline PROVE DueStays
  BY <1>29 DEF GateDeadline, MustExit, AnyHeld
<1>30. ASSUME GateExpired PROVE DueStays
  BY <1>30 DEF GateExpired
<1>31. ASSUME GateWait PROVE DueStays
  BY <1>31 DEF GateWait
<1>32. ASSUME GateMarket PROVE DueStays
  BY <1>32 DEF GateMarket
<1>33. Gate => DueStays
  BY <1>27, <1>28, <1>29, <1>30, <1>31, <1>32 DEF Gate
<1>34. ASSUME DeadlineSkip PROVE DueStays
  BY <1>34 DEF DeadlineSkip
<1>35. ASSUME DeadlineCancel PROVE DueStays
  BY <1>35 DEF DeadlineCancel, CancelLegs, CancelUnconfirmed, Fault
<1>36. ASSUME DeadlineSell PROVE DueStays
  BY <1>36 DEF DeadlineSell, Reserve
<1>37. Deadline => DueStays
  BY <1>34, <1>35, <1>36 DEF Deadline
<1>38. ASSUME NEW i \in LotIx, NEW l \in 2 .. MaxStop, TightenReserve(i, l) PROVE DueStays
  BY <1>38 DEF TightenReserve, Reserve, Tightening
<1>39. ASSUME TightenNext PROVE DueStays
  BY <1>39 DEF TightenNext
<1>40. ASSUME TightenEnd PROVE DueStays
  BY <1>40 DEF TightenEnd
<1>41. TightenStops => DueStays
  BY <1>38, <1>39, <1>40 DEF TightenStops
<1>42. ASSUME BuyClosed PROVE DueStays
  BY <1>42 DEF BuyClosed
<1>43. ASSUME BuyNothing PROVE DueStays
  BY <1>43 DEF BuyNothing
<1>44. ASSUME BuyAttach PROVE DueStays
  BY <1>44 DEF BuyAttach
<1>45. ASSUME NEW k \in BuyKeys, NEW q \in LotIx, BuyReserve(k, q) PROVE DueStays
  BY <1>45 DEF BuyReserve
<1>46. Buy => DueStays
  BY <1>42, <1>43, <1>44, <1>45 DEF Buy
<1>47. ASSUME AcceptBuy PROVE DueStays
  BY <1>47 DEF AcceptBuy, Posting, Ends
<1>48. ASSUME AcceptProtect PROVE DueStays
  BY <1>48 DEF AcceptProtect, Posting, Ends, Action
<1>49. ASSUME AcceptTighten PROVE DueStays
  BY <1>49 DEF AcceptTighten, Posting, Ends, Action
<1>50. ASSUME TightenRefused PROVE DueStays
  BY <1>50 DEF TightenRefused
<1>51. ASSUME AcceptRearm PROVE DueStays
  BY <1>51 DEF AcceptRearm, Posting, Ends, Action
<1>52. ASSUME AcceptExit PROVE DueStays
  BY <1>52 DEF AcceptExit, Posting, Ends
<1>53. ASSUME AcceptEmergency PROVE DueStays
  BY <1>53 DEF AcceptEmergency, Posting, Ends
<1>54. Accept => DueStays
  BY <1>47, <1>48, <1>49, <1>50, <1>51, <1>52, <1>53 DEF Accept
<1>55. ASSUME NEW k \in BuyKeys, NEW q \in LotIx, ReceiptMissing(k, q) PROVE DueStays
  BY <1>55 DEF ReceiptMissing, Found, Fault, Reserve
<1>56. ASSUME AnswerLost PROVE DueStays
  BY <1>56 DEF AnswerLost, Posting, Fault
<1>57. ASSUME Undelivered PROVE DueStays
  BY <1>57 DEF Undelivered, Posting, Fault
<1>58. ASSUME Rejected PROVE DueStays
  BY <1>58 DEF Rejected, Posting, Ends, Fault
<1>59. ASSUME Crash PROVE DueStays
  BY <1>59 DEF Crash, Fault
<1>60. ASSUME NEW k \in SellKeys \ {Exit}, BrokerCancel(k) PROVE DueStays
  BY <1>60 DEF BrokerCancel, Fault
<1>61. Failure => DueStays
  BY <1>55, <1>56, <1>57, <1>58, <1>59, <1>60 DEF Failure
<1>62. ASSUME NEW k \in Keys, BrokerFill(k) PROVE DueStays
  BY <1>62 DEF BrokerFill
<1>63. ASSUME NEW k \in Keys, BrokerTerminate(k) PROVE DueStays
  BY <1>63 DEF BrokerTerminate
<1>64. ASSUME Expire PROVE DueStays
  BY <1>64 DEF Expire
<1>65. ASSUME DueArrives PROVE DueStays
  BY <1>65 DEF DueArrives
<1>66. ASSUME SwitchOff PROVE DueStays
  BY <1>66 DEF SwitchOff
<1>67. Market => DueStays
  BY <1>62, <1>63, <1>64, <1>65, <1>66 DEF Market
<1>68. ASSUME UNCHANGED vars PROVE DueStays
  BY <1>68 DEF vars
<1> QED BY <1>1, <1>11, <1>16, <1>20, <1>23, <1>26, <1>33, <1>37, <1>41, <1>46, <1>54, <1>61,
     <1>67, <1>68 DEF Next, Tick

\* Where the tick stands with the exit stays true.
LEMMA ExitPathStep ==
  ASSUME BaseInv, ExitPath, OnlyReserved, Turns, LotsStay, DueStays, ExitPlaces' PROVE ExitPath'
<1>1. (ops'[Exit] # "none" <=> ops[Exit] # "none") \/ (Reserves /\ req' = Exit /\ pc = "deadline")
  BY Families DEF OnlyReserved, Reserves, Granted
<1>2. ops'[Exit] # "none" \/ pc' = "deadline" => due' /\ DOMAIN lots' # {}
  BY <1>1 DEF ExitPath, DueStays, LotsStay
<1>3. ASSUME NEW i \in LotIx, ops'[Rearm(i)] # "none" PROVE ops'[Exit] # "none"
  <2>1. Exit \in OpKeys /\ Rearm(i) \in OpKeys
    BY Families
  <2>2. ops[Rearm(i)] # "none" \/ (Reserves /\ req' = Rearm(i))
    BY <1>3, <2>1 DEF OnlyReserved
  <2>3. ops[Exit] # "none"
    BY <2>2 DEF ExitPath, Reserves, Granted
  <2> QED BY <2>1, <2>3 DEF OnlyReserved
<1>4. pc' = "attach" => req' \in BuyKeys /\ want'[req'] \in LotIx
  BY DEF Turns, Waits, Reserves, Granted, ExitPath
<1> QED BY <1>2, <1>3, <1>4 DEF ExitPath, ExitPlaces

\* Operations on lots keep having their lots.
LEMMA LotOpsStep ==
  ASSUME BaseInv, OnlyReserved, LotsStay PROVE LotOps'
<1>1. \A i \in LotIx : ops'[Protect(i)] # "none" \/ ops'[Rearm(i)] # "none" => i \in DOMAIN lots'
  <2> TAKE i \in LotIx
  <2>1. Protect(i) \in OpKeys /\ Rearm(i) \in OpKeys
    BY Families
  <2>2. ops'[Protect(i)] # "none" => i \in DOMAIN lots
    BY <2>1 DEF OnlyReserved, Reserves, Granted, LotOps, BaseInv
  <2>3. ops'[Rearm(i)] # "none" => i \in DOMAIN lots
    BY <2>1 DEF OnlyReserved, Reserves, Granted, LotOps, BaseInv
  <2> QED BY <2>2, <2>3 DEF LotsStay
<1>2. \A i \in LotIx : \A l \in 2 .. MaxStop :
        ops'[Tighten(i, l)] # "none" => i \in DOMAIN lots' /\ lots'[i].stopId # NoKey
  <2> TAKE i \in LotIx
  <2> TAKE l \in 2 .. MaxStop
  <2>1. Tighten(i, l) \in OpKeys
    BY Families
  <2>2. ops'[Tighten(i, l)] # "none" => i \in DOMAIN lots /\ lots[i].stopId # NoKey
    BY <2>1 DEF OnlyReserved, Reserves, Granted, LotOps, BaseInv
  <2> QED BY <2>2 DEF LotsStay
<1> QED BY <1>1, <1>2 DEF LotOps

\* What the request is about stays true until it is sent.
LEMMA AskedStep ==
  ASSUME BaseInv, ExitPath, OnlyReserved, Turns PROVE Asked'
<1> SUFFICES ASSUME pc' = "post" PROVE Asked'
  BY DEF Asked
<1>1. CASE Waits
  <2>1. CASE pc = "post"
    BY <1>1, <2>1 DEF Waits, Asked, BaseInv, Held, RemTotal
  <2>2. CASE pc = "attach"
    <3>1. req' = req /\ req \in BuyKeys /\ want'[req] \in LotIx
      BY <1>1, <2>2 DEF Waits, ExitPath
    <3>2. /\ req # Exit
          /\ \A i \in LotIx : req # Protect(i) /\ req # Rearm(i)
          /\ \A i \in LotIx, l \in 2 .. MaxStop : req # Tighten(i, l)
          /\ \A k \in BuyKeys, q \in LotIx : req # Emergency(k, q)
      BY <3>1, Families DEF EmergencyKeys
    <3> QED BY <3>1, <3>2 DEF Asked
  <2> QED BY <1>1, <2>1, <2>2 DEF Waits
<1>2. CASE Reserves
  <2> DEFINE k == req'
  <2>1. Granted(k) /\ lots' = lots /\ booked' = booked /\ k \notin BuyKeys
    BY <1>2 DEF Reserves
  <2>2. \A i \in LotIx : Held(i)' = Held(i)
    BY <2>1 DEF Held
  <2>3. \A i \in LotIx, l \in 2 .. MaxStop : k = Tighten(i, l) => ops'[Exit] = "none"
    <3> SUFFICES ASSUME NEW i \in LotIx, NEW l \in 2 .. MaxStop, k = Tighten(i, l) PROVE ops'[Exit] = "none"
      OBVIOUS
    <3>1. ops[Exit] = "none" /\ k # Exit /\ Exit \in OpKeys
      BY <2>1, Families DEF Granted, ExitPath
    <3> QED BY <3>1 DEF OnlyReserved
  <2>4. RemTotal(lots)' = RemTotal(lots)
    BY <2>1 DEF RemTotal
  <2> QED BY <2>1, <2>2, <2>3, <2>4 DEF Asked, Granted
<1> QED BY <1>1, <1>2 DEF Turns

-----------------------------------------------------------------------------
\* No order comes from nowhere.
LEMMA OrdersNew ==
  ASSUME BaseInv, Working, OrdersMove, NEW k \in Keys
  PROVE  /\ \/ ord[k] # NoOrder \/ ord'[k] = NoOrder
            \/ Sends /\ (k = req \/ \E i \in LotIx : req = Protect(i) /\ k = StopLeg(i))
         /\ \/ ~Live(ord, k)' \/ Live(ord, k)
            \/ Sends /\ (k = req \/ \E i \in LotIx : req = Protect(i) /\ k = StopLeg(i))
<1>0. BookTypes /\ ord \in [Keys -> Order] /\ (~Live(ord, k) \/ ord[k] # NoOrder)
  BY DEF BaseInv, BookTypes, Live, NoOrder
<1>1. CASE ord' = ord
  BY <1>1 DEF Live
<1>2. CASE Cancels
  <2>1. ord'[k] = ord[k] \/ (ord'[k].st = "canceled" /\ Live(ord, k))
    BY <1>0, <1>2, CanceledIs DEF Cancels, BaseInv
  <2> QED BY <2>1 DEF Live, NoOrder
<1>3. CASE Fills
  <2>1. PICK x \in Keys : BrokerFill(x)
    BY <1>3 DEF Fills
  <2>2. Live(ord, x) /\ (ord'[k] = ord[k] \/ k = x \/ Live(ord, k))
    BY <2>1 DEF BrokerFill
  <2> QED BY <2>2 DEF Live, NoOrder
<1>4. CASE Sends
  <2>1. pc = "post" /\ Sendable /\ ord' = Placed(req)
    BY <1>4 DEF Sends
  <2> DEFINE new == NewOrder(Quantity(req))
  <2> HIDE DEF new
  <2>2. CASE ord' = [ord EXCEPT ![req] = new]
    BY <1>0, <1>4, <2>2 DEF Live
  <2>3. ASSUME NEW i \in LotIx, req = Protect(i), ord' = [ord EXCEPT ![req] = new,
       ![StopLeg(i)] = new]
        PROVE  ord'[k] = ord[k] \/ k = req \/ k = StopLeg(i)
    BY <1>0, <2>3
  <2>4. ASSUME NEW s, ord' = [ord EXCEPT ![s].st = "replaced", ![req] = new], s \in Keys,
       Live(ord, s)
        PROVE  ord'[k] = ord[k] \/ k = req \/ (Live(ord, k) /\ k = s)
    BY <1>0, <2>4
  <2>5. \A i \in LotIx, l \in 2 .. MaxStop : req = Tighten(i, l) => Live(ord, lots[i].stopId) /\ lots[i].stopId \in Keys
    BY <2>1, QuantityIs
  <2>6. \/ ord' = [ord EXCEPT ![req] = new]
        \/ \E i \in LotIx : req = Protect(i) /\ ord' = [ord EXCEPT ![req] = new, ![StopLeg(i)] = new]
        \/ \E i \in LotIx, l \in 2 .. MaxStop :
             req = Tighten(i, l) /\ ord' = [ord EXCEPT ![lots[i].stopId].st = "replaced", ![req] = new]
    BY <2>1, PlacedIs DEF new
  <2>7. \/ ord'[k] = ord[k] \/ k = req \/ (\E i \in LotIx : req = Protect(i) /\ k = StopLeg(i))
        \/ Live(ord, k)
    BY <2>2, <2>3, <2>4, <2>5, <2>6, <1>0
  <2> QED BY <1>0, <1>4, <2>7 DEF Live, NoOrder
<1> QED BY <1>1, <1>2, <1>3, <1>4 DEF OrdersMove

\* The PATCH of a stop takes its place.
LEMMA OldStopGone ==
  ASSUME BaseInv, OrdersInv, Unplaced, Sends, NEW i \in LotIx, NEW l \in 2 .. MaxStop, req = Tighten(i, l)
  PROVE  Live(ord, lots[i].stopId) /\ ~Live(ord', lots[i].stopId) /\ i \in DOMAIN lots
<1> DEFINE s == lots[i].stopId
           new == NewOrder(Quantity(req))
<1>1. pc = "post" /\ Sendable /\ ord' = Placed(req) /\ Working /\ ord \in [Keys -> Order]
  BY DEF Sends, OrdersInv, BaseInv, BookTypes
<1>2. Live(ord, s) /\ s \in Keys /\ i \in DOMAIN lots
  BY <1>1, QuantityIs DEF BaseInv, Asked
<1>3. s # req
  BY <1>1, <1>2 DEF Unplaced, Live, NoOrder
<1>4. ord' = [ord EXCEPT ![s].st = "replaced", ![req] = new]
  <2>1. \A j \in LotIx, m \in 2 .. MaxStop : req = Tighten(j, m) => j = i
    <3>1. req[2] = i
      BY Families
    <3>2. \A j \in LotIx, m \in 2 .. MaxStop : Tighten(j, m)[2] = j
      BY Families
    <3> QED BY <3>1, <3>2
  <2>2. req \in TightenKeys /\ \A j \in LotIx : req # Protect(j)
    BY Families
  <2> HIDE DEF s, new
  <2>3. \E j \in LotIx, m \in 2 .. MaxStop :
             req = Tighten(j, m) /\ ord' = [ord EXCEPT ![lots[j].stopId].st = "replaced", ![req] = new]
    BY <1>1, <2>2, PlacedIs DEF new
  <2> QED BY <2>1, <2>3 DEF s
<1> HIDE DEF s, new
<1>5. ord'[s] = [ord[s] EXCEPT !.st = "replaced"]
  BY <1>1, <1>2, <1>3, <1>4
<1>6. ord'[s].st = "replaced"
  BY <1>1, <1>2, <1>5 DEF Order
<1> QED BY <1>2, <1>6 DEF Live, s

-----------------------------------------------------------------------------
\* The orders on a lot before any exit.  At most one replacement is placed and
\* not yet the lot's stop, and then the stop it replaced is not live.
StopOrders ==
  /\ \A i \in LotIx : i \in DOMAIN lots /\ lots[i].stopId # NoKey => ops[Protect(i)] = "DONE"
  /\ \A i \in LotIx : \A l \in 2 .. MaxStop : ord[Tighten(i, l)] # NoOrder =>
       lots[i].stop >= l \/ ~Live(ord, lots[i].stopId)
  /\ \A i \in LotIx : \A l, m \in 2 .. MaxStop :
       /\ ord[Tighten(i, l)] # NoOrder /\ ord[Tighten(i, m)] # NoOrder
       /\ lots[i].stop < l /\ lots[i].stop < m
       => l = m

\* A replacement asked for is above the stop, and the only one.
TightOps ==
  /\ \A i \in LotIx : \A l \in 2 .. MaxStop : ops[Tighten(i, l)] \in Unresolved => lots[i].stop < l
  /\ \A k, x \in TightenKeys : ops[k] \in Unresolved /\ ops[x] \in Unresolved => k = x

TightInv == TightOps /\ (ops[Exit] = "none" => StopOrders)

CoreInv == BaseInv /\ OrdersInv /\ TightInv /\ ExitPath /\ TodoPending /\ Reserved

\* What every step does.
CoreStep == /\ OpsMove /\ OnlyReserved /\ Turns /\ OrdersMove
            /\ StopsStay \/ UNCHANGED lots \/ Protected \/ Rearming \/ Raised

\* A replacement is named after its lot and its level.
LEMMA TightenSame ==
  ASSUME NEW i \in LotIx, NEW l \in 2 .. MaxStop, NEW j \in LotIx, NEW m \in 2 .. MaxStop,
         Tighten(i, l) = Tighten(j, m)
  PROVE  i = j /\ l = m
<1>1. Tighten(i, l)[2] = i /\ Tighten(i, l)[3] = l /\ Tighten(j, m)[2] = j /\ Tighten(j, m)[3] = m
  BY Families
<1> QED BY <1>1

\* A replacement is of a lot that has its stop.
LEMMA TightenLot ==
  ASSUME BaseInv, OrdersInv, NEW i \in LotIx, NEW l \in 2 .. MaxStop,
         ops[Tighten(i, l)] # "none" \/ ord[Tighten(i, l)] # NoOrder
  PROVE  i \in DOMAIN lots /\ lots[i].stopId # NoKey /\ lots[i].stop \in Nat
<1>1. ops[Tighten(i, l)] # "none"
  BY Families DEF OrdersInv, Fresh
<1>2. i \in DOMAIN lots /\ lots[i].stopId # NoKey
  BY <1>1 DEF BaseInv, LotOps
<1>3. lots[i].stop \in 1 .. MaxStop
  BY <1>2, LotFields DEF BaseInv
<1> QED BY <1>2, <1>3

\* The request about to be sent is for an order that is not there.
LEMMA UnplacedIs ==
  ASSUME CoreInv PROVE Unplaced
<1> SUFFICES ASSUME pc = "post", Sendable PROVE Unplaced
  BY DEF Unplaced
<1> USE DEF CoreInv
<1>1. req \in OpKeys /\ (req \in PostKeys => posts[req] = 0) /\ Asked
  BY DEF BaseInv, OutboxInv, Durable
<1>2. ASSUME NEW i \in LotIx, NEW l \in 2 .. MaxStop, req = Tighten(i, l)
      PROVE  ord[req] = NoOrder /\ lots[i].stopId \in LotKeys(i)
  <2>1. /\ i \in DOMAIN lots /\ lots[i].stopId # NoKey /\ l > lots[i].stop /\ ops[Exit] = "none"
        /\ lots[i].stop \in 1 .. MaxStop
    BY <1>1, <1>2, LotFields DEF Asked, BaseInv
  <2>2. Live(ord, lots[i].stopId)
    BY <1>2, Families DEF Sendable, Action
  <2>3. ord[req] = NoOrder
    BY <1>2, <2>1, <2>2 DEF TightInv, StopOrders
  <2>4. lots[i].stopId \in LotNames(i)
    BY <2>1 DEF BaseInv, GoodLots, GoodLot
  <2>5. lots[i].stopId # Rearm(i)
    <3>1. ops[Rearm(i)] = "none"
      BY <2>1 DEF ExitPath
    <3>2. Rearm(i) \in PostKeys
      BY KeyFacts
    <3>3. posts[Rearm(i)] = 0
      BY <3>1, <3>2 DEF BaseInv, OutboxInv, Once
    <3>4. ord[Rearm(i)] = NoOrder
      BY <3>2, <3>3 DEF OrdersInv, Fresh
    <3> QED BY <2>2, <3>4 DEF Live, NoOrder
  <2> QED BY <2>3, <2>4, <2>5 DEF LotNames
<1>3. ASSUME req \notin TightenKeys PROVE ord[req] = NoOrder
  BY <1>1, <1>3 DEF PostKeys, OrdersInv, Fresh
<1>4. ASSUME NEW i \in LotIx, req = Protect(i) PROVE \A k \in LotKeys(i) : ord[k] = NoOrder
  <2>1. posts[Protect(i)] = 0 /\ Protect(i) \in PostKeys
    BY <1>1, <1>4, KeyFacts
  <2>2. ord[Protect(i)] = NoOrder /\ ord[StopLeg(i)] = NoOrder
    BY <2>1 DEF OrdersInv, Fresh
  <2>3. lots[i].stopId = NoKey
    BY <1>1, <1>4 DEF Asked
  <2>4. \A l \in 2 .. MaxStop : ord[Tighten(i, l)] = NoOrder
    BY <2>3, TightenLot
  <2> QED BY <2>2, <2>4 DEF LotKeys
<1> QED
  <2>1. req \in TightenKeys => \E i \in LotIx, l \in 2 .. MaxStop : req = Tighten(i, l)
    BY DEF TightenKeys
  <2> QED BY <1>2, <1>3, <1>4, <2>1 DEF Unplaced

\* The replacement that becomes a lot's stop was unresolved and is done.
LEMMA RaisedOp ==
  ASSUME CoreInv, NEW i \in LotIx, NEW l \in 2 .. MaxStop,
         ReconcileTighten(i, l) \/ (AcceptTighten /\ req = Tighten(i, l))
  PROVE  ops[Tighten(i, l)] \in Unresolved /\ ops'[Tighten(i, l)] = "DONE"
<1> DEFINE k == Tighten(i, l)
<1>1. k \in OpKeys /\ ops \in [OpKeys -> OpStatus]
  BY Families DEF CoreInv, BaseInv, OutboxInv, Typed
<1>2. CASE ReconcileTighten(i, l)
  BY <1>1, <1>2 DEF ReconcileTighten, Found, At, CoreInv, TodoPending, Pending
<1>3. CASE AcceptTighten /\ req = k
  BY <1>1, <1>3 DEF AcceptTighten, Posting, At, Ends, CoreInv, Reserved, Unresolved
<1> QED BY <1>2, <1>3

\* A replacement asked for stays above the stop, and the only one.
LEMMA TightOpsStep ==
  ASSUME CoreInv, CoreStep PROVE TightOps'
<1> USE DEF CoreInv
<1>0. BookTypes /\ TightOps
  BY DEF BaseInv, TightInv
<1>1. ASSUME NEW k \in TightenKeys, ops'[k] \in Unresolved
      PROVE  ops[k] \in Unresolved \/ (Reserves /\ k = req')
  BY <1>1, Families DEF CoreStep, OpsMove
<1>2. ASSUME NEW i \in LotIx, NEW l \in 2 .. MaxStop, ops'[Tighten(i, l)] \in Unresolved
      PROVE  lots'[i].stop < l
  <2>0. Tighten(i, l) \in TightenKeys /\ "none" \notin Unresolved
    BY Families DEF Unresolved
  <2>1. CASE Reserves /\ Tighten(i, l) = req'
    <3>1. Granted(Tighten(i, l)) /\ lots' = lots
      BY <2>1 DEF Reserves
    <3>2. i \in DOMAIN lots /\ l > lots[i].stop
      BY <3>1 DEF Granted
    <3> QED BY <1>0, <3>1, <3>2, LotFields
  <2>2. CASE ops[Tighten(i, l)] \in Unresolved
    <3>1. i \in DOMAIN lots /\ lots[i].stop < l
      BY <1>0, <2>0, <2>2, TightenLot DEF TightOps
    <3>2. CASE StopsStay
      BY <3>1, <3>2 DEF StopsStay
    <3>3. CASE UNCHANGED lots
      BY <3>1, <3>3
    <3>4. CASE Protected
      BY <3>1, <3>4 DEF Protected, Restop
    <3>5. CASE Rearming
      BY <3>1, <3>5 DEF Rearming, Restop
    <3>6. CASE Raised
      <4>1. PICK j \in LotIx, m \in 2 .. MaxStop :
              /\ ReconcileTighten(j, m) \/ (AcceptTighten /\ req = Tighten(j, m))
              /\ Restop(j, Tighten(j, m), m)
        BY <3>6 DEF Raised
      <4>2. ops[Tighten(j, m)] \in Unresolved /\ ops'[Tighten(j, m)] = "DONE"
        BY <4>1, RaisedOp
      <4>3. Tighten(j, m) = Tighten(i, l)
        BY <1>0, <2>0, <2>2, <4>2, Families DEF TightOps
      <4> QED BY <1>2, <4>2, <4>3 DEF Unresolved
    <3> QED BY <3>2, <3>3, <3>4, <3>5, <3>6 DEF CoreStep
  <2> QED BY <1>1, <1>2, <2>0, <2>1, <2>2
<1>3. ASSUME NEW k \in TightenKeys, NEW x \in TightenKeys, ops'[k] \in Unresolved,
     ops'[x] \in Unresolved
      PROVE  k = x
  <2>1. ASSUME NEW y \in TightenKeys, NEW z \in TightenKeys, Reserves /\ y = req',
       ops[z] \in Unresolved
        PROVE  FALSE
    <3>1. PICK i \in LotIx, l \in 2 .. MaxStop : y = Tighten(i, l)
      BY DEF TightenKeys
    <3>2. Pending = {}
      BY <2>1, <3>1 DEF Reserves, Granted
    <3> QED BY <2>1, <3>2, Families DEF Pending
  <2> QED BY <1>0, <1>1, <1>3, <2>1 DEF TightOps
<1> QED BY <1>2, <1>3 DEF TightOps

\* Before any exit a stop is only raised.
LEMMA StopRises ==
  ASSUME CoreInv, CoreStep, NEW i \in DOMAIN lots
  PROVE  lots'[i].stop >= lots[i].stop /\ lots[i].stop \in Nat /\ lots'[i].stop \in Nat /\ i \in LotIx
<1> USE DEF CoreInv
<1>0. lots[i].stop \in Nat /\ i \in LotIx
  BY LotFields, ConstantsAssumption DEF BaseInv
<1>1. CASE StopsStay \/ UNCHANGED lots \/ Protected \/ Rearming
  BY <1>0, <1>1 DEF StopsStay, Protected, Rearming, Restop
<1>2. CASE Raised
  <2>1. PICK j \in LotIx, m \in 2 .. MaxStop :
          /\ ReconcileTighten(j, m) \/ (AcceptTighten /\ req = Tighten(j, m))
          /\ Restop(j, Tighten(j, m), m)
    BY <1>2 DEF Raised
  <2>2. ops[Tighten(j, m)] \in Unresolved
    BY <2>1, RaisedOp
  <2>3. lots[j].stop < m
    BY <2>2 DEF TightInv, TightOps
  <2> QED BY <1>0, <2>1, <2>3 DEF Restop
<1> QED BY <1>1, <1>2 DEF CoreStep

-----------------------------------------------------------------------------
\* Before any exit no lot is rearmed.
LEMMA NotRearming ==
  ASSUME CoreInv, ops[Exit] = "none" PROVE ~Rearming
<1> SUFFICES ASSUME NEW i \in LotIx, ReconcileRearm(i) PROVE FALSE
  BY DEF Rearming
<1>1. ops[Rearm(i)] \in Unresolved
  BY DEF ReconcileRearm, Found, At, CoreInv, TodoPending, Pending
<1> QED BY <1>1 DEF CoreInv, ExitPath, Unresolved

\* A lot that has its stop is not protected again.
LEMMA NotProtected ==
  ASSUME CoreInv, ops[Exit] = "none", NEW i \in LotIx, i \in DOMAIN lots, lots[i].stopId # NoKey
  PROVE  ~ReconcileProtect(i) /\ ~(AcceptProtect /\ req = Protect(i))
<1>1. ops[Protect(i)] = "DONE"
  BY DEF CoreInv, TightInv, StopOrders
<1>2. ASSUME ReconcileProtect(i) PROVE FALSE
  BY <1>1, <1>2 DEF ReconcileProtect, Found, At, CoreInv, TodoPending, Pending, Unresolved
<1>3. ASSUME AcceptProtect, req = Protect(i) PROVE FALSE
  BY <1>3 DEF AcceptProtect, Posting, At, CoreInv, BaseInv, Asked
<1> QED BY <1>2, <1>3

\* A lot that has its stop keeps a done protection.
LEMMA ProtectedOnce ==
  ASSUME CoreInv, CoreStep, ops'[Exit] = "none", ops[Exit] = "none",
         NEW i \in LotIx, i \in DOMAIN lots', lots'[i].stopId # NoKey
  PROVE  ops'[Protect(i)] = "DONE"
<1>0. Protect(i) \in OpKeys /\ ops \in [OpKeys -> OpStatus]
  BY Families DEF CoreInv, BaseInv, OutboxInv, Typed
<1>1. ASSUME i \in DOMAIN lots, lots[i].stopId # NoKey PROVE ops'[Protect(i)] = "DONE"
  <2>1. ops[Protect(i)] = "DONE"
    BY <1>1 DEF CoreInv, TightInv, StopOrders
  <2>2. ~(Reserves /\ Protect(i) = req')
    BY <1>1 DEF Reserves, Granted
  <2> QED BY <1>0, <2>1, <2>2 DEF CoreStep, OpsMove, Unresolved
<1>2. CASE StopsStay \/ UNCHANGED lots
  BY <1>1, <1>2 DEF StopsStay
<1>3. CASE Protected
  <2>1. PICK j \in LotIx : \E s \in LotKeys(j) :
          /\ ReconcileProtect(j) \/ (AcceptProtect /\ req = Protect(j))
          /\ Restop(j, s, lots[j].stop)
    BY <1>3 DEF Protected
  <2>2. CASE i = j
    BY <1>0, <2>1, <2>2 DEF ReconcileProtect, AcceptProtect, Posting, Ends
  <2>3. CASE i # j
    BY <1>1, <2>1, <2>3 DEF Restop
  <2> QED BY <2>2, <2>3
<1>4. CASE Rearming
  BY <1>4, NotRearming
<1>5. CASE Raised
  <2>1. PICK j \in LotIx, m \in 2 .. MaxStop :
          /\ ReconcileTighten(j, m) \/ (AcceptTighten /\ req = Tighten(j, m))
          /\ Restop(j, Tighten(j, m), m)
    BY <1>5 DEF Raised
  <2>2. ops[Tighten(j, m)] \in Unresolved
    BY <2>1, RaisedOp
  <2>3. j \in DOMAIN lots /\ lots[j].stopId # NoKey
    BY <2>2 DEF CoreInv, BaseInv, LotOps, Unresolved
  <2> QED BY <1>1, <2>1, <2>3 DEF Restop
<1> QED BY <1>2, <1>3, <1>4, <1>5 DEF CoreStep

\* A lot's own stop does not come to life again.
LEMMA StopStaysDown ==
  ASSUME CoreInv, CoreStep, ops[Exit] = "none", NEW i \in LotIx, i \in DOMAIN lots,
         lots[i].stopId # NoKey, ~Live(ord, lots[i].stopId)
  PROVE  ~Live(ord', lots[i].stopId)
<1> DEFINE s == lots[i].stopId
<1> USE DEF CoreInv
<1>0. s \in LotNames(i) /\ s \in Keys
  BY LotKeyFacts DEF BaseInv, GoodLots, GoodLot, SellKeys
<1> SUFFICES ASSUME Live(ord', s) PROVE FALSE
  OBVIOUS
<1>1. Sends /\ (s = req \/ \E j \in LotIx : req = Protect(j) /\ s = StopLeg(j))
  BY <1>0, OrdersNew DEF CoreStep, OrdersInv, Live
<1>2. pc = "post" /\ Sendable /\ Asked /\ req \in OpKeys /\ ops[req] # "none"
  BY <1>1 DEF Sends, BaseInv, OutboxInv, Durable
<1>3. req # Protect(i)
  BY <1>2 DEF Asked
<1>4. CASE s = req
  <2>1. req # Rearm(i)
    BY <1>2 DEF ExitPath
  <2>2. req # StopLeg(i)
    BY <1>2, Families, OpKinds DEF BuyKeys
  <2>3. ASSUME NEW l \in 2 .. MaxStop, req = Tighten(i, l) PROVE FALSE
    BY <1>2, <1>4, <2>3, Families DEF Sendable, Action
  <2> QED BY <1>0, <1>3, <1>4, <2>1, <2>2, <2>3 DEF LotNames, LotKeys
<1>5. CASE \E j \in LotIx : req = Protect(j) /\ s = StopLeg(j)
  <2>1. PICK j \in LotIx : req = Protect(j) /\ s = StopLeg(j)
    BY <1>5
  <2>2. j = i
    BY <1>0, <2>1, LotKeyFacts, Families
  <2> QED BY <1>3, <2>1, <2>2
<1> QED BY <1>1, <1>4, <1>5

\* A replacement is new when it is the request that is sent.
LEMMA NewReplacement ==
  ASSUME CoreInv, CoreStep, NEW i \in LotIx, NEW l \in 2 .. MaxStop,
         ord'[Tighten(i, l)] # NoOrder, ord[Tighten(i, l)] = NoOrder
  PROVE  /\ Sends /\ pc = "post" /\ req = Tighten(i, l) /\ i \in DOMAIN lots
         /\ Live(ord, lots[i].stopId) /\ ~Live(ord', lots[i].stopId)
<1> USE DEF CoreInv
<1>1. Sends /\ req = Tighten(i, l)
  BY OrdersNew, Families DEF CoreStep, OrdersInv
<1>2. Unplaced
  BY UnplacedIs
<1> QED BY <1>1, <1>2, OldStopGone DEF Sends

\* Before any exit: a replacement is the lot's stop or the replaced stop is down.
LEMMA ReplacementStep ==
  ASSUME CoreInv, CoreStep, ops[Exit] = "none", NEW i \in LotIx, NEW l \in 2 .. MaxStop,
         ord'[Tighten(i, l)] # NoOrder, lots'[i].stop < l
  PROVE  ~Live(ord', lots'[i].stopId)
<1> USE DEF CoreInv
<1>1. ASSUME ord[Tighten(i, l)] # NoOrder PROVE ~Live(ord', lots'[i].stopId)
  <2>1. i \in DOMAIN lots /\ lots[i].stopId # NoKey
    BY <1>1, TightenLot
  <2>2. lots[i].stop < l
    BY <2>1, StopRises
  <2>3. ~Live(ord, lots[i].stopId)
    BY <1>1, <2>2, StopRises, <2>1 DEF TightInv, StopOrders
  <2>4. ~Live(ord', lots[i].stopId)
    BY <2>1, <2>3, StopStaysDown
  <2>5. CASE StopsStay \/ UNCHANGED lots
    BY <2>1, <2>4, <2>5 DEF StopsStay
  <2>6. CASE Protected
    BY <2>1, <2>4, <2>6, NotProtected DEF Protected, Restop
  <2>7. CASE Raised
    <3>1. PICK j \in LotIx, m \in 2 .. MaxStop :
            /\ ReconcileTighten(j, m) \/ (AcceptTighten /\ req = Tighten(j, m))
            /\ Restop(j, Tighten(j, m), m)
      BY <2>7 DEF Raised
    <3>2. CASE i # j
      BY <2>1, <2>4, <3>1, <3>2 DEF Restop
    <3>3. CASE i = j
      <4>1. lots'[i].stop = m /\ m < l
        BY <3>1, <3>3 DEF Restop
      <4>2. lots[i].stop < m
        BY <3>1, <3>3, RaisedOp DEF TightInv, TightOps
      <4>3. CASE ReconcileTighten(i, m)
        <5>1. ord[Tighten(i, m)] # NoOrder
          BY <4>3 DEF ReconcileTighten, Found, NoOrder
        <5> QED BY <1>1, <2>2, <4>1, <4>2, <5>1 DEF TightInv, StopOrders
      <4>4. CASE AcceptTighten /\ req = Tighten(i, m)
        BY <2>3, <4>4, Families DEF AcceptTighten
      <4> QED BY <3>1, <3>3, <4>3, <4>4
    <3> QED BY <3>2, <3>3
  <2> QED BY <2>5, <2>6, <2>7, NotRearming DEF CoreStep
<1>2. ASSUME ord[Tighten(i, l)] = NoOrder PROVE ~Live(ord', lots'[i].stopId)
  <2>1. /\ pc = "post" /\ req = Tighten(i, l) /\ i \in DOMAIN lots
        /\ ~Live(ord', lots[i].stopId)
    BY <1>2, NewReplacement
  <2>2. CASE StopsStay \/ UNCHANGED lots
    BY <2>1, <2>2 DEF StopsStay
  <2>3. ~Protected
    <3>1. \A j \in LotIx : ~ReconcileProtect(j)
      BY <2>1 DEF ReconcileProtect, Found, At
    <3>2. \A j \in LotIx : req # Protect(j)
      BY <2>1, Families
    <3> QED BY <3>1, <3>2 DEF Protected
  <2>4. CASE Raised
    <3>1. PICK j \in LotIx, m \in 2 .. MaxStop :
            /\ ReconcileTighten(j, m) \/ (AcceptTighten /\ req = Tighten(j, m))
            /\ Restop(j, Tighten(j, m), m)
      BY <2>4 DEF Raised
    <3>2. req = Tighten(j, m)
      BY <2>1, <3>1 DEF ReconcileTighten, Found, At
    <3>3. i = j /\ l = m
      <4>1. Tighten(i, l) = Tighten(j, m)
        BY <2>1, <3>2
      <4> QED BY <4>1, TightenSame
    <3> QED BY <3>1, <3>3 DEF Restop
  <2> QED BY <2>2, <2>3, <2>4, NotRearming DEF CoreStep
<1> QED BY <1>1, <1>2

\* Before any exit: one replacement at most is not yet the lot's stop.
LEMMA OneReplacementStep ==
  ASSUME CoreInv, CoreStep, ops[Exit] = "none", NEW i \in LotIx,
         NEW l \in 2 .. MaxStop, NEW m \in 2 .. MaxStop,
         ord'[Tighten(i, l)] # NoOrder, ord'[Tighten(i, m)] # NoOrder,
         lots'[i].stop < l, lots'[i].stop < m
  PROVE  l = m
<1> USE DEF CoreInv
<1>1. ASSUME NEW x \in 2 .. MaxStop, ord'[Tighten(i, x)] # NoOrder, lots'[i].stop < x
      PROVE  i \in DOMAIN lots /\ lots[i].stop < x
  <2>1. i \in DOMAIN lots
    BY <1>1, TightenLot, NewReplacement
  <2> QED BY <1>1, <2>1, StopRises
<1>2. lots[i].stop < l /\ lots[i].stop < m
  BY <1>1
<1>3. ASSUME NEW x \in 2 .. MaxStop, NEW y \in 2 .. MaxStop, lots[i].stop < y,
             ord'[Tighten(i, x)] # NoOrder, ord[Tighten(i, x)] = NoOrder, ord[Tighten(i, y)] # NoOrder
      PROVE  FALSE
  <2>1. Live(ord, lots[i].stopId) /\ i \in DOMAIN lots
    BY <1>3, NewReplacement
  <2> QED BY <1>3, <2>1, StopRises DEF TightInv, StopOrders
<1>4. CASE ord[Tighten(i, l)] # NoOrder /\ ord[Tighten(i, m)] # NoOrder
  BY <1>2, <1>4 DEF TightInv, StopOrders
<1>5. CASE ord[Tighten(i, l)] = NoOrder /\ ord[Tighten(i, m)] = NoOrder
  <2>1. req = Tighten(i, l) /\ req = Tighten(i, m)
    BY <1>5, NewReplacement
  <2> QED BY <2>1, TightenSame
<1> QED BY <1>2, <1>3, <1>4, <1>5

\* The orders on the lots keep their order of succession.
LEMMA TightInvStep ==
  ASSUME CoreInv, CoreStep, Exit \in OpKeys PROVE TightInv'
<1>1. TightOps'
  BY TightOpsStep
<1>2. ASSUME ops'[Exit] = "none" PROVE StopOrders'
  <2>1. ops[Exit] = "none"
    BY <1>2 DEF CoreStep, OnlyReserved
  <2>2. \A i \in LotIx : i \in DOMAIN lots' /\ lots'[i].stopId # NoKey => ops'[Protect(i)] = "DONE"
    BY <1>2, <2>1, ProtectedOnce
  <2>3. \A i \in LotIx : \A l \in 2 .. MaxStop : ord'[Tighten(i, l)] # NoOrder =>
           lots'[i].stop >= l \/ ~Live(ord', lots'[i].stopId)
    <3>1. ASSUME NEW i \in LotIx, NEW l \in 2 .. MaxStop, ord'[Tighten(i, l)] # NoOrder
          PROVE  lots'[i].stop \in Nat
      <4>1. i \in DOMAIN lots
        BY <3>1, TightenLot, NewReplacement DEF CoreInv
      <4> QED BY <4>1, StopRises
    <3> QED BY <2>1, <3>1, ReplacementStep
  <2>4. \A i \in LotIx : \A l, m \in 2 .. MaxStop :
           /\ ord'[Tighten(i, l)] # NoOrder /\ ord'[Tighten(i, m)] # NoOrder
           /\ lots'[i].stop < l /\ lots'[i].stop < m
           => l = m
    BY <2>1, OneReplacementStep
  <2> QED BY <2>2, <2>3, <2>4 DEF StopOrders, Live, NoOrder
<1> QED BY <1>1, <1>2 DEF TightInv

-----------------------------------------------------------------------------
\* No order precedes its request, and what is requested may be placed.
LEMMA FreshStep ==
  ASSUME CoreInv, CoreStep, Moves PROVE Fresh'
<1> USE DEF CoreInv
<1>0. Fresh /\ Working
  BY DEF OrdersInv
<1>1. ASSUME NEW k \in OpKeys, posts'[k] = 0
      PROVE  posts[k] = 0 /\ ~(Sends /\ k = req)
  <2>1. posts \in [OpKeys -> Nat]
    BY DEF BaseInv, OutboxInv, Typed
  <2>2. ~(Sends /\ k = req)
    BY <1>1, <2>1 DEF Sends
  <2>3. CASE pc = "post"
    <3>1. req \in OpKeys
      BY <2>3 DEF BaseInv, OutboxInv, Durable
    <3> QED BY <1>1, <2>1, <2>2, <2>3, <3>1 DEF Moves, Quiet, Reserving, Sending
  <2>4. CASE pc # "post"
    BY <1>1, <2>2, <2>4 DEF Moves, Quiet, Reserving, Sending
  <2> QED BY <2>3, <2>4
<1>2. ASSUME NEW k \in Keys, ord[k] = NoOrder, ord'[k] # NoOrder
      PROVE  Sends /\ (k = req \/ \E i \in LotIx : req = Protect(i) /\ k = StopLeg(i))
  BY <1>0, <1>2, OrdersNew DEF CoreStep
<1>3. ASSUME NEW k \in PostKeys, posts'[k] = 0 PROVE ord'[k] = NoOrder
  <2>1. k \in OpKeys /\ k \in Keys /\ posts[k] = 0 /\ ~(Sends /\ k = req)
    BY <1>1, <1>3 DEF PostKeys, Keys
  <2>2. ord[k] = NoOrder
    BY <1>0, <1>3, <2>1 DEF Fresh
  <2>3. \A i \in LotIx : k # StopLeg(i)
    BY <2>1, OpKinds, Families DEF BuyKeys
  <2> QED BY <1>2, <2>1, <2>2, <2>3
<1>4. ASSUME NEW k \in TightenKeys, ops'[k] = "none" PROVE ord'[k] = NoOrder
  <2>1. k \in OpKeys /\ k \in Keys
    BY Families DEF Keys
  <2>2. ops[k] = "none"
    BY <1>4, <2>1 DEF CoreStep, OnlyReserved
  <2>3. ord[k] = NoOrder
    BY <1>0, <2>2 DEF Fresh
  <2>4. \A i \in LotIx : k # StopLeg(i)
    BY <2>1, OpKinds, Families DEF BuyKeys
  <2>5. ~(Sends /\ k = req)
    BY <2>2 DEF Sends, BaseInv, OutboxInv, Durable
  <2> QED BY <1>2, <2>1, <2>3, <2>4, <2>5
<1>5. ASSUME NEW i \in LotIx, posts'[Protect(i)] = 0 PROVE ord'[StopLeg(i)] = NoOrder
  <2>1. posts[Protect(i)] = 0 /\ ~(Sends /\ Protect(i) = req)
    BY <1>1, <1>5, Families
  <2>2. ord[StopLeg(i)] = NoOrder /\ StopLeg(i) \in Keys
    BY <1>0, <2>1, Families DEF Fresh
  <2>3. ~(Sends /\ StopLeg(i) = req)
    BY OpKinds, Families DEF Sends, BaseInv, OutboxInv, Durable, BuyKeys
  <2>4. \A j \in LotIx : StopLeg(i) = StopLeg(j) => i = j
    BY Families
  <2> QED BY <1>2, <2>1, <2>2, <2>3, <2>4
<1> QED BY <1>3, <1>4, <1>5 DEF Fresh, NoOrder

\* The orders stay in order.
LEMMA OrdersInvStep ==
  ASSUME CoreInv, CoreStep, Moves PROVE OrdersInv' /\ OrdersGood
<1>1. Unplaced
  BY UnplacedIs
<1>2. OrdersGood
  BY <1>1, OrdersGrow DEF CoreInv, CoreStep
<1>3. Fresh'
  BY FreshStep
<1> QED BY <1>2, <1>3 DEF OrdersInv, OrdersGood

-----------------------------------------------------------------------------
\* The shares of the lots of a buy are a sum over the lots, in any order.
LEMMA LotsOfIs ==
  ASSUME NEW k PROVE LotsOf(k) = SumFunctionOnSet(Parts(k), DOMAIN lots)
<1> DEFINE f == Parts(k)
<1>1. f = [i \in DOMAIN lots |-> IF lots[i].parent = k THEN lots[i].qty ELSE 0] /\ DOMAIN f = DOMAIN lots
  BY DEF Parts
<1> HIDE DEF f
<1>2. LotsOf(k) = SumFunctionOnSet(f, DOMAIN f)
  BY <1>1 DEF LotsOf, SumFunction
<1> QED BY <1>1, <1>2 DEF f

\* A step that adds a lot for shares that were not booked.
LEMMA AppendsKeep ==
  ASSUME BaseInv, Sums, Appends
  PROVE  /\ lots' \in Seq(Lot) /\ GoodLots' /\ ExitBooks' /\ BuySums'
         /\ booked' \in [BuyKeys -> Nat] /\ ord' = ord /\ UNCHANGED <<exitBooked, want>>
<1> DEFINE n == Len(lots)
           m == n + 1
<1>1. PICK b \in BuyKeys :
        /\ NewFill(b) # 0 /\ lots' = Append(lots, NewLot(b, NewFill(b)))
        /\ booked' = [booked EXCEPT ![b] = ord[b].filled]
        /\ UNCHANGED <<exitBooked, ord, want>>
  BY DEF Appends
<1> DEFINE q == NewFill(b)
           new == NewLot(b, q)
<1>2. BookTypes /\ DOMAIN lots = 1 .. n /\ n \in Nat /\ IsFiniteSet(DOMAIN lots) /\ GoodLots
  BY LotsFinite DEF BaseInv
<1>3. b \in Keys /\ ord[b].filled \in Nat /\ booked[b] \in Nat /\ booked[b] <= ord[b].filled
  BY <1>2, ExitIsSell, OrderFields DEF Sums, BuySums, BookTypes
<1>4. q \in Nat \ {0} /\ q = ord[b].filled - booked[b]
  BY <1>1, <1>3 DEF NewFill
<1>5. new.parent = b /\ new.qty = q /\ new.seen[Exit] = 0
  BY ExitIsSell DEF NewLot
<1>6. GoodLot(ord, m, new) /\ new \in Lot
  <2>1. ord \in [Keys -> Order]
    BY <1>2 DEF BookTypes
  <2> HIDE DEF m, q
  <2>2. GoodLot(ord, m, NewLot(b, q))
    BY <1>4, <2>1, NewLotGood
  <2> QED BY <2>2 DEF GoodLot
<1> HIDE DEF new, q
<1>7. lots' = Append(lots, new)
  BY <1>1 DEF new, q
<1>8. /\ lots' \in Seq(Lot) /\ DOMAIN lots' = 1 .. m /\ lots'[m] = new
      /\ \A j \in 1 .. n : lots'[j] = lots[j]
  <2>1. lots \in Seq(Lot)
    BY <1>2 DEF BookTypes
  <2> QED BY <1>2, <1>6, <1>7, <2>1
<1>9. GoodLots'
  <2>1. \A j \in 1 .. m : GoodLot(ord', j, lots'[j])
    <3>1. \A j \in 1 .. n : GoodLot(ord, j, lots[j])
      BY <1>2 DEF GoodLots
    <3>2. \A j \in 1 .. m : j \in 1 .. n \/ j = m
      BY <1>2
    <3>3. ord' = ord
      BY <1>1
    <3> HIDE DEF m
    <3> QED BY <1>6, <1>8, <3>1, <3>2, <3>3
  <2> QED BY <1>8, <2>1 DEF GoodLots, GoodLot, SaleOk
<1>10. ASSUME NEW f, NEW g, NEW s, DOMAIN f = DOMAIN lots, \A j \in 1 .. n : f[j] \in Int,
             \A j \in 1 .. n : g[j] = f[j], g[m] = s, s \in Int
       PROVE  SumFunctionOnSet(g, 1 .. m) = SumFunctionOnSet(f, DOMAIN lots) + s
  <2>1. \A j \in 1 .. (n + 1) : g[j] \in Int
    <3>1. \A j \in 1 .. (n + 1) : j \in 1 .. n \/ j = m
      BY <1>2
    <3> QED BY <1>10, <3>1
  <2>2. SumFunctionOnSet(g, 1 .. (n + 1)) = SumFunctionOnSet(g, 1 .. n) + g[n + 1]
    BY <1>2, <2>1, UpToNext
  <2>3. SumFunctionOnSet(g, DOMAIN lots) = SumFunctionOnSet(f, DOMAIN lots)
    BY <1>2, <1>10, SumSame
  <2> QED BY <1>2, <1>10, <2>2, <2>3
<1>11. \A j \in 1 .. n : lots[j].qty \in Nat /\ lots[j].seen[Exit] \in Nat
  BY <1>2, LotFields, ExitIsSell
<1>12. ExitBooks'
  <2> DEFINE f == ExitSeen
             g == [i \in DOMAIN lots' |-> lots'[i].seen[Exit]]
  <2>1. DOMAIN f = DOMAIN lots /\ (\A j \in 1 .. n : f[j] \in Int /\ g[j] = f[j]) /\ g[m] = 0
    <3>1. \A j \in 1 .. n : j \in DOMAIN lots' /\ j \in DOMAIN lots
      BY <1>2, <1>8
    <3>2. m \in DOMAIN lots'
      BY <1>2, <1>8
    <3> HIDE DEF m
    <3> QED BY <1>5, <1>8, <1>11, <3>1, <3>2 DEF ExitSeen
  <2>2. ExitSeen' = g
    BY DEF ExitSeen
  <2> HIDE DEF f, g
  <2>3. SumFunctionOnSet(g, 1 .. m) = SumFunctionOnSet(f, DOMAIN lots) + 0
    <3> HIDE DEF m, n
    <3> QED BY <1>10, <2>1
  <2>4. SumFunctionOnSet(f, DOMAIN lots) = exitBooked /\ exitBooked \in Nat /\ exitBooked <= ord[Exit].filled
    BY <1>2 DEF Sums, ExitBooks, BookTypes, f
  <2>5. SumFunctionOnSet(g, DOMAIN lots') = exitBooked
    BY <1>8, <2>3, <2>4
  <2> QED BY <1>1, <2>2, <2>4, <2>5 DEF ExitBooks
<1>13. ASSUME NEW k \in BuyKeys
       PROVE  LotsOf(k)' = booked'[k] /\ booked'[k] <= ord'[k].filled
  <2> DEFINE f == Parts(k)
             g == [i \in DOMAIN lots' |-> IF lots'[i].parent = k THEN lots'[i].qty ELSE 0]
             s == IF k = b THEN q ELSE 0
  <2>1. DOMAIN f = DOMAIN lots /\ (\A j \in 1 .. n : f[j] \in Int /\ g[j] = f[j]) /\ g[m] = s /\ s \in Int
    <3>1. \A j \in 1 .. n : j \in DOMAIN lots' /\ j \in DOMAIN lots
      BY <1>2, <1>8
    <3>2. m \in DOMAIN lots'
      BY <1>2, <1>8
    <3> HIDE DEF m
    <3> QED BY <1>4, <1>5, <1>8, <1>11, <3>1, <3>2 DEF Parts
  <2>2. LotsOf(k)' = SumFunctionOnSet(g, DOMAIN lots')
    <3>1. LotsOf(k)' = SumFunction(g)
      BY DEF LotsOf
    <3>2. DOMAIN g = DOMAIN lots'
      OBVIOUS
    <3> HIDE DEF g
    <3> QED BY <3>1, <3>2 DEF SumFunction
  <2> HIDE DEF f, g, s
  <2>3. SumFunctionOnSet(g, 1 .. m) = SumFunctionOnSet(f, DOMAIN lots) + s
    <3> HIDE DEF m, n
    <3> QED BY <1>10, <2>1
  <2>4. SumFunctionOnSet(f, DOMAIN lots) = booked[k] /\ booked[k] \in Nat
    BY <1>2, LotsOfIs DEF f, Sums, BuySums, BookTypes
  <2>5. booked'[k] = booked[k] + s
    BY <1>1, <1>2, <1>3, <1>4, <2>4 DEF s, BookTypes
  <2>6. booked'[k] <= ord'[k].filled
    BY <1>1, <1>2, <1>3 DEF Sums, BuySums, BookTypes
  <2> QED BY <1>8, <2>2, <2>3, <2>4, <2>5, <2>6
<1>14. booked' \in [BuyKeys -> Nat]
  BY <1>1, <1>2, <1>3 DEF BookTypes
<1> QED BY <1>1, <1>8, <1>9, <1>12, <1>13, <1>14 DEF BuySums

\* Every step keeps the books of the lots.
LEMMA LotsStep ==
  ASSUME BaseInv, Sums, OrdersGood, LotsMove
  PROVE  /\ lots' \in Seq(Lot) /\ GoodLots' /\ ExitBooks' /\ BuySums'
         /\ booked' \in [BuyKeys -> Nat] /\ exitBooked' \in Nat
<1>0. BookTypes /\ ord' \in [Keys -> Order] /\ Growth
  BY DEF BaseInv, OrdersGood
<1>1. CASE Appends
  BY <1>0, <1>1, AppendsKeep DEF BookTypes
<1>2. ASSUME LotsKept PROVE lots' \in Seq(Lot) /\ GoodLots'
  BY <1>2 DEF LotsKept, GoodLots, GoodLot, SaleOk
<1>3. ASSUME LotsKept, ExitSeen' = ExitSeen, UNCHANGED exitBooked PROVE ExitBooks'
  <2>1. DOMAIN lots' = DOMAIN lots
    BY <1>3 DEF LotsKept
  <2>2. ord[Exit].filled <= ord'[Exit].filled /\ ord[Exit].filled \in Nat /\ ord'[Exit].filled \in Nat
        /\ exitBooked \in Nat
    BY <1>0, ExitIsSell DEF Growth, BookTypes, Order
  <2> QED BY <1>3, <2>1, <2>2 DEF ExitBooks, Sums
<1>4. CASE Same \/ Sells \/ Stops
  <2>1. LotsKept /\ ExitSeen' = ExitSeen
    BY <1>4, SameKeeps, SellsKeep, StopsKeep
  <2>2. UNCHANGED <<booked, exitBooked>>
    BY <1>4 DEF Same, Sells, Stops
  <2>3. BuySums'
    BY <2>1, <2>2, KeptSums
  <2> QED BY <1>0, <1>2, <1>3, <2>1, <2>2, <2>3 DEF BookTypes
<1>5. CASE Spreads
  <2>1. LotsKept /\ ExitBooks'
    BY <1>5, SpreadsKeep
  <2>2. UNCHANGED booked /\ exitBooked' = ord[Exit].filled /\ ord[Exit].filled \in Nat
    BY <1>0, <1>5, ExitIsSell, OrderFields DEF Spreads
  <2>3. BuySums'
    BY <2>1, <2>2, KeptSums
  <2> QED BY <1>0, <1>2, <2>1, <2>2, <2>3 DEF BookTypes
<1> QED BY <1>1, <1>4, <1>5 DEF LotsMove

-----------------------------------------------------------------------------
\* How a buy is asked for and done with.
BuyMove ==
  /\ want' = want \/ \E k \in BuyKeys, q \in LotIx : BuyReserve(k, q)
  /\ \A k \in BuyKeys :
       /\ ops'[k] = "DONE" => ops[k] = "DONE" \/ (Terminal(ord, k) /\ ReconcileBuy(k))
       /\ ops'[k] = "MANUAL_REVIEW" => ops[k] = "MANUAL_REVIEW"
       /\ ops[k] = "DONE" => ops'[k] = "DONE"
       /\ ops[k] = "none" => ops'[k] = "none" \/ \E q \in LotIx : BuyReserve(k, q)

\* A buy is asked for once, and done when its order is over and booked.
LEMMA BuyStep ==
  ASSUME BaseInv, TodoPending, Reserved, [Next]_vars PROVE BuyMove
<1> USE DEF BuyMove, BaseInv, OutboxInv, Typed, Listed, TodoPending, Reserved, Pending,
          Unresolved, Posting, At, Abort, Goto, Keep, saved, local, world
<1>1. ASSUME TickStart PROVE BuyMove
  BY <1>1 DEF TickStart, StartReconcile
<1>2. ASSUME NEW k \in OpKeys, ReconcileBare(k) PROVE BuyMove
  BY <1>2 DEF ReconcileBare
<1>3. ASSUME NEW k \in OpKeys, ReconcileMissing(k) PROVE BuyMove
  BY <1>3, Families DEF ReconcileMissing
<1>4. ASSUME NEW k \in OpKeys, ReconcileEmergency(k) PROVE BuyMove
  BY <1>4 DEF ReconcileEmergency, Found
<1>5. ASSUME NEW k \in BuyKeys, ReconcileBuy(k) PROVE BuyMove
  <2>1. want' = want /\ ops' = [ops EXCEPT ![k] = IF Terminal(ord, k) THEN "DONE" ELSE "SUBMITTED"]
    BY <1>5 DEF ReconcileBuy, Settled
  <2>2. k \in OpKeys
    BY Families
  <2>3. ops[k] \notin {"none", "DONE"} /\ \A x \in BuyKeys : x \in OpKeys
    BY <1>5, Families DEF ReconcileBuy, Found
  <2> QED BY <1>5, <2>1, <2>2, <2>3
<1>6. ASSUME NEW i \in LotIx, ReconcileProtect(i) PROVE BuyMove
  BY <1>6, Families DEF ReconcileProtect, Found
<1>7. ASSUME NEW i \in LotIx, ReconcileRearm(i) PROVE BuyMove
  BY <1>7, Families DEF ReconcileRearm, Found
<1>8. ASSUME NEW i \in LotIx, NEW l \in 2 .. MaxStop, ReconcileTighten(i, l) PROVE BuyMove
  BY <1>8, Families DEF ReconcileTighten, Found
<1>9. ASSUME ReconcileExit PROVE BuyMove
  BY <1>9, Families DEF ReconcileExit, Found, Settled
<1>10. ASSUME ReconcileDone PROVE BuyMove
  BY <1>10 DEF ReconcileDone
<1>11. Reconcile => BuyMove
  BY <1>2, <1>3, <1>4, <1>5, <1>6, <1>7, <1>8, <1>9, <1>10 DEF Reconcile
<1>12. ASSUME RearmStart PROVE BuyMove
  BY <1>12 DEF RearmStart
<1>13. ASSUME RearmSkip PROVE BuyMove
  BY <1>13 DEF RearmSkip
<1>14. ASSUME RearmEnd PROVE BuyMove
  BY <1>14 DEF RearmEnd, StartReconcile
<1>15. ASSUME NEW i \in LotIx, RearmReserve(i) PROVE BuyMove
  BY <1>15, Families DEF RearmReserve, Reserve, Rearmed
<1>16. RearmFailedExit => BuyMove
  BY <1>12, <1>13, <1>14, <1>15 DEF RearmFailedExit
<1>17. ASSUME ProtectFrozen PROVE BuyMove
  BY <1>17 DEF ProtectFrozen
<1>18. ASSUME ProtectEnd PROVE BuyMove
  BY <1>18 DEF ProtectEnd
<1>19. ASSUME NEW i \in LotIx, ProtectReserve(i) PROVE BuyMove
  BY <1>19, Families DEF ProtectReserve, Reserve, MayProtect, First, Unprotected
<1>20. ProtectLots => BuyMove
  BY <1>17, <1>18, <1>19 DEF ProtectLots
<1>21. ASSUME ObserveLot PROVE BuyMove
  BY <1>21 DEF ObserveLot
<1>22. ASSUME ObserveEnd PROVE BuyMove
  BY <1>22 DEF ObserveEnd
<1>23. ReconcileLots => BuyMove
  BY <1>21, <1>22 DEF ReconcileLots
<1>24. ASSUME StandardCancel PROVE BuyMove
  BY <1>24 DEF StandardCancel, StartReconcile
<1>25. ASSUME StandardSkip PROVE BuyMove
  BY <1>25 DEF StandardSkip
<1>26. StandardEntry => BuyMove
  BY <1>24, <1>25 DEF StandardEntry
<1>27. ASSUME GatePending PROVE BuyMove
  BY <1>27 DEF GatePending
<1>28. ASSUME GateClosed PROVE BuyMove
  BY <1>28 DEF GateClosed
<1>29. ASSUME GateDeadline PROVE BuyMove
  BY <1>29 DEF GateDeadline
<1>30. ASSUME GateExpired PROVE BuyMove
  BY <1>30 DEF GateExpired
<1>31. ASSUME GateWait PROVE BuyMove
  BY <1>31 DEF GateWait
<1>32. ASSUME GateMarket PROVE BuyMove
  BY <1>32 DEF GateMarket
<1>33. Gate => BuyMove
  BY <1>27, <1>28, <1>29, <1>30, <1>31, <1>32 DEF Gate
<1>34. ASSUME DeadlineSkip PROVE BuyMove
  BY <1>34 DEF DeadlineSkip
<1>35. ASSUME DeadlineCancel PROVE BuyMove
  BY <1>35 DEF DeadlineCancel, CancelLegs, CancelUnconfirmed, Fault
<1>36. ASSUME DeadlineSell PROVE BuyMove
  BY <1>36, Families DEF DeadlineSell, Reserve
<1>37. Deadline => BuyMove
  BY <1>34, <1>35, <1>36 DEF Deadline
<1>38. ASSUME NEW i \in LotIx, NEW l \in 2 .. MaxStop, TightenReserve(i, l) PROVE BuyMove
  BY <1>38, Families DEF TightenReserve, Reserve, Tightening
<1>39. ASSUME TightenNext PROVE BuyMove
  BY <1>39 DEF TightenNext
<1>40. ASSUME TightenEnd PROVE BuyMove
  BY <1>40 DEF TightenEnd
<1>41. TightenStops => BuyMove
  BY <1>38, <1>39, <1>40 DEF TightenStops
<1>42. ASSUME BuyClosed PROVE BuyMove
  BY <1>42 DEF BuyClosed
<1>43. ASSUME BuyNothing PROVE BuyMove
  BY <1>43 DEF BuyNothing
<1>44. ASSUME BuyAttach PROVE BuyMove
  BY <1>44 DEF BuyAttach
<1>45. ASSUME NEW k \in BuyKeys, NEW q \in LotIx, BuyReserve(k, q) PROVE BuyMove
  <2>1. ops' = [ops EXCEPT ![k] = "RESERVED"] /\ ops[k] = "none" /\ k \in OpKeys
    BY <1>45, Families DEF BuyReserve, MayEnter, MayAdd
  <2>2. want' = want \/ \E x \in BuyKeys, r \in LotIx : BuyReserve(x, r)
    BY <1>45
  <2>3. \A x \in BuyKeys : x \in OpKeys
    BY Families
  <2> QED BY <1>45, <2>1, <2>2, <2>3
<1>46. Buy => BuyMove
  BY <1>42, <1>43, <1>44, <1>45 DEF Buy
<1>47. ASSUME AcceptBuy PROVE BuyMove
  BY <1>47, Families DEF AcceptBuy, Posting, Ends
<1>48. ASSUME AcceptProtect PROVE BuyMove
  BY <1>48, Families DEF AcceptProtect, Posting, Ends, Action
<1>49. ASSUME AcceptTighten PROVE BuyMove
  BY <1>49, Families DEF AcceptTighten, Posting, Ends, Action
<1>50. ASSUME TightenRefused PROVE BuyMove
  BY <1>50 DEF TightenRefused
<1>51. ASSUME AcceptRearm PROVE BuyMove
  BY <1>51, Families DEF AcceptRearm, Posting, Ends, Action
<1>52. ASSUME AcceptExit PROVE BuyMove
  BY <1>52, Families DEF AcceptExit, Posting, Ends
<1>53. ASSUME AcceptEmergency PROVE BuyMove
  BY <1>53, Families DEF AcceptEmergency, Posting, Ends
<1>54. Accept => BuyMove
  BY <1>47, <1>48, <1>49, <1>50, <1>51, <1>52, <1>53 DEF Accept
<1>55. ASSUME NEW k \in BuyKeys, NEW q \in LotIx, ReceiptMissing(k, q) PROVE BuyMove
  <2>1. \A x \in BuyKeys : x # Emergency(k, q) /\ x \in OpKeys
    BY Families DEF EmergencyKeys
  <2> QED BY <1>55, <2>1 DEF ReceiptMissing, Reserve
<1>56. ASSUME AnswerLost PROVE BuyMove
  BY <1>56 DEF AnswerLost, Posting, Fault
<1>57. ASSUME Undelivered PROVE BuyMove
  BY <1>57 DEF Undelivered, Posting, Fault
<1>58. ASSUME Rejected PROVE BuyMove
  BY <1>58, Families DEF Rejected, Posting, Ends, Fault
<1>59. ASSUME Crash PROVE BuyMove
  BY <1>59 DEF Crash, Fault
<1>60. ASSUME NEW k \in SellKeys \ {Exit}, BrokerCancel(k) PROVE BuyMove
  BY <1>60 DEF BrokerCancel, Fault
<1>61. Failure => BuyMove
  BY <1>55, <1>56, <1>57, <1>58, <1>59, <1>60 DEF Failure
<1>62. ASSUME NEW k \in Keys, BrokerFill(k) PROVE BuyMove
  BY <1>62 DEF BrokerFill
<1>63. ASSUME NEW k \in Keys, BrokerTerminate(k) PROVE BuyMove
  BY <1>63 DEF BrokerTerminate
<1>64. ASSUME Expire PROVE BuyMove
  BY <1>64 DEF Expire
<1>65. ASSUME DueArrives PROVE BuyMove
  BY <1>65 DEF DueArrives
<1>66. ASSUME SwitchOff PROVE BuyMove
  BY <1>66 DEF SwitchOff
<1>67. Market => BuyMove
  BY <1>62, <1>63, <1>64, <1>65, <1>66 DEF Market
<1>68. ASSUME UNCHANGED vars PROVE BuyMove
  BY <1>68 DEF vars
<1> QED BY <1>1, <1>11, <1>16, <1>20, <1>23, <1>26, <1>33, <1>37, <1>41, <1>46, <1>54, <1>61,
     <1>67, <1>68 DEF Next, Tick

-----------------------------------------------------------------------------
\* What a buy may take: its order is for what was wanted, and both buys
\* together for no more than the target.
BuyOps ==
  /\ \A k \in BuyKeys :
       /\ ord[k].filled <= want[k] /\ (ord[k].st # "none" => ord[k].qty = want[k])
       /\ ops[k] = "none" => want[k] = 0
       /\ ops[k] = "DONE" => Terminal(ord, k) /\ booked[k] = ord[k].filled
       /\ ops[k] # "MANUAL_REVIEW"
  /\ want[Entry] <= FullQty
  /\ ops[AddOn] # "none" => ops[Entry] = "DONE" /\ booked[Entry] + want[AddOn] <= FullQty

\* The identifiers of the buys name no order on a lot.
LEMMA BuyKeysApart ==
  \A k \in BuyKeys : /\ k \in OpKeys /\ k \in Keys /\ k \in PostKeys /\ Siblings(k) = {}
                     /\ \A i \in LotIx : k \notin LotKeys(i) /\ k # StopLeg(i) /\ k # Protect(i)
                     /\ \A x : k \notin Siblings(x)
<1>1. \A k \in BuyKeys : \A i \in LotIx : k \notin LotKeys(i)
  BY LotKeyFacts DEF SellKeys
<1>2. \A x : \A k \in BuyKeys : k \notin Siblings(x)
  BY <1>1, SiblingFacts
<1> QED BY <1>1, <1>2, Families, KeyFacts, LotKeyFacts, SiblingFacts

\* The order of a buy stays, or works and trades, or is new.
LEMMA BuyOrders ==
  ASSUME BaseInv, OrdersInv, Unplaced, OrdersMove, NEW k \in BuyKeys
  PROVE  \/ ord'[k] = ord[k]
         \/ /\ Live(ord, k) /\ ord'[k].qty = ord[k].qty /\ ord'[k].filled <= ord[k].qty
         \/ Sends /\ k = req /\ ord[k] = NoOrder /\ ord'[k] = NewOrder(want[k])
<1>0. BookTypes /\ Working /\ k \in Keys /\ ord[k] \in Order /\ ord[k].qty \in Nat /\ ord[k].filled \in Nat
  BY BuyKeysApart, OrderFields DEF BaseInv, OrdersInv
<1>1. CASE Cancels
  <2>1. PICK x : ord' = Canceled(ord, x)
    BY <1>1 DEF Cancels
  <2>2. CASE ord'[k] = ord[k]
    BY <2>2
  <2>3. CASE ord'[k] # ord[k]
    BY <1>0, <2>1, <2>3, CanceledIs DEF Working
  <2> QED BY <2>2, <2>3
<1>2. CASE Fills
  <2>1. PICK x \in Keys : BrokerFill(x)
    BY <1>2 DEF Fills
  <2>2. Working /\ Paired
    BY DEF OrdersInv
  <2>3. k \notin Siblings(x)
    BY BuyKeysApart
  <2>4. CASE x = k
    BY <1>0, <2>1, <2>2, <2>3, <2>4, FilledIs DEF Working
  <2>5. CASE x # k
    <3>1. /\ ord'[k].filled = ord[k].filled /\ ord'[k].qty = ord[k].qty /\ ord'[k].st = ord[k].st
          /\ ord'[k] \in Order
      BY <1>0, <2>1, <2>2, <2>3, <2>5, FilledIs
    <3> QED BY <1>0, <3>1 DEF Order
  <2> QED BY <2>4, <2>5
<1>3. CASE Sends
  <2>1. pc = "post" /\ Sendable /\ ord' = Placed(req) /\ ord \in [Keys -> Order]
    BY <1>0, <1>3 DEF Sends, BookTypes
  <2>2. req \in BuyKeys => Quantity(req) = want[req]
    BY <1>0, <2>1, QuantityIs
  <2>3. ord[req] = NoOrder /\ req \in OpKeys
    BY <1>0, <2>1, QuantityIs DEF Unplaced
  <2> DEFINE new == NewOrder(Quantity(req))
  <2>4. CASE ord' = [ord EXCEPT ![req] = new]
    BY <1>0, <1>3, <2>1, <2>2, <2>3, <2>4
  <2>5. ASSUME NEW i \in LotIx, req = Protect(i), ord' = [ord EXCEPT ![req] = new,
       ![StopLeg(i)] = new]
        PROVE  ord'[k] = ord[k]
    BY <1>0, <2>1, <2>5, BuyKeysApart
  <2>6. ASSUME NEW i \in LotIx, NEW l \in 2 .. MaxStop, req = Tighten(i, l),
               ord' = [ord EXCEPT ![lots[i].stopId].st = "replaced", ![req] = new]
        PROVE  ord'[k] = ord[k]
    <3>1. lots[i].stopId \in LotKeys(i) /\ req \in LotKeys(i)
      BY <2>1, <2>6, LotKeyFacts DEF Unplaced
    <3>2. k # lots[i].stopId /\ k # req
      BY <3>1, BuyKeysApart
    <3> HIDE DEF new
    <3> QED BY <1>0, <2>1, <2>6, <3>2
  <2> QED BY <1>0, <2>1, <2>4, <2>5, <2>6, PlacedIs
<1> QED BY <1>1, <1>2, <1>3 DEF OrdersMove

\* The types of the books, but for the number of the lots.
Counts == /\ want \in [BuyKeys -> Nat] /\ booked \in [BuyKeys -> Nat] /\ ord \in [Keys -> Order]
          /\ lots \in Seq(Lot)

\* All shares of the lots were bought by one of the two buys.
LEMMA QtyIs ==
  ASSUME Counts, BuySums
  PROVE  QtyTotal(lots) = booked[Entry] + booked[AddOn]
<1> DEFINE f == Parts(Entry)
           d == Parts(AddOn)
           g == [i \in DOMAIN lots |-> lots[i].qty]
<1>1. DOMAIN lots = 1 .. Len(lots) /\ Len(lots) \in Nat /\ IsFiniteSet(DOMAIN lots)
  <2>1. DOMAIN lots = 1 .. Len(lots) /\ Len(lots) \in Nat
    BY DEF Counts
  <2> QED BY <2>1, FS_Interval
<1>2. \A i \in DOMAIN lots : f[i] \in Int /\ d[i] \in Int /\ g[i] = f[i] + d[i]
  <2> TAKE i \in DOMAIN lots
  <2>0. lots[i] \in Lot
    BY <1>1 DEF Counts
  <2>1. lots[i].qty \in Nat /\ lots[i].parent \in BuyKeys
    BY <2>0 DEF Lot
  <2>2. Entry # AddOn
    BY DEF Entry, AddOn
  <2> HIDE DEF Entry, AddOn
  <2> QED BY <2>1, <2>2 DEF Parts, BuyKeys
<1>3. QtyTotal(lots) = SumFunctionOnSet(g, DOMAIN lots)
  <2>1. DOMAIN g = DOMAIN lots /\ QtyTotal(lots) = SumFunction(g)
    BY DEF QtyTotal
  <2> HIDE DEF g
  <2> QED BY <2>1 DEF SumFunction
<1>4. SumFunctionOnSet(f, DOMAIN lots) = booked[Entry] /\ SumFunctionOnSet(d, DOMAIN lots) = booked[AddOn]
  BY LotsOfIs DEF BuySums, BuyKeys
<1> HIDE DEF f, d, g
<1>5. SumFunctionOnSet(g, DOMAIN lots) = SumFunctionOnSet(f, DOMAIN lots) + SumFunctionOnSet(d, DOMAIN lots)
  BY <1>1, <1>2, SumPlus
<1> QED BY <1>3, <1>4, <1>5

\* The lots hold no more shares than were wanted.
LEMMA BookedFit ==
  ASSUME Counts, BuySums, BuyOps
  PROVE  /\ booked[Entry] + booked[AddOn] <= FullQty
         /\ \A k \in BuyKeys : booked[k] \in Nat /\ want[k] \in Nat /\ booked[k] <= want[k]
<1>1. ASSUME NEW k \in BuyKeys
      PROVE  /\ booked[k] \in Nat /\ want[k] \in Nat /\ ord[k].filled \in Nat
             /\ booked[k] <= want[k]
  <2>1. ord[k] \in Order
    BY BuyKeysApart DEF Counts
  <2> QED BY <2>1 DEF Order, Counts, BuySums, BuyOps
<1>2. Entry \in BuyKeys /\ AddOn \in BuyKeys /\ FullQty \in Nat
  BY ConstantsAssumption DEF BuyKeys
<1> HIDE DEF Entry, AddOn
<1>3. CASE ops[AddOn] = "none"
  BY <1>1, <1>2, <1>3 DEF BuyOps
<1>4. CASE ops[AddOn] # "none"
  BY <1>1, <1>2, <1>4 DEF BuyOps
<1> QED BY <1>1, <1>3, <1>4

\* There are no more lots than shares.
LEMMA LotsFew ==
  Counts /\ BuySums /\ BuyOps /\ GoodLots => DOMAIN lots \subseteq LotIx /\ Len(lots) <= FullQty
<1> SUFFICES ASSUME Counts, BuySums, BuyOps, GoodLots
             PROVE  DOMAIN lots \subseteq LotIx /\ Len(lots) <= FullQty
  OBVIOUS
<1> DEFINE g == [i \in DOMAIN lots |-> lots[i].qty]
           n == Len(lots)
<1>1. DOMAIN lots = 1 .. n /\ n \in Nat /\ \A i \in 1 .. n : lots[i] \in Lot
  BY DEF Counts
<1>2. \A i \in 1 .. n : g[i] \in Nat \ {0}
  <2> TAKE i \in 1 .. n
  <2>1. lots[i] \in Lot /\ i \in DOMAIN lots
    BY <1>1
  <2>2. lots[i].qty > 0
    BY <2>1 DEF GoodLots, GoodLot
  <2> QED BY <2>1, <2>2 DEF Lot
<1>3. QtyTotal(lots) = SumFunctionOnSet(g, 1 .. n)
  <2>1. DOMAIN g = 1 .. n /\ QtyTotal(lots) = SumFunction(g)
    BY <1>1 DEF QtyTotal
  <2> HIDE DEF g
  <2> QED BY <2>1 DEF SumFunction
<1>4. QtyTotal(lots) <= FullQty
  BY QtyIs, BookedFit
<1>5. QtyTotal(lots) \in Nat
  BY QtyIs, BookedFit DEF BuyKeys
<1> HIDE DEF g, n
<1>6. n <= SumFunctionOnSet(g, 1 .. n)
  BY <1>1, <1>2, SumOfOnes
<1>7. n <= FullQty
  BY <1>1, <1>3, <1>4, <1>5, <1>6, ConstantsAssumption
<1> QED BY <1>1, <1>7, ConstantsAssumption DEF LotIx, n

\* The same after a step.
LEMMA LotsFewNext ==
  (Counts /\ BuySums /\ BuyOps /\ GoodLots)' => (DOMAIN lots \subseteq LotIx)'
<1>1. Counts /\ BuySums /\ BuyOps /\ GoodLots => DOMAIN lots \subseteq LotIx
  BY LotsFew
<1> QED BY <1>1, PTL

\* What a step that asks for a buy asks for.
LEMMA AskedBuy ==
  ASSUME CoreInv, Sums, BuyOps, NEW k \in BuyKeys, NEW q \in LotIx, BuyReserve(k, q)
  PROVE  /\ ops[k] = "none" /\ want' = [want EXCEPT ![k] = q] /\ UNCHANGED <<ord, booked>>
         /\ k = Entry => q <= FullQty
         /\ k = AddOn => ops[Entry] = "DONE" /\ booked[Entry] + q <= FullQty
<1> USE DEF CoreInv
<1>0. BookTypes /\ Counts /\ GoodLots /\ ops \in [OpKeys -> OpStatus]
  BY DEF BaseInv, BookTypes, Counts, OutboxInv, Typed
<1>1. ops[k] = "none" /\ want' = [want EXCEPT ![k] = q] /\ UNCHANGED <<ord, booked>>
  BY DEF BuyReserve, MayEnter, MayAdd
<1>2. k = Entry => q <= FullQty
  BY ConstantsAssumption DEF BuyReserve, MayEnter, MayAdd, Entry, AddOn, LotIx
<1>3. ASSUME k = AddOn PROVE ops[Entry] = "DONE" /\ booked[Entry] + q <= FullQty
  <2>1. Pending = {} /\ lots # <<>> /\ ops[AddOn] = "none" /\ q <= FullQty - QtyTotal(lots)
    BY <1>3 DEF BuyReserve, MayEnter, MayAdd, Entry, AddOn
  <2>2. /\ QtyTotal(lots) = booked[Entry] + booked[AddOn]
        /\ \A b \in BuyKeys : booked[b] \in Nat /\ want[b] \in Nat /\ booked[b] <= want[b]
        /\ Entry \in BuyKeys /\ AddOn \in BuyKeys
    BY <1>0, QtyIs, BookedFit DEF Sums, BuyKeys
  <2>3. booked[AddOn] = 0
    BY <2>1, <2>2 DEF BuyOps
  <2>4. QtyTotal(lots) > 0
    <3> DEFINE n == Len(lots)
               g == [i \in DOMAIN lots |-> lots[i].qty]
    <3>1. DOMAIN lots = 1 .. n /\ n \in Nat /\ n # 0
      BY <1>0, <2>1 DEF BookTypes
    <3>2. \A i \in DOMAIN lots : g[i] \in Nat /\ g[i] > 0
      BY <1>0, LotFields DEF GoodLots, GoodLot
    <3>3. QtyTotal(lots) = SumFunctionOnSet(g, DOMAIN lots)
      <4>1. DOMAIN g = DOMAIN lots /\ QtyTotal(lots) = SumFunction(g)
        BY DEF QtyTotal
      <4> HIDE DEF g
      <4> QED BY <4>1 DEF SumFunction
    <3>4. IsFiniteSet(DOMAIN lots) /\ 1 \in DOMAIN lots
      BY <1>0, <3>1, LotsFinite
    <3> HIDE DEF g, n
    <3>5. g[1] <= SumFunctionOnSet(g, DOMAIN lots)
      BY <3>2, <3>4, SumElement
    <3> QED BY <2>2, <3>2, <3>3, <3>4, <3>5
  <2>5. ops[Entry] # "none"
    BY <2>2, <2>3, <2>4 DEF BuyOps
  <2>6. ops[Entry] \notin Unresolved /\ ops[Entry] # "MANUAL_REVIEW" /\ ops[Entry] \in OpStatus
    BY <1>0, <2>1, <2>2, BuyKeysApart DEF Pending, BuyOps
  <2>7. ops[Entry] = "DONE"
    BY <2>5, <2>6 DEF OpStatus, Unresolved
  <2>8. booked[Entry] + q <= FullQty
    BY <2>1, <2>2, <2>3, ConstantsAssumption DEF LotIx
  <2> QED BY <2>7, <2>8
<1> QED BY <1>1, <1>2, <1>3

\* A step of a buy keeps it within what was wanted, and both within the target.
LEMMA BuyOpsStep ==
  ASSUME CoreInv, CoreStep, Unplaced, LotsMove, Sums, BuyOps, BuyMove
  PROVE  BuyOps' /\ want' \in [BuyKeys -> Nat]
<1> USE DEF CoreInv
<1>0. /\ BaseInv /\ OrdersInv /\ OrdersMove /\ BookTypes /\ Counts
      /\ Entry \in BuyKeys /\ AddOn \in BuyKeys /\ Entry # AddOn
  BY DEF CoreStep, BaseInv, BookTypes, Counts, BuyKeys, Entry, AddOn
<1> HIDE DEF Entry, AddOn
<1>1. ASSUME NEW k \in BuyKeys
      PROVE  /\ booked[k] \in Nat /\ want[k] \in Nat /\ ord[k] \in Order /\ ord[k].qty \in Nat
             /\ ord[k].filled \in Nat /\ booked[k] <= ord[k].filled /\ ord[k].filled <= want[k]
             /\ (ord[k].st # "none" => ord[k].qty = want[k])
             /\ (ops[k] = "none" => want[k] = 0 /\ ord[k] = NoOrder)
  <2>1. ord[k] \in Order /\ booked[k] \in Nat /\ want[k] \in Nat /\ ord[k].filled \in Nat /\ ord[k].qty \in Nat
    BY <1>0, OrderFields, BuyKeysApart DEF BookTypes
  <2>2. ops[k] = "none" => ord[k] = NoOrder
    BY BuyKeysApart DEF OrdersInv, Fresh, BaseInv, OutboxInv, Once
  <2> QED BY <2>1, <2>2 DEF Sums, BuySums, BuyOps
<1> DEFINE Asks == \E k \in BuyKeys, q \in LotIx :
             /\ ops[k] = "none" /\ want' = [want EXCEPT ![k] = q] /\ UNCHANGED <<ord, booked>>
             /\ k = Entry => q <= FullQty
             /\ k = AddOn => ops[Entry] = "DONE" /\ booked[Entry] + q <= FullQty
<1>2. (want' = want \/ Asks) /\ want' \in [BuyKeys -> Nat]
  <2>1. CASE want' = want
    BY <1>0, <2>1 DEF BookTypes
  <2>2. ASSUME NEW k \in BuyKeys, NEW q \in LotIx, BuyReserve(k, q)
       PROVE  Asks /\ want' \in [BuyKeys -> Nat]
    <3>1. /\ ops[k] = "none" /\ want' = [want EXCEPT ![k] = q] /\ UNCHANGED <<ord, booked>>
          /\ k = Entry => q <= FullQty
          /\ k = AddOn => ops[Entry] = "DONE" /\ booked[Entry] + q <= FullQty
      BY <2>2, AskedBuy
    <3> HIDE DEF Asks
    <3>2. want' \in [BuyKeys -> Nat]
      BY <1>0, <3>1 DEF BookTypes, LotIx
    <3>3. Asks
      BY <3>1 DEF Asks
    <3> QED BY <3>2, <3>3
  <2> QED BY <2>1, <2>2 DEF BuyMove
<1>3. ASSUME NEW k \in BuyKeys
      PROVE  /\ want'[k] \in Nat /\ ord'[k].filled <= want'[k]
             /\ ord'[k].st # "none" => ord'[k].qty = want'[k]
  <2>1. CASE want' = want
    <3>1. CASE ord'[k] = ord[k]
      BY <1>1, <2>1, <3>1
    <3>2. CASE Live(ord, k) /\ ord'[k].qty = ord[k].qty /\ ord'[k].filled <= ord[k].qty
      BY <1>1, <2>1, <3>2 DEF Live
    <3>3. CASE ord'[k] = NewOrder(want[k])
      BY <1>1, <2>1, <3>3 DEF NewOrder
    <3> QED BY <1>0, <3>1, <3>2, <3>3, BuyOrders
  <2>2. CASE want' # want
    BY <1>0, <1>1, <1>2, <2>2 DEF NoOrder, LotIx, BookTypes
  <2> QED BY <2>1, <2>2
<1>4. ASSUME NEW k \in BuyKeys, ops'[k] = "none" PROVE want'[k] = 0
  <2>1. ops[k] = "none" /\ k \in OpKeys
    BY <1>4, BuyKeysApart DEF CoreStep, OnlyReserved
  <2>2. want[k] = 0
    BY <1>1, <2>1
  <2>3. CASE want' = want
    BY <2>2, <2>3
  <2>4. ASSUME NEW b \in BuyKeys, NEW q \in LotIx, BuyReserve(b, q) PROVE want'[k] = 0
    <3>1. b # k
      <4>1. ops \in [OpKeys -> OpStatus]
        BY DEF BaseInv, OutboxInv, Typed
      <4>2. ops'[b] = "RESERVED"
        BY <2>4, <4>1, BuyKeysApart DEF BuyReserve
      <4> QED BY <1>4, <4>2
    <3> QED BY <1>0, <2>2, <2>4, <3>1, AskedBuy DEF BookTypes
  <2> QED BY <2>3, <2>4 DEF BuyMove
<1>5. ASSUME NEW k \in BuyKeys, ops[k] = "DONE"
      PROVE  Terminal(ord, k) /\ booked[k] = ord[k].filled /\ ord'[k] = ord[k] /\ booked'[k] = booked[k]
  <2>1. Terminal(ord, k) /\ booked[k] = ord[k].filled
    BY <1>5 DEF BuyOps
  <2>2. ord'[k] = ord[k]
    BY <1>0, <2>1, BuyOrders DEF Terminal, Live, NoOrder
  <2>3. CASE UNCHANGED booked
    BY <2>1, <2>2, <2>3
  <2>4. CASE Appends
    <3>1. PICK b \in BuyKeys : NewFill(b) # 0 /\ booked' = [booked EXCEPT ![b] = ord[b].filled]
      BY <2>4 DEF Appends
    <3>2. b # k
      BY <1>1, <2>1, <3>1 DEF NewFill
    <3> QED BY <1>0, <2>1, <2>2, <3>1, <3>2 DEF BookTypes
  <2> QED BY <2>3, <2>4 DEF LotsMove, Same, Sells, Stops, Spreads
<1>6. ASSUME NEW k \in BuyKeys, ops'[k] = "DONE"
     PROVE  Terminal(ord', k) /\ booked'[k] = ord'[k].filled
  <2>1. CASE ops[k] = "DONE"
    BY <1>5, <2>1 DEF Terminal
  <2>2. CASE Terminal(ord, k) /\ ReconcileBuy(k)
    <3>1. UNCHANGED ord
      BY <2>2 DEF ReconcileBuy
    <3>2. CASE NewFill(k) = 0
      BY <1>1, <2>2, <3>1, <3>2 DEF ReconcileBuy, NewFill, Terminal
    <3>3. CASE NewFill(k) # 0
      BY <1>0, <2>2, <3>1, <3>3 DEF ReconcileBuy, Terminal, BookTypes
    <3> QED BY <3>2, <3>3
  <2> QED BY <1>6, <2>1, <2>2 DEF BuyMove
<1>7. \A k \in BuyKeys : ops'[k] # "MANUAL_REVIEW"
  BY DEF BuyMove, BuyOps
<1>8. want'[Entry] <= FullQty
  BY <1>0, <1>1, <1>2 DEF BuyOps, BookTypes
<1>9. ASSUME ops'[AddOn] # "none"
     PROVE  ops'[Entry] = "DONE" /\ booked'[Entry] + want'[AddOn] <= FullQty
  <2>1. CASE ops[AddOn] # "none"
    <3>1. ops[Entry] = "DONE" /\ booked[Entry] + want[AddOn] <= FullQty
      BY <2>1 DEF BuyOps
    <3>2. ops'[Entry] = "DONE" /\ booked'[Entry] = booked[Entry]
      BY <1>0, <1>5, <3>1 DEF BuyMove
    <3>3. want'[AddOn] = want[AddOn]
      BY <1>0, <1>2, <2>1, <3>1 DEF BookTypes
    <3> QED BY <3>1, <3>2, <3>3
  <2>2. CASE ops[AddOn] = "none"
    <3>1. PICK q \in LotIx : BuyReserve(AddOn, q)
      BY <1>0, <1>9, <2>2 DEF BuyMove
    <3>2. ops[Entry] = "DONE" /\ booked[Entry] + q <= FullQty /\ want'[AddOn] = q
      BY <1>0, <3>1, AskedBuy DEF BookTypes
    <3>3. ops'[Entry] = "DONE" /\ booked'[Entry] = booked[Entry]
      BY <1>0, <1>5, <3>2 DEF BuyMove
    <3> QED BY <3>2, <3>3
  <2> QED BY <2>1, <2>2
<1> QED BY <1>2, <1>3, <1>4, <1>6, <1>7, <1>8, <1>9 DEF BuyOps, Terminal

-----------------------------------------------------------------------------
\* The inductive invariant of the books.
BooksInv == CoreInv /\ Sums /\ BuyOps

\* A new campaign has empty books and no order.
LEMMA BooksInit == Init => BooksInv
<1> SUFFICES ASSUME Init PROVE BooksInv
  OBVIOUS
<1>1. OutboxInv
  BY OutboxInit
<1>2. lots = <<>> /\ DOMAIN lots = {} /\ lots \in Seq(Lot)
  BY DEF Init
<1>3. \A k \in Keys : ord[k] = NoOrder
  BY DEF Init
<1>4. \A k \in OpKeys : ops[k] = "none" /\ posts[k] = 0
  BY DEF Init
<1>5. pc = "idle"
  BY DEF Init
<1>6. BookTypes
  <2>1. NoOrder \in Order
    BY DEF NoOrder, Order, OrderStatus
  <2>2. ord \in [Keys -> Order]
    BY <2>1 DEF Init
  <2> QED BY <1>2, <2>2 DEF Init, BookTypes
<1>7. TickTypes
  <2>1. refused = FALSE /\ review = FALSE /\ expired = FALSE /\ due = FALSE /\ off = FALSE
    BY DEF Init
  <2>2. {refused, review, expired, due, off} \subseteq BOOLEAN
    BY <2>1
  <2>3. status = "PENDING" /\ bare = {} /\ pc = "idle" /\ stage = "start" /\ cur = 1
        /\ req = NoKey /\ faults = 0 /\ 0 \in 0 .. MaxFaults
    BY ConstantsAssumption DEF Init
  <2> QED BY <2>2, <2>3 DEF TickTypes, Places, Stages
<1>8. GoodLots
  BY <1>2 DEF GoodLots
<1>9. LotOps
  BY <1>4, Families DEF LotOps
<1>10. Asked /\ TodoPending /\ Reserved
  BY <1>5 DEF Asked, TodoPending, Reserved
<1>11. OrdersInv
  <2>1. \A k \in TightenKeys : k \in Keys
    BY Families DEF Keys
  <2>2. \A i \in LotIx : StopLeg(i) \in Keys /\ LotKeys(i) \subseteq Keys
    BY Families, LotKeyFacts DEF SellKeys
  <2>3. \A k \in PostKeys : k \in Keys
    BY DEF PostKeys, Keys
  <2> QED BY <1>3, <2>1, <2>2, <2>3 DEF OrdersInv, Working, Paired, Fresh, Live, NoOrder
<1>12. TightInv
  <2>1. TightOps
    BY <1>4, Families DEF TightOps, Unresolved
  <2>2. StopOrders
    BY <1>2, <1>3, Families DEF StopOrders
  <2> QED BY <2>1, <2>2 DEF TightInv
<1>13. ExitPath
  BY <1>4, <1>5, Families DEF ExitPath
<1>14. Sums
  <2>1. ExitBooks
    BY <1>2, <1>3, SumEmpty, ExitIsSell DEF ExitBooks, Init, NoOrder
  <2>2. ASSUME NEW k \in BuyKeys PROVE LotsOf(k) = booked[k] /\ booked[k] <= ord[k].filled
    <3>1. LotsOf(k) = 0
      BY <1>2, LotsOfIs, SumEmpty
    <3>2. booked[k] = 0 /\ ord[k].filled = 0
      BY <1>3, BuyKeysApart DEF Init, NoOrder
    <3> QED BY <3>1, <3>2
  <2> QED BY <2>1, <2>2 DEF Sums, BuySums
<1>15. BuyOps
  <2>1. \A k \in BuyKeys : want[k] = 0 /\ ord[k].filled = 0 /\ ord[k].st = "none" /\ ops[k] = "none"
    BY <1>3, <1>4, BuyKeysApart DEF Init, NoOrder
  <2>2. want[Entry] = 0 /\ ops[AddOn] = "none"
    BY <2>1 DEF BuyKeys
  <2> QED BY <2>1, <2>2, ConstantsAssumption DEF BuyOps
<1> QED BY <1>1, <1>6, <1>7, <1>8, <1>9, <1>10, <1>11, <1>12, <1>13, <1>14, <1>15
        DEF BooksInv, CoreInv, BaseInv

\* Every step is one of those the lemmas above speak of.
LEMMA StepIs ==
  ASSUME BooksInv, [Next]_vars
  PROVE  /\ CoreStep /\ Moves /\ LotsMove /\ Unplaced /\ BuyMove /\ LotsStay
         /\ OrdersInv' /\ OrdersGood
<1> USE DEF BooksInv, CoreInv
<1>1. Moves
  BY StepMoves DEF BaseInv
<1>2. Turns
  BY RequestTurns
<1>3. OnlyReserved
  BY <1>1, <1>2, NewOps DEF BaseInv
<1>4. LotsMove /\ OrdersMove
  BY StepBooks
<1>5. OpsMove
  BY OperationsMove
<1>6. StopsStay \/ Restops
  BY StopsMove
<1>7. CoreStep
  BY <1>2, <1>3, <1>4, <1>5, <1>6, RestopsAre DEF CoreStep
<1>8. LotsStay
  BY <1>6, LotsGrow
<1>9. BuyMove
  BY BuyStep
<1> QED BY <1>1, <1>4, <1>7, <1>8, <1>9, OrdersInvStep, UnplacedIs

\* Every step keeps the books.
LEMMA BooksStep == BooksInv /\ [Next]_vars => BooksInv'
<1> SUFFICES ASSUME BooksInv, [Next]_vars PROVE BooksInv'
  OBVIOUS
<1>1. /\ CoreStep /\ Moves /\ LotsMove /\ Unplaced /\ BuyMove /\ LotsStay
      /\ OrdersInv' /\ OrdersGood
  BY StepIs
<1>2. CoreInv /\ Sums /\ BuyOps /\ BaseInv /\ OutboxInv
  BY DEF BooksInv, CoreInv, BaseInv
<1>3. OutboxInv'
  BY <1>2, OutboxStep
<1>4. /\ lots' \in Seq(Lot) /\ GoodLots' /\ ExitBooks' /\ BuySums'
      /\ booked' \in [BuyKeys -> Nat] /\ exitBooked' \in Nat
  BY <1>1, <1>2, LotsStep
<1>5. BuyOps' /\ want' \in [BuyKeys -> Nat]
  BY <1>1, <1>2, BuyOpsStep
<1>6. BookTypes'
  <2>1. Counts'
    BY <1>1, <1>4, <1>5 DEF Counts, OrdersGood
  <2>2. (DOMAIN lots \subseteq LotIx)'
    BY <1>4, <1>5, <2>1, LotsFewNext
  <2> QED BY <1>4, <2>1, <2>2 DEF BookTypes, Counts
<1>7. TickTypes'
  <2>1. Flags' /\ PlaceTypes'
    BY <1>2, FlagStep, PlaceStep DEF BaseInv, TickTypes, Flags, PlaceTypes
  <2> QED BY <2>1 DEF TickTypes, Flags, PlaceTypes
<1>8. LotOps' /\ Asked'
  BY <1>1, <1>2, LotOpsStep, AskedStep DEF CoreInv, CoreStep
<1>9. ExitPath'
  <2>1. ExitPlaces' /\ DueStays
    BY <1>1, <1>2, ExitPlacesStep, DueStep DEF CoreInv, CoreStep
  <2> QED BY <1>1, <1>2, <2>1, ExitPathStep DEF CoreInv, CoreStep
<1>10. TightInv'
  BY <1>1, <1>2, TightInvStep, Families
<1>11. TodoPending' /\ Reserved'
  BY <1>2, TickStep DEF CoreInv
<1> QED BY <1>1, <1>3, <1>4, <1>5, <1>6, <1>7, <1>8, <1>9, <1>10, <1>11
        DEF BooksInv, CoreInv, BaseInv, Sums

\* The books of a campaign, whatever fails.
THEOREM BooksInvariant == Spec => []BooksInv
<1>1. Init => BooksInv
  BY BooksInit
<1>2. BooksInv /\ [Next]_vars => BooksInv'
  BY BooksStep
<1> QED BY <1>1, <1>2, PTL DEF Spec

\* The type of every variable, with no more lots than shares.
THEOREM CampaignTypes == Spec => []TypeOK
<1>1. BooksInv => TypeOK
  <2> SUFFICES ASSUME BooksInv PROVE TypeOK
    OBVIOUS
  <2>1. BookTypes /\ TickTypes /\ OutboxInv /\ GoodLots /\ BuySums /\ BuyOps
    BY DEF BooksInv, CoreInv, BaseInv, Sums
  <2>2. Counts
    BY <2>1 DEF Counts, BookTypes
  <2>3. Len(lots) <= FullQty
    BY <2>1, <2>2, LotsFew
  <2>4. todo \subseteq OpKeys
    BY <2>1 DEF OutboxInv, Listed
  <2> QED BY <2>1, <2>3, <2>4 DEF TypeOK, BookTypes, TickTypes, OutboxInv, Typed
<1> QED BY <1>1, BooksInvariant, PTL

\* Each order sold a lot's shares, or the exit shares of them all: never more
\* than it filled.
LEMMA NoticedFilled ==
  ASSUME BooksInv, NEW k \in SellKeys
  PROVE  Noticed(k) <= ord[k].filled
<1> DEFINE f == [i \in DOMAIN lots |-> lots[i].seen[k]]
<1>1. BookTypes /\ GoodLots /\ ExitBooks
  BY DEF BooksInv, CoreInv, BaseInv, Sums
<1>2. IsFiniteSet(DOMAIN lots) /\ \A i \in DOMAIN lots : lots[i].seen \in [SellKeys -> Nat] /\ i \in LotIx
  BY <1>1, LotsFinite, LotFields
<1>3. \A i \in DOMAIN lots : f[i] \in Nat
  BY <1>2
<1>4. Noticed(k) = SumFunctionOnSet(f, DOMAIN lots)
  <2>1. DOMAIN f = DOMAIN lots /\ Noticed(k) = SumFunction(f)
    BY DEF Noticed
  <2> HIDE DEF f
  <2> QED BY <2>1 DEF SumFunction
<1>5. ord[k].filled \in Nat
  BY <1>1, OrderFields DEF SellKeys
<1>6. CASE k = Exit
  BY <1>1, <1>4, <1>6 DEF ExitBooks, ExitSeen
<1>7. CASE k # Exit /\ \A i \in DOMAIN lots : f[i] = 0
  <2> HIDE DEF f
  <2>1. SumFunctionOnSet(f, DOMAIN lots) = 0
    BY <1>2, <1>7, SumZero
  <2> QED BY <1>4, <1>5, <2>1
<1>8. ASSUME k # Exit, NEW i \in DOMAIN lots, f[i] # 0 PROVE Noticed(k) <= ord[k].filled
  <2>1. f[i] <= ord[k].filled
    BY <1>1, <1>8 DEF GoodLots, GoodLot
  <2>2. \A j \in DOMAIN lots : f[j] # 0 => j = i
    <3>1. \A j \in DOMAIN lots : f[j] # 0 => k \in LotNames(j)
      BY <1>1, <1>8 DEF GoodLots, GoodLot
    <3>2. \A j \in DOMAIN lots : f[j] # 0 => k[2] = j
      BY <1>2, <3>1, LotKeyFacts
    <3> HIDE DEF f
    <3> QED BY <1>8, <3>2
  <2>3. f[i] \in Nat
    BY <1>3
  <2> HIDE DEF f
  <2> DEFINE z == [j \in DOMAIN lots |-> 0]
  <2>4. SumFunctionOnSet(z, DOMAIN lots) = 0
    BY <1>2, SumZero
  <2>5. \A j \in DOMAIN lots : z[j] \in Int /\ f[j] \in Int
    BY <1>3
  <2>6. \A j \in DOMAIN lots \ {i} : f[j] = z[j]
    BY <1>3, <2>2
  <2>7. z[i] = 0
    OBVIOUS
  <2> HIDE DEF z
  <2>8. SumFunctionOnSet(f, DOMAIN lots) = SumFunctionOnSet(z, DOMAIN lots) + f[i] - z[i]
    BY <1>2, <2>5, <2>6, SumChange
  <2> QED BY <1>4, <2>1, <2>3, <2>4, <2>7, <2>8
<1> QED BY <1>6, <1>7, <1>8

\* The books add up: no fill is booked twice, no share leaves a lot that no
\* order sold.
THEOREM BooksAlwaysBalance == Spec => []BooksBalance
<1>1. BooksInv => BooksBalance
  <2> SUFFICES ASSUME BooksInv PROVE BooksBalance
    OBVIOUS
  <2>1. BookTypes /\ GoodLots /\ BuySums
    BY DEF BooksInv, CoreInv, BaseInv, Sums
  <2>2. ASSUME NEW i \in DOMAIN lots
        PROVE  lots[i].rem \in 0 .. lots[i].qty /\ lots[i].qty - lots[i].rem = SumFunction(lots[i].seen)
    <3>1. GoodLot(ord, i, lots[i]) /\ lots[i].rem \in Nat /\ lots[i].qty \in Nat
          /\ lots[i].seen \in [SellKeys -> Nat]
      BY <2>1, LotFields DEF GoodLots
    <3>2. SumFunction(lots[i].seen) = SumFunctionOnSet(lots[i].seen, SellKeys)
      BY <3>1 DEF SumFunction
    <3> QED BY <3>1, <3>2 DEF GoodLot
  <2> QED BY <2>1, <2>2, NoticedFilled DEF BooksBalance, BuySums
<1> QED BY <1>1, BooksInvariant, PTL

-----------------------------------------------------------------------------
\* A reserved buy whose order is not attached yet is not looked up.
BareInv == \A k \in bare : ops[k] = "RESERVED"

\* A done protection is attached to its lot.
ProtectInv == \A i \in LotIx : /\ ops[Protect(i)] = "DONE" => lots[i].stopId # NoKey
                               /\ ops[Protect(i)] # "MANUAL_REVIEW"

\* Past protect() every lot has its stop, or one is still to be looked up.
Path == pc \in {"observe", "standard", "gate", "tighten", "buy"} \/ (pc = "post" /\ req \in TightenKeys)
Clear == ~review /\ (Unprotected # {} => \E i \in LotIx : ops[Protect(i)] \in Unresolved)
PathInv == Path => Clear

\* A buy under way.
Buying ==
  /\ pc = "attach" => /\ Pending = {req} /\ bare = {req} /\ ops[Exit] = "none" /\ ~review
                      /\ Unprotected = {}
  /\ pc = "post" /\ req \in BuyKeys => Settling(req)

ControlInv == BareInv /\ ProtectInv /\ PathInv /\ Buying

\* How a reserved buy stays bare.
BareMove == \A k \in bare' : (k \in bare /\ ops'[k] = ops[k]) \/ \E q \in LotIx : BuyReserve(k, q)

\* How a protection is done.
ProtectMove == \A i \in LotIx :
  /\ ops'[Protect(i)] = "DONE" =>
       ops[Protect(i)] = "DONE" \/ ReconcileProtect(i) \/ (AcceptProtect /\ req = Protect(i))
  /\ ops'[Protect(i)] = "MANUAL_REVIEW" => ops[Protect(i)] = "MANUAL_REVIEW"

\* How a tick comes past protect().
PathMove == Path' =>
  \/ ProtectEnd
  \/ /\ Path /\ UNCHANGED review
     /\ \A i \in LotIx : ops'[Protect(i)] = ops[Protect(i)]
     /\ UNCHANGED lots \/ ObserveLot \/ AcceptTighten

\* How a buy is under way.
BuyingMove ==
  /\ pc' = "attach" => \/ \E k \in BuyKeys, q \in LotIx : BuyReserve(k, q)
                       \/ pc = "attach" /\ UNCHANGED <<review, bare, ops, lots, req>>
  /\ pc' = "post" /\ req' \in BuyKeys =>
       /\ pc \in {"attach", "post"} /\ UNCHANGED <<review, ops, lots, req>>
       /\ bare' = IF pc = "attach" THEN bare \ {req} ELSE bare

\* What is bare stays reserved.
LEMMA BareStep ==
  ASSUME BaseInv, Buying, bare \subseteq BuyKeys, [Next]_vars PROVE BareMove
<1> USE DEF BareMove, Settling, Buying, BaseInv, OutboxInv, Typed, At, Abort, Goto, Keep,
          saved, local, world
<1>1. ASSUME TickStart PROVE BareMove
  BY <1>1 DEF TickStart, StartReconcile
<1>2. ASSUME NEW k \in OpKeys, ReconcileBare(k) PROVE BareMove
  BY <1>2 DEF ReconcileBare
<1>3. ASSUME NEW k \in OpKeys, ReconcileMissing(k) PROVE BareMove
  BY <1>3 DEF ReconcileMissing
<1>4. ASSUME NEW k \in OpKeys, ReconcileEmergency(k) PROVE BareMove
  BY <1>4 DEF ReconcileEmergency, Found
<1>5. ASSUME NEW k \in BuyKeys, ReconcileBuy(k) PROVE BareMove
  BY <1>5 DEF ReconcileBuy, Found, Settled, NewFill
<1>6. ASSUME NEW i \in LotIx, ReconcileProtect(i) PROVE BareMove
  BY <1>6 DEF ReconcileProtect, Found
<1>7. ASSUME NEW i \in LotIx, ReconcileRearm(i) PROVE BareMove
  BY <1>7, Families DEF ReconcileRearm, Found
<1>8. ASSUME NEW i \in LotIx, NEW l \in 2 .. MaxStop, ReconcileTighten(i, l) PROVE BareMove
  BY <1>8 DEF ReconcileTighten, Found
<1>9. ASSUME ReconcileExit PROVE BareMove
  BY <1>9, Families DEF ReconcileExit, Found, Settled
<1>10. ASSUME ReconcileDone PROVE BareMove
  BY <1>10 DEF ReconcileDone
<1>11. Reconcile => BareMove
  BY <1>2, <1>3, <1>4, <1>5, <1>6, <1>7, <1>8, <1>9, <1>10 DEF Reconcile
<1>12. ASSUME RearmStart PROVE BareMove
  BY <1>12 DEF RearmStart
<1>13. ASSUME RearmSkip PROVE BareMove
  BY <1>13 DEF RearmSkip
<1>14. ASSUME RearmEnd PROVE BareMove
  BY <1>14 DEF RearmEnd, StartReconcile
<1>15. ASSUME NEW i \in LotIx, RearmReserve(i) PROVE BareMove
  BY <1>15, Families DEF RearmReserve, Reserve, Rearmed
<1>16. RearmFailedExit => BareMove
  BY <1>12, <1>13, <1>14, <1>15 DEF RearmFailedExit
<1>17. ASSUME ProtectFrozen PROVE BareMove
  BY <1>17 DEF ProtectFrozen
<1>18. ASSUME ProtectEnd PROVE BareMove
  BY <1>18 DEF ProtectEnd
<1>19. ASSUME NEW i \in LotIx, ProtectReserve(i) PROVE BareMove
  BY <1>19, Families DEF ProtectReserve, Reserve, MayProtect, First, Unprotected
<1>20. ProtectLots => BareMove
  BY <1>17, <1>18, <1>19 DEF ProtectLots
<1>21. ASSUME ObserveLot PROVE BareMove
  BY <1>21 DEF ObserveLot
<1>22. ASSUME ObserveEnd PROVE BareMove
  BY <1>22 DEF ObserveEnd
<1>23. ReconcileLots => BareMove
  BY <1>21, <1>22 DEF ReconcileLots
<1>24. ASSUME StandardCancel PROVE BareMove
  BY <1>24 DEF StandardCancel, StartReconcile
<1>25. ASSUME StandardSkip PROVE BareMove
  BY <1>25 DEF StandardSkip
<1>26. StandardEntry => BareMove
  BY <1>24, <1>25 DEF StandardEntry
<1>27. ASSUME GatePending PROVE BareMove
  BY <1>27 DEF GatePending
<1>28. ASSUME GateClosed PROVE BareMove
  BY <1>28 DEF GateClosed
<1>29. ASSUME GateDeadline PROVE BareMove
  BY <1>29 DEF GateDeadline
<1>30. ASSUME GateExpired PROVE BareMove
  BY <1>30 DEF GateExpired
<1>31. ASSUME GateWait PROVE BareMove
  BY <1>31 DEF GateWait
<1>32. ASSUME GateMarket PROVE BareMove
  BY <1>32 DEF GateMarket
<1>33. Gate => BareMove
  BY <1>27, <1>28, <1>29, <1>30, <1>31, <1>32 DEF Gate
<1>34. ASSUME DeadlineSkip PROVE BareMove
  BY <1>34 DEF DeadlineSkip
<1>35. ASSUME DeadlineCancel PROVE BareMove
  BY <1>35 DEF DeadlineCancel, CancelLegs, CancelUnconfirmed, Fault
<1>36. ASSUME DeadlineSell PROVE BareMove
  BY <1>36, Families DEF DeadlineSell, Reserve
<1>37. Deadline => BareMove
  BY <1>34, <1>35, <1>36 DEF Deadline
<1>38. ASSUME NEW i \in LotIx, NEW l \in 2 .. MaxStop, TightenReserve(i, l) PROVE BareMove
  BY <1>38, Families DEF TightenReserve, Reserve, Tightening
<1>39. ASSUME TightenNext PROVE BareMove
  BY <1>39 DEF TightenNext
<1>40. ASSUME TightenEnd PROVE BareMove
  BY <1>40 DEF TightenEnd
<1>41. TightenStops => BareMove
  BY <1>38, <1>39, <1>40 DEF TightenStops
<1>42. ASSUME BuyClosed PROVE BareMove
  BY <1>42 DEF BuyClosed
<1>43. ASSUME BuyNothing PROVE BareMove
  BY <1>43 DEF BuyNothing
<1>44. ASSUME BuyAttach PROVE BareMove
  BY <1>44 DEF BuyAttach
<1>45. ASSUME NEW k \in BuyKeys, NEW q \in LotIx, BuyReserve(k, q) PROVE BareMove
  <2>1. bare' = bare \cup {k} /\ ops' = [ops EXCEPT ![k] = "RESERVED"]
    BY <1>45 DEF BuyReserve
  <2> QED BY <1>45, <2>1, Families
<1>46. Buy => BareMove
  BY <1>42, <1>43, <1>44, <1>45 DEF Buy
<1>47. ASSUME AcceptBuy PROVE BareMove
  BY <1>47 DEF AcceptBuy, Posting, Ends
<1>48. ASSUME AcceptProtect PROVE BareMove
  BY <1>48, Families DEF AcceptProtect, Posting, Ends, Action
<1>49. ASSUME AcceptTighten PROVE BareMove
  BY <1>49, Families DEF AcceptTighten, Posting, Ends, Action
<1>50. ASSUME TightenRefused PROVE BareMove
  BY <1>50 DEF TightenRefused
<1>51. ASSUME AcceptRearm PROVE BareMove
  BY <1>51, Families DEF AcceptRearm, Posting, Ends, Action
<1>52. ASSUME AcceptExit PROVE BareMove
  BY <1>52, Families DEF AcceptExit, Posting, Ends
<1>53. ASSUME AcceptEmergency PROVE BareMove
  BY <1>53, Families DEF AcceptEmergency, Posting, Ends
<1>54. Accept => BareMove
  BY <1>47, <1>48, <1>49, <1>50, <1>51, <1>52, <1>53 DEF Accept
<1>55. ASSUME NEW k \in BuyKeys, NEW q \in LotIx, ReceiptMissing(k, q) PROVE BareMove
  <2>1. Emergency(k, q) \in EmergencyKeys /\ Emergency(k, q)[1] = "EMERGENCY_STOP"
          /\ \A x \in BuyKeys : x # Emergency(k, q) /\ x \in OpKeys
    BY Families DEF EmergencyKeys
  <2>2. Emergency(k, q) \notin TightenKeys /\ \A i \in LotIx : Protect(i) # Emergency(k, q) /\ Protect(i) \in OpKeys
    BY <2>1, Families
  <2> QED BY <1>55, <2>1, <2>2 DEF ReceiptMissing, Reserve
<1>56. ASSUME AnswerLost PROVE BareMove
  BY <1>56 DEF AnswerLost, Posting, Fault
<1>57. ASSUME Undelivered PROVE BareMove
  BY <1>57 DEF Undelivered, Posting, Fault
<1>58. ASSUME Rejected PROVE BareMove
  BY <1>58, Families DEF Rejected, Posting, Ends, Fault
<1>59. ASSUME Crash PROVE BareMove
  BY <1>59 DEF Crash, Fault
<1>60. ASSUME NEW k \in SellKeys \ {Exit}, BrokerCancel(k) PROVE BareMove
  BY <1>60 DEF BrokerCancel, Fault
<1>61. Failure => BareMove
  BY <1>55, <1>56, <1>57, <1>58, <1>59, <1>60 DEF Failure
<1>62. ASSUME NEW k \in Keys, BrokerFill(k) PROVE BareMove
  BY <1>62 DEF BrokerFill
<1>63. ASSUME NEW k \in Keys, BrokerTerminate(k) PROVE BareMove
  BY <1>63 DEF BrokerTerminate
<1>64. ASSUME Expire PROVE BareMove
  BY <1>64 DEF Expire
<1>65. ASSUME DueArrives PROVE BareMove
  BY <1>65 DEF DueArrives
<1>66. ASSUME SwitchOff PROVE BareMove
  BY <1>66 DEF SwitchOff
<1>67. Market => BareMove
  BY <1>62, <1>63, <1>64, <1>65, <1>66 DEF Market
<1>68. ASSUME UNCHANGED vars PROVE BareMove
  BY <1>68 DEF vars
<1> QED BY <1>1, <1>11, <1>16, <1>20, <1>23, <1>26, <1>33, <1>37, <1>41, <1>46, <1>54, <1>61,
     <1>67, <1>68 DEF Next, Tick

\* A protection is done by its acceptance or by a look-up.
LEMMA ProtectStep ==
  ASSUME BaseInv, [Next]_vars PROVE ProtectMove
<1> USE DEF ProtectMove, Posting, BaseInv, OutboxInv, Typed, At, Abort, Goto, Keep, saved,
          local, world
<1>1. ASSUME TickStart PROVE ProtectMove
  BY <1>1 DEF TickStart, StartReconcile
<1>2. ASSUME NEW k \in OpKeys, ReconcileBare(k) PROVE ProtectMove
  BY <1>2 DEF ReconcileBare
<1>3. ASSUME NEW k \in OpKeys, ReconcileMissing(k) PROVE ProtectMove
  BY <1>3, Families DEF ReconcileMissing
<1>4. ASSUME NEW k \in OpKeys, ReconcileEmergency(k) PROVE ProtectMove
  BY <1>4 DEF ReconcileEmergency, Found
<1>5. ASSUME NEW k \in BuyKeys, ReconcileBuy(k) PROVE ProtectMove
  BY <1>5, Families DEF ReconcileBuy, Found, Settled, NewFill
<1>6. ASSUME NEW i \in LotIx, ReconcileProtect(i) PROVE ProtectMove
  <2>1. ops' = [ops EXCEPT ![Protect(i)] = "DONE"]
    BY <1>6 DEF ReconcileProtect
  <2> QED BY <1>6, <2>1, Families
<1>7. ASSUME NEW i \in LotIx, ReconcileRearm(i) PROVE ProtectMove
  BY <1>7, Families DEF ReconcileRearm, Found
<1>8. ASSUME NEW i \in LotIx, NEW l \in 2 .. MaxStop, ReconcileTighten(i, l) PROVE ProtectMove
  BY <1>8, Families DEF ReconcileTighten, Found
<1>9. ASSUME ReconcileExit PROVE ProtectMove
  BY <1>9, Families DEF ReconcileExit, Found, Settled
<1>10. ASSUME ReconcileDone PROVE ProtectMove
  BY <1>10 DEF ReconcileDone
<1>11. Reconcile => ProtectMove
  BY <1>2, <1>3, <1>4, <1>5, <1>6, <1>7, <1>8, <1>9, <1>10 DEF Reconcile
<1>12. ASSUME RearmStart PROVE ProtectMove
  BY <1>12 DEF RearmStart
<1>13. ASSUME RearmSkip PROVE ProtectMove
  BY <1>13 DEF RearmSkip
<1>14. ASSUME RearmEnd PROVE ProtectMove
  BY <1>14 DEF RearmEnd, StartReconcile
<1>15. ASSUME NEW i \in LotIx, RearmReserve(i) PROVE ProtectMove
  BY <1>15, Families DEF RearmReserve, Reserve, Rearmed
<1>16. RearmFailedExit => ProtectMove
  BY <1>12, <1>13, <1>14, <1>15 DEF RearmFailedExit
<1>17. ASSUME ProtectFrozen PROVE ProtectMove
  BY <1>17 DEF ProtectFrozen
<1>18. ASSUME ProtectEnd PROVE ProtectMove
  BY <1>18 DEF ProtectEnd
<1>19. ASSUME NEW i \in LotIx, ProtectReserve(i) PROVE ProtectMove
  BY <1>19, Families DEF ProtectReserve, Reserve, MayProtect, First, Unprotected
<1>20. ProtectLots => ProtectMove
  BY <1>17, <1>18, <1>19 DEF ProtectLots
<1>21. ASSUME ObserveLot PROVE ProtectMove
  BY <1>21 DEF ObserveLot
<1>22. ASSUME ObserveEnd PROVE ProtectMove
  BY <1>22 DEF ObserveEnd
<1>23. ReconcileLots => ProtectMove
  BY <1>21, <1>22 DEF ReconcileLots
<1>24. ASSUME StandardCancel PROVE ProtectMove
  BY <1>24 DEF StandardCancel, StartReconcile
<1>25. ASSUME StandardSkip PROVE ProtectMove
  BY <1>25 DEF StandardSkip
<1>26. StandardEntry => ProtectMove
  BY <1>24, <1>25 DEF StandardEntry
<1>27. ASSUME GatePending PROVE ProtectMove
  BY <1>27 DEF GatePending
<1>28. ASSUME GateClosed PROVE ProtectMove
  BY <1>28 DEF GateClosed
<1>29. ASSUME GateDeadline PROVE ProtectMove
  BY <1>29 DEF GateDeadline
<1>30. ASSUME GateExpired PROVE ProtectMove
  BY <1>30 DEF GateExpired
<1>31. ASSUME GateWait PROVE ProtectMove
  BY <1>31 DEF GateWait
<1>32. ASSUME GateMarket PROVE ProtectMove
  BY <1>32 DEF GateMarket
<1>33. Gate => ProtectMove
  BY <1>27, <1>28, <1>29, <1>30, <1>31, <1>32 DEF Gate
<1>34. ASSUME DeadlineSkip PROVE ProtectMove
  BY <1>34 DEF DeadlineSkip
<1>35. ASSUME DeadlineCancel PROVE ProtectMove
  BY <1>35 DEF DeadlineCancel, CancelLegs, CancelUnconfirmed, Fault
<1>36. ASSUME DeadlineSell PROVE ProtectMove
  BY <1>36, Families DEF DeadlineSell, Reserve
<1>37. Deadline => ProtectMove
  BY <1>34, <1>35, <1>36 DEF Deadline
<1>38. ASSUME NEW i \in LotIx, NEW l \in 2 .. MaxStop, TightenReserve(i, l) PROVE ProtectMove
  BY <1>38, Families DEF TightenReserve, Reserve, Tightening
<1>39. ASSUME TightenNext PROVE ProtectMove
  BY <1>39 DEF TightenNext
<1>40. ASSUME TightenEnd PROVE ProtectMove
  BY <1>40 DEF TightenEnd
<1>41. TightenStops => ProtectMove
  BY <1>38, <1>39, <1>40 DEF TightenStops
<1>42. ASSUME BuyClosed PROVE ProtectMove
  BY <1>42 DEF BuyClosed
<1>43. ASSUME BuyNothing PROVE ProtectMove
  BY <1>43 DEF BuyNothing
<1>44. ASSUME BuyAttach PROVE ProtectMove
  BY <1>44 DEF BuyAttach
<1>45. ASSUME NEW k \in BuyKeys, NEW q \in LotIx, BuyReserve(k, q) PROVE ProtectMove
  BY <1>45 DEF BuyReserve
<1>46. Buy => ProtectMove
  BY <1>42, <1>43, <1>44, <1>45 DEF Buy
<1>47. ASSUME AcceptBuy PROVE ProtectMove
  BY <1>47, Families DEF AcceptBuy, Posting, Ends
<1>48. ASSUME AcceptProtect PROVE ProtectMove
  BY <1>48 DEF AcceptProtect, Posting, Ends, Action
<1>49. ASSUME AcceptTighten PROVE ProtectMove
  BY <1>49, Families DEF AcceptTighten, Posting, Ends, Action
<1>50. ASSUME TightenRefused PROVE ProtectMove
  BY <1>50 DEF TightenRefused
<1>51. ASSUME AcceptRearm PROVE ProtectMove
  BY <1>51, Families DEF AcceptRearm, Posting, Ends, Action
<1>52. ASSUME AcceptExit PROVE ProtectMove
  BY <1>52, Families DEF AcceptExit, Posting, Ends
<1>53. ASSUME AcceptEmergency PROVE ProtectMove
  BY <1>53, Families DEF AcceptEmergency, Posting, Ends
<1>54. Accept => ProtectMove
  BY <1>47, <1>48, <1>49, <1>50, <1>51, <1>52, <1>53 DEF Accept
<1>55. ASSUME NEW k \in BuyKeys, NEW q \in LotIx, ReceiptMissing(k, q) PROVE ProtectMove
  <2>1. Emergency(k, q) \in EmergencyKeys /\ Emergency(k, q)[1] = "EMERGENCY_STOP"
          /\ \A x \in BuyKeys : x # Emergency(k, q) /\ x \in OpKeys
    BY Families DEF EmergencyKeys
  <2>2. Emergency(k, q) \notin TightenKeys /\ \A i \in LotIx : Protect(i) # Emergency(k, q) /\ Protect(i) \in OpKeys
    BY <2>1, Families
  <2> QED BY <1>55, <2>1, <2>2 DEF ReceiptMissing, Reserve
<1>56. ASSUME AnswerLost PROVE ProtectMove
  BY <1>56 DEF AnswerLost, Posting, Fault
<1>57. ASSUME Undelivered PROVE ProtectMove
  BY <1>57 DEF Undelivered, Posting, Fault
<1>58. ASSUME Rejected PROVE ProtectMove
  BY <1>58, Families DEF Rejected, Posting, Ends, Fault
<1>59. ASSUME Crash PROVE ProtectMove
  BY <1>59 DEF Crash, Fault
<1>60. ASSUME NEW k \in SellKeys \ {Exit}, BrokerCancel(k) PROVE ProtectMove
  BY <1>60 DEF BrokerCancel, Fault
<1>61. Failure => ProtectMove
  BY <1>55, <1>56, <1>57, <1>58, <1>59, <1>60 DEF Failure
<1>62. ASSUME NEW k \in Keys, BrokerFill(k) PROVE ProtectMove
  BY <1>62 DEF BrokerFill
<1>63. ASSUME NEW k \in Keys, BrokerTerminate(k) PROVE ProtectMove
  BY <1>63 DEF BrokerTerminate
<1>64. ASSUME Expire PROVE ProtectMove
  BY <1>64 DEF Expire
<1>65. ASSUME DueArrives PROVE ProtectMove
  BY <1>65 DEF DueArrives
<1>66. ASSUME SwitchOff PROVE ProtectMove
  BY <1>66 DEF SwitchOff
<1>67. Market => ProtectMove
  BY <1>62, <1>63, <1>64, <1>65, <1>66 DEF Market
<1>68. ASSUME UNCHANGED vars PROVE ProtectMove
  BY <1>68 DEF vars
<1> QED BY <1>1, <1>11, <1>16, <1>20, <1>23, <1>26, <1>33, <1>37, <1>41, <1>46, <1>54, <1>61,
     <1>67, <1>68 DEF Next, Tick

\* Past protect() no buy, exit or protection is asked for before the path ends.
LEMMA PathStep ==
  ASSUME BaseInv, ExitPath, [Next]_vars PROVE PathMove
<1> USE DEF PathMove, Path, BaseInv, OutboxInv, Typed, At, Abort, Goto, Keep, saved, local,
          world
<1>1. ASSUME TickStart PROVE PathMove
  BY <1>1 DEF TickStart, StartReconcile
<1>2. ASSUME NEW k \in OpKeys, ReconcileBare(k) PROVE PathMove
  BY <1>2 DEF ReconcileBare
<1>3. ASSUME NEW k \in OpKeys, ReconcileMissing(k) PROVE PathMove
  BY <1>3 DEF ReconcileMissing
<1>4. ASSUME NEW k \in OpKeys, ReconcileEmergency(k) PROVE PathMove
  BY <1>4 DEF ReconcileEmergency, Found
<1>5. ASSUME NEW k \in BuyKeys, ReconcileBuy(k) PROVE PathMove
  BY <1>5 DEF ReconcileBuy, Found, Settled, NewFill
<1>6. ASSUME NEW i \in LotIx, ReconcileProtect(i) PROVE PathMove
  BY <1>6 DEF ReconcileProtect, Found
<1>7. ASSUME NEW i \in LotIx, ReconcileRearm(i) PROVE PathMove
  BY <1>7 DEF ReconcileRearm, Found
<1>8. ASSUME NEW i \in LotIx, NEW l \in 2 .. MaxStop, ReconcileTighten(i, l) PROVE PathMove
  BY <1>8 DEF ReconcileTighten, Found
<1>9. ASSUME ReconcileExit PROVE PathMove
  BY <1>9 DEF ReconcileExit, Found, Settled
<1>10. ASSUME ReconcileDone PROVE PathMove
  BY <1>10 DEF ReconcileDone
<1>11. Reconcile => PathMove
  BY <1>2, <1>3, <1>4, <1>5, <1>6, <1>7, <1>8, <1>9, <1>10 DEF Reconcile
<1>12. ASSUME RearmStart PROVE PathMove
  BY <1>12 DEF RearmStart
<1>13. ASSUME RearmSkip PROVE PathMove
  BY <1>13 DEF RearmSkip
<1>14. ASSUME RearmEnd PROVE PathMove
  BY <1>14 DEF RearmEnd, StartReconcile
<1>15. ASSUME NEW i \in LotIx, RearmReserve(i) PROVE PathMove
  BY <1>15, Families DEF RearmReserve, Reserve, Rearmed
<1>16. RearmFailedExit => PathMove
  BY <1>12, <1>13, <1>14, <1>15 DEF RearmFailedExit
<1>17. ASSUME ProtectFrozen PROVE PathMove
  BY <1>17 DEF ProtectFrozen
<1>18. ASSUME ProtectEnd PROVE PathMove
  BY <1>18 DEF ProtectEnd
<1>19. ASSUME NEW i \in LotIx, ProtectReserve(i) PROVE PathMove
  BY <1>19, Families DEF ProtectReserve, Reserve, MayProtect, First, Unprotected
<1>20. ProtectLots => PathMove
  BY <1>17, <1>18, <1>19 DEF ProtectLots
<1>21. ASSUME ObserveLot PROVE PathMove
  BY <1>21 DEF ObserveLot
<1>22. ASSUME ObserveEnd PROVE PathMove
  BY <1>22 DEF ObserveEnd
<1>23. ReconcileLots => PathMove
  BY <1>21, <1>22 DEF ReconcileLots
<1>24. ASSUME StandardCancel PROVE PathMove
  BY <1>24 DEF StandardCancel, StartReconcile
<1>25. ASSUME StandardSkip PROVE PathMove
  BY <1>25 DEF StandardSkip
<1>26. StandardEntry => PathMove
  BY <1>24, <1>25 DEF StandardEntry
<1>27. ASSUME GatePending PROVE PathMove
  BY <1>27 DEF GatePending
<1>28. ASSUME GateClosed PROVE PathMove
  BY <1>28 DEF GateClosed
<1>29. ASSUME GateDeadline PROVE PathMove
  BY <1>29 DEF GateDeadline
<1>30. ASSUME GateExpired PROVE PathMove
  BY <1>30 DEF GateExpired
<1>31. ASSUME GateWait PROVE PathMove
  BY <1>31 DEF GateWait
<1>32. ASSUME GateMarket PROVE PathMove
  BY <1>32 DEF GateMarket
<1>33. Gate => PathMove
  BY <1>27, <1>28, <1>29, <1>30, <1>31, <1>32 DEF Gate
<1>34. ASSUME DeadlineSkip PROVE PathMove
  BY <1>34 DEF DeadlineSkip
<1>35. ASSUME DeadlineCancel PROVE PathMove
  BY <1>35 DEF DeadlineCancel, CancelLegs, CancelUnconfirmed, Fault
<1>36. ASSUME DeadlineSell PROVE PathMove
  BY <1>36, Families DEF DeadlineSell, Reserve
<1>37. Deadline => PathMove
  BY <1>34, <1>35, <1>36 DEF Deadline
<1>38. ASSUME NEW i \in LotIx, NEW l \in 2 .. MaxStop, TightenReserve(i, l) PROVE PathMove
  BY <1>38, Families DEF TightenReserve, Reserve, Tightening
<1>39. ASSUME TightenNext PROVE PathMove
  BY <1>39 DEF TightenNext
<1>40. ASSUME TightenEnd PROVE PathMove
  BY <1>40 DEF TightenEnd
<1>41. TightenStops => PathMove
  BY <1>38, <1>39, <1>40 DEF TightenStops
<1>42. ASSUME BuyClosed PROVE PathMove
  BY <1>42 DEF BuyClosed
<1>43. ASSUME BuyNothing PROVE PathMove
  BY <1>43 DEF BuyNothing
<1>44. ASSUME BuyAttach PROVE PathMove
  BY <1>44, Families DEF BuyAttach, ExitPath
<1>45. ASSUME NEW k \in BuyKeys, NEW q \in LotIx, BuyReserve(k, q) PROVE PathMove
  BY <1>45, Families DEF BuyReserve
<1>46. Buy => PathMove
  BY <1>42, <1>43, <1>44, <1>45 DEF Buy
<1>47. ASSUME AcceptBuy PROVE PathMove
  BY <1>47 DEF AcceptBuy, Posting, Ends
<1>48. ASSUME AcceptProtect PROVE PathMove
  BY <1>48 DEF AcceptProtect, Posting, Ends, Action
<1>49. ASSUME AcceptTighten PROVE PathMove
  <2>1. pc = "post" /\ (\E i \in LotIx, l \in 2 .. MaxStop : req = Tighten(i, l))
          /\ UNCHANGED review /\ ops' = [ops EXCEPT ![req] = "DONE"]
    BY <1>49, RequestKinds DEF AcceptTighten, Posting, Ends
  <2>2. req \in TightenKeys /\ req \in OpKeys /\ \A i \in LotIx : req # Protect(i) /\ Protect(i) \in OpKeys
    BY <2>1, Families
  <2> QED BY <1>49, <2>1, <2>2
<1>50. ASSUME TightenRefused PROVE PathMove
  BY <1>50 DEF TightenRefused
<1>51. ASSUME AcceptRearm PROVE PathMove
  BY <1>51 DEF AcceptRearm, Posting, Ends, Action
<1>52. ASSUME AcceptExit PROVE PathMove
  BY <1>52 DEF AcceptExit, Posting, Ends
<1>53. ASSUME AcceptEmergency PROVE PathMove
  BY <1>53 DEF AcceptEmergency, Posting, Ends
<1>54. Accept => PathMove
  BY <1>47, <1>48, <1>49, <1>50, <1>51, <1>52, <1>53 DEF Accept
<1>55. ASSUME NEW k \in BuyKeys, NEW q \in LotIx, ReceiptMissing(k, q) PROVE PathMove
  <2>1. Emergency(k, q) \in EmergencyKeys /\ Emergency(k, q)[1] = "EMERGENCY_STOP"
          /\ \A x \in BuyKeys : x # Emergency(k, q) /\ x \in OpKeys
    BY Families DEF EmergencyKeys
  <2>2. Emergency(k, q) \notin TightenKeys /\ \A i \in LotIx : Protect(i) # Emergency(k, q) /\ Protect(i) \in OpKeys
    BY <2>1, Families
  <2> QED BY <1>55, <2>1, <2>2 DEF ReceiptMissing, Reserve
<1>56. ASSUME AnswerLost PROVE PathMove
  BY <1>56 DEF AnswerLost, Posting, Fault
<1>57. ASSUME Undelivered PROVE PathMove
  BY <1>57 DEF Undelivered, Posting, Fault
<1>58. ASSUME Rejected PROVE PathMove
  BY <1>58, Families DEF Rejected, Posting, Ends, Fault
<1>59. ASSUME Crash PROVE PathMove
  BY <1>59 DEF Crash, Fault
<1>60. ASSUME NEW k \in SellKeys \ {Exit}, BrokerCancel(k) PROVE PathMove
  BY <1>60 DEF BrokerCancel, Fault
<1>61. Failure => PathMove
  BY <1>55, <1>56, <1>57, <1>58, <1>59, <1>60 DEF Failure
<1>62. ASSUME NEW k \in Keys, BrokerFill(k) PROVE PathMove
  BY <1>62 DEF BrokerFill
<1>63. ASSUME NEW k \in Keys, BrokerTerminate(k) PROVE PathMove
  BY <1>63 DEF BrokerTerminate
<1>64. ASSUME Expire PROVE PathMove
  BY <1>64 DEF Expire
<1>65. ASSUME DueArrives PROVE PathMove
  BY <1>65 DEF DueArrives
<1>66. ASSUME SwitchOff PROVE PathMove
  BY <1>66 DEF SwitchOff
<1>67. Market => PathMove
  BY <1>62, <1>63, <1>64, <1>65, <1>66 DEF Market
<1>68. ASSUME UNCHANGED vars PROVE PathMove
  BY <1>68 DEF vars
<1> QED BY <1>1, <1>11, <1>16, <1>20, <1>23, <1>26, <1>33, <1>37, <1>41, <1>46, <1>54, <1>61,
     <1>67, <1>68 DEF Next, Tick

\* Nothing changes for a buy between its reservation and its request.
LEMMA BuyingStep ==
  ASSUME BaseInv, [Next]_vars PROVE BuyingMove
<1> USE DEF BuyingMove, BaseInv, OutboxInv, Typed, At, Abort, Goto, Keep, saved, local, world
<1>1. ASSUME TickStart PROVE BuyingMove
  BY <1>1 DEF TickStart, StartReconcile
<1>2. ASSUME NEW k \in OpKeys, ReconcileBare(k) PROVE BuyingMove
  BY <1>2 DEF ReconcileBare
<1>3. ASSUME NEW k \in OpKeys, ReconcileMissing(k) PROVE BuyingMove
  BY <1>3 DEF ReconcileMissing
<1>4. ASSUME NEW k \in OpKeys, ReconcileEmergency(k) PROVE BuyingMove
  BY <1>4 DEF ReconcileEmergency, Found
<1>5. ASSUME NEW k \in BuyKeys, ReconcileBuy(k) PROVE BuyingMove
  BY <1>5 DEF ReconcileBuy, Found, Settled, NewFill
<1>6. ASSUME NEW i \in LotIx, ReconcileProtect(i) PROVE BuyingMove
  BY <1>6 DEF ReconcileProtect, Found
<1>7. ASSUME NEW i \in LotIx, ReconcileRearm(i) PROVE BuyingMove
  BY <1>7 DEF ReconcileRearm, Found
<1>8. ASSUME NEW i \in LotIx, NEW l \in 2 .. MaxStop, ReconcileTighten(i, l) PROVE BuyingMove
  BY <1>8 DEF ReconcileTighten, Found
<1>9. ASSUME ReconcileExit PROVE BuyingMove
  BY <1>9 DEF ReconcileExit, Found, Settled
<1>10. ASSUME ReconcileDone PROVE BuyingMove
  BY <1>10 DEF ReconcileDone
<1>11. Reconcile => BuyingMove
  BY <1>2, <1>3, <1>4, <1>5, <1>6, <1>7, <1>8, <1>9, <1>10 DEF Reconcile
<1>12. ASSUME RearmStart PROVE BuyingMove
  BY <1>12 DEF RearmStart
<1>13. ASSUME RearmSkip PROVE BuyingMove
  BY <1>13 DEF RearmSkip
<1>14. ASSUME RearmEnd PROVE BuyingMove
  BY <1>14 DEF RearmEnd, StartReconcile
<1>15. ASSUME NEW i \in LotIx, RearmReserve(i) PROVE BuyingMove
  BY <1>15, Families DEF RearmReserve, Reserve, Rearmed
<1>16. RearmFailedExit => BuyingMove
  BY <1>12, <1>13, <1>14, <1>15 DEF RearmFailedExit
<1>17. ASSUME ProtectFrozen PROVE BuyingMove
  BY <1>17 DEF ProtectFrozen
<1>18. ASSUME ProtectEnd PROVE BuyingMove
  BY <1>18 DEF ProtectEnd
<1>19. ASSUME NEW i \in LotIx, ProtectReserve(i) PROVE BuyingMove
  BY <1>19, Families DEF ProtectReserve, Reserve, MayProtect, First, Unprotected
<1>20. ProtectLots => BuyingMove
  BY <1>17, <1>18, <1>19 DEF ProtectLots
<1>21. ASSUME ObserveLot PROVE BuyingMove
  BY <1>21 DEF ObserveLot
<1>22. ASSUME ObserveEnd PROVE BuyingMove
  BY <1>22 DEF ObserveEnd
<1>23. ReconcileLots => BuyingMove
  BY <1>21, <1>22 DEF ReconcileLots
<1>24. ASSUME StandardCancel PROVE BuyingMove
  BY <1>24 DEF StandardCancel, StartReconcile
<1>25. ASSUME StandardSkip PROVE BuyingMove
  BY <1>25 DEF StandardSkip
<1>26. StandardEntry => BuyingMove
  BY <1>24, <1>25 DEF StandardEntry
<1>27. ASSUME GatePending PROVE BuyingMove
  BY <1>27 DEF GatePending
<1>28. ASSUME GateClosed PROVE BuyingMove
  BY <1>28 DEF GateClosed
<1>29. ASSUME GateDeadline PROVE BuyingMove
  BY <1>29 DEF GateDeadline
<1>30. ASSUME GateExpired PROVE BuyingMove
  BY <1>30 DEF GateExpired
<1>31. ASSUME GateWait PROVE BuyingMove
  BY <1>31 DEF GateWait
<1>32. ASSUME GateMarket PROVE BuyingMove
  BY <1>32 DEF GateMarket
<1>33. Gate => BuyingMove
  BY <1>27, <1>28, <1>29, <1>30, <1>31, <1>32 DEF Gate
<1>34. ASSUME DeadlineSkip PROVE BuyingMove
  BY <1>34 DEF DeadlineSkip
<1>35. ASSUME DeadlineCancel PROVE BuyingMove
  BY <1>35 DEF DeadlineCancel, CancelLegs, CancelUnconfirmed, Fault
<1>36. ASSUME DeadlineSell PROVE BuyingMove
  BY <1>36, Families DEF DeadlineSell, Reserve
<1>37. Deadline => BuyingMove
  BY <1>34, <1>35, <1>36 DEF Deadline
<1>38. ASSUME NEW i \in LotIx, NEW l \in 2 .. MaxStop, TightenReserve(i, l) PROVE BuyingMove
  BY <1>38, Families DEF TightenReserve, Reserve, Tightening
<1>39. ASSUME TightenNext PROVE BuyingMove
  BY <1>39 DEF TightenNext
<1>40. ASSUME TightenEnd PROVE BuyingMove
  BY <1>40 DEF TightenEnd
<1>41. TightenStops => BuyingMove
  BY <1>38, <1>39, <1>40 DEF TightenStops
<1>42. ASSUME BuyClosed PROVE BuyingMove
  BY <1>42 DEF BuyClosed
<1>43. ASSUME BuyNothing PROVE BuyingMove
  BY <1>43 DEF BuyNothing
<1>44. ASSUME BuyAttach PROVE BuyingMove
  BY <1>44 DEF BuyAttach
<1>45. ASSUME NEW k \in BuyKeys, NEW q \in LotIx, BuyReserve(k, q) PROVE BuyingMove
  BY <1>45 DEF BuyReserve
<1>46. Buy => BuyingMove
  BY <1>42, <1>43, <1>44, <1>45 DEF Buy
<1>47. ASSUME AcceptBuy PROVE BuyingMove
  BY <1>47 DEF AcceptBuy, Posting, Ends
<1>48. ASSUME AcceptProtect PROVE BuyingMove
  BY <1>48 DEF AcceptProtect, Posting, Ends, Action
<1>49. ASSUME AcceptTighten PROVE BuyingMove
  BY <1>49 DEF AcceptTighten, Posting, Ends, Action
<1>50. ASSUME TightenRefused PROVE BuyingMove
  BY <1>50 DEF TightenRefused
<1>51. ASSUME AcceptRearm PROVE BuyingMove
  BY <1>51 DEF AcceptRearm, Posting, Ends, Action
<1>52. ASSUME AcceptExit PROVE BuyingMove
  BY <1>52 DEF AcceptExit, Posting, Ends
<1>53. ASSUME AcceptEmergency PROVE BuyingMove
  BY <1>53 DEF AcceptEmergency, Posting, Ends
<1>54. Accept => BuyingMove
  BY <1>47, <1>48, <1>49, <1>50, <1>51, <1>52, <1>53 DEF Accept
<1>55. ASSUME NEW k \in BuyKeys, NEW q \in LotIx, ReceiptMissing(k, q) PROVE BuyingMove
  <2>1. Emergency(k, q) \in EmergencyKeys /\ Emergency(k, q)[1] = "EMERGENCY_STOP"
          /\ \A x \in BuyKeys : x # Emergency(k, q) /\ x \in OpKeys
    BY Families DEF EmergencyKeys
  <2>2. Emergency(k, q) \notin TightenKeys /\ \A i \in LotIx : Protect(i) # Emergency(k, q) /\ Protect(i) \in OpKeys
    BY <2>1, Families
  <2> QED BY <1>55, <2>1, <2>2 DEF ReceiptMissing, Reserve
<1>56. ASSUME AnswerLost PROVE BuyingMove
  BY <1>56 DEF AnswerLost, Posting, Fault
<1>57. ASSUME Undelivered PROVE BuyingMove
  BY <1>57 DEF Undelivered, Posting, Fault
<1>58. ASSUME Rejected PROVE BuyingMove
  BY <1>58 DEF Rejected, Posting, Ends, Fault
<1>59. ASSUME Crash PROVE BuyingMove
  BY <1>59 DEF Crash, Fault
<1>60. ASSUME NEW k \in SellKeys \ {Exit}, BrokerCancel(k) PROVE BuyingMove
  BY <1>60 DEF BrokerCancel, Fault
<1>61. Failure => BuyingMove
  BY <1>55, <1>56, <1>57, <1>58, <1>59, <1>60 DEF Failure
<1>62. ASSUME NEW k \in Keys, BrokerFill(k) PROVE BuyingMove
  BY <1>62 DEF BrokerFill
<1>63. ASSUME NEW k \in Keys, BrokerTerminate(k) PROVE BuyingMove
  BY <1>63 DEF BrokerTerminate
<1>64. ASSUME Expire PROVE BuyingMove
  BY <1>64 DEF Expire
<1>65. ASSUME DueArrives PROVE BuyingMove
  BY <1>65 DEF DueArrives
<1>66. ASSUME SwitchOff PROVE BuyingMove
  BY <1>66 DEF SwitchOff
<1>67. Market => BuyingMove
  BY <1>62, <1>63, <1>64, <1>65, <1>66 DEF Market
<1>68. ASSUME UNCHANGED vars PROVE BuyingMove
  BY <1>68 DEF vars
<1> QED BY <1>1, <1>11, <1>16, <1>20, <1>23, <1>26, <1>33, <1>37, <1>41, <1>46, <1>54, <1>61,
     <1>67, <1>68 DEF Next, Tick

-----------------------------------------------------------------------------
\* A sale or a new stop leaves no other lot without a stop.
LEMMA FewerUnprotected ==
  ASSUME BaseInv, UNCHANGED lots \/ ObserveLot \/ AcceptTighten
  PROVE  Unprotected' \subseteq Unprotected
<1>0. BookTypes /\ GoodLots /\ ord \in [Keys -> Order]
  BY DEF BaseInv, BookTypes
<1>1. CASE UNCHANGED lots
  BY <1>1 DEF Unprotected, Held
<1>2. CASE ObserveLot
  <2>1. cur \in DOMAIN lots
    BY <1>0, <1>2, LotsFinite DEF ObserveLot, BaseInv, TickTypes
  <2> DEFINE lot == lots[cur]
             half == SaleOf(ord, lot, lot.stopId)
             new == SaleOf(ord, half, lot.tpId)
  <2>2. UNCHANGED lots \/ (LegsOk(ord, lot) /\ lots' = [lots EXCEPT ![cur] = Observed(ord, lot)])
    BY <1>2 DEF ObserveLot
  <2>3. CASE UNCHANGED lots
    BY <2>3 DEF Unprotected, Held
  <2>4. CASE LegsOk(ord, lot) /\ lots' = [lots EXCEPT ![cur] = Observed(ord, lot)]
    <3>1. /\ cur \in LotIx /\ lot \in Lot /\ GoodLot(ord, cur, lot)
          /\ lot.stopId \in LotNames(cur) \cup {NoKey} /\ lot.tpId \in LotNames(cur) \cup {NoKey}
      BY <1>0, <2>1, LotFields, LotKeyFacts DEF GoodLots, GoodLot, LotNames
    <3>2. SaleOk(ord, lot, lot.stopId) /\ SaleOk(ord, half, lot.tpId)
      BY <2>4 DEF LegsOk
    <3> HIDE DEF lot
    <3>3. GoodLot(ord, cur, half) /\ half.stopId = lot.stopId /\ half.rem <= lot.rem
      BY <1>0, <3>1, <3>2, SaleGood
    <3> HIDE DEF half
    <3>4. GoodLot(ord, cur, new) /\ new.stopId = half.stopId /\ new.rem <= half.rem
      BY <1>0, <3>1, <3>2, <3>3, SaleGood
    <3> HIDE DEF new
    <3>5. new.rem \in Nat /\ half.rem \in Nat /\ lot.rem \in Nat
      BY <3>1, <3>3, <3>4 DEF GoodLot, Lot
    <3>6. lots' = [lots EXCEPT ![cur] = new]
      BY <2>4 DEF Observed, new, half
    <3>7. DOMAIN lots' = DOMAIN lots /\ lots'[cur] = new /\ \A j \in DOMAIN lots \ {cur} : lots'[j] = lots[j]
      BY <1>0, <2>1, <3>6 DEF BookTypes
    <3> QED BY <2>1, <3>3, <3>4, <3>5, <3>7 DEF Unprotected, Held, lot
  <2> QED BY <2>2, <2>3, <2>4
<1>3. CASE AcceptTighten
  <2>1. UNCHANGED lots \/ Protected \/ Rearming \/ Raised
    BY <1>3, RestopsAre DEF Restops
  <2>2. UNCHANGED lots \/ \E i, s, l : Restop(i, s, l)
    BY <2>1 DEF Protected, Rearming, Raised
  <2> QED BY <2>2 DEF Restop, Unprotected, Held
<1> QED BY <1>1, <1>2, <1>3

\* There is a first lot without a stop, if there is one.
LEMMA FirstUnprotected ==
  ASSUME BookTypes, Unprotected # {} PROVE \E i \in LotIx : First(i)
<1>1. Unprotected \subseteq LotIx /\ LotIx \subseteq Nat
  BY DEF BookTypes, Unprotected, LotIx
<1>2. PICK i \in Unprotected : \A j \in Unprotected : i <= j
  <2> HIDE DEF Unprotected
  <2>1. Unprotected \subseteq Nat
    BY <1>1
  <2>2. \E n \in Unprotected : \A m \in Unprotected : n <= m
    BY <2>1, NatLeast
  <2> QED BY <2>2
<1> QED BY <1>1, <1>2 DEF First

\* A buy is reserved when everything else is settled.
LEMMA ReservedSettled ==
  ASSUME BooksInv, ControlInv, NEW k \in BuyKeys, NEW q \in LotIx, BuyReserve(k, q)
  PROVE  /\ Pending' = {k} /\ bare' = {k} /\ ops'[Exit] = "none" /\ ~review' /\ Unprotected' = {}
         /\ req' = k
<1>0. ops \in [OpKeys -> OpStatus] /\ bare \subseteq BuyKeys /\ ExitPath
  BY DEF BooksInv, CoreInv, BaseInv, OutboxInv, Typed, TickTypes
<1>1. /\ pc = "buy" /\ Pending = {} /\ ops' = [ops EXCEPT ![k] = "RESERVED"] /\ bare' = bare \cup {k}
      /\ req' = k /\ UNCHANGED <<lots, review>> /\ k \in OpKeys /\ k # Exit /\ Exit \in OpKeys
  BY Families DEF BuyReserve, At
<1>2. Clear
  BY <1>1 DEF ControlInv, PathInv, Path
<1>3. Unprotected = {} /\ ~review
  <2>1. \A i \in LotIx : ops[Protect(i)] \notin Unresolved
    BY <1>1, Families DEF Pending
  <2> QED BY <1>2, <2>1 DEF Clear
<1>4. bare = {}
  <2>1. \A x \in bare : x \in OpKeys /\ ops[x] = "RESERVED"
    BY <1>0, BuyKeysApart DEF ControlInv, BareInv
  <2> QED BY <1>1, <2>1 DEF Pending, Unresolved
<1>5. ops[Exit] = "none"
  <2>1. lots = <<>> \/ ~due
    BY DEF BuyReserve, MayEnter, MayAdd
  <2> QED BY <1>0, <2>1 DEF ExitPath
<1>6. Pending' = {k}
  <2>1. \A x \in OpKeys : ops'[x] \in Unresolved <=> x = k
    BY <1>0, <1>1 DEF Pending, Unresolved
  <2> QED BY <1>1, <2>1 DEF Pending
<1>7. Unprotected' = {}
  BY <1>1, <1>3 DEF Unprotected, Held
<1> QED BY <1>0, <1>1, <1>3, <1>4, <1>5, <1>6, <1>7

\* A new campaign waits for no buy.
LEMMA ControlInit == Init => ControlInv
<1> SUFFICES ASSUME Init PROVE ControlInv
  OBVIOUS
<1>1. pc = "idle" /\ bare = {} /\ \A k \in OpKeys : ops[k] = "none"
  BY DEF Init
<1> QED BY <1>1, Families DEF ControlInv, BareInv, ProtectInv, PathInv, Path, Buying

\* Every step keeps the way to a buy clear.
LEMMA ControlStep == BooksInv /\ ControlInv /\ [Next]_vars => ControlInv'
<1> SUFFICES ASSUME BooksInv, ControlInv, [Next]_vars PROVE ControlInv'
  OBVIOUS
<1>1. /\ BaseInv /\ BookTypes /\ LotOps /\ ExitPath /\ bare \subseteq BuyKeys
      /\ ops \in [OpKeys -> OpStatus]
  BY DEF BooksInv, CoreInv, BaseInv, OutboxInv, Typed, TickTypes
<1>2. BareMove /\ ProtectMove /\ PathMove /\ BuyingMove /\ LotsStay
  <2>1. Buying
    BY DEF ControlInv
  <2> QED BY <1>1, <2>1, BareStep, ProtectStep, PathStep, BuyingStep, StepIs
<1>3. BareInv'
  <2>1. \A k \in bare' : ops'[k] = "RESERVED"
    <3> TAKE k \in bare'
    <3>1. CASE k \in bare /\ ops'[k] = ops[k]
      BY <3>1 DEF ControlInv, BareInv
    <3>2. ASSUME NEW q \in LotIx, BuyReserve(k, q) PROVE ops'[k] = "RESERVED"
      <4>1. k = Entry \/ k = AddOn
        BY <3>2 DEF BuyReserve
      <4> QED BY <1>1, <3>2, <4>1, KeyFacts DEF BuyReserve
    <3> QED BY <1>2, <3>1, <3>2 DEF BareMove
  <2> QED BY <2>1 DEF BareInv
<1>4. ProtectInv'
  <2> SUFFICES ASSUME NEW i \in LotIx
               PROVE  /\ ops'[Protect(i)] = "DONE" => lots'[i].stopId # NoKey
                      /\ ops'[Protect(i)] # "MANUAL_REVIEW"
    BY DEF ProtectInv
  <2>1. ASSUME ops[Protect(i)] # "none" PROVE i \in DOMAIN lots
    BY <1>1, <2>1 DEF LotOps
  <2>2. CASE ops[Protect(i)] = "DONE"
    BY <1>2, <2>1, <2>2 DEF LotsStay, ControlInv, ProtectInv, ProtectMove
  <2>3. CASE ReconcileProtect(i) \/ (AcceptProtect /\ req = Protect(i))
    <3>1. lots' = Attached(i) /\ ops[Protect(i)] # "none"
      BY <1>1, <2>3, Families DEF ReconcileProtect, Found, AcceptProtect, Posting, At,
         BaseInv, OutboxInv, Listed, Durable
    <3>2. \E s \in LotKeys(i) : Restop(i, s, lots[i].stop)
      BY <1>1, <2>1, <3>1, AttachedIs
    <3> QED BY <1>2, <3>2 DEF Restop, ProtectMove, ControlInv, ProtectInv
  <2> QED BY <1>2, <2>2, <2>3 DEF ProtectMove, ControlInv, ProtectInv
<1>5. PathInv'
  <2> SUFFICES ASSUME Path' PROVE Clear'
    BY DEF PathInv
  <2>1. CASE ProtectEnd
    <3>1. ~review /\ UNCHANGED <<review, lots, ops>> /\ \A i \in LotIx : ~MayProtect(i)
      BY <2>1 DEF ProtectEnd, saved
    <3>2. ASSUME Unprotected # {} PROVE \E i \in LotIx : ops[Protect(i)] \in Unresolved
      <4>1. PICK i \in LotIx : First(i)
        BY <1>1, <3>2, FirstUnprotected
      <4>2. ops[Protect(i)] # "none" /\ lots[i].stopId = NoKey
        BY <3>1, <4>1 DEF MayProtect, First, Unprotected
      <4>3. ops[Protect(i)] \in OpStatus
        BY <1>1, Families
      <4> QED BY <4>2, <4>3 DEF ControlInv, ProtectInv, OpStatus, Unresolved
    <3>3. Unprotected' = Unprotected
      BY <3>1 DEF Unprotected, Held
    <3> QED BY <3>1, <3>2, <3>3 DEF Clear
  <2>2. CASE /\ Path /\ UNCHANGED review
             /\ \A i \in LotIx : ops'[Protect(i)] = ops[Protect(i)]
             /\ UNCHANGED lots \/ ObserveLot \/ AcceptTighten
    <3>1. Unprotected' \subseteq Unprotected
      BY <1>1, <2>2, FewerUnprotected
    <3>2. Clear
      BY <2>2 DEF ControlInv, PathInv
    <3> QED BY <2>2, <3>1, <3>2 DEF Clear
  <2> QED BY <1>2, <2>1, <2>2 DEF PathMove
<1>6. Buying'
  <2>1. ASSUME pc' = "attach"
        PROVE  /\ Pending' = {req'} /\ bare' = {req'} /\ ops'[Exit] = "none" /\ ~review'
               /\ Unprotected' = {}
    <3>1. CASE \E k \in BuyKeys, q \in LotIx : BuyReserve(k, q)
      BY <3>1, ReservedSettled
    <3>2. CASE pc = "attach" /\ UNCHANGED <<review, bare, ops, lots, req>>
      BY <3>2 DEF ControlInv, Buying, Pending, Unprotected, Held
    <3> QED BY <1>2, <2>1, <3>1, <3>2 DEF BuyingMove
  <2>2. ASSUME pc' = "post", req' \in BuyKeys PROVE Settling(req)' /\ req' = req
    <3>1. /\ pc \in {"attach", "post"} /\ UNCHANGED <<review, ops, lots, req>>
          /\ bare' = IF pc = "attach" THEN bare \ {req} ELSE bare
      BY <1>2, <2>2 DEF BuyingMove
    <3>2. Pending = {req} /\ ops[Exit] = "none" /\ ~review /\ Unprotected = {} /\ bare' = {}
      BY <2>2, <3>1 DEF ControlInv, Buying, Settling, Unprotected
    <3>3. Pending' = {req'} /\ \A i \in DOMAIN lots' : lots'[i].rem > 0 => lots'[i].stopId # NoKey
      BY <3>1, <3>2 DEF Pending, Unprotected, Held
    <3> QED BY <3>1, <3>2, <3>3 DEF Settling, Held
  <2> QED BY <2>1, <2>2 DEF Buying
<1> QED BY <1>3, <1>4, <1>5, <1>6 DEF ControlInv

\* The inductive invariant of the books and of the way to a buy.
THEOREM ControlInvariant == Spec => [](BooksInv /\ ControlInv)
<1>1. Init => BooksInv /\ ControlInv
  BY BooksInit, ControlInit
<1>2. BooksInv /\ ControlInv /\ [Next]_vars => BooksInv' /\ ControlInv'
  BY BooksStep, ControlStep
<1> QED BY <1>1, <1>2, PTL DEF Spec

\* No buy is sent before everything else is settled.
THEOREM BuysOnlyWhenAllSettled == Spec => BuysOnlyWhenSettled
<1>1. BooksInv /\ ControlInv /\ [Next]_vars => [\A k \in BuyKeys : posts'[k] # posts[k] => Settling(k)]_vars
  <2> SUFFICES ASSUME BooksInv, ControlInv, [Next]_vars, NEW k \in BuyKeys, posts'[k] # posts[k]
               PROVE  Settling(k)
    OBVIOUS
  <2>1. Moves /\ k \in OpKeys /\ posts \in [OpKeys -> Nat]
    BY StepIs, BuyKeysApart DEF BooksInv, CoreInv, BaseInv, OutboxInv, Typed
  <2>2. Sending
    BY <2>1 DEF Moves, Quiet, Reserving
  <2>3. k = req /\ pc = "post"
    BY <2>1, <2>2 DEF Sending
  <2> QED BY <2>3 DEF ControlInv, Buying
<1> QED BY <1>1, ControlInvariant, PTL DEF Spec, BuysOnlyWhenSettled

-----------------------------------------------------------------------------
\* What all orders on lot i sold, seen by the tick or not.
Filled  == [k \in Keys |-> ord[k].filled]
Sold(i) == SumFunctionOnSet(Filled, LotNames(i))
SoldOf  == [i \in LotIx |-> Sold(i)]
SeenOf(i) == SumFunctionOnSet(lots[i].seen, LotNames(i))

\* The sell orders are the exit, the emergency stops and those on the lots.
LEMMA SellFamilies ==
  /\ SellKeys = ({Exit} \cup EmergencyKeys) \cup UNION {LotNames(i) : i \in LotIx}
  /\ Exit \notin EmergencyKeys
  /\ \A i \in LotIx : Exit \notin LotNames(i) /\ EmergencyKeys \cap LotNames(i) = {}
  /\ \A i, j \in LotIx : i # j => LotNames(i) \cap LotNames(j) = {}
  /\ \A i \in LotIx : LotNames(i) \subseteq SellKeys /\ IsFiniteSet(LotNames(i))
  /\ EmergencyKeys \subseteq SellKeys /\ IsFiniteSet(EmergencyKeys) /\ IsFiniteSet(LotIx)
<1>1. LotIx = 1 .. FullQty /\ FullQty \in Nat
  BY ConstantsAssumption DEF LotIx
<1>2. IsFiniteSet(LotIx)
  BY <1>1, FS_Interval
<1>3. \A i \in LotIx : LotNames(i) \subseteq SellKeys /\ Exit \notin LotNames(i)
  BY LotKeyFacts
<1>4. EmergencyKeys \subseteq SellKeys /\ Exit \notin EmergencyKeys
  BY Families DEF SellKeys, BuyKeys
<1>5. \A i \in LotIx : EmergencyKeys \cap LotNames(i) = {}
  BY LotKeyFacts, Families
<1>6. \A i, j \in LotIx : i # j => LotNames(i) \cap LotNames(j) = {}
  BY LotKeyFacts
<1>7. SellKeys \subseteq ({Exit} \cup EmergencyKeys) \cup UNION {LotNames(i) : i \in LotIx}
  <2> SUFFICES ASSUME NEW k \in SellKeys, k # Exit, k \notin EmergencyKeys
               PROVE  \E i \in LotIx : k \in LotNames(i)
    OBVIOUS
  <2>1. k \in Keys /\ k \notin BuyKeys
    BY DEF SellKeys
  <2>2. CASE k \in OpKeys
    <3>1. \/ \E i \in LotIx : k = Protect(i) \/ k = Rearm(i)
          \/ \E i \in LotIx, l \in 2 .. MaxStop : k = Tighten(i, l)
      BY <2>1, <2>2, OpKinds
    <3> QED BY <3>1 DEF LotNames, LotKeys
  <2>3. CASE \E i \in LotIx : k = StopLeg(i)
    BY <2>3 DEF LotNames, LotKeys
  <2> QED BY <2>1, <2>2, <2>3 DEF Keys
<1>8. SellKeys = ({Exit} \cup EmergencyKeys) \cup UNION {LotNames(i) : i \in LotIx}
  BY <1>3, <1>4, <1>7, ExitIsSell
<1> QED BY <1>2, <1>3, <1>4, <1>5, <1>6, <1>8, KeysFinite, FS_Subset

\* The fills are natural numbers, and so are their sums.
LEMMA SoldNat ==
  ASSUME BookTypes
  PROVE  /\ \A k \in Keys : Filled[k] = ord[k].filled /\ Filled[k] \in Nat
         /\ \A i \in LotIx : Sold(i) \in Nat /\ SoldOf[i] = Sold(i)
         /\ SumFunctionOnSet(Filled, EmergencyKeys) \in Nat
         /\ SumFunctionOnSet(SoldOf, LotIx) \in Nat
<1>1. \A k \in Keys : Filled[k] = ord[k].filled /\ Filled[k] \in Nat
  BY OrderFields DEF Filled
<1>2. ASSUME NEW U, U \subseteq SellKeys, IsFiniteSet(U)
     PROVE  SumFunctionOnSet(Filled, U) \in Nat
  BY <1>1, <1>2, SumNat DEF SellKeys
<1>3. \A i \in LotIx : Sold(i) \in Nat /\ SoldOf[i] = Sold(i)
  BY <1>2, SellFamilies DEF Sold, SoldOf
<1>4. SumFunctionOnSet(SoldOf, LotIx) \in Nat
  BY <1>3, SumNat, SellFamilies
<1> QED BY <1>1, <1>2, <1>3, <1>4, SellFamilies

\* What the campaign holds: what was bought, less what each family sold.
LEMMA PositionParts ==
  ASSUME BookTypes
  PROVE  Position(ord) = ord[Entry].filled + ord[AddOn].filled - ord[Exit].filled
           - SumFunctionOnSet(Filled, EmergencyKeys) - SumFunctionOnSet(SoldOf, LotIx)
<1> DEFINE S == [i \in LotIx |-> LotNames(i)]
           of == UNION {S[j] : j \in LotIx}
<1>1. \A k \in Keys : Filled[k] = ord[k].filled /\ Filled[k] \in Int
  BY SoldNat
<1>2. of = UNION {LotNames(i) : i \in LotIx}
  OBVIOUS
<1>3. IsFiniteSet(of) /\ SumFunctionOnSet(Filled, of) = SumFunctionOnSet(SoldOf, LotIx)
  <2>1. \A j \in LotIx : S[j] = LotNames(j)
    OBVIOUS
  <2>2. /\ \A j \in LotIx : IsFiniteSet(S[j]) /\ \A x \in S[j] : Filled[x] \in Int
        /\ \A i, j \in LotIx : i # j => S[i] \cap S[j] = {}
    BY <1>1, <2>1, SellFamilies DEF SellKeys
  <2>3. \A j \in LotIx : SoldOf[j] = SumFunctionOnSet(Filled, S[j])
    BY DEF SoldOf, Sold
  <2> HIDE DEF S
  <2> QED BY <2>2, <2>3, SumFamily, SellFamilies
<1>4. /\ IsFiniteSet({Exit}) /\ IsFiniteSet({Exit} \cup EmergencyKeys)
      /\ {Exit} \cap EmergencyKeys = {} /\ ({Exit} \cup EmergencyKeys) \cap of = {}
      /\ SellKeys = ({Exit} \cup EmergencyKeys) \cup of
  <2>1. IsFiniteSet({Exit}) /\ IsFiniteSet({Exit} \cup EmergencyKeys)
    BY SellFamilies, FS_Singleton, FS_Union
  <2>2. Exit \notin of /\ EmergencyKeys \cap of = {}
    BY <1>2, SellFamilies
  <2> HIDE DEF of
  <2> QED BY <1>2, <2>1, <2>2, SellFamilies
<1>5. \A k \in SellKeys : Filled[k] \in Int
  BY <1>1 DEF SellKeys
<1>6. SumFunctionOnSet(Filled, {Exit}) = ord[Exit].filled
  <2>1. {} \cup {Exit} = {Exit} /\ IsFiniteSet({}) /\ Exit \notin {} /\ Filled[Exit] \in Int
        /\ Filled[Exit] = ord[Exit].filled
    BY <1>1, ExitIsSell, FS_EmptySet
  <2> QED BY <2>1, SumAdd, SumEmpty
<1>7. SumFunctionOnSet(Filled, {Exit} \cup EmergencyKeys)
        = SumFunctionOnSet(Filled, {Exit}) + SumFunctionOnSet(Filled, EmergencyKeys)
  BY <1>4, <1>5, SumUnion, SellFamilies
<1>8. SumFunctionOnSet(Filled, SellKeys)
        = SumFunctionOnSet(Filled, {Exit} \cup EmergencyKeys) + SumFunctionOnSet(Filled, of)
  <2> HIDE DEF of
  <2> QED BY <1>3, <1>4, <1>5, SumUnion
<1>9. SumFunctionOnSet(Filled, BuyKeys) = ord[Entry].filled + ord[AddOn].filled
  <2>1. BuyKeys = {Entry} \cup {AddOn} /\ Entry # AddOn /\ Entry \in Keys /\ AddOn \in Keys
    BY Families DEF BuyKeys, Entry, AddOn
  <2>2. IsFiniteSet({}) /\ {} \cup {Entry} = {Entry} /\ Entry \notin {} /\ IsFiniteSet({Entry})
    BY FS_EmptySet, FS_Singleton
  <2>3. SumFunctionOnSet(Filled, {Entry}) = ord[Entry].filled
    BY <1>1, <2>1, <2>2, SumAdd, SumEmpty
  <2>4. SumFunctionOnSet(Filled, {Entry} \cup {AddOn}) = SumFunctionOnSet(Filled, {Entry}) + Filled[AddOn]
    BY <1>1, <2>1, <2>2, SumAdd
  <2> QED BY <1>1, <2>1, <2>3, <2>4
<1>10. Position(ord) = SumFunctionOnSet(Filled, BuyKeys) - SumFunctionOnSet(Filled, SellKeys)
  BY DEF Position, Filled
<1>11. SumFunctionOnSet(Filled, EmergencyKeys) \in Nat /\ SumFunctionOnSet(SoldOf, LotIx) \in Nat
       /\ ord[Exit].filled \in Nat /\ ord[Entry].filled \in Nat /\ ord[AddOn].filled \in Nat
  BY SoldNat, ExitIsSell, OrderFields DEF BuyKeys
<1> HIDE DEF of
<1> QED BY <1>2, <1>3, <1>6, <1>7, <1>8, <1>9, <1>10, <1>11

-----------------------------------------------------------------------------
\* What the tick has seen the orders on lot i sell.
SeenAll == [i \in LotIx |-> IF i \in DOMAIN lots THEN SeenOf(i) ELSE 0]

\* The shares of a lot: left, sold by the exit, or sold by an order on the lot
\* and seen.  No order is seen to sell more than it sold.
LEMMA LotSeen ==
  ASSUME BaseInv, NEW i \in DOMAIN lots
  PROVE  /\ i \in LotIx /\ lots[i].qty = lots[i].rem + lots[i].seen[Exit] + SeenOf(i)
         /\ lots[i].qty \in Nat /\ lots[i].rem \in Nat /\ lots[i].seen[Exit] \in Nat
         /\ SeenOf(i) \in Nat /\ SeenOf(i) <= Sold(i)
         /\ \A k \in LotNames(i) : /\ lots[i].seen[k] \in Nat /\ lots[i].seen[k] <= ord[k].filled
                                   /\ ord[k].filled \in Nat
<1> DEFINE f == lots[i].seen
           R == SellKeys \ (LotNames(i) \cup {Exit})
<1>1. BookTypes /\ GoodLot(ord, i, lots[i])
  BY DEF BaseInv, GoodLots
<1>2. /\ i \in LotIx /\ f \in [SellKeys -> Nat] /\ lots[i].qty \in Nat /\ lots[i].rem \in Nat
  BY <1>1, LotFields
<1>3. /\ LotNames(i) \subseteq SellKeys /\ Exit \in SellKeys /\ Exit \notin LotNames(i)
      /\ IsFiniteSet(LotNames(i)) /\ IsFiniteSet(SellKeys)
  BY <1>2, SellFamilies, ExitIsSell, KeysFinite
<1>4. \A k \in R : f[k] = 0
  <2> SUFFICES ASSUME NEW k \in R PROVE f[k] = 0
    OBVIOUS
  <2>1. k \in SellKeys /\ k \notin LotNames(i) \cup {Exit}
    OBVIOUS
  <2> QED BY <1>1, <2>1 DEF GoodLot
<1>5. IsFiniteSet(R) /\ IsFiniteSet({Exit}) /\ IsFiniteSet(LotNames(i) \cup {Exit})
  BY <1>3, FS_Subset, FS_Singleton, FS_Union
<1>6. /\ (LotNames(i) \cup {Exit}) \cap R = {} /\ SellKeys = (LotNames(i) \cup {Exit}) \cup R
      /\ \A x \in SellKeys : f[x] \in Int
  BY <1>2, <1>3
<1>7. lots[i].qty - lots[i].rem = SumFunctionOnSet(f, SellKeys)
  BY <1>1 DEF GoodLot
<1>8. SeenOf(i) = SumFunctionOnSet(f, LotNames(i))
  BY DEF SeenOf
<1>9. \A k \in LotNames(i) : /\ f[k] \in Nat /\ f[k] <= ord[k].filled /\ ord[k].filled \in Nat
                             /\ Filled[k] = ord[k].filled
  <2> SUFFICES ASSUME NEW k \in LotNames(i)
               PROVE  f[k] \in Nat /\ f[k] <= ord[k].filled /\ ord[k].filled \in Nat /\ Filled[k] = ord[k].filled
    OBVIOUS
  <2>1. k \in SellKeys \ {Exit} /\ k \in Keys
    BY <1>3 DEF SellKeys
  <2> QED BY <1>1, <1>2, <2>1, OrderFields DEF GoodLot, Filled
<1>10. f[Exit] \in Nat
  BY <1>2, <1>3
<1> HIDE DEF f, R
<1>11. SumFunctionOnSet(f, SellKeys)
         = SumFunctionOnSet(f, LotNames(i) \cup {Exit}) + SumFunctionOnSet(f, R)
  BY <1>5, <1>6, SumUnion
<1>12. SumFunctionOnSet(f, LotNames(i) \cup {Exit}) = SumFunctionOnSet(f, LotNames(i)) + f[Exit]
  BY <1>3, <1>6, SumAdd
<1>13. SumFunctionOnSet(f, R) = 0
  BY <1>4, <1>5, SumZero
<1>14. SeenOf(i) \in Nat
  BY <1>3, <1>8, <1>9, SumNat
<1>15. SeenOf(i) <= Sold(i)
  <2>1. \A k \in LotNames(i) : f[k] \in Int /\ Filled[k] \in Int /\ f[k] <= Filled[k]
    BY <1>9
  <2> QED BY <1>3, <1>8, <2>1, SumMonotone DEF Sold
<1>16. lots[i].qty = lots[i].rem + lots[i].seen[Exit] + SeenOf(i)
  BY <1>2, <1>7, <1>8, <1>10, <1>11, <1>12, <1>13, <1>14 DEF f
<1> QED BY <1>2, <1>9, <1>10, <1>14, <1>15, <1>16 DEF f

\* No order precedes its lot.
LEMMA NoLotNoOrder ==
  ASSUME CoreInv, NEW i \in LotIx, i \notin DOMAIN lots, NEW k \in LotNames(i)
  PROVE  ord[k] = NoOrder
<1>1. ops[Protect(i)] = "none" /\ ops[Rearm(i)] = "none"
      /\ \A l \in 2 .. MaxStop : ops[Tighten(i, l)] = "none"
  BY DEF CoreInv, BaseInv, LotOps
<1>2. Protect(i) \in PostKeys /\ Rearm(i) \in PostKeys
      /\ \A l \in 2 .. MaxStop : Tighten(i, l) \in TightenKeys
  BY KeyFacts
<1>3. posts[Protect(i)] = 0 /\ posts[Rearm(i)] = 0
  BY <1>1, <1>2 DEF CoreInv, BaseInv, OutboxInv, Once
<1>4. /\ ord[Protect(i)] = NoOrder /\ ord[Rearm(i)] = NoOrder /\ ord[StopLeg(i)] = NoOrder
      /\ \A l \in 2 .. MaxStop : ord[Tighten(i, l)] = NoOrder
  BY <1>1, <1>2, <1>3 DEF CoreInv, OrdersInv, Fresh
<1> QED BY <1>4 DEF LotNames, LotKeys

\* A sum over a set is one over a larger set, with nothing added.
LEMMA SumExtends ==
  ASSUME NEW f, NEW g, NEW U, NEW W, IsFiniteSet(W), U \subseteq W,
         \A x \in U : f[x] \in Int /\ g[x] = f[x], \A x \in W \ U : g[x] = 0
  PROVE  SumFunctionOnSet(g, W) = SumFunctionOnSet(f, U)
<1> DEFINE R == W \ U
<1>1. IsFiniteSet(U) /\ IsFiniteSet(R) /\ U \cap R = {} /\ W = U \cup R
      /\ \A x \in U \cup R : g[x] \in Int
  BY FS_Subset
<1>2. \A x \in R : g[x] = 0
  OBVIOUS
<1> HIDE DEF R
<1>3. SumFunctionOnSet(g, U \cup R) = SumFunctionOnSet(g, U) + SumFunctionOnSet(g, R)
  BY <1>1, SumUnion
<1>4. SumFunctionOnSet(g, R) = 0 /\ SumFunctionOnSet(g, U) = SumFunctionOnSet(f, U)
      /\ SumFunctionOnSet(f, U) \in Int
  BY <1>1, <1>2, SumZero, SumSame, SumInt
<1> QED BY <1>1, <1>3, <1>4

\* What the lots have left: what was booked, less what was seen to be sold.
LEMMA RemParts ==
  ASSUME BooksInv
  PROVE  /\ RemTotal(lots) = booked[Entry] + booked[AddOn] - exitBooked - SumFunctionOnSet(SeenAll, LotIx)
         /\ SumFunctionOnSet(SeenAll, LotIx) \in Nat
         /\ \A i \in LotIx : SeenAll[i] \in Nat /\ SeenAll[i] <= SoldOf[i] /\ SoldOf[i] \in Nat
<1> DEFINE D == DOMAIN lots
           r == [i \in D |-> lots[i].rem]
           q == [i \in D |-> lots[i].qty]
           e == [i \in D |-> lots[i].seen[Exit]]
           s == [i \in D |-> SeenOf(i)]
           es == [i \in D |-> e[i] + s[i]]
<1>1. BaseInv /\ BookTypes /\ Sums /\ BuyOps /\ IsFiniteSet(D) /\ D \subseteq LotIx
  BY LotsFinite DEF BooksInv, CoreInv, BaseInv, BookTypes
<1>2. \A i \in D : /\ r[i] \in Int /\ q[i] \in Int /\ e[i] \in Int /\ s[i] \in Int /\ es[i] \in Int
                   /\ es[i] = e[i] + s[i] /\ q[i] = r[i] + es[i]
  BY <1>1, LotSeen
<1>3. /\ RemTotal(lots) = SumFunctionOnSet(r, D) /\ QtyTotal(lots) = SumFunctionOnSet(q, D)
      /\ e = ExitSeen
  BY DEF RemTotal, QtyTotal, SumFunction, ExitSeen
<1>4. QtyTotal(lots) = booked[Entry] + booked[AddOn]
  BY <1>1, QtyIs DEF Counts, BookTypes, Sums
<1>5. SumFunctionOnSet(e, D) = exitBooked
  BY <1>1, <1>3 DEF Sums, ExitBooks
<1>6. SumFunctionOnSet(SeenAll, LotIx) = SumFunctionOnSet(s, D)
  <2>1. \A i \in D : s[i] \in Int /\ SeenAll[i] = s[i]
    BY <1>1, <1>2 DEF SeenAll
  <2>2. \A i \in LotIx \ D : SeenAll[i] = 0
    BY DEF SeenAll
  <2> HIDE DEF D, s
  <2> QED BY <1>1, <2>1, <2>2, SumExtends, SellFamilies
<1>7. \A i \in LotIx : SeenAll[i] \in Nat /\ SeenAll[i] <= SoldOf[i] /\ SoldOf[i] \in Nat
  BY <1>1, LotSeen, SoldNat DEF SeenAll
<1>8. SumFunctionOnSet(SeenAll, LotIx) \in Nat
  BY <1>7, SumNat, SellFamilies
<1>9. booked[Entry] \in Nat /\ booked[AddOn] \in Nat /\ exitBooked \in Nat
  BY <1>1 DEF BookTypes, BuyKeys
<1> HIDE DEF D, r, q, e, s, es
<1>10. SumFunctionOnSet(es, D) = SumFunctionOnSet(e, D) + SumFunctionOnSet(s, D)
  BY <1>1, <1>2, SumPlus
<1>11. SumFunctionOnSet(q, D) = SumFunctionOnSet(r, D) + SumFunctionOnSet(es, D)
  BY <1>1, <1>2, SumPlus
<1>12. /\ SumFunctionOnSet(r, D) \in Int /\ SumFunctionOnSet(e, D) \in Int
       /\ SumFunctionOnSet(s, D) \in Int
  BY <1>1, <1>2, SumInt
<1>13. RemTotal(lots) = booked[Entry] + booked[AddOn] - exitBooked - SumFunctionOnSet(SeenAll, LotIx)
  <2>1. RemTotal(lots) \in Int /\ SumFunctionOnSet(es, D) = exitBooked + SumFunctionOnSet(SeenAll, LotIx)
    BY <1>3, <1>5, <1>6, <1>10, <1>12
  <2>2. booked[Entry] + booked[AddOn] = RemTotal(lots) + SumFunctionOnSet(es, D)
    BY <1>3, <1>4, <1>11
  <2>3. exitBooked \in Nat /\ SumFunctionOnSet(SeenAll, LotIx) \in Int
    BY <1>6, <1>9, <1>12
  <2> QED BY <1>9, <2>1, <2>2, <2>3
<1> QED BY <1>7, <1>8, <1>13

-----------------------------------------------------------------------------
\* Where nothing is unresolved.
CalmPlace == pc \in {"tighten", "buy", "deadline"} \/ (pc = "observe" /\ stage # "start")

\* How a tick comes to these places, to the rearming and to the end.
PlaceMove ==
  /\ CalmPlace' => \/ CalmPlace /\ ops' = ops
                   \/ GateDeadline \/ GateMarket \/ AcceptTighten
  /\ pc' = "deadline" => \/ pc = "deadline" /\ UNCHANGED <<ops, lots, cur>>
                         \/ DeadlineCancel \/ DeadlineSkip \/ GateDeadline
  /\ pc = "deadline" /\ ops' # ops => DeadlineSell
  /\ pc' = "rearmLots" => pc = "rearmLots" \/ RearmStart \/ AcceptRearm
  /\ status' \in Released => GateClosed \/ GateExpired \/ BuyClosed \/ status \in Released
  /\ status \in Released /\ pc = "idle" => UNCHANGED <<ops, lots, review, pc, posts>>

\* How an unresolved operation is resolved.
DoneBy(k) ==
  \/ k \in BuyKeys /\ ReconcileBuy(k)
  \/ \E i \in LotIx : (k = Protect(i) /\ ReconcileProtect(i)) \/ (k = Rearm(i) /\ ReconcileRearm(i))
  \/ \E i \in LotIx, l \in 2 .. MaxStop : k = Tighten(i, l) /\ ReconcileTighten(i, l)
  \/ k = Exit /\ ReconcileExit
  \/ k = req /\ (AcceptProtect \/ AcceptTighten \/ AcceptEmergency \/ Rejected)
DoneMove == \A k \in OpKeys : ops[k] \in Unresolved /\ ops'[k] \notin Unresolved => DoneBy(k)

\* What only some policies or failures bring about.
PolicyMove ==
  /\ \A k \in EmergencyKeys : ops'[k] # ops[k] =>
       ops[k] \in Unresolved \/ \E x \in BuyKeys, q \in LotIx : ReceiptMissing(x, q)
  /\ pc = "tighten" /\ ops' # ops => Trailing
  /\ review => review'

\* Where the tick goes.
LEMMA PlacesStep ==
  ASSUME BaseInv, BooksInv, [Next]_vars PROVE PlaceMove
<1> USE DEF PlaceMove, CalmPlace, At, Abort, Goto, Keep, saved, local, world
<1>1. ASSUME TickStart PROVE PlaceMove
  BY <1>1 DEF TickStart, StartReconcile
<1>2. ASSUME NEW k \in OpKeys, ReconcileBare(k) PROVE PlaceMove
  BY <1>2 DEF ReconcileBare
<1>3. ASSUME NEW k \in OpKeys, ReconcileMissing(k) PROVE PlaceMove
  BY <1>3 DEF ReconcileMissing
<1>4. ASSUME NEW k \in OpKeys, ReconcileEmergency(k) PROVE PlaceMove
  BY <1>4 DEF ReconcileEmergency, Found
<1>5. ASSUME NEW k \in BuyKeys, ReconcileBuy(k) PROVE PlaceMove
  BY <1>5 DEF ReconcileBuy, Found, Settled, NewFill, Released
<1>6. ASSUME NEW i \in LotIx, ReconcileProtect(i) PROVE PlaceMove
  BY <1>6 DEF ReconcileProtect, Found
<1>7. ASSUME NEW i \in LotIx, ReconcileRearm(i) PROVE PlaceMove
  BY <1>7 DEF ReconcileRearm, Found
<1>8. ASSUME NEW i \in LotIx, NEW l \in 2 .. MaxStop, ReconcileTighten(i, l) PROVE PlaceMove
  BY <1>8 DEF ReconcileTighten, Found
<1>9. ASSUME ReconcileExit PROVE PlaceMove
  BY <1>9 DEF ReconcileExit, Found, Settled
<1>10. ASSUME ReconcileDone PROVE PlaceMove
  BY <1>10 DEF ReconcileDone
<1>11. Reconcile => PlaceMove
  BY <1>2, <1>3, <1>4, <1>5, <1>6, <1>7, <1>8, <1>9, <1>10 DEF Reconcile
<1>12. ASSUME RearmStart PROVE PlaceMove
  BY <1>12 DEF RearmStart
<1>13. ASSUME RearmSkip PROVE PlaceMove
  BY <1>13 DEF RearmSkip
<1>14. ASSUME RearmEnd PROVE PlaceMove
  BY <1>14 DEF RearmEnd, StartReconcile
<1>15. ASSUME NEW i \in LotIx, RearmReserve(i) PROVE PlaceMove
  BY <1>15 DEF RearmReserve, Reserve, Rearmed
<1>16. RearmFailedExit => PlaceMove
  BY <1>12, <1>13, <1>14, <1>15 DEF RearmFailedExit
<1>17. ASSUME ProtectFrozen PROVE PlaceMove
  BY <1>17 DEF ProtectFrozen
<1>18. ASSUME ProtectEnd PROVE PlaceMove
  BY <1>18 DEF ProtectEnd
<1>19. ASSUME NEW i \in LotIx, ProtectReserve(i) PROVE PlaceMove
  BY <1>19 DEF ProtectReserve, Reserve, MayProtect, First, Unprotected
<1>20. ProtectLots => PlaceMove
  BY <1>17, <1>18, <1>19 DEF ProtectLots
<1>21. ASSUME ObserveLot PROVE PlaceMove
  BY <1>21 DEF ObserveLot
<1>22. ASSUME ObserveEnd PROVE PlaceMove
  BY <1>22 DEF ObserveEnd
<1>23. ReconcileLots => PlaceMove
  BY <1>21, <1>22 DEF ReconcileLots
<1>24. ASSUME StandardCancel PROVE PlaceMove
  BY <1>24 DEF StandardCancel, StartReconcile
<1>25. ASSUME StandardSkip PROVE PlaceMove
  BY <1>25 DEF StandardSkip
<1>26. StandardEntry => PlaceMove
  BY <1>24, <1>25 DEF StandardEntry
<1>27. ASSUME GatePending PROVE PlaceMove
  BY <1>27 DEF GatePending
<1>28. ASSUME GateClosed PROVE PlaceMove
  BY <1>28 DEF GateClosed
<1>29. ASSUME GateDeadline PROVE PlaceMove
  BY <1>29 DEF GateDeadline
<1>30. ASSUME GateExpired PROVE PlaceMove
  BY <1>30 DEF GateExpired
<1>31. ASSUME GateWait PROVE PlaceMove
  BY <1>31 DEF GateWait
<1>32. ASSUME GateMarket PROVE PlaceMove
  BY <1>32 DEF GateMarket
<1>33. Gate => PlaceMove
  BY <1>27, <1>28, <1>29, <1>30, <1>31, <1>32 DEF Gate
<1>34. ASSUME DeadlineSkip PROVE PlaceMove
  BY <1>34 DEF DeadlineSkip
<1>35. ASSUME DeadlineCancel PROVE PlaceMove
  BY <1>35 DEF DeadlineCancel, CancelLegs, CancelUnconfirmed, Fault
<1>36. ASSUME DeadlineSell PROVE PlaceMove
  BY <1>36 DEF DeadlineSell, Reserve
<1>37. Deadline => PlaceMove
  BY <1>34, <1>35, <1>36 DEF Deadline
<1>38. ASSUME NEW i \in LotIx, NEW l \in 2 .. MaxStop, TightenReserve(i, l) PROVE PlaceMove
  BY <1>38 DEF TightenReserve, Reserve, Tightening
<1>39. ASSUME TightenNext PROVE PlaceMove
  BY <1>39 DEF TightenNext
<1>40. ASSUME TightenEnd PROVE PlaceMove
  BY <1>40 DEF TightenEnd
<1>41. TightenStops => PlaceMove
  BY <1>38, <1>39, <1>40 DEF TightenStops
<1>42. ASSUME BuyClosed PROVE PlaceMove
  BY <1>42 DEF BuyClosed
<1>43. ASSUME BuyNothing PROVE PlaceMove
  BY <1>43 DEF BuyNothing
<1>44. ASSUME BuyAttach PROVE PlaceMove
  BY <1>44 DEF BuyAttach
<1>45. ASSUME NEW k \in BuyKeys, NEW q \in LotIx, BuyReserve(k, q) PROVE PlaceMove
  BY <1>45 DEF BuyReserve
<1>46. Buy => PlaceMove
  BY <1>42, <1>43, <1>44, <1>45 DEF Buy
<1>47. ASSUME AcceptBuy PROVE PlaceMove
  BY <1>47 DEF AcceptBuy, Posting, Ends
<1>48. ASSUME AcceptProtect PROVE PlaceMove
  BY <1>48 DEF AcceptProtect, Posting, Ends, Action
<1>49. ASSUME AcceptTighten PROVE PlaceMove
  BY <1>49 DEF AcceptTighten, Posting, Ends, Action
<1>50. ASSUME TightenRefused PROVE PlaceMove
  BY <1>50 DEF TightenRefused
<1>51. ASSUME AcceptRearm PROVE PlaceMove
  BY <1>51 DEF AcceptRearm, Posting, Ends, Action
<1>52. ASSUME AcceptExit PROVE PlaceMove
  BY <1>52 DEF AcceptExit, Posting, Ends
<1>53. ASSUME AcceptEmergency PROVE PlaceMove
  BY <1>53 DEF AcceptEmergency, Posting, Ends
<1>54. Accept => PlaceMove
  BY <1>47, <1>48, <1>49, <1>50, <1>51, <1>52, <1>53 DEF Accept
<1>55. ASSUME NEW k \in BuyKeys, NEW q \in LotIx, ReceiptMissing(k, q) PROVE PlaceMove
  BY <1>55 DEF ReceiptMissing, Found, Fault, Reserve
<1>56. ASSUME AnswerLost PROVE PlaceMove
  BY <1>56 DEF AnswerLost, Posting, Fault
<1>57. ASSUME Undelivered PROVE PlaceMove
  BY <1>57 DEF Undelivered, Posting, Fault
<1>58. ASSUME Rejected PROVE PlaceMove
  BY <1>58 DEF Rejected, Posting, Ends, Fault
<1>59. ASSUME Crash PROVE PlaceMove
  BY <1>59 DEF Crash, Fault
<1>60. ASSUME NEW k \in SellKeys \ {Exit}, BrokerCancel(k) PROVE PlaceMove
  BY <1>60 DEF BrokerCancel, Fault
<1>61. Failure => PlaceMove
  BY <1>55, <1>56, <1>57, <1>58, <1>59, <1>60 DEF Failure
<1>62. ASSUME NEW k \in Keys, BrokerFill(k) PROVE PlaceMove
  BY <1>62 DEF BrokerFill
<1>63. ASSUME NEW k \in Keys, BrokerTerminate(k) PROVE PlaceMove
  BY <1>63 DEF BrokerTerminate
<1>64. ASSUME Expire PROVE PlaceMove
  BY <1>64 DEF Expire
<1>65. ASSUME DueArrives PROVE PlaceMove
  BY <1>65 DEF DueArrives
<1>66. ASSUME SwitchOff PROVE PlaceMove
  BY <1>66 DEF SwitchOff
<1>67. Market => PlaceMove
  BY <1>62, <1>63, <1>64, <1>65, <1>66 DEF Market
<1>68. ASSUME UNCHANGED vars PROVE PlaceMove
  BY <1>68 DEF vars
<1> QED BY <1>1, <1>11, <1>16, <1>20, <1>23, <1>26, <1>33, <1>37, <1>41, <1>46, <1>54, <1>61,
     <1>67, <1>68 DEF Next, Tick

\* Who resolves operations.
LEMMA DoneStep ==
  ASSUME BaseInv, [Next]_vars PROVE DoneMove
<1> USE DEF DoneMove, DoneBy, Unresolved, BaseInv, OutboxInv, Typed, At, Abort, Goto, Keep,
          saved, local, world
<1>1. ASSUME TickStart PROVE DoneMove
  BY <1>1 DEF TickStart, StartReconcile
<1>2. ASSUME NEW k \in OpKeys, ReconcileBare(k) PROVE DoneMove
  BY <1>2 DEF ReconcileBare
<1>3. ASSUME NEW k \in OpKeys, ReconcileMissing(k) PROVE DoneMove
  BY <1>3 DEF ReconcileMissing
<1>4. ASSUME NEW k \in OpKeys, ReconcileEmergency(k) PROVE DoneMove
  BY <1>4 DEF ReconcileEmergency, Found
<1>5. ASSUME NEW k \in BuyKeys, ReconcileBuy(k) PROVE DoneMove
  BY <1>5 DEF ReconcileBuy, Found, Settled, NewFill
<1>6. ASSUME NEW i \in LotIx, ReconcileProtect(i) PROVE DoneMove
  BY <1>6 DEF ReconcileProtect, Found
<1>7. ASSUME NEW i \in LotIx, ReconcileRearm(i) PROVE DoneMove
  BY <1>7 DEF ReconcileRearm, Found
<1>8. ASSUME NEW i \in LotIx, NEW l \in 2 .. MaxStop, ReconcileTighten(i, l) PROVE DoneMove
  BY <1>8 DEF ReconcileTighten, Found
<1>9. ASSUME ReconcileExit PROVE DoneMove
  BY <1>9 DEF ReconcileExit, Found, Settled
<1>10. ASSUME ReconcileDone PROVE DoneMove
  BY <1>10 DEF ReconcileDone
<1>11. Reconcile => DoneMove
  BY <1>2, <1>3, <1>4, <1>5, <1>6, <1>7, <1>8, <1>9, <1>10 DEF Reconcile
<1>12. ASSUME RearmStart PROVE DoneMove
  BY <1>12 DEF RearmStart
<1>13. ASSUME RearmSkip PROVE DoneMove
  BY <1>13 DEF RearmSkip
<1>14. ASSUME RearmEnd PROVE DoneMove
  BY <1>14 DEF RearmEnd, StartReconcile
<1>15. ASSUME NEW i \in LotIx, RearmReserve(i) PROVE DoneMove
  BY <1>15 DEF RearmReserve, Reserve, Rearmed
<1>16. RearmFailedExit => DoneMove
  BY <1>12, <1>13, <1>14, <1>15 DEF RearmFailedExit
<1>17. ASSUME ProtectFrozen PROVE DoneMove
  BY <1>17 DEF ProtectFrozen
<1>18. ASSUME ProtectEnd PROVE DoneMove
  BY <1>18 DEF ProtectEnd
<1>19. ASSUME NEW i \in LotIx, ProtectReserve(i) PROVE DoneMove
  BY <1>19 DEF ProtectReserve, Reserve, MayProtect, First, Unprotected
<1>20. ProtectLots => DoneMove
  BY <1>17, <1>18, <1>19 DEF ProtectLots
<1>21. ASSUME ObserveLot PROVE DoneMove
  BY <1>21 DEF ObserveLot
<1>22. ASSUME ObserveEnd PROVE DoneMove
  BY <1>22 DEF ObserveEnd
<1>23. ReconcileLots => DoneMove
  BY <1>21, <1>22 DEF ReconcileLots
<1>24. ASSUME StandardCancel PROVE DoneMove
  BY <1>24 DEF StandardCancel, StartReconcile
<1>25. ASSUME StandardSkip PROVE DoneMove
  BY <1>25 DEF StandardSkip
<1>26. StandardEntry => DoneMove
  BY <1>24, <1>25 DEF StandardEntry
<1>27. ASSUME GatePending PROVE DoneMove
  BY <1>27 DEF GatePending
<1>28. ASSUME GateClosed PROVE DoneMove
  BY <1>28 DEF GateClosed
<1>29. ASSUME GateDeadline PROVE DoneMove
  BY <1>29 DEF GateDeadline
<1>30. ASSUME GateExpired PROVE DoneMove
  BY <1>30 DEF GateExpired
<1>31. ASSUME GateWait PROVE DoneMove
  BY <1>31 DEF GateWait
<1>32. ASSUME GateMarket PROVE DoneMove
  BY <1>32 DEF GateMarket
<1>33. Gate => DoneMove
  BY <1>27, <1>28, <1>29, <1>30, <1>31, <1>32 DEF Gate
<1>34. ASSUME DeadlineSkip PROVE DoneMove
  BY <1>34 DEF DeadlineSkip
<1>35. ASSUME DeadlineCancel PROVE DoneMove
  BY <1>35 DEF DeadlineCancel, CancelLegs, CancelUnconfirmed, Fault
<1>36. ASSUME DeadlineSell PROVE DoneMove
  BY <1>36 DEF DeadlineSell, Reserve
<1>37. Deadline => DoneMove
  BY <1>34, <1>35, <1>36 DEF Deadline
<1>38. ASSUME NEW i \in LotIx, NEW l \in 2 .. MaxStop, TightenReserve(i, l) PROVE DoneMove
  BY <1>38 DEF TightenReserve, Reserve, Tightening
<1>39. ASSUME TightenNext PROVE DoneMove
  BY <1>39 DEF TightenNext
<1>40. ASSUME TightenEnd PROVE DoneMove
  BY <1>40 DEF TightenEnd
<1>41. TightenStops => DoneMove
  BY <1>38, <1>39, <1>40 DEF TightenStops
<1>42. ASSUME BuyClosed PROVE DoneMove
  BY <1>42 DEF BuyClosed
<1>43. ASSUME BuyNothing PROVE DoneMove
  BY <1>43 DEF BuyNothing
<1>44. ASSUME BuyAttach PROVE DoneMove
  BY <1>44 DEF BuyAttach
<1>45. ASSUME NEW k \in BuyKeys, NEW q \in LotIx, BuyReserve(k, q) PROVE DoneMove
  BY <1>45 DEF BuyReserve
<1>46. Buy => DoneMove
  BY <1>42, <1>43, <1>44, <1>45 DEF Buy
<1>47. ASSUME AcceptBuy PROVE DoneMove
  BY <1>47 DEF AcceptBuy, Posting, Ends
<1>48. ASSUME AcceptProtect PROVE DoneMove
  BY <1>48 DEF AcceptProtect, Posting, Ends, Action
<1>49. ASSUME AcceptTighten PROVE DoneMove
  BY <1>49 DEF AcceptTighten, Posting, Ends, Action
<1>50. ASSUME TightenRefused PROVE DoneMove
  BY <1>50 DEF TightenRefused
<1>51. ASSUME AcceptRearm PROVE DoneMove
  BY <1>51 DEF AcceptRearm, Posting, Ends, Action
<1>52. ASSUME AcceptExit PROVE DoneMove
  BY <1>52 DEF AcceptExit, Posting, Ends
<1>53. ASSUME AcceptEmergency PROVE DoneMove
  BY <1>53 DEF AcceptEmergency, Posting, Ends
<1>54. Accept => DoneMove
  BY <1>47, <1>48, <1>49, <1>50, <1>51, <1>52, <1>53 DEF Accept
<1>55. ASSUME NEW k \in BuyKeys, NEW q \in LotIx, ReceiptMissing(k, q) PROVE DoneMove
  BY <1>55 DEF ReceiptMissing, Found, Fault, Reserve
<1>56. ASSUME AnswerLost PROVE DoneMove
  BY <1>56 DEF AnswerLost, Posting, Fault
<1>57. ASSUME Undelivered PROVE DoneMove
  BY <1>57 DEF Undelivered, Posting, Fault
<1>58. ASSUME Rejected PROVE DoneMove
  BY <1>58 DEF Rejected, Posting, Ends, Fault
<1>59. ASSUME Crash PROVE DoneMove
  BY <1>59 DEF Crash, Fault
<1>60. ASSUME NEW k \in SellKeys \ {Exit}, BrokerCancel(k) PROVE DoneMove
  BY <1>60 DEF BrokerCancel, Fault
<1>61. Failure => DoneMove
  BY <1>55, <1>56, <1>57, <1>58, <1>59, <1>60 DEF Failure
<1>62. ASSUME NEW k \in Keys, BrokerFill(k) PROVE DoneMove
  BY <1>62 DEF BrokerFill
<1>63. ASSUME NEW k \in Keys, BrokerTerminate(k) PROVE DoneMove
  BY <1>63 DEF BrokerTerminate
<1>64. ASSUME Expire PROVE DoneMove
  BY <1>64 DEF Expire
<1>65. ASSUME DueArrives PROVE DoneMove
  BY <1>65 DEF DueArrives
<1>66. ASSUME SwitchOff PROVE DoneMove
  BY <1>66 DEF SwitchOff
<1>67. Market => DoneMove
  BY <1>62, <1>63, <1>64, <1>65, <1>66 DEF Market
<1>68. ASSUME UNCHANGED vars PROVE DoneMove
  BY <1>68 DEF vars
<1> QED BY <1>1, <1>11, <1>16, <1>20, <1>23, <1>26, <1>33, <1>37, <1>41, <1>46, <1>54, <1>61,
     <1>67, <1>68 DEF Next, Tick

\* Who asks for emergency stops and replacements.
LEMMA PolicyStep ==
  ASSUME BaseInv, TodoPending, Reserved, [Next]_vars PROVE PolicyMove
<1> USE DEF PolicyMove, TodoPending, Reserved, Pending, Unresolved, BaseInv, OutboxInv, Typed,
          At, Abort, Goto, Keep, saved, local, world
<1>1. ASSUME TickStart PROVE PolicyMove
  BY <1>1 DEF TickStart, StartReconcile
<1>2. ASSUME NEW k \in OpKeys, ReconcileBare(k) PROVE PolicyMove
  BY <1>2 DEF ReconcileBare
<1>3. ASSUME NEW k \in OpKeys, ReconcileMissing(k) PROVE PolicyMove
  BY <1>3 DEF ReconcileMissing
<1>4. ASSUME NEW k \in OpKeys, ReconcileEmergency(k) PROVE PolicyMove
  BY <1>4 DEF ReconcileEmergency, Found
<1>5. ASSUME NEW k \in BuyKeys, ReconcileBuy(k) PROVE PolicyMove
  BY <1>5 DEF ReconcileBuy, Found, Settled, NewFill
<1>6. ASSUME NEW i \in LotIx, ReconcileProtect(i) PROVE PolicyMove
  BY <1>6 DEF ReconcileProtect, Found
<1>7. ASSUME NEW i \in LotIx, ReconcileRearm(i) PROVE PolicyMove
  BY <1>7, Families DEF ReconcileRearm, Found
<1>8. ASSUME NEW i \in LotIx, NEW l \in 2 .. MaxStop, ReconcileTighten(i, l) PROVE PolicyMove
  BY <1>8 DEF ReconcileTighten, Found
<1>9. ASSUME ReconcileExit PROVE PolicyMove
  BY <1>9, Families DEF ReconcileExit, Found, Settled
<1>10. ASSUME ReconcileDone PROVE PolicyMove
  BY <1>10 DEF ReconcileDone
<1>11. Reconcile => PolicyMove
  BY <1>2, <1>3, <1>4, <1>5, <1>6, <1>7, <1>8, <1>9, <1>10 DEF Reconcile
<1>12. ASSUME RearmStart PROVE PolicyMove
  BY <1>12 DEF RearmStart
<1>13. ASSUME RearmSkip PROVE PolicyMove
  BY <1>13 DEF RearmSkip
<1>14. ASSUME RearmEnd PROVE PolicyMove
  BY <1>14 DEF RearmEnd, StartReconcile
<1>15. ASSUME NEW i \in LotIx, RearmReserve(i) PROVE PolicyMove
  BY <1>15, Families DEF RearmReserve, Reserve, Rearmed
<1>16. RearmFailedExit => PolicyMove
  BY <1>12, <1>13, <1>14, <1>15 DEF RearmFailedExit
<1>17. ASSUME ProtectFrozen PROVE PolicyMove
  BY <1>17 DEF ProtectFrozen
<1>18. ASSUME ProtectEnd PROVE PolicyMove
  BY <1>18 DEF ProtectEnd
<1>19. ASSUME NEW i \in LotIx, ProtectReserve(i) PROVE PolicyMove
  BY <1>19, Families DEF ProtectReserve, Reserve, MayProtect, First, Unprotected
<1>20. ProtectLots => PolicyMove
  BY <1>17, <1>18, <1>19 DEF ProtectLots
<1>21. ASSUME ObserveLot PROVE PolicyMove
  BY <1>21 DEF ObserveLot
<1>22. ASSUME ObserveEnd PROVE PolicyMove
  BY <1>22 DEF ObserveEnd
<1>23. ReconcileLots => PolicyMove
  BY <1>21, <1>22 DEF ReconcileLots
<1>24. ASSUME StandardCancel PROVE PolicyMove
  BY <1>24 DEF StandardCancel, StartReconcile
<1>25. ASSUME StandardSkip PROVE PolicyMove
  BY <1>25 DEF StandardSkip
<1>26. StandardEntry => PolicyMove
  BY <1>24, <1>25 DEF StandardEntry
<1>27. ASSUME GatePending PROVE PolicyMove
  BY <1>27 DEF GatePending
<1>28. ASSUME GateClosed PROVE PolicyMove
  BY <1>28 DEF GateClosed
<1>29. ASSUME GateDeadline PROVE PolicyMove
  BY <1>29 DEF GateDeadline
<1>30. ASSUME GateExpired PROVE PolicyMove
  BY <1>30 DEF GateExpired
<1>31. ASSUME GateWait PROVE PolicyMove
  BY <1>31 DEF GateWait
<1>32. ASSUME GateMarket PROVE PolicyMove
  BY <1>32 DEF GateMarket
<1>33. Gate => PolicyMove
  BY <1>27, <1>28, <1>29, <1>30, <1>31, <1>32 DEF Gate
<1>34. ASSUME DeadlineSkip PROVE PolicyMove
  BY <1>34 DEF DeadlineSkip
<1>35. ASSUME DeadlineCancel PROVE PolicyMove
  BY <1>35 DEF DeadlineCancel, CancelLegs, CancelUnconfirmed, Fault
<1>36. ASSUME DeadlineSell PROVE PolicyMove
  BY <1>36, Families DEF DeadlineSell, Reserve
<1>37. Deadline => PolicyMove
  BY <1>34, <1>35, <1>36 DEF Deadline
<1>38. ASSUME NEW i \in LotIx, NEW l \in 2 .. MaxStop, TightenReserve(i, l) PROVE PolicyMove
  BY <1>38, Families DEF TightenReserve, Reserve, Tightening
<1>39. ASSUME TightenNext PROVE PolicyMove
  BY <1>39 DEF TightenNext
<1>40. ASSUME TightenEnd PROVE PolicyMove
  BY <1>40 DEF TightenEnd
<1>41. TightenStops => PolicyMove
  BY <1>38, <1>39, <1>40 DEF TightenStops
<1>42. ASSUME BuyClosed PROVE PolicyMove
  BY <1>42 DEF BuyClosed
<1>43. ASSUME BuyNothing PROVE PolicyMove
  BY <1>43 DEF BuyNothing
<1>44. ASSUME BuyAttach PROVE PolicyMove
  BY <1>44 DEF BuyAttach
<1>45. ASSUME NEW k \in BuyKeys, NEW q \in LotIx, BuyReserve(k, q) PROVE PolicyMove
  BY <1>45, Families DEF BuyReserve
<1>46. Buy => PolicyMove
  BY <1>42, <1>43, <1>44, <1>45 DEF Buy
<1>47. ASSUME AcceptBuy PROVE PolicyMove
  BY <1>47 DEF AcceptBuy, Posting, Ends
<1>48. ASSUME AcceptProtect PROVE PolicyMove
  BY <1>48 DEF AcceptProtect, Posting, Ends, Action
<1>49. ASSUME AcceptTighten PROVE PolicyMove
  BY <1>49 DEF AcceptTighten, Posting, Ends, Action
<1>50. ASSUME TightenRefused PROVE PolicyMove
  BY <1>50 DEF TightenRefused
<1>51. ASSUME AcceptRearm PROVE PolicyMove
  BY <1>51 DEF AcceptRearm, Posting, Ends, Action
<1>52. ASSUME AcceptExit PROVE PolicyMove
  BY <1>52 DEF AcceptExit, Posting, Ends
<1>53. ASSUME AcceptEmergency PROVE PolicyMove
  BY <1>53 DEF AcceptEmergency, Posting, Ends
<1>54. Accept => PolicyMove
  BY <1>47, <1>48, <1>49, <1>50, <1>51, <1>52, <1>53 DEF Accept
<1>55. ASSUME NEW k \in BuyKeys, NEW q \in LotIx, ReceiptMissing(k, q) PROVE PolicyMove
  BY <1>55 DEF ReceiptMissing, Found, Fault, Reserve
<1>56. ASSUME AnswerLost PROVE PolicyMove
  BY <1>56 DEF AnswerLost, Posting, Fault
<1>57. ASSUME Undelivered PROVE PolicyMove
  BY <1>57 DEF Undelivered, Posting, Fault
<1>58. ASSUME Rejected PROVE PolicyMove
  BY <1>58, Families DEF Rejected, Posting, Ends, Fault
<1>59. ASSUME Crash PROVE PolicyMove
  BY <1>59 DEF Crash, Fault
<1>60. ASSUME NEW k \in SellKeys \ {Exit}, BrokerCancel(k) PROVE PolicyMove
  BY <1>60 DEF BrokerCancel, Fault
<1>61. Failure => PolicyMove
  BY <1>55, <1>56, <1>57, <1>58, <1>59, <1>60 DEF Failure
<1>62. ASSUME NEW k \in Keys, BrokerFill(k) PROVE PolicyMove
  BY <1>62 DEF BrokerFill
<1>63. ASSUME NEW k \in Keys, BrokerTerminate(k) PROVE PolicyMove
  BY <1>63 DEF BrokerTerminate
<1>64. ASSUME Expire PROVE PolicyMove
  BY <1>64 DEF Expire
<1>65. ASSUME DueArrives PROVE PolicyMove
  BY <1>65 DEF DueArrives
<1>66. ASSUME SwitchOff PROVE PolicyMove
  BY <1>66 DEF SwitchOff
<1>67. Market => PolicyMove
  BY <1>62, <1>63, <1>64, <1>65, <1>66 DEF Market
<1>68. ASSUME UNCHANGED vars PROVE PolicyMove
  BY <1>68 DEF vars
<1> QED BY <1>1, <1>11, <1>16, <1>20, <1>23, <1>26, <1>33, <1>37, <1>41, <1>46, <1>54, <1>61,
     <1>67, <1>68 DEF Next, Tick

-----------------------------------------------------------------------------
\* What a step sees on the lots: an order's whole fill or nothing of it, and
\* of the exit only when the exit is looked up.
LotsSeen ==
  /\ DOMAIN lots \subseteq DOMAIN lots'
  /\ \A i \in DOMAIN lots :
       /\ lots'[i].qty = lots[i].qty /\ lots'[i].rem \in Nat /\ lots'[i].rem <= lots[i].rem
       /\ \A k \in SellKeys \ {Exit} : lots'[i].seen[k] \in {lots[i].seen[k], ord'[k].filled}
       /\ \/ lots'[i].seen[Exit] = lots[i].seen[Exit]
          \/ Spreads /\ lots'[i].seen[Exit] <= lots[i].seen[Exit] + lots[i].rem
       /\ Restops \/ (lots'[i].stopId = lots[i].stopId /\ lots'[i].tpId = lots[i].tpId)
  /\ \A i \in DOMAIN lots' \ DOMAIN lots :
       /\ Appends /\ ord' = ord /\ lots'[i].qty \in Nat
       /\ \A k \in SellKeys : lots'[i].seen[k] = 0

\* Every step sees fills in that way.
LEMMA SeenStep ==
  ASSUME BooksInv, [Next]_vars PROVE LotsSeen
<1>1. LotsMove /\ OrdersGood /\ BaseInv /\ Sums /\ BookTypes
  BY StepIs DEF BooksInv, CoreInv, BaseInv
<1>2. CASE Same \/ Sells \/ Stops
  <2>1. LotsKept /\ ExitSeen' = ExitSeen /\ SeesMore /\ (NamesKept \/ Stops)
    BY <1>1, <1>2, SameKeeps, SellsKeep, StopsKeep
  <2>2. \A i \in DOMAIN lots : lots'[i].seen[Exit] = lots[i].seen[Exit]
    BY <2>1 DEF LotsKept, ExitSeen
  <2>3. \A i \in DOMAIN lots : lots'[i].rem \in Nat
    BY <2>1 DEF LotsKept, GoodLot, Lot
  <2> QED BY <2>1, <2>2, <2>3 DEF LotsSeen, LotsKept, SeesMore, NamesKept, Stops
<1>3. CASE Spreads
  <2>1. /\ LotsKept /\ SeesMore /\ NamesKept
        /\ \A i \in DOMAIN lots : lots'[i].seen[Exit] <= lots[i].seen[Exit] + lots[i].rem
    BY <1>1, <1>3, SpreadsKeep
  <2>2. \A i \in DOMAIN lots : lots'[i].rem \in Nat
    BY <2>1 DEF LotsKept, GoodLot, Lot
  <2> QED BY <1>3, <2>1, <2>2 DEF LotsSeen, LotsKept, SeesMore, NamesKept
<1>4. CASE Appends
  <2>1. PICK k \in BuyKeys : lots' = Append(lots, NewLot(k, NewFill(k))) /\ ord' = ord
    BY <1>4 DEF Appends
  <2>2. /\ DOMAIN lots = 1 .. Len(lots) /\ Len(lots) \in Nat /\ lots \in Seq(Lot)
        /\ DOMAIN lots' = 1 .. (Len(lots) + 1)
        /\ \A i \in DOMAIN lots : lots'[i] = lots[i]
        /\ lots'[Len(lots) + 1] = NewLot(k, NewFill(k))
    BY <1>1, <2>1, LotsFinite DEF BookTypes
  <2>3. \A i \in DOMAIN lots : lots[i].rem \in Nat
    BY <1>1, LotFields
  <2>4. \A i \in DOMAIN lots' \ DOMAIN lots : i = Len(lots) + 1
    BY <2>2
  <2>5. \A x \in SellKeys : NewLot(k, NewFill(k)).seen[x] = 0
    BY DEF NewLot
  <2>6. \A i \in DOMAIN lots' : lots'[i].qty \in Nat
    BY <1>1, <1>4, AppendsKeep DEF GoodLots, GoodLot, Lot
  <2> QED BY <1>4, <2>1, <2>2, <2>3, <2>4, <2>5, <2>6 DEF LotsSeen
<1> QED BY <1>1, <1>2, <1>3, <1>4 DEF LotsMove

\* A step that sends nothing and fills nothing.
Steady == \A k \in Keys : /\ ord'[k].filled = ord[k].filled /\ ord'[k].qty = ord[k].qty
                          /\ Live(ord', k) => Live(ord, k)
\* What a request places is new; nothing else changes but the stop it replaces.
Fresher(k) == \/ k = req
              \/ TakeProfit /\ \E i \in LotIx : req = Protect(i) /\ k = StopLeg(i)
Placing == \A k \in Keys :
  /\ ord'[k].filled = ord[k].filled
  /\ \/ ord'[k].qty = ord[k].qty /\ (Live(ord', k) => Live(ord, k))
     \/ Fresher(k) /\ ord[k] = NoOrder /\ ord'[k] = NewOrder(Quantity(req))

\* What a request does to each order.
LEMMA SentIs ==
  ASSUME BooksInv, Sends PROVE Placing
<1>1. BaseInv /\ Working /\ pc = "post" /\ Sendable /\ ord' = Placed(req) /\ BookTypes
  BY DEF BooksInv, CoreInv, BaseInv, OrdersInv, Sends
<1>2. /\ ord[req] = NoOrder
      /\ \A i \in LotIx : req = Protect(i) => \A k \in LotKeys(i) : ord[k] = NoOrder
  BY <1>1, UnplacedIs DEF BooksInv, Unplaced
<1> DEFINE new == NewOrder(Quantity(req))
<1>3. req \in Keys /\ ord \in [Keys -> Order] /\ new.filled = 0 /\ NoOrder.filled = 0
  BY <1>1, QuantityIs DEF Keys, BookTypes, NewOrder, NoOrder
<1> HIDE DEF new
<1>4. CASE ord' = [ord EXCEPT ![req] = new]
  <2> SUFFICES ASSUME NEW k \in Keys
               PROVE  /\ ord'[k].filled = ord[k].filled
                      /\ \/ ord'[k].qty = ord[k].qty /\ (Live(ord', k) => Live(ord, k))
                         \/ Fresher(k) /\ ord[k] = NoOrder /\ ord'[k] = new
    BY DEF Placing, new
  <2> QED BY <1>2, <1>3, <1>4 DEF Live, Fresher
<1>5. ASSUME NEW i \in LotIx, req = Protect(i), TakeProfit,
             ord' = [ord EXCEPT ![req] = new, ![StopLeg(i)] = new]
      PROVE  Placing
  <2>1. ord[StopLeg(i)] = NoOrder
    BY <1>2, <1>5, LotKeyFacts
  <2> SUFFICES ASSUME NEW k \in Keys
               PROVE  /\ ord'[k].filled = ord[k].filled
                      /\ \/ ord'[k].qty = ord[k].qty /\ (Live(ord', k) => Live(ord, k))
                         \/ Fresher(k) /\ ord[k] = NoOrder /\ ord'[k] = new
    BY DEF Placing, new
  <2> QED BY <1>2, <1>3, <1>5, <2>1 DEF Live, Fresher
<1>6. ASSUME NEW i \in LotIx, NEW l \in 2 .. MaxStop, req = Tighten(i, l),
             ord' = [ord EXCEPT ![lots[i].stopId].st = "replaced", ![req] = new]
      PROVE  Placing
  <2> DEFINE s == lots[i].stopId
  <2>1. s \in Keys
    BY <1>1, <1>6, QuantityIs
  <2> HIDE DEF s
  <2> SUFFICES ASSUME NEW k \in Keys
               PROVE  /\ ord'[k].filled = ord[k].filled
                      /\ \/ ord'[k].qty = ord[k].qty /\ (Live(ord', k) => Live(ord, k))
                         \/ Fresher(k) /\ ord[k] = NoOrder /\ ord'[k] = new
    BY DEF Placing, new
  <2>2. CASE k = req
    BY <1>2, <1>3, <1>6, <2>2 DEF Fresher, s
  <2>3. CASE k # req /\ k = s
    <3>1. ord'[k] = [ord[k] EXCEPT !.st = "replaced"] /\ ord[k] \in Order
      BY <1>3, <1>6, <2>1, <2>3 DEF s
    <3> QED BY <3>1 DEF Live, Order
  <2>4. CASE k # req /\ k # s
    BY <1>3, <1>6, <2>4 DEF Live, s
  <2> QED BY <2>2, <2>3, <2>4
<1> QED BY <1>1, <1>4, <1>5, <1>6, PlacedIs DEF new

\* What every step does to each order.
LEMMA OrdersKinds ==
  ASSUME BooksInv, [Next]_vars
  PROVE  /\ Steady \/ Fills \/ (Sends /\ Placing)
         /\ \A k \in Keys : ord'[k].filled = ord[k].filled \/ (BrokerFill(k) /\ ord'[k].filled = ord[k].filled + 1)
<1>1. BaseInv /\ Working /\ Paired /\ BookTypes /\ OrdersMove
  BY StepIs DEF BooksInv, CoreInv, BaseInv, OrdersInv, CoreStep
<1>2. CASE ord' = ord
  BY <1>2 DEF Steady
<1>3. CASE Cancels
  <2>1. PICK k : ord' = Canceled(ord, k)
    BY <1>3 DEF Cancels
  <2>2. \A x \in Keys : /\ ord'[x].qty = ord[x].qty /\ ord'[x].filled = ord[x].filled
                        /\ \/ ord'[x] = ord[x]
                           \/ ord'[x].st = "canceled" /\ Live(ord, x)
    BY <1>1, <2>1, CanceledIs
  <2> QED BY <2>2 DEF Steady, Live
<1>4. CASE Fills
  <2>1. PICK k \in Keys : BrokerFill(k)
    BY <1>4 DEF Fills
  <2>2. \A x \in Keys : ord'[x].filled = IF x = k THEN ord[x].filled + 1 ELSE ord[x].filled
    BY <1>1, <2>1, FilledIs
  <2> QED BY <1>4, <2>1, <2>2
<1>5. CASE Sends
  BY <1>5, SentIs DEF Placing
<1> QED BY <1>1, <1>2, <1>3, <1>4, <1>5 DEF OrdersMove, Steady

-----------------------------------------------------------------------------
Rearms  == {Rearm(i) : i \in LotIx}
Closing == pc = "deadline" \/ ops[Exit] # "none"

\* Where a tick looks at the market or takes protections down, nothing is
\* unresolved; a replacement is asked for when nothing else is.
CalmInv == /\ CalmPlace => Pending = {}
           /\ pc = "post" /\ req \in TightenKeys => Pending = {req}

\* From the deadline on every held lot has its stop, and only the exit and the
\* safety stops are asked for.
ClosingInv == Closing => Unprotected = {} /\ Pending \subseteq {Exit} \cup Rearms

\* Safety stops come after the exit is over.
RearmInv == pc = "rearmLots" \/ (\E i \in LotIx : ops[Rearm(i)] # "none") => ops[Exit] = "DONE"

\* What a policy never does.
LegInv   == ~TakeProfit => \A i \in LotIx : ord[StopLeg(i)] = NoOrder
TrailInv == ~Trailing => \A k \in TightenKeys : ops[k] = "none"

\* An emergency stop ends in a review.
EmergencyInv == \A k \in EmergencyKeys : ops[k] # "DONE" /\ (ops[k] = "MANUAL_REVIEW" => review)

PhaseInv == CalmInv /\ ClosingInv /\ RearmInv /\ LegInv /\ TrailInv /\ EmergencyInv

\* All that is said of one step so far.
SellStep == /\ CoreStep /\ Moves /\ LotsMove /\ BuyMove /\ LotsStay
            /\ PlaceMove /\ DoneMove /\ PolicyMove /\ LotsSeen /\ OrdersGood
            /\ Steady \/ Fills \/ (Sends /\ Placing)
            /\ \A k \in Keys : ord'[k].filled = ord[k].filled
                 \/ (BrokerFill(k) /\ ord'[k].filled = ord[k].filled + 1)

\* Every step is one of those the lemmas above speak of.
LEMMA SellStepIs ==
  ASSUME BooksInv, [Next]_vars PROVE SellStep
<1>1. BaseInv /\ TodoPending /\ Reserved
  BY DEF BooksInv, CoreInv
<1> QED BY <1>1, StepIs, PlacesStep, DoneStep, PolicyStep, SeenStep, OrdersKinds DEF SellStep

\* An operation comes to be unresolved when it is reserved.
LEMMA NewPending ==
  ASSUME CoreStep, NEW k \in Pending', k \notin Pending
  PROVE  /\ Reserves /\ k = req' /\ k \in OpKeys
  BY DEF CoreStep, OpsMove, Pending

\* Calm places stay calm.
LEMMA CalmStep ==
  ASSUME BooksInv, PhaseInv, SellStep PROVE CalmInv'
<1>1. BaseInv /\ ExitPath /\ Typed /\ CalmInv /\ Turns /\ PlaceMove
  BY DEF BooksInv, CoreInv, BaseInv, OutboxInv, PhaseInv, SellStep, CoreStep
<1>2. ASSUME CalmPlace' PROVE Pending' = {}
  <2>1. CASE CalmPlace /\ ops' = ops
    BY <1>1, <2>1 DEF CalmInv, Pending
  <2>2. CASE GateDeadline \/ GateMarket
    BY <2>2 DEF GateDeadline, GateMarket, Pending, saved, Abort
  <2>3. CASE AcceptTighten
    <3>1. pc = "post" /\ Action = "TIGHTEN" /\ ops' = [ops EXCEPT ![req] = "DONE"]
      BY <2>3 DEF AcceptTighten, Posting, At, Ends
    <3>2. req \in TightenKeys /\ Pending = {req}
      BY <1>1, <3>1, RequestKinds, Families DEF CalmInv
    <3> QED BY <1>1, <3>1, <3>2 DEF Pending, Typed, Unresolved
  <2> QED BY <1>1, <1>2, <2>1, <2>2, <2>3 DEF PlaceMove
<1>3. ASSUME pc' = "post", req' \in TightenKeys PROVE Pending' = {req'}
  <2>1. CASE Waits
    <3>1. pc = "post" \/ pc = "attach"
      BY <1>3, <2>1 DEF Waits
    <3>2. req = req' /\ ops' = ops
      BY <2>1 DEF Waits
    <3>3. pc # "attach"
      BY <1>1, <1>3, <3>2, Families DEF ExitPath
    <3> QED BY <1>1, <1>3, <3>1, <3>2, <3>3 DEF CalmInv, Pending
  <2>2. CASE Reserves
    <3>1. PICK i \in LotIx, l \in 2 .. MaxStop : req' = Tighten(i, l)
      BY <1>3 DEF TightenKeys
    <3>2. Pending = {} /\ ops' = [ops EXCEPT ![req'] = "RESERVED"] /\ req' \in OpKeys
      BY <2>2, <3>1 DEF Reserves, Granted
    <3> QED BY <1>1, <3>2 DEF Pending, Typed, Unresolved
  <2> QED BY <1>1, <1>3, <2>1, <2>2 DEF Turns
<1> QED BY <1>2, <1>3 DEF CalmInv

\* While the exit is under way no buy has anything left to book.
LEMMA NoBuyClosing ==
  ASSUME BooksInv, PhaseInv, Closing
  PROVE  /\ \A k \in BuyKeys : k \notin Pending /\ booked[k] = ord[k].filled /\ NewFill(k) = 0
         /\ ~Appends
<1>1. BuyOps /\ BuySums /\ Typed /\ BookTypes /\ Fresh /\ Once
  BY DEF BooksInv, Sums, CoreInv, BaseInv, OutboxInv, OrdersInv
<1>2. Pending \subseteq {Exit} \cup Rearms
  BY DEF PhaseInv, ClosingInv
<1>3. ASSUME NEW k \in BuyKeys
     PROVE  k \notin Pending /\ booked[k] = ord[k].filled /\ NewFill(k) = 0
  <2>1. k \in OpKeys /\ k \notin {Exit} \cup Rearms /\ k \in Keys
    BY Families DEF Rearms
  <2>2. k \notin Pending
    BY <1>2, <2>1
  <2>3. booked[k] \in Nat /\ ord[k].filled \in Nat /\ booked[k] <= ord[k].filled
    BY <1>1, <2>1, OrderFields DEF BuySums, BookTypes
  <2>4. CASE ops[k] = "none"
    BY <1>1, <2>2, <2>3, <2>4 DEF BuyOps, NewFill
  <2>5. CASE ops[k] = "DONE"
    BY <1>1, <2>2, <2>3, <2>5 DEF BuyOps, NewFill
  <2>6. ops[k] = "none" \/ ops[k] = "DONE"
    BY <1>1, <2>1, <2>2 DEF BuyOps, Typed, OpStatus, Pending, Unresolved
  <2> QED BY <2>2, <2>3, <2>4, <2>5, <2>6 DEF NewFill
<1> QED BY <1>3 DEF Appends

\* What may be asked for while the exit is under way.
LEMMA ClosingAsks ==
  ASSUME BooksInv, PhaseInv, SellStep, Closing, NEW k \in Pending', k \notin Pending
  PROVE  k \in {Exit} \cup Rearms
<1>1. BaseInv /\ ExitPath /\ TodoPending /\ Typed
  BY DEF BooksInv, CoreInv, BaseInv, OutboxInv
<1>2. k \in OpKeys /\ Granted(k) /\ ops' = [ops EXCEPT ![k] = "RESERVED"]
  BY NewPending DEF SellStep, Reserves
<1>3. k \notin BuyKeys
  <2> SUFFICES ASSUME k \in BuyKeys PROVE FALSE
    OBVIOUS
  <2>1. ops[k] # "DONE" /\ ops'[k] # "none"
    BY <1>1, <1>2 DEF SellStep, BuyMove, Typed
  <2>2. ops[k] = "none"
    BY <1>1, <1>2, <2>1 DEF Typed, OpStatus, Pending, Unresolved, BooksInv, BuyOps
  <2>3. PICK q \in LotIx : BuyReserve(k, q)
    BY <2>1, <2>2 DEF SellStep, BuyMove
  <2>4. due /\ DOMAIN lots # {}
    BY <1>1 DEF ExitPath, Closing
  <2> QED BY <2>3, <2>4 DEF BuyReserve, MayEnter, MayAdd
<1>4. \A i \in LotIx : k # Protect(i)
  BY <1>2 DEF Granted, PhaseInv, ClosingInv, Unprotected
<1>5. \A i \in LotIx, l \in 2 .. MaxStop : k # Tighten(i, l)
  BY <1>1, <1>2 DEF Granted, ExitPath, Closing
<1>6. k \notin EmergencyKeys
  <2> SUFFICES ASSUME k \in EmergencyKeys PROVE FALSE
    OBVIOUS
  <2>1. ops'[k] # ops[k] /\ ops[k] \notin Unresolved
    BY <1>1, <1>2 DEF Typed, Pending, Unresolved
  <2>2. PICK x \in BuyKeys, q \in LotIx : ReceiptMissing(x, q)
    BY <2>1 DEF SellStep, PolicyMove
  <2>3. x \in Pending
    BY <1>1, <2>2 DEF ReceiptMissing, Found, At, TodoPending
  <2> QED BY <2>3, NoBuyClosing
<1> QED BY <1>2, <1>3, <1>4, <1>5, <1>6, OpKinds DEF Rearms

\* Every held lot keeps its stop while no lot is added.
LEMMA StaysProtected ==
  ASSUME BooksInv, SellStep, Unprotected = {}, ~Appends PROVE Unprotected' = {}
<1>1. BookTypes /\ LotsSeen /\ LotsStay
  BY DEF BooksInv, CoreInv, BaseInv, SellStep
<1>2. \A i \in DOMAIN lots' : i \in DOMAIN lots
  BY <1>1 DEF LotsSeen
<1>3. \A i \in DOMAIN lots : lots[i].rem \in Nat /\ lots'[i].rem \in Nat /\ lots'[i].rem <= lots[i].rem
  BY <1>1, LotFields DEF LotsSeen
<1> QED BY <1>2, <1>3, <1>1 DEF Unprotected, Held, LotsStay

\* The way to the exit stays clear.
LEMMA ClosingStep ==
  ASSUME BooksInv, ControlInv, PhaseInv, SellStep PROVE ClosingInv'
<1>1. BaseInv /\ Typed /\ CoreStep /\ BookTypes /\ Exit \in OpKeys
  BY Families DEF BooksInv, CoreInv, BaseInv, OutboxInv, SellStep
<1>2. CASE Closing
  <2>1. Unprotected' = {}
    BY <1>2, NoBuyClosing, StaysProtected DEF PhaseInv, ClosingInv
  <2>2. Pending' \subseteq {Exit} \cup Rearms
    BY <1>2, ClosingAsks DEF PhaseInv, ClosingInv
  <2> QED BY <2>1, <2>2 DEF ClosingInv, Rearms
<1>3. CASE ~Closing /\ Closing'
  <2>1. ops'[Exit] = "none"
    <3> SUFFICES ASSUME ops'[Exit] # "none" PROVE FALSE
      OBVIOUS
    <3>1. Reserves /\ Exit = req'
      BY <1>1, <1>3 DEF CoreStep, OnlyReserved, Closing
    <3>2. pc = "deadline"
      BY <3>1 DEF Reserves, Granted
    <3> QED BY <1>3, <3>2 DEF Closing
  <2>2. pc' = "deadline" /\ pc # "deadline"
    BY <1>3, <2>1 DEF Closing
  <2>3. GateDeadline
    BY <2>2 DEF SellStep, PlaceMove, DeadlineCancel, DeadlineSkip, At
  <2>4. Pending = {} /\ pc = "gate" /\ UNCHANGED <<ops, lots>>
    BY <2>3 DEF GateDeadline, saved, At
  <2>5. Unprotected = {}
    <3>1. Clear
      BY <2>4 DEF ControlInv, PathInv, Path
    <3>2. \A i \in LotIx : ops[Protect(i)] \notin Unresolved
      BY <2>4, Families DEF Pending
    <3> QED BY <3>1, <3>2 DEF Clear
  <2>6. Unprotected' = Unprotected /\ Pending' = Pending
    BY <2>4 DEF Unprotected, Held, Pending
  <2> QED BY <2>4, <2>5, <2>6 DEF ClosingInv
<1> QED BY <1>2, <1>3 DEF ClosingInv

\* A done exit stays done, and no safety stop precedes it.
LEMMA RearmStepInv ==
  ASSUME BooksInv, PhaseInv, SellStep PROVE RearmInv'
<1>1. BaseInv /\ Typed /\ CoreStep /\ NoExit /\ RearmInv
  BY DEF BooksInv, CoreInv, BaseInv, OutboxInv, SellStep, PhaseInv
<1>2. ASSUME ops[Exit] = "DONE" PROVE ops'[Exit] = "DONE"
  <2>1. ~(Reserves /\ Exit = req')
    BY <1>1, <1>2 DEF Reserves, Granted, NoExit
  <2> QED BY <1>1, <1>2, <2>1, Families DEF CoreStep, OpsMove, Unresolved
<1>3. ASSUME pc' = "rearmLots" PROVE ops[Exit] = "DONE"
  <2>1. CASE RearmStart
    BY <1>3, <2>1 DEF RearmStart, ExitFailed, Abort, Goto, At
  <2>2. CASE AcceptRearm
    <3>1. pc = "post" /\ Action = "REARM"
      BY <2>2 DEF AcceptRearm, Posting, At
    <3>2. PICK i \in LotIx : req = Rearm(i) /\ ops[req] # "none"
      BY <1>1, <3>1, RequestKinds
    <3> QED BY <1>1, <3>2 DEF RearmInv
  <2> QED BY <1>1, <1>3, <2>1, <2>2 DEF SellStep, PlaceMove, RearmInv
<1>4. ASSUME NEW i \in LotIx, ops'[Rearm(i)] # "none" PROVE ops[Exit] = "DONE"
  <2>1. CASE ops[Rearm(i)] # "none"
    BY <1>1, <2>1 DEF RearmInv
  <2>2. CASE Reserves /\ Rearm(i) = req'
    BY <1>1, <2>2 DEF Reserves, Granted, RearmInv
  <2> QED BY <1>1, <1>4, <2>1, <2>2, Families DEF CoreStep, OnlyReserved
<1> QED BY <1>2, <1>3, <1>4 DEF RearmInv

\* A policy without take-profit makes no OCO.
LEMMA LegStep ==
  ASSUME BooksInv, PhaseInv, SellStep PROVE LegInv'
<1> SUFFICES ASSUME ~TakeProfit, NEW i \in LotIx PROVE ord'[StopLeg(i)] = NoOrder
  BY DEF LegInv
<1>1. StopLeg(i) \in Keys /\ StopLeg(i) \notin OpKeys /\ ord[StopLeg(i)] = NoOrder
  BY Families, OpKinds DEF PhaseInv, LegInv, BuyKeys
<1>2. BaseInv /\ Working /\ OrdersMove /\ BookTypes
  BY DEF BooksInv, CoreInv, BaseInv, OrdersInv, SellStep, CoreStep
<1>3. CASE Sends
  <2>1. pc = "post" /\ Sendable /\ ord' = Placed(req)
    BY <1>3 DEF Sends
  <2>2. req # StopLeg(i)
    BY <1>1, <1>2, <2>1, QuantityIs
  <2>3. ord \in [Keys -> Order]
    BY <1>2 DEF BookTypes
  <2>4. \A s : Live(ord, s) => s # StopLeg(i)
    BY <1>1 DEF Live, NoOrder
  <2>5. \A j \in LotIx, l \in 2 .. MaxStop : req = Tighten(j, l) => lots[j].stopId # StopLeg(i)
    BY <1>2, <2>1, <2>4, QuantityIs
  <2>6. \/ ord' = [ord EXCEPT ![req] = NewOrder(Quantity(req))]
        \/ \E j \in LotIx, l \in 2 .. MaxStop : /\ req = Tighten(j, l)
              /\ ord' = [ord EXCEPT ![lots[j].stopId].st = "replaced", ![req] = NewOrder(Quantity(req))]
    BY <1>2, <2>1, PlacedIs
  <2> QED BY <1>1, <2>2, <2>3, <2>5, <2>6
<1>4. CASE ~Sends
  BY <1>1, <1>2, <1>4, OrdersNew
<1> QED BY <1>3, <1>4

\* Without trailing stops no replacement is asked for.
LEMMA TrailStep ==
  ASSUME BooksInv, PhaseInv, SellStep PROVE TrailInv'
<1> SUFFICES ASSUME ~Trailing, NEW k \in TightenKeys, ops'[k] # "none" PROVE FALSE
  BY DEF TrailInv
<1>1. ops[k] = "none" /\ k \in OpKeys
  BY Families DEF PhaseInv, TrailInv
<1>2. Reserves /\ k = req'
  BY <1>1 DEF SellStep, CoreStep, OnlyReserved
<1>3. pc = "tighten"
  BY <1>2 DEF Reserves, Granted, TightenKeys
<1>4. ops' # ops
  BY <1>1
<1> QED BY <1>3, <1>4 DEF SellStep, PolicyMove

\* An emergency stop is never simply done.
LEMMA EmergencyStep ==
  ASSUME BooksInv, PhaseInv, SellStep PROVE EmergencyInv'
<1> SUFFICES ASSUME NEW k \in EmergencyKeys
             PROVE  ops'[k] # "DONE" /\ (ops'[k] = "MANUAL_REVIEW" => review')
  BY DEF EmergencyInv
<1>1. k \in OpKeys /\ k[1] = "EMERGENCY_STOP" /\ k \notin BuyKeys /\ k # Exit /\ k \notin TightenKeys
      /\ \A i \in LotIx : k # Protect(i) /\ k # Rearm(i)
  BY Families
<1>2. Typed /\ ops[k] # "DONE" /\ (ops[k] = "MANUAL_REVIEW" => review) /\ (review => review')
  BY DEF BooksInv, CoreInv, BaseInv, OutboxInv, PhaseInv, EmergencyInv, SellStep, PolicyMove
<1>3. CASE ops'[k] = ops[k]
  BY <1>2, <1>3
<1>4. CASE Reserves /\ k = req'
  BY <1>1, <1>2, <1>4 DEF Reserves, Typed
<1>5. CASE ops[k] \in Unresolved /\ ops'[k] \notin Unresolved
  <2>1. DoneBy(k)
    BY <1>1, <1>5 DEF SellStep, DoneMove
  <2>2. k = req /\ (AcceptProtect \/ AcceptTighten \/ AcceptEmergency \/ Rejected)
    BY <1>1, <2>1 DEF DoneBy, TightenKeys
  <2>3. ~AcceptProtect /\ ~AcceptTighten
    BY <1>1, <2>2 DEF AcceptProtect, AcceptTighten, Action
  <2>4. ~Rejected
    BY <1>1, <1>5, <2>2 DEF Rejected
  <2>5. AcceptEmergency
    BY <2>2, <2>3, <2>4
  <2> QED BY <1>1, <1>2, <2>2, <2>5 DEF AcceptEmergency, Ends, Typed
<1>6. CASE ops'[k] \in Unresolved
  BY <1>6 DEF Unresolved
<1> QED BY <1>1, <1>3, <1>4, <1>5, <1>6 DEF SellStep, CoreStep, OpsMove

\* A new campaign is calm.
LEMMA PhaseInit == Init => PhaseInv
<1> SUFFICES ASSUME Init PROVE PhaseInv
  OBVIOUS
<1>1. /\ \A k \in OpKeys : ops[k] = "none"
      /\ \A k \in Keys : ord[k] = NoOrder
      /\ pc = "idle" /\ Pending = {}
  BY DEF Init, Pending, Unresolved
<1> QED BY <1>1, Families DEF PhaseInv, CalmInv, CalmPlace, ClosingInv, Closing, RearmInv,
     LegInv, TrailInv,
  EmergencyInv

\* Every step keeps the phases of the campaign apart.
LEMMA PhaseStep ==
  ASSUME BooksInv, ControlInv, PhaseInv, SellStep PROVE PhaseInv'
BY CalmStep, ClosingStep, RearmStepInv, LegStep, TrailStep, EmergencyStep DEF PhaseInv

-----------------------------------------------------------------------------
\* The operation that asks for an order on a lot: an OCO's is its parent's.
Asker(k) == IF k[1] = "LEG" THEN Protect(k[2]) ELSE k
NamedBy(i, k) == i \in DOMAIN lots /\ k \in {lots[i].stopId, lots[i].tpId}

\* An order on a lot that may still trade, or traded unseen.
Open(i, k) == \/ Live(ord, k)
              \/ ~Trailing /\ i \in DOMAIN lots /\ lots[i].seen[k] < ord[k].filled

\* Such an order is asked for or stands on its lot.
Known == \A i \in LotIx : \A k \in LotNames(i) :
           Open(i, k) => ops[Asker(k)] \in Unresolved \/ NamedBy(i, k)

\* No lot has more shares on sale than it has left, seen or not.
Cover == \A i \in DOMAIN lots :
  /\ Sold(i) + lots[i].seen[Exit] <= lots[i].qty
  /\ \A k \in LotNames(i) : Live(ord, k) => Left(k) + Sold(i) + lots[i].seen[Exit] <= lots[i].qty

\* The deadline leaves no order on the lots it went through.
DownInv == pc = "deadline" => \A i \in DOMAIN lots : i < cur => \A k \in LotNames(i) : ~Live(ord, k)

\* Once the exit is asked for, everything the protections sold was seen.
SoldInv == ops[Exit] # "none" => \A i \in DOMAIN lots : \A k \in LotKeys(i) :
             ~Live(ord, k) /\ ord[k].filled = lots[i].seen[k]

\* The exit takes no more than what is left, and is over when it is done.
ExitInv ==
  /\ ops[Exit] # "MANUAL_REVIEW" /\ ord[Exit].filled <= ord[Exit].qty
  /\ ops[Exit] = "DONE" => ~Live(ord, Exit) /\ ord[Exit].filled = exitBooked
  /\ ops[Exit] \in Unresolved =>
       ord[Exit].qty + SumFunctionOnSet(SoldOf, LotIx) <= booked[Entry] + booked[AddOn]

SellInv == PhaseInv /\ Known /\ Cover /\ DownInv /\ SoldInv /\ ExitInv

\* The orders on a lot and who asks for them.
LEMMA Askers ==
  ASSUME NEW i \in LotIx, NEW k \in LotNames(i)
  PROVE  /\ k \in Keys /\ k \in SellKeys \ {Exit} /\ Asker(k) \in OpKeys
         /\ StopLeg(i) \notin OpKeys
         /\ \/ k = Protect(i) /\ Asker(k) = Protect(i)
            \/ k = StopLeg(i) /\ Asker(k) = Protect(i) /\ k \notin OpKeys
            \/ k = Rearm(i) /\ Asker(k) = k
            \/ \E l \in 2 .. MaxStop : k = Tighten(i, l) /\ Asker(k) = k /\ k \in TightenKeys
<1>1. k \in Keys /\ k \in SellKeys \ {Exit}
  BY LotKeyFacts DEF SellKeys
<1>0. StopLeg(i) \notin OpKeys
  BY Families, OpKinds DEF BuyKeys
<1>2. CASE k = Protect(i)
  BY <1>0, <1>1, <1>2, Families DEF Asker
<1>3. CASE k = StopLeg(i)
  BY <1>0, <1>1, <1>3, Families DEF Asker
<1>4. CASE k = Rearm(i)
  BY <1>0, <1>1, <1>4, Families DEF Asker
<1>5. CASE \E l \in 2 .. MaxStop : k = Tighten(i, l)
  BY <1>0, <1>1, <1>5, Families DEF Asker
<1> QED BY <1>2, <1>3, <1>4, <1>5 DEF LotNames, LotKeys

\* No order precedes its operation.
LEMMA AskedFirst ==
  ASSUME BooksInv
  PROVE  /\ \A k \in OpKeys : ops[k] = "none" => ord[k] = NoOrder
         /\ \A i \in LotIx : \A k \in LotNames(i) : ops[Asker(k)] = "none" => ord[k] = NoOrder
<1>1. Fresh /\ Once
  BY DEF BooksInv, CoreInv, OrdersInv, BaseInv, OutboxInv
<1>2. \A k \in OpKeys : ops[k] = "none" => ord[k] = NoOrder
  BY <1>1 DEF Fresh, Once, PostKeys
<1>3. \A i \in LotIx : ops[Protect(i)] = "none" => ord[StopLeg(i)] = NoOrder
  BY <1>1, KeyFacts DEF Fresh, Once
<1> QED BY <1>2, <1>3, Askers

\* Before the exit is done no safety stop is asked for or placed.
LEMMA NoRearm ==
  ASSUME BooksInv, PhaseInv, NEW i \in LotIx, ops[Exit] # "DONE"
  PROVE  ops[Rearm(i)] = "none" /\ ord[Rearm(i)] = NoOrder
BY AskedFirst, Families DEF PhaseInv, RearmInv

\* From the deadline on no protection is asked for.
LEMMA NoProtection ==
  ASSUME BooksInv, PhaseInv, Closing, NEW i \in LotIx, NEW k \in LotKeys(i)
  PROVE  ops[Asker(k)] \notin Unresolved
<1>1. k \in LotNames(i)
  BY DEF LotNames
<1>2. Asker(k) \in OpKeys /\ (Asker(k))[1] \in {"PROTECT", "TIGHTEN"}
  BY <1>1, Askers, Families, LotKeyFacts
<1>3. Asker(k) \notin {Exit} \cup Rearms
  BY <1>2, Families DEF Rearms
<1> QED BY <1>2, <1>3 DEF PhaseInv, ClosingInv, Pending

\* The operation of a request that is about to be sent.
LEMMA SentAsks ==
  ASSUME BooksInv, Sends, NEW i \in LotIx, NEW k \in LotNames(i), Fresher(k)
  PROVE  /\ req = Asker(k) /\ ops[req] = "RESERVED"
         /\ k = StopLeg(i) => TakeProfit
<1>1. pc = "post" /\ req \in OpKeys
  BY DEF Sends, BooksInv, CoreInv, BaseInv, OutboxInv, Durable
<1>2. ops[req] = "RESERVED"
  BY <1>1 DEF BooksInv, CoreInv, Reserved
<1>3. ASSUME k = req PROVE req = Asker(k)
  BY <1>1, <1>3, Askers
<1>4. ASSUME TakeProfit, NEW j \in LotIx, req = Protect(j), k = StopLeg(j) PROVE req = Asker(k)
  BY <1>4, Families DEF Asker
<1>5. k = StopLeg(i) => TakeProfit
  BY <1>1, Askers DEF Fresher
<1> QED BY <1>2, <1>3, <1>4, <1>5 DEF Fresher

\* Where a live order comes from.
LEMMA LiveComes ==
  ASSUME BooksInv, SellStep, NEW k \in Keys, Live(ord', k)
  PROVE  \/ Live(ord, k)
         \/ Sends /\ Placing /\ Fresher(k) /\ ord[k] = NoOrder /\ ord'[k] = NewOrder(Quantity(req))
<1>1. CASE Steady
  BY <1>1 DEF Steady
<1>2. CASE Fills
  <2>1. PICK x \in Keys : BrokerFill(x)
    BY <1>2 DEF Fills
  <2>2. BaseInv /\ Working /\ Paired
    BY DEF BooksInv, CoreInv, OrdersInv
  <2> QED BY <2>1, <2>2, FilledIs DEF Live
<1>3. CASE Sends /\ Placing
  BY <1>3 DEF Placing
<1> QED BY <1>1, <1>2, <1>3 DEF SellStep

\* An open order was asked for or standing before the step.
LEMMA KnownBefore ==
  ASSUME BooksInv, SellInv, SellStep, NEW i \in LotIx, NEW k \in LotNames(i), Open(i, k)'
  PROVE  ops[Asker(k)] \in Unresolved \/ NamedBy(i, k)
<1>1. Known /\ k \in Keys /\ k \in SellKeys \ {Exit} /\ BookTypes /\ CoreInv
  BY Askers DEF SellInv, BooksInv, CoreInv, BaseInv
<1>2. CASE Live(ord', k)
  <2>1. CASE Live(ord, k)
    BY <1>1, <2>1 DEF Known, Open
  <2>2. CASE Sends /\ Fresher(k)
    BY <2>2, SentAsks DEF Unresolved
  <2> QED BY <1>1, <1>2, <2>1, <2>2, LiveComes
<1>3. CASE ~Trailing /\ i \in DOMAIN lots' /\ lots'[i].seen[k] < ord'[k].filled
  <2>1. CASE i \in DOMAIN lots
    <3>1. lots[i].seen[k] \in Nat /\ ord[k].filled \in Nat
      BY <1>1, <2>1, LotFields, OrderFields
    <3>2. ord'[k].filled = ord[k].filled \/ (BrokerFill(k) /\ ord'[k].filled = ord[k].filled + 1)
      BY <1>1 DEF SellStep
    <3>3. lots'[i].seen[k] = lots[i].seen[k]
      BY <1>1, <1>3, <2>1, <3>1, <3>2 DEF SellStep, LotsSeen
    <3>4. Open(i, k)
      BY <1>3, <2>1, <3>1, <3>2, <3>3 DEF Open, BrokerFill
    <3> QED BY <1>1, <3>4 DEF Known
  <2>2. CASE i \notin DOMAIN lots
    <3>1. ord[k] = NoOrder
      BY <1>1, <2>2, NoLotNoOrder
    <3>2. lots'[i].seen[k] = 0 /\ ord' = ord
      BY <1>1, <1>3, <2>2 DEF SellStep, LotsSeen
    <3> QED BY <1>3, <3>1, <3>2 DEF NoOrder
  <2> QED BY <2>1, <2>2
<1> QED BY <1>2, <1>3 DEF Open

\* The protection of a lot is attached.
LEMMA AttachedNames ==
  ASSUME BookTypes, NEW i \in DOMAIN lots, lots' = Attached(i)
  PROVE  /\ i \in DOMAIN lots'
         /\ lots'[i].stopId = IF TakeProfit THEN StopLeg(i) ELSE Protect(i)
         /\ TakeProfit => lots'[i].tpId = Protect(i)
<1> DEFINE s == IF TakeProfit THEN StopLeg(i) ELSE Protect(i)
           t == IF TakeProfit THEN Protect(i) ELSE NoKey
<1>1. lots' = [lots EXCEPT ![i].stopId = s, ![i].tpId = t]
  BY DEF Attached
<1>2. lots[i] \in Lot /\ lots \in Seq(Lot)
  BY LotFields DEF BookTypes
<1>3. TakeProfit => t = Protect(i)
  OBVIOUS
<1>4. s = IF TakeProfit THEN StopLeg(i) ELSE Protect(i)
  OBVIOUS
<1> HIDE DEF s, t
<1>5. i \in DOMAIN lots' /\ lots'[i] = [[lots[i] EXCEPT !.stopId = s] EXCEPT !.tpId = t]
  BY <1>1, <1>2
<1>6. lots'[i].stopId = s /\ lots'[i].tpId = t
  BY <1>2, <1>5 DEF Lot
<1> QED BY <1>3, <1>4, <1>5, <1>6

\* What was asked for is known once it is no longer asked for.
LEMMA AnsweredKnown ==
  ASSUME BooksInv, SellInv, SellStep, LegInv', NEW i \in LotIx, NEW k \in LotNames(i), Open(i, k)',
         ops[Asker(k)] \in Unresolved, ops'[Asker(k)] \notin Unresolved
  PROVE  NamedBy(i, k)'
<1>1. BaseInv /\ BookTypes /\ LotOps /\ Typed /\ DoneBy(Asker(k)) /\ k \in Keys /\ k \in SellKeys
  BY Askers DEF BooksInv, CoreInv, BaseInv, OutboxInv, SellStep, DoneMove
<1>2. Protect(i) \notin BuyKeys /\ Rearm(i) \notin BuyKeys /\ Rearm(i) # Exit /\ Protect(i) # Exit
      /\ \A j \in LotIx : Protect(i) # Rearm(j) /\ Protect(j) # Rearm(i) /\ (Protect(i) = Protect(j) => i = j)
                          /\ (Rearm(i) = Rearm(j) => i = j)
      /\ \A m \in LotIx, l \in 2 .. MaxStop : Tighten(m, l) # Protect(i) /\ Tighten(m, l) # Rearm(i)
  BY Families
<1>3. CASE k \in {Protect(i), StopLeg(i)}
  <2>1. Asker(k) = Protect(i) /\ ops[Protect(i)] # "none" /\ i \in DOMAIN lots
    BY <1>1, <1>3, Askers, Families DEF LotOps, Unresolved
  <2>2. ReconcileProtect(i) \/ (Protect(i) = req /\ (AcceptProtect \/ AcceptTighten \/ AcceptEmergency \/ Rejected))
    BY <1>1, <1>2, <2>1 DEF DoneBy
  <2>3. ~(Protect(i) = req /\ (AcceptTighten \/ AcceptEmergency \/ Rejected))
    BY <1>2, <2>1, Families DEF AcceptTighten, AcceptEmergency, Rejected, Action
  <2>4. lots' = Attached(i)
    BY <2>2, <2>3, Families DEF ReconcileProtect, AcceptProtect
  <2>5. /\ i \in DOMAIN lots'
        /\ lots'[i].stopId = IF TakeProfit THEN StopLeg(i) ELSE Protect(i)
        /\ TakeProfit => lots'[i].tpId = Protect(i)
    BY <1>1, <2>1, <2>4, AttachedNames
  <2>6. CASE k = StopLeg(i) /\ ~TakeProfit
    <3>1. ord'[k] = NoOrder
      BY <2>6 DEF LegInv
    <3>2. lots[i].seen[k] \in Nat /\ lots'[i].seen[k] \in {lots[i].seen[k], ord'[k].filled}
      BY <1>1, <2>1, LotFields, Askers DEF SellStep, LotsSeen
    <3> QED BY <3>1, <3>2 DEF Open, Live, NoOrder
  <2> QED BY <1>3, <2>5, <2>6 DEF NamedBy
<1>4. CASE k = Rearm(i)
  <2>1. Asker(k) = Rearm(i) /\ ops[Rearm(i)] # "none" /\ i \in DOMAIN lots
    BY <1>1, <1>4, Askers, Families DEF LotOps, Unresolved
  <2>2. ReconcileRearm(i) \/ (Rearm(i) = req /\ (AcceptProtect \/ AcceptTighten \/ AcceptEmergency \/ Rejected))
    BY <1>1, <1>2, <2>1 DEF DoneBy
  <2>3. ~(Rearm(i) = req /\ (AcceptProtect \/ AcceptTighten \/ AcceptEmergency \/ Rejected))
    BY <1>2, <2>1, Families DEF AcceptProtect, AcceptTighten, AcceptEmergency, Rejected, Action
  <2>4. ReconcileRearm(i) /\ lots' = [lots EXCEPT ![i].stopId = k, ![i].tpId = NoKey]
    BY <1>4, <2>1, <2>2, <2>3 DEF ReconcileRearm
  <2>5. i \in DOMAIN lots' /\ lots'[i].stopId = k
    BY <1>1, <2>1, <2>4, LotFields DEF Lot
  <2> QED BY <2>5 DEF NamedBy
<1>5. ASSUME NEW l \in 2 .. MaxStop, k = Tighten(i, l) PROVE NamedBy(i, k)'
  <2>1. Asker(k) = Tighten(i, l) /\ ops[Tighten(i, l)] # "none" /\ i \in DOMAIN lots /\ k \in TightenKeys
    BY <1>1, <1>5, Askers, Families DEF LotOps, Unresolved
  <2>2. ReconcileTighten(i, l) \/ (k = req /\ (AcceptProtect \/ AcceptTighten \/ AcceptEmergency \/ Rejected))
    <3>1. k \notin BuyKeys /\ k # Exit /\ \A j \in LotIx : k # Protect(j) /\ k # Rearm(j)
      BY <1>5, Families
    <3>2. \A j \in LotIx, m \in 2 .. MaxStop : k = Tighten(j, m) => j = i /\ m = l
      BY <1>5, TightenSame
    <3> QED BY <1>1, <1>5, <2>1, <3>1, <3>2 DEF DoneBy
  <2>3. ~(k = req /\ (AcceptProtect \/ AcceptEmergency \/ Rejected))
    BY <1>5, <2>1, Families DEF AcceptProtect, AcceptEmergency, Rejected, Action
  <2>4. CASE ReconcileTighten(i, l)
    <3>1. ord' = ord /\ Trailing
      BY <1>5, <2>1, <2>4 DEF ReconcileTighten, SellInv, PhaseInv, TrailInv
    <3>2. Live(ord, k)
      BY <3>1 DEF Open
    <3>3. lots' = [lots EXCEPT ![i].stopId = k, ![i].stop = l]
      BY <1>5, <2>4, <3>2 DEF ReconcileTighten
    <3> QED BY <1>1, <2>1, <3>3, LotFields DEF Lot, NamedBy
  <2>5. CASE k = req /\ AcceptTighten
    <3>2. req[2] = i /\ req[3] = l
      <4>1. req = Tighten(i, l)
        BY <1>5, <2>5
      <4> QED BY <4>1, Families
    <3>1. lots' = [lots EXCEPT ![i].stopId = k, ![i].stop = l]
      BY <2>5, <3>2 DEF AcceptTighten
    <3> QED BY <1>1, <2>1, <3>1, LotFields DEF Lot, NamedBy
  <2> QED BY <2>2, <2>3, <2>4, <2>5
<1> QED BY <1>3, <1>4, <1>5, Askers
\* A raised stop takes the place of one that is down.
LEMMA RaisedOver ==
  ASSUME BooksInv, SellInv, SellStep, NEW i \in LotIx, NEW l \in 2 .. MaxStop,
         ReconcileTighten(i, l) \/ (AcceptTighten /\ req = Tighten(i, l)), Restop(i, Tighten(i, l), l)
  PROVE  Trailing /\ lots'[i].tpId = lots[i].tpId /\ ~Live(ord', lots[i].stopId)
<1>1. CoreInv /\ BaseInv /\ OrdersInv /\ TightInv /\ BookTypes /\ i \in DOMAIN lots
  BY DEF BooksInv, CoreInv, BaseInv, Restop
<1>2. ops[Tighten(i, l)] \in Unresolved /\ Tighten(i, l) \in TightenKeys /\ Tighten(i, l) \in OpKeys
  BY <1>1, RaisedOp, Families
<1>3. Trailing
  BY <1>2 DEF SellInv, PhaseInv, TrailInv, Unresolved
<1>4. ops[Exit] = "none"
  <2>1. Asker(Tighten(i, l)) = Tighten(i, l) /\ Tighten(i, l) \in LotKeys(i)
    BY Families DEF Asker, LotKeys
  <2> QED BY <1>2, <2>1, NoProtection DEF SellInv, Closing
<1>5. lots[i].stop < l /\ lots[i].stop \in Nat
  BY <1>1, <1>2, LotFields DEF TightInv, TightOps
<1>6. CASE ReconcileTighten(i, l)
  <2>1. ord[Tighten(i, l)] # NoOrder /\ ord' = ord
    BY <1>6 DEF ReconcileTighten, Found, NoOrder
  <2>2. ~Live(ord, lots[i].stopId)
    BY <1>1, <1>4, <1>5, <2>1 DEF TightInv, StopOrders
  <2>3. lots' = lots \/ lots' = [lots EXCEPT ![i].stopId = Tighten(i, l), ![i].stop = l]
    BY <1>6 DEF ReconcileTighten
  <2>4. lots'[i].tpId = lots[i].tpId
    BY <1>1, <2>3, LotFields DEF Lot
  <2> QED BY <1>3, <2>1, <2>2, <2>4
<1>7. CASE AcceptTighten /\ req = Tighten(i, l)
  <2>1. Sends
    BY <1>7 DEF AcceptTighten, Sends, Posting, At, Sendable
  <2>2. ~Live(ord', lots[i].stopId)
    BY <1>1, <1>7, <2>1, UnplacedIs, OldStopGone
  <2>3. req[2] = i /\ req[3] = l
    BY <1>7, Families
  <2>4. lots' = [lots EXCEPT ![i].stopId = req, ![i].stop = l]
    BY <1>7, <2>3 DEF AcceptTighten
  <2>5. lots'[i].tpId = lots[i].tpId
    BY <1>1, <2>4, LotFields DEF Lot
  <2> QED BY <1>3, <2>2, <2>5
<1> QED BY <1>6, <1>7

\* What stands on a lot stays known.
LEMMA StandingKnown ==
  ASSUME BooksInv, SellInv, SellStep, NEW i \in LotIx, NEW k \in LotNames(i), Open(i, k)',
         ops[Asker(k)] \notin Unresolved, NamedBy(i, k)
  PROVE  NamedBy(i, k)'
<1>1. /\ CoreInv /\ BaseInv /\ BookTypes /\ OrdersInv /\ TodoPending /\ Reserved
      /\ i \in DOMAIN lots /\ i \in DOMAIN lots'
      /\ k \in SellKeys \ {Exit} /\ k \in Keys
  BY Askers DEF BooksInv, CoreInv, BaseInv, NamedBy, SellStep, LotsSeen
<1>2. CASE ~Restops \/ UNCHANGED lots
  BY <1>1, <1>2 DEF NamedBy, SellStep, LotsSeen
<1>3. CASE Restops /\ ~UNCHANGED lots
  <2>1. Protected \/ Rearming \/ Raised
    BY <1>1, <1>3, RestopsAre
  <2>2. ASSUME NEW j \in LotIx, NEW s \in LotKeys(j), Restop(j, s, lots[j].stop),
               ReconcileProtect(j) \/ (AcceptProtect /\ req = Protect(j))
        PROVE  NamedBy(i, k)'
    <3>1. CASE j # i
      BY <1>1, <2>2, <3>1 DEF Restop, NamedBy
    <3>2. CASE j = i
      <4>1. lots[i].stopId # NoKey
        BY <1>1, LotKeyFacts DEF NamedBy, BaseInv, GoodLots, GoodLot
      <4>2. ops[Exit] # "none"
        BY <1>1, <2>2, <3>2, <4>1, NotProtected
      <4>3. ops[Protect(i)] \in Unresolved
        BY <1>1, <2>2, <3>2 DEF ReconcileProtect, Found, At, TodoPending, Pending,
           AcceptProtect, Posting,
          Reserved, Unresolved
      <4>4. Asker(Protect(i)) = Protect(i) /\ Protect(i) \in LotKeys(i)
        BY Families, LotKeyFacts DEF Asker
      <4> QED BY <4>2, <4>3, <4>4, NoProtection DEF SellInv, Closing
    <3> QED BY <3>1, <3>2
  <2>3. ASSUME NEW j \in LotIx, ReconcileRearm(j), Restop(j, Rearm(j), lots[j].stop)
        PROVE  NamedBy(i, k)'
    <3>1. CASE j # i
      BY <1>1, <2>3, <3>1 DEF Restop, NamedBy
    <3>2. CASE j = i
      <4>1. ops[Rearm(i)] \in Unresolved /\ ord' = ord
        BY <1>1, <2>3, <3>2 DEF ReconcileRearm, Found, At, TodoPending, Pending
      <4>2. k # Rearm(i)
        BY <4>1, Families DEF Asker
        \* its operation is unresolved, that of k is not
      <4>3. ops[Exit] = "DONE" /\ k \in LotKeys(i)
        BY <4>1, <4>2 DEF SellInv, PhaseInv, RearmInv, Unresolved, LotNames
      <4>4. ~Live(ord, k) /\ ord[k].filled = lots[i].seen[k]
        BY <1>1, <4>3 DEF SellInv, SoldInv
      <4>5. lots'[i].seen[k] = ord'[k].filled /\ lots[i].seen[k] \in Nat
        BY <1>1, <4>1, <4>4, LotFields DEF SellStep, LotsSeen
      <4> QED BY <4>1, <4>4, <4>5 DEF Open
    <3> QED BY <3>1, <3>2
  <2>4. ASSUME NEW j \in LotIx, NEW l \in 2 .. MaxStop, Restop(j, Tighten(j, l), l),
               ReconcileTighten(j, l) \/ (AcceptTighten /\ req = Tighten(j, l))
        PROVE  NamedBy(i, k)'
    <3>1. CASE j # i
      BY <1>1, <2>4, <3>1 DEF Restop, NamedBy
    <3>2. CASE j = i
      <4>1. Trailing /\ lots'[i].tpId = lots[i].tpId /\ ~Live(ord', lots[i].stopId)
        BY <2>4, <3>2, RaisedOver
      <4> QED BY <1>1, <4>1 DEF Open, NamedBy
    <3> QED BY <3>1, <3>2
  <2> QED BY <2>1, <2>2, <2>3, <2>4 DEF Protected, Rearming, Raised
<1> QED BY <1>2, <1>3

\* Every step keeps the open orders known.
LEMMA KnownStep ==
  ASSUME BooksInv, SellInv, SellStep, LegInv' PROVE Known'
<1> SUFFICES ASSUME NEW i \in LotIx, NEW k \in LotNames(i), Open(i, k)'
             PROVE  ops'[Asker(k)] \in Unresolved \/ NamedBy(i, k)'
  BY DEF Known
<1>1. ops[Asker(k)] \in Unresolved \/ NamedBy(i, k)
  BY KnownBefore
<1>2. CASE ops[Asker(k)] \in Unresolved
  BY <1>2, AnsweredKnown
<1>3. CASE ops[Asker(k)] \notin Unresolved /\ NamedBy(i, k)
  BY <1>3, StandingKnown
<1> QED BY <1>1, <1>2, <1>3

-----------------------------------------------------------------------------
\* What was sold of a lot stays when no order on it fills.
LEMMA SoldSame ==
  ASSUME BookTypes, NEW i \in LotIx, \A k \in LotNames(i) : ord'[k].filled = ord[k].filled
  PROVE  Sold(i)' = Sold(i)
<1>1. \A k \in LotNames(i) : Filled[k] \in Int /\ Filled'[k] = Filled[k]
  BY Askers, SoldNat DEF Filled
<1>2. IsFiniteSet(LotNames(i))
  BY SellFamilies
<1>3. SumFunctionOnSet(Filled', LotNames(i)) = SumFunctionOnSet(Filled, LotNames(i))
  BY <1>1, <1>2, SumSame
<1>4. LotNames(i)' = LotNames(i)
  BY DEF LotNames, LotKeys
<1> QED BY <1>3, <1>4 DEF Sold

\* A fill of an order on a lot is one share sold of it.
LEMMA SoldOne ==
  ASSUME BookTypes, NEW i \in LotIx, NEW x \in LotNames(i), ord'[x].filled = ord[x].filled + 1,
         \A k \in LotNames(i) \ {x} : ord'[k].filled = ord[k].filled
  PROVE  Sold(i)' = Sold(i) + 1
<1>1. \A k \in LotNames(i) : /\ Filled[k] \in Nat /\ Filled[k] = ord[k].filled
                             /\ Filled'[k] = ord'[k].filled
  BY Askers, SoldNat DEF Filled
<1>2. \A k \in LotNames(i) : Filled[k] \in Int /\ Filled'[k] \in Int
  BY <1>1
<1>3. \A k \in LotNames(i) \ {x} : Filled'[k] = Filled[k]
  BY <1>1
<1>4. IsFiniteSet(LotNames(i))
  BY SellFamilies
<1>5. SumFunctionOnSet(Filled', LotNames(i)) = SumFunctionOnSet(Filled, LotNames(i)) + Filled'[x] - Filled[x]
  BY <1>2, <1>3, <1>4, SumChange
<1>6. LotNames(i)' = LotNames(i) /\ Sold(i) \in Nat
  BY SoldNat DEF LotNames, LotKeys
<1> QED BY <1>1, <1>5, <1>6 DEF Sold

\* When every fill was seen, what was sold is what was seen.
LEMMA SoldSeen ==
  ASSUME BaseInv, NEW i \in DOMAIN lots, \A k \in LotNames(i) : ord[k].filled = lots[i].seen[k]
  PROVE  Sold(i) = SeenOf(i)
<1>1. BookTypes /\ i \in LotIx
  BY LotFields DEF BaseInv
<1>2. \A k \in LotNames(i) : lots[i].seen[k] \in Int /\ Filled[k] = lots[i].seen[k]
  BY <1>1, Askers, LotFields DEF Filled
<1>3. IsFiniteSet(LotNames(i))
  BY <1>1, SellFamilies
<1>4. SumFunctionOnSet(Filled, LotNames(i)) = SumFunctionOnSet(lots[i].seen, LotNames(i))
  BY <1>2, <1>3, SumSame
<1> QED BY <1>4 DEF Sold, SeenOf

\* The safety stop works when no other order on its lot does.
LEMMA RearmAlone ==
  ASSUME BooksInv, SellInv, NEW i \in DOMAIN lots, i \in LotIx, Live(ord, Rearm(i)), NEW k \in LotKeys(i)
  PROVE  ~Live(ord, k)
<1>1. ops[Exit] # "none"
  BY NoRearm DEF SellInv, Live, NoOrder
<1> QED BY <1>1 DEF SellInv, SoldInv

\* While the exit is unresolved all fills were seen and nothing works on a lot.
LEMMA ExitAlone ==
  ASSUME BooksInv, SellInv, NEW i \in DOMAIN lots, ops[Exit] \in Unresolved
  PROVE  /\ \A k \in LotNames(i) : ~Live(ord, k) /\ ord[k].filled = lots[i].seen[k]
         /\ Sold(i) = SeenOf(i)
<1>1. BaseInv /\ BookTypes /\ i \in LotIx
  BY LotFields DEF BooksInv, CoreInv, BaseInv
<1>2. ord[Rearm(i)] = NoOrder
  BY <1>1, NoRearm DEF SellInv, Unresolved
<1>3. lots[i].seen[Rearm(i)] \in Nat /\ lots[i].seen[Rearm(i)] <= ord[Rearm(i)].filled
  BY <1>1, LotSeen DEF LotNames
<1>4. ~Live(ord, Rearm(i)) /\ ord[Rearm(i)].filled = lots[i].seen[Rearm(i)]
  BY <1>2, <1>3 DEF NoOrder, Live
<1>5. \A k \in LotNames(i) : ~Live(ord, k) /\ ord[k].filled = lots[i].seen[k]
  BY <1>4 DEF SellInv, SoldInv, LotNames, Unresolved
<1> QED BY <1>1, <1>5, SoldSeen

CoverLot(i) ==
  /\ Sold(i) + lots[i].seen[Exit] <= lots[i].qty
  /\ \A k \in LotNames(i) : Live(ord, k) => Left(k) + Sold(i) + lots[i].seen[Exit] <= lots[i].qty

\* A new lot has no orders.
LEMMA CoverNew ==
  ASSUME BooksInv, SellStep, NEW i \in LotIx, i \in DOMAIN lots', i \notin DOMAIN lots
  PROVE  CoverLot(i)'
<1>1. BookTypes /\ CoreInv /\ LotsSeen
  BY DEF BooksInv, CoreInv, BaseInv, SellStep
<1>2. ord' = ord /\ lots'[i].qty \in Nat /\ lots'[i].seen[Exit] = 0
  BY <1>1, ExitIsSell DEF LotsSeen
<1>3. \A k \in LotNames(i) : ord[k] = NoOrder
  BY <1>1, NoLotNoOrder
<1>4. Sold(i)' = Sold(i)
  BY <1>1, <1>2, SoldSame
<1>5. Sold(i) = 0
  <2>1. \A k \in LotNames(i) : Filled[k] = 0
    BY <1>3, Askers DEF Filled, NoOrder
  <2> QED BY <2>1, SellFamilies, SumZero DEF Sold
<1>6. LotNames(i)' = LotNames(i)
  BY DEF LotNames, LotKeys
<1>7. \A k \in LotNames(i) : ~Live(ord, k)
  BY <1>3 DEF NoOrder, Live
<1> QED BY <1>2, <1>4, <1>5, <1>6, <1>7 DEF CoverLot

\* What the exit sold is seen when nothing else sells the lot.
LEMMA CoverSpread ==
  ASSUME BooksInv, SellInv, SellStep, NEW i \in DOMAIN lots,
         Spreads, lots'[i].seen[Exit] <= lots[i].seen[Exit] + lots[i].rem
  PROVE  CoverLot(i)'
<1>1. BaseInv /\ BookTypes /\ LotsSeen /\ TodoPending /\ i \in LotIx
  BY LotFields DEF BooksInv, CoreInv, BaseInv, SellStep
<1>2. ord' = ord /\ ops[Exit] \in Unresolved /\ lots'[i].qty = lots[i].qty
  BY <1>1 DEF Spreads, TodoPending, Pending, LotsSeen
<1>3. /\ \A k \in LotNames(i) : ~Live(ord, k)
      /\ Sold(i) = SeenOf(i)
  BY <1>2, ExitAlone
<1>4. Sold(i)' = Sold(i)
  BY <1>1, <1>2, SoldSame
<1>5. /\ lots[i].qty = lots[i].rem + lots[i].seen[Exit] + SeenOf(i)
      /\ lots[i].qty \in Nat /\ lots[i].rem \in Nat /\ lots[i].seen[Exit] \in Nat /\ SeenOf(i) \in Nat
  BY <1>1, LotSeen
<1>6. LotNames(i)' = LotNames(i)
  BY DEF LotNames, LotKeys
<1>7. lots'[i].seen[Exit] \in Nat
  <2>1. OrdersGood /\ Sums
    BY DEF SellStep, BooksInv
  <2>2. GoodLot(ord', i, lots'[i])
    BY <1>1, <2>1, SpreadsKeep DEF LotsKept
  <2> QED BY <2>2, ExitIsSell DEF GoodLot, Lot
<1> QED BY <1>2, <1>3, <1>4, <1>5, <1>6, <1>7 DEF CoverLot

\* A fill takes from what is on sale what it adds to what was sold.
LEMMA CoverFill ==
  ASSUME BooksInv, SellInv, NEW x \in Keys, BrokerFill(x), NEW i \in DOMAIN lots
  PROVE  CoverLot(i)'
<1>1. /\ BaseInv /\ BookTypes /\ i \in LotIx /\ lots' = lots /\ Working /\ Paired
      /\ LotNames(i)' = LotNames(i) /\ CoverLot(i)
  BY LotFields DEF BooksInv, CoreInv, BaseInv, OrdersInv, BrokerFill, saved, LotNames,
     LotKeys, SellInv,
    Cover, CoverLot
<1>2. /\ Live(ord, x)
      /\ \A y \in Keys : /\ ord'[y].filled = IF y = x THEN ord[y].filled + 1 ELSE ord[y].filled
                         /\ ord'[y].qty = IF y \in Siblings(x) /\ Live(ord, y) THEN ord[y].qty - 1 ELSE ord[y].qty
                         /\ Live(ord', y) => Live(ord, y)
  BY <1>1, FilledIs DEF Live
<1>3. \A y \in LotNames(i) : /\ y \in Keys /\ ord[y].qty \in Nat /\ ord[y].filled \in Nat
                             /\ Live(ord, y) => ord[y].filled < ord[y].qty
  BY <1>1, Askers, OrderFields DEF Working
<1>4. Sold(i) \in Nat /\ lots[i].qty \in Nat /\ lots[i].seen[Exit] \in Nat
  BY <1>1, SoldNat, LotSeen
<1>5. CASE x \in LotNames(i)
  <2>1. Sold(i)' = Sold(i) + 1
    BY <1>1, <1>2, <1>3, <1>5, SoldOne
  <2>2. Sold(i)' + lots[i].seen[Exit] <= lots[i].qty
    BY <1>1, <1>2, <1>3, <1>4, <1>5, <2>1 DEF CoverLot, Left
  <2>3. ASSUME NEW y \in LotNames(i), Live(ord', y) PROVE Left(y)' = Left(y) - 1 /\ Live(ord, y)
    <3>1. Live(ord, y) /\ y \in Keys
      BY <1>2, <1>3, <2>3
    <3>2. CASE y = x
      BY <1>2, <1>3, <3>1, <3>2, SiblingFacts DEF Left
    <3>3. CASE y # x
      <4>1. y \in LotKeys(i) /\ x \in LotKeys(i)
        BY <1>1, <1>2, <1>5, <3>1, <3>3, RearmAlone DEF LotNames
      <4>2. y \in Siblings(x)
        BY <1>1, <3>3, <4>1, SiblingFacts
      <4> QED BY <1>2, <1>3, <3>1, <3>3, <4>2 DEF Left
    <3> QED BY <3>2, <3>3
  <2>4. ASSUME NEW y \in LotNames(i), Live(ord', y)
        PROVE  Left(y)' + Sold(i)' + lots[i].seen[Exit] <= lots[i].qty
    <3>1. Left(y) + Sold(i) + lots[i].seen[Exit] <= lots[i].qty /\ Left(y) \in Int
      BY <1>1, <1>3, <2>3, <2>4 DEF CoverLot, Left
    <3> QED BY <1>4, <2>1, <2>3, <2>4, <3>1
  <2> QED BY <1>1, <2>2, <2>4 DEF CoverLot
<1>6. CASE x \notin LotNames(i)
  <2>1. Sold(i)' = Sold(i)
    BY <1>1, <1>2, <1>3, <1>6, SoldSame
  <2>2. ASSUME NEW y \in LotNames(i) PROVE y \notin Siblings(x)
    <3> SUFFICES ASSUME y \in Siblings(x) PROVE FALSE
      OBVIOUS
    <3>1. PICK j \in LotIx : x \in LotKeys(j)
      BY SiblingFacts
    <3>2. y \in LotKeys(j)
      BY <3>1, SiblingFacts
    <3>3. j = i
      BY <1>1, <2>2, <3>2, LotKeyFacts
    <3> QED BY <1>6, <3>1, <3>3 DEF LotNames
  <2>3. \A y \in LotNames(i) : Left(y)' = Left(y) /\ (Live(ord', y) => Live(ord, y))
    BY <1>2, <1>3, <1>6, <2>2 DEF Left
  <2> QED BY <1>1, <2>1, <2>3 DEF CoverLot
<1> QED BY <1>5, <1>6

\* A new order is for what the lot has left, or for what the replaced stop has.
LEMMA CoverSent ==
  ASSUME BooksInv, SellInv, SellStep, Sends, Placing, NEW i \in DOMAIN lots, i \in LotIx,
         NEW k \in LotNames(i), Fresher(k), ord[k] = NoOrder
  PROVE  Quantity(req) + Sold(i) + lots[i].seen[Exit] <= lots[i].qty
<1>1. /\ BaseInv /\ BookTypes /\ Working /\ pc = "post" /\ Sendable
      /\ ops[req] = "RESERVED" /\ req = Asker(k) /\ Unplaced
  BY SentAsks, UnplacedIs DEF BooksInv, CoreInv, BaseInv, OrdersInv, Sends
<1>2. /\ lots[i].qty = lots[i].rem + lots[i].seen[Exit] + SeenOf(i) /\ SeenOf(i) <= Sold(i)
      /\ lots[i].qty \in Nat /\ lots[i].rem \in Nat /\ lots[i].seen[Exit] \in Nat /\ SeenOf(i) \in Nat
      /\ Sold(i) \in Nat
  BY <1>1, LotSeen, SoldNat
<1>3. CASE Asker(k) = Protect(i)
  <2>1. Quantity(req) = lots[i].rem
    BY <1>1, <1>3, QuantityIs
  <2>2. \A x \in LotKeys(i) : ord[x] = NoOrder
    BY <1>1, <1>3 DEF Unplaced
  <2>3. ops[Exit] = "none"
    <3>1. k \in LotKeys(i)
      BY <1>3, Askers, Families, LotKeyFacts
    <3> QED BY <1>1, <3>1, NoProtection DEF Closing, SellInv, Unresolved
  <2>4. ord[Rearm(i)] = NoOrder
    BY <2>3, NoRearm DEF SellInv
  <2>5. Sold(i) = 0
    <3>1. \A x \in LotNames(i) : Filled[x] = 0
      BY <2>2, <2>4, Askers DEF Filled, NoOrder, LotNames
    <3> QED BY <3>1, SellFamilies, SumZero DEF Sold
  <2> QED BY <1>2, <2>1, <2>5
<1>4. CASE Asker(k) = Rearm(i)
  <2>1. Quantity(req) = lots[i].rem /\ k = Rearm(i)
    BY <1>1, <1>4, QuantityIs, Askers, Families
  <2>2. ops[Exit] # "none"
    BY <1>1, <1>4 DEF SellInv, PhaseInv, RearmInv
  <2>3. \A x \in LotKeys(i) : ord[x].filled = lots[i].seen[x]
    BY <2>2 DEF SellInv, SoldInv
  <2>4. ord[k].filled = lots[i].seen[k]
    <3>1. lots[i].seen[k] \in Nat /\ lots[i].seen[k] <= ord[k].filled /\ ord[k].filled = 0
      BY <1>1, LotSeen DEF NoOrder
    <3> QED BY <3>1
  <2>5. Sold(i) = SeenOf(i)
    BY <1>1, <2>1, <2>3, <2>4, SoldSeen DEF LotNames
  <2> QED BY <1>2, <2>1, <2>5
<1>5. ASSUME NEW l \in 2 .. MaxStop, Asker(k) = Tighten(i, l)
      PROVE  Quantity(req) + Sold(i) + lots[i].seen[Exit] <= lots[i].qty
  <2>1. Live(ord, lots[i].stopId) /\ Quantity(req) = Left(lots[i].stopId) /\ lots[i].stopId \in Keys
    BY <1>1, <1>5, QuantityIs
  <2>2. lots[i].stopId \in LotNames(i)
    BY <1>1, <2>1, Families DEF BaseInv, GoodLots, GoodLot
  <2> QED BY <2>1, <2>2 DEF SellInv, Cover
<1> QED BY <1>3, <1>4, <1>5, Askers

\* No step puts more of a lot on sale than it has left.
LEMMA CoverStep ==
  ASSUME BooksInv, SellInv, SellStep, (DOMAIN lots \subseteq LotIx)' PROVE Cover'
<1> SUFFICES ASSUME NEW i \in DOMAIN lots' PROVE CoverLot(i)'
  BY DEF Cover, CoverLot
<1>1. i \in LotIx /\ LotIx' = LotIx /\ LotNames(i)' = LotNames(i)
  BY DEF LotIx, LotNames, LotKeys
<1>2. BookTypes /\ LotsSeen
  BY DEF BooksInv, CoreInv, BaseInv, SellStep
<1>3. CASE i \notin DOMAIN lots
  BY <1>1, <1>3, CoverNew
<1>4. CASE i \in DOMAIN lots /\ lots'[i].seen[Exit] # lots[i].seen[Exit]
  BY <1>2, <1>4, CoverSpread DEF LotsSeen
<1>5. CASE i \in DOMAIN lots /\ lots'[i].seen[Exit] = lots[i].seen[Exit]
  <2>1. lots'[i].qty = lots[i].qty /\ CoverLot(i)
    BY <1>2, <1>5 DEF LotsSeen, SellInv, Cover, CoverLot
  <2>2. CASE Fills
    BY <1>5, <2>2, CoverFill DEF Fills
  <2>3. CASE Steady
    <3>1. Sold(i)' = Sold(i)
      BY <1>1, <1>2, <2>3, Askers, SoldSame DEF Steady
    <3>2. \A k \in LotNames(i) : Left(k)' = Left(k) /\ (Live(ord', k) => Live(ord, k))
      BY <1>1, <2>3, Askers DEF Steady, Left
    <3> QED BY <1>1, <1>5, <2>1, <3>1, <3>2 DEF CoverLot
  <2>4. CASE Sends /\ Placing
    <3>1. Sold(i)' = Sold(i)
      BY <1>1, <1>2, <2>4, Askers, SoldSame DEF Placing
    <3>2. ASSUME NEW k \in LotNames(i), Live(ord', k)
          PROVE  Left(k)' + Sold(i) + lots[i].seen[Exit] <= lots[i].qty
      <4>1. k \in Keys
        BY <1>1, Askers
      <4>2. CASE ord'[k].qty = ord[k].qty /\ Live(ord, k)
        BY <2>1, <2>4, <4>1, <4>2 DEF Placing, Left, CoverLot
      <4>3. CASE Fresher(k) /\ ord[k] = NoOrder /\ ord'[k] = NewOrder(Quantity(req))
        <5>1. Quantity(req) + Sold(i) + lots[i].seen[Exit] <= lots[i].qty
          BY <1>1, <1>5, <2>4, <4>3, CoverSent
        <5>2. Quantity(req) \in Nat
          BY <2>4, QuantityIs DEF Sends, BooksInv, CoreInv, OrdersInv
        <5>3. Left(k)' = Quantity(req)
          BY <4>3, <5>2 DEF Left, NewOrder
        <5> QED BY <5>1, <5>3
      <4> QED BY <2>4, <3>2, <4>1, <4>2, <4>3 DEF Placing
    <3> QED BY <1>1, <1>5, <2>1, <3>1, <3>2 DEF CoverLot
  <2> QED BY <2>2, <2>3, <2>4 DEF SellStep
<1> QED BY <1>3, <1>4, <1>5

-----------------------------------------------------------------------------
\* A lot with nothing left has no order that works, and no sale unseen.
LEMMA FlatLot ==
  ASSUME BooksInv, SellInv, NEW i \in DOMAIN lots, lots[i].rem = 0
  PROVE  Sold(i) = SeenOf(i) /\ \A k \in LotNames(i) : ~Live(ord, k)
<1>1. BaseInv /\ BookTypes /\ Working /\ i \in LotIx
  BY LotFields DEF BooksInv, CoreInv, BaseInv, OrdersInv
<1>2. /\ lots[i].qty = lots[i].rem + lots[i].seen[Exit] + SeenOf(i) /\ SeenOf(i) <= Sold(i)
      /\ lots[i].qty \in Nat /\ lots[i].seen[Exit] \in Nat /\ SeenOf(i) \in Nat /\ Sold(i) \in Nat
  BY <1>1, LotSeen, SoldNat
<1>3. Sold(i) + lots[i].seen[Exit] <= lots[i].qty
  BY DEF SellInv, Cover
<1>4. ASSUME NEW k \in LotNames(i), Live(ord, k) PROVE FALSE
  <2>1. Left(k) + Sold(i) + lots[i].seen[Exit] <= lots[i].qty
    BY <1>4 DEF SellInv, Cover
  <2>2. ord[k].filled < ord[k].qty /\ ord[k].filled \in Nat /\ ord[k].qty \in Nat
    BY <1>1, <1>4, Askers, OrderFields DEF Working
  <2> QED BY <1>2, <2>1, <2>2 DEF Left
<1> QED BY <1>2, <1>3, <1>4

\* A lot whose sales were all seen: those of each order were.
LEMMA TightLot ==
  ASSUME BaseInv, NEW i \in DOMAIN lots, Sold(i) <= SeenOf(i), NEW k \in LotNames(i)
  PROVE  ord[k].filled = lots[i].seen[k]
<1>1. BookTypes /\ i \in LotIx
  BY LotFields DEF BaseInv
<1>2. \A x \in LotNames(i) : /\ lots[i].seen[x] \in Int /\ Filled[x] \in Int /\ lots[i].seen[x] <= Filled[x]
                             /\ Filled[x] = ord[x].filled
  BY <1>1, LotSeen, Askers, SoldNat
<1>3. IsFiniteSet(LotNames(i))
  BY <1>1, SellFamilies
<1>4. SumFunctionOnSet(Filled, LotNames(i)) <= SumFunctionOnSet(lots[i].seen, LotNames(i))
  BY DEF Sold, SeenOf
<1>5. lots[i].seen[k] = Filled[k]
  BY <1>2, <1>3, <1>4, SumTight
<1> QED BY <1>2, <1>5

\* Sales of all lots, when all were seen.
LEMMA SoldIsSeen ==
  ASSUME BooksInv, \A i \in DOMAIN lots : Sold(i) = SeenOf(i)
  PROVE  SumFunctionOnSet(SoldOf, LotIx) = SumFunctionOnSet(SeenAll, LotIx)
<1>1. BookTypes /\ CoreInv
  BY DEF BooksInv, CoreInv, BaseInv
<1>2. ASSUME NEW i \in LotIx PROVE SeenAll[i] \in Int /\ SoldOf[i] = SeenAll[i]
  <2>1. SeenAll[i] \in Nat
    BY RemParts
  <2>2. CASE i \in DOMAIN lots
    BY <2>1, <2>2 DEF SeenAll, SoldOf
  <2>3. CASE i \notin DOMAIN lots
    <3>1. \A k \in LotNames(i) : Filled[k] = 0
      BY <1>1, <2>3, NoLotNoOrder, Askers DEF Filled, NoOrder
    <3>2. Sold(i) = 0
      BY <3>1, SellFamilies, SumZero DEF Sold
    <3> QED BY <2>1, <2>3, <3>2 DEF SeenAll, SoldOf
  <2> QED BY <2>2, <2>3
<1> QED BY <1>2, SellFamilies, SumSame

\* The broker's holding covers the lots only if every sale of theirs was seen.
LEMMA HoldingSeen ==
  ASSUME BooksInv, SellInv, Closing, Position(ord) >= RemTotal(lots)
  PROVE  \A i \in DOMAIN lots : Sold(i) = SeenOf(i)
<1>1. BookTypes /\ BaseInv /\ Sums
  BY DEF BooksInv, CoreInv, BaseInv
<1>2. booked[Entry] = ord[Entry].filled /\ booked[AddOn] = ord[AddOn].filled
  BY NoBuyClosing DEF BuyKeys, SellInv
<1>3. /\ Position(ord) = ord[Entry].filled + ord[AddOn].filled - ord[Exit].filled
           - SumFunctionOnSet(Filled, EmergencyKeys) - SumFunctionOnSet(SoldOf, LotIx)
      /\ RemTotal(lots) = booked[Entry] + booked[AddOn] - exitBooked - SumFunctionOnSet(SeenAll, LotIx)
  BY <1>1, PositionParts, RemParts
<1>4. /\ ord[Entry].filled \in Nat /\ ord[AddOn].filled \in Nat /\ ord[Exit].filled \in Nat /\ exitBooked \in Nat
      /\ SumFunctionOnSet(Filled, EmergencyKeys) \in Nat /\ SumFunctionOnSet(SoldOf, LotIx) \in Nat
      /\ SumFunctionOnSet(SeenAll, LotIx) \in Nat /\ exitBooked <= ord[Exit].filled
  BY <1>1, OrderFields, ExitIsSell, SoldNat, RemParts DEF BookTypes, BuyKeys, Sums, ExitBooks
<1>5. SumFunctionOnSet(SoldOf, LotIx) <= SumFunctionOnSet(SeenAll, LotIx)
  BY <1>2, <1>3, <1>4
<1>6. \A i \in LotIx : SeenAll[i] \in Int /\ SoldOf[i] \in Int /\ SeenAll[i] <= SoldOf[i]
  BY RemParts
<1>7. \A i \in LotIx : SeenAll[i] = SoldOf[i]
  BY <1>5, <1>6, SellFamilies, SumTight
<1> QED BY <1>1, <1>7, LotFields DEF SeenAll, SoldOf

\* The deadline takes down all orders of the lots it goes through.
LEMMA DownStep ==
  ASSUME BooksInv, SellInv, SellStep PROVE DownInv'
<1> SUFFICES ASSUME pc' = "deadline", NEW i \in DOMAIN lots', i < cur', NEW k \in LotNames(i)
             PROVE  ~Live(ord', k)
  BY DEF DownInv, LotNames, LotKeys
<1>1. BaseInv /\ BookTypes /\ CoreInv /\ LotsSeen
  BY DEF BooksInv, CoreInv, BaseInv, SellStep
<1>2. CASE GateDeadline
  <2>1. cur' = 1 /\ lots' = lots
    BY <1>2 DEF GateDeadline, Abort, Goto, saved
  <2>2. i \in 1 .. Len(lots)
    BY <1>1, <2>1, LotsFinite
  <2> QED BY <2>1, <2>2
<1>3. CASE pc = "deadline" /\ ~GateDeadline
  <2>1. i \in DOMAIN lots
    BY <1>1, <1>3, NoBuyClosing DEF LotsSeen, Closing, SellInv
  <2>2. i \in LotIx /\ k \in Keys /\ i \in Nat /\ cur \in Nat
    BY <1>1, <2>1, LotFields, Askers, LotsFinite DEF BaseInv, TickTypes
  <2>3. Live(ord', k) => Live(ord, k)
    BY <1>3, <2>2, LiveComes DEF Sends
  <2>4. CASE i < cur
    BY <1>3, <2>1, <2>3, <2>4 DEF SellInv, DownInv
  <2>5. CASE ~(i < cur)
    <3>1. DeadlineSkip
      BY <1>3, <2>5 DEF SellStep, PlaceMove, DeadlineCancel, CancelLegs, CancelUnconfirmed,
         Abort, Goto, local
    <3>2. cur' = cur + 1 /\ Down(cur)
      BY <3>1 DEF DeadlineSkip
    <3>3. i = cur
      BY <2>2, <2>5, <3>2
    <3>4. CASE ~Held(i)
      <4>1. lots[i].rem = 0
        BY <1>1, <2>1, <3>4, LotFields DEF Held
      <4> QED BY <2>1, <2>3, <4>1, FlatLot
    <3>5. CASE AllDown(i)
      <4> SUFFICES ASSUME Live(ord, k) PROVE FALSE
        BY <2>3
      <4>1. Pending = {}
        BY <1>3 DEF SellInv, PhaseInv, CalmInv, CalmPlace
      <4>2. ops[Asker(k)] \notin Unresolved
        BY <2>2, <4>1, Askers DEF Pending
      <4>3. k \in {lots[i].stopId, lots[i].tpId}
        BY <2>2, <4>2 DEF SellInv, Known, Open, NamedBy
      <4>4. k # NoKey /\ ~Terminal(ord, k)
        BY <2>2, LotKeyFacts DEF Live, Terminal
      <4>5. k \in Standing(i)
        BY <4>3, <4>4 DEF Standing
      <4> QED BY <3>5, <4>5 DEF AllDown
    <3> QED BY <3>2, <3>3, <3>4, <3>5 DEF Down
  <2> QED BY <2>4, <2>5
<1> QED BY <1>2, <1>3 DEF SellStep, PlaceMove, DeadlineCancel, DeadlineSkip, At

\* The exit is asked for at the end of the deadline.
LEMMA ExitAsked ==
  ASSUME BooksInv, SellInv, SellStep, ops[Exit] \notin Unresolved, ops'[Exit] # ops[Exit]
  PROVE  /\ ops[Exit] = "none" /\ ops'[Exit] = "RESERVED" /\ Closing
         /\ UNCHANGED <<lots, booked, exitBooked, ord>>
         /\ \A i \in DOMAIN lots : Sold(i) = SeenOf(i) /\ \A k \in LotNames(i) : ~Live(ord, k)
<1>1. BaseInv /\ BookTypes /\ Typed /\ NoExit /\ CoreStep /\ Exit \in OpKeys
  BY Families DEF BooksInv, CoreInv, BaseInv, OutboxInv, SellStep
<1>2. Reserves /\ Exit = req'
  BY <1>1 DEF CoreStep, OpsMove
<1>3. pc = "deadline" /\ ops' = [ops EXCEPT ![Exit] = "RESERVED"] /\ UNCHANGED <<lots, booked, exitBooked, ord>>
  BY <1>2 DEF Reserves, Granted
<1>4. ops[Exit] = "none" /\ ops'[Exit] = "RESERVED" /\ Closing
  BY <1>1, <1>3 DEF NoExit, Closing, Typed
<1>5. DeadlineSell
  BY <1>3, <1>4 DEF SellStep, PlaceMove
<1>6. cur > Len(lots) /\ ~(Position(ord) < RemTotal(lots))
  BY <1>3, <1>4, <1>5 DEF DeadlineSell
<1>7. Position(ord) >= RemTotal(lots)
  <2>1. Position(ord) \in Int /\ RemTotal(lots) \in Nat
    BY <1>1, PositionParts, RemNat, SoldNat, OrderFields, ExitIsSell DEF BuyKeys
  <2> QED BY <1>6, <2>1
<1>8. \A i \in DOMAIN lots : Sold(i) = SeenOf(i)
  BY <1>4, <1>7, HoldingSeen
<1>9. ASSUME NEW i \in DOMAIN lots, NEW k \in LotNames(i) PROVE ~Live(ord, k)
  <2>1. i < cur
    <3>1. i \in 1 .. Len(lots) /\ Len(lots) \in Nat /\ cur \in Nat
      BY <1>1, LotsFinite DEF BaseInv, TickTypes
    <3> QED BY <1>6, <3>1
  <2> QED BY <1>3, <2>1 DEF SellInv, DownInv
<1> QED BY <1>3, <1>4, <1>8, <1>9

\* Once the exit is asked for no protection trades again.
LEMMA SoldStep ==
  ASSUME BooksInv, SellInv, SellStep, (DOMAIN lots \subseteq LotIx)' PROVE SoldInv'
<1> SUFFICES ASSUME ops'[Exit] # "none", NEW i \in DOMAIN lots', NEW k \in LotKeys(i)
             PROVE  ~Live(ord', k) /\ ord'[k].filled = lots'[i].seen[k]
  BY DEF SoldInv, LotKeys
<1>1. BaseInv /\ BookTypes /\ CoreInv /\ LotsSeen
  BY DEF BooksInv, CoreInv, BaseInv, SellStep
<1>2. i \in LotIx /\ k \in LotNames(i) /\ k \in Keys /\ k \in SellKeys \ {Exit}
  <2>1. i \in LotIx
    BY DEF LotIx
  <2> QED BY <2>1, Askers DEF LotNames
<1>3. CASE ops[Exit] = "none"
  <2>1. /\ lots' = lots /\ ord' = ord
        /\ \A j \in DOMAIN lots : Sold(j) = SeenOf(j) /\ \A x \in LotNames(j) : ~Live(ord, x)
    BY <1>3, ExitAsked DEF Unresolved
  <2>2. Sold(i) \in Nat
    BY <1>1, <1>2, SoldNat
  <2>3. ord[k].filled = lots[i].seen[k]
    BY <1>1, <1>2, <2>1, <2>2, TightLot
  <2> QED BY <1>2, <2>1, <2>3
<1>4. CASE ops[Exit] # "none"
  <2>1. Closing
    BY <1>4 DEF Closing
  <2>2. i \in DOMAIN lots
    BY <1>1, <2>1, NoBuyClosing DEF LotsSeen, SellInv
  <2>3. ~Live(ord, k) /\ ord[k].filled = lots[i].seen[k]
    BY <1>4, <2>2 DEF SellInv, SoldInv
  <2>4. ord'[k].filled = ord[k].filled
    BY <1>2, <2>3 DEF SellStep, BrokerFill
  <2>5. ~(Sends /\ Fresher(k))
    <3> SUFFICES ASSUME Sends, Fresher(k) PROVE FALSE
      OBVIOUS
    <3>1. req = Asker(k) /\ ops[req] = "RESERVED"
      BY <1>2, SentAsks
    <3> QED BY <1>2, <2>1, <3>1, NoProtection DEF SellInv, Unresolved
  <2>6. ~Live(ord', k)
    BY <1>2, <2>3, <2>5, LiveComes
  <2>7. lots'[i].seen[k] = ord'[k].filled
    BY <1>1, <1>2, <2>2, <2>3, <2>4 DEF LotsSeen
  <2> QED BY <2>6, <2>7
<1> QED BY <1>3, <1>4

\* The exit's order: it stays, is new, or trades or ends.
LEMMA ExitOrder ==
  ASSUME BooksInv, SellInv, SellStep
  PROVE  /\ ord'[Exit].filled <= ord'[Exit].qty
         /\ \/ ord'[Exit].qty = ord[Exit].qty /\ (Live(ord', Exit) => Live(ord, Exit))
            \/ Sends /\ req = Exit /\ ord'[Exit] = NewOrder(RemTotal(lots)) /\ ord[Exit] = NoOrder
<1>1. /\ BaseInv /\ BookTypes /\ Working /\ Paired /\ Exit \in Keys /\ ord[Exit].filled <= ord[Exit].qty
      /\ ord[Exit].filled \in Nat /\ ord[Exit].qty \in Nat
  BY ExitIsSell, OrderFields DEF BooksInv, CoreInv, BaseInv, OrdersInv, SellInv, ExitInv
<1>2. CASE Steady
  BY <1>1, <1>2 DEF Steady
<1>3. CASE Fills
  <2>1. PICK x \in Keys : BrokerFill(x)
    BY <1>3 DEF Fills
  <2>2. Exit \notin Siblings(x)
    <3> SUFFICES ASSUME Exit \in Siblings(x) PROVE FALSE
      OBVIOUS
    <3>1. PICK j \in LotIx : x \in LotKeys(j)
      BY SiblingFacts
    <3>2. Exit \in LotKeys(j)
      BY <3>1, SiblingFacts
    <3> QED BY <3>2, LotKeyFacts DEF LotNames
  <2>3. /\ Live(ord, x)
        /\ ord'[Exit].filled = IF Exit = x THEN ord[Exit].filled + 1 ELSE ord[Exit].filled
        /\ ord'[Exit].qty = ord[Exit].qty
        /\ Live(ord', Exit) => Live(ord, Exit)
    BY <1>1, <2>1, <2>2, FilledIs DEF Live
  <2> QED BY <1>1, <2>3 DEF Working
<1>4. CASE Sends /\ Placing
  <2>1. CASE ord'[Exit].qty = ord[Exit].qty /\ (Live(ord', Exit) => Live(ord, Exit))
    BY <1>1, <1>4, <2>1 DEF Placing
  <2>2. CASE Fresher(Exit) /\ ord[Exit] = NoOrder /\ ord'[Exit] = NewOrder(Quantity(req))
    <3>1. req = Exit
      BY <2>2, Families DEF Fresher
    <3>2. Quantity(req) = RemTotal(lots) /\ Quantity(req) \in Nat
      BY <1>1, <1>4, <3>1, QuantityIs DEF Sends
    <3> QED BY <1>4, <2>2, <3>1, <3>2 DEF NewOrder
  <2> QED BY <1>1, <1>4, <2>1, <2>2 DEF Placing
<1> QED BY <1>2, <1>3, <1>4 DEF SellStep

\* How the exit comes to be done: over and booked, or refused.
LEMMA ExitDone ==
  ASSUME BooksInv, SellInv, SellStep, ops[Exit] \in Unresolved, ops'[Exit] \notin Unresolved
  PROVE  ops'[Exit] = "DONE" /\ ~Live(ord', Exit) /\ ord'[Exit].filled = exitBooked'
<1>1. BaseInv /\ BookTypes /\ Typed /\ Sums /\ Exit \in OpKeys /\ Exit \in Keys /\ exitBooked \in Nat
  BY Families DEF BooksInv, CoreInv, BaseInv, OutboxInv, BookTypes
<1>2. DoneBy(Exit)
  BY <1>1 DEF SellStep, DoneMove
<1>3. ReconcileExit \/ (Exit = req /\ (AcceptProtect \/ AcceptTighten \/ AcceptEmergency \/ Rejected))
  BY <1>2, Families DEF DoneBy
<1>4. ~(Exit = req /\ (AcceptProtect \/ AcceptTighten \/ AcceptEmergency))
  BY Families DEF AcceptProtect, AcceptTighten, AcceptEmergency, Action
<1>5. CASE ReconcileExit
  <2>1. exitBooked' = ord[Exit].filled /\ ops' = Settled(Exit) /\ ord' = ord
    BY <1>5 DEF ReconcileExit
  <2>2. Terminal(ord, Exit) /\ ops'[Exit] = "DONE"
    BY <1>1, <2>1 DEF Settled, Typed, Unresolved
  <2> QED BY <2>1, <2>2 DEF Terminal, Live
<1>6. CASE Exit = req /\ Rejected
  <2>1. ops' = [ops EXCEPT ![Exit] = "DONE"] /\ ord' = ord /\ pc = "post" /\ Sendable
    BY <1>6 DEF Rejected, Ends, Posting, At
  <2>2. exitBooked' = exitBooked
    BY <1>6 DEF Rejected
  <2>3. ord[Exit] = NoOrder
    BY <1>6, <2>1, UnplacedIs DEF BooksInv, Unplaced
  <2>4. exitBooked = 0
    BY <1>1, <2>3 DEF Sums, ExitBooks, NoOrder
  <2> QED BY <1>1, <2>1, <2>2, <2>3, <2>4 DEF NoOrder, Live, Typed
<1> QED BY <1>3, <1>4, <1>5, <1>6

\* The exit never takes more than what is left, and stays over once done.
LEMMA ExitStep ==
  ASSUME BooksInv, SellInv, SellStep PROVE ExitInv'
<1>1. /\ BaseInv /\ BookTypes /\ CoreInv /\ Typed /\ Sums /\ TodoPending /\ Exit \in OpKeys /\ Exit \in Keys
      /\ ExitInv /\ Reserved
  BY Families DEF BooksInv, CoreInv, BaseInv, OutboxInv, SellInv
<1>2. ord'[Exit].filled <= ord'[Exit].qty
  BY ExitOrder
<1>3. ops'[Exit] # "MANUAL_REVIEW"
  <2>1. CASE ops[Exit] \in Unresolved
    BY <2>1, ExitDone DEF Unresolved
  <2>2. CASE ops[Exit] \notin Unresolved
    BY <1>1, <2>2, ExitAsked DEF ExitInv
  <2> QED BY <2>1, <2>2
<1>4. ASSUME ops'[Exit] = "DONE" PROVE ~Live(ord', Exit) /\ ord'[Exit].filled = exitBooked'
  <2>1. CASE ops[Exit] \in Unresolved
    BY <1>4, <2>1, ExitDone DEF Unresolved
  <2>2. CASE ops[Exit] \notin Unresolved
    <3>1. ops[Exit] = "DONE"
      BY <1>4, <2>2, ExitAsked
    <3>2. ~Live(ord, Exit) /\ ord[Exit].filled = exitBooked
      BY <1>1, <3>1 DEF ExitInv
    <3>3. ord'[Exit].filled = ord[Exit].filled
      BY <1>1, <3>2 DEF SellStep, BrokerFill
    <3>4. ~(Sends /\ req = Exit)
      BY <1>1, <3>1 DEF Sends, Reserved
    <3>5. ~Live(ord', Exit)
      BY <3>2, <3>4, ExitOrder
    <3>6. ~Spreads
      BY <1>1, <2>2 DEF Spreads, TodoPending, Pending
    <3>7. exitBooked' = exitBooked
      BY <3>6 DEF SellStep, LotsMove, Same, Appends, Sells, Stops
    <3> QED BY <3>2, <3>3, <3>5, <3>7
  <2> QED BY <2>1, <2>2
<1>5. ASSUME ops'[Exit] \in Unresolved
      PROVE  ord'[Exit].qty + SumFunctionOnSet(SoldOf', LotIx) <= booked'[Entry] + booked'[AddOn]
  <2>0. /\ booked[Entry] \in Nat /\ booked[AddOn] \in Nat /\ exitBooked \in Nat /\ RemTotal(lots) \in Nat
        /\ RemTotal(lots) = booked[Entry] + booked[AddOn] - exitBooked - SumFunctionOnSet(SeenAll, LotIx)
        /\ SumFunctionOnSet(SeenAll, LotIx) \in Nat
    BY <1>1, RemParts, RemNat DEF BookTypes, BuyKeys
  <2>1. CASE ops[Exit] \notin Unresolved
    <3>1. /\ ops[Exit] = "none" /\ booked' = booked /\ ord' = ord
          /\ \A i \in DOMAIN lots : Sold(i) = SeenOf(i)
      BY <1>5, <2>1, ExitAsked
    <3>2. SumFunctionOnSet(SoldOf, LotIx) = SumFunctionOnSet(SeenAll, LotIx)
      BY <3>1, SoldIsSeen
    <3>3. SoldOf' = SoldOf
      BY <3>1 DEF SoldOf, Sold, Filled, LotNames, LotKeys
    <3>4. ord[Exit].qty = 0
      BY <1>1, <3>1, AskedFirst DEF NoOrder
    <3> QED BY <2>0, <3>1, <3>2, <3>3, <3>4
  <2>2. CASE ops[Exit] \in Unresolved
    <3>1. \A i \in LotIx : \A k \in LotNames(i) : ord'[k].filled = ord[k].filled
      <4> SUFFICES ASSUME NEW i \in LotIx, NEW k \in LotNames(i) PROVE ord'[k].filled = ord[k].filled
        OBVIOUS
      <4>1. ~Live(ord, k)
        BY <1>1, <2>2, ExitAlone, NoLotNoOrder DEF NoOrder, Live
      <4> QED BY <4>1, Askers DEF SellStep, BrokerFill
    <3>2. SoldOf' = SoldOf
      <4>1. \A i \in LotIx : Sold(i)' = Sold(i)
        BY <1>1, <3>1, SoldSame
      <4> QED BY <4>1 DEF SoldOf
    <3>3. Closing
      BY <2>2 DEF Closing, Unresolved
    <3>4. booked' = booked
      BY <3>3, NoBuyClosing DEF SellInv, SellStep, LotsMove, Same, Spreads, Sells, Stops
    <3>5. CASE ord'[Exit].qty = ord[Exit].qty
      BY <1>1, <2>2, <3>2, <3>4, <3>5 DEF ExitInv
    <3>6. CASE ord'[Exit] = NewOrder(RemTotal(lots))
      <4>1. SumFunctionOnSet(SoldOf, LotIx) = SumFunctionOnSet(SeenAll, LotIx)
        BY <2>2, ExitAlone, SoldIsSeen
      <4>2. ord'[Exit].qty = RemTotal(lots)
        BY <3>6 DEF NewOrder
      <4> QED BY <2>0, <3>2, <3>4, <4>1, <4>2
    <3> QED BY <3>5, <3>6, ExitOrder
  <2> QED BY <2>1, <2>2
<1> QED BY <1>2, <1>3, <1>4, <1>5 DEF ExitInv, LotIx

-----------------------------------------------------------------------------
\* A new campaign has nothing on sale.
LEMMA SellInit == Init => SellInv
<1> SUFFICES ASSUME Init PROVE SellInv
  OBVIOUS
<1>1. /\ \A k \in OpKeys : ops[k] = "none"
      /\ \A k \in Keys : ord[k] = NoOrder
      /\ pc = "idle" /\ DOMAIN lots = {}
  BY DEF Init
<1>2. Exit \in OpKeys /\ Exit \in Keys
  BY Families
<1>3. \A i \in LotIx : \A k \in LotNames(i) : ~Open(i, k)
  BY <1>1, Askers DEF Open, Live, NoOrder
<1>4. Known
  BY <1>3 DEF Known
<1>5. Cover /\ DownInv /\ SoldInv
  BY <1>1, <1>2 DEF Cover, DownInv, SoldInv
<1>6. ExitInv
  BY <1>1, <1>2 DEF ExitInv, NoOrder, Unresolved
<1> QED BY <1>4, <1>5, <1>6, PhaseInit DEF SellInv

\* Every step keeps what is on sale within what is left.
LEMMA SellInvStep == BooksInv /\ ControlInv /\ SellInv /\ [Next]_vars => SellInv'
<1> SUFFICES ASSUME BooksInv, ControlInv, SellInv, [Next]_vars PROVE SellInv'
  OBVIOUS
<1>1. SellStep
  BY SellStepIs
<1>2. (DOMAIN lots \subseteq LotIx)'
  <2>1. BooksInv'
    BY BooksStep
  <2> QED BY <2>1 DEF BooksInv, CoreInv, BaseInv, BookTypes
<1>3. PhaseInv'
  BY <1>1, PhaseStep DEF SellInv
<1>4. Known'
  BY <1>1, <1>3, KnownStep DEF PhaseInv
<1>5. Cover' /\ SoldInv'
  BY <1>1, <1>2, CoverStep, SoldStep
<1>6. DownInv' /\ ExitInv'
  BY <1>1, DownStep, ExitStep
<1> QED BY <1>3, <1>4, <1>5, <1>6 DEF SellInv

\* The inductive invariant of the sales: with the books, what is on sale.
THEOREM SellInvariant == Spec => [](BooksInv /\ ControlInv /\ SellInv)
<1>1. Init => BooksInv /\ ControlInv /\ SellInv
  BY BooksInit, ControlInit, SellInit
<1>2. BooksInv /\ ControlInv /\ SellInv /\ [Next]_vars => BooksInv' /\ ControlInv' /\ SellInv'
  BY BooksStep, ControlStep, SellInvStep
<1> QED BY <1>1, <1>2, PTL DEF Spec

-----------------------------------------------------------------------------
\* A buy that is not unresolved is over, and all it filled is booked.
LEMMA BuyOver ==
  ASSUME BooksInv, NEW k \in BuyKeys, ops[k] \notin Unresolved
  PROVE  ~Live(ord, k) /\ booked[k] = ord[k].filled
<1>1. /\ BuyOps /\ Typed /\ BookTypes /\ k \in OpKeys /\ ord[k].filled \in Nat /\ booked[k] \in Nat
      /\ booked[k] <= ord[k].filled
  BY BuyKeysApart, OrderFields DEF BooksInv, CoreInv, BaseInv, OutboxInv, Sums, BuySums,
     BookTypes
<1>2. CASE ops[k] = "none"
  <2>1. ord[k] = NoOrder
    BY <1>1, <1>2, AskedFirst
  <2> QED BY <1>1, <2>1 DEF NoOrder, Live
<1>3. CASE ops[k] = "DONE"
  BY <1>1, <1>3 DEF BuyOps, Terminal, Live
<1> QED BY <1>1, <1>2, <1>3 DEF Typed, OpStatus, Unresolved, BuyOps

\* The same for the exit.
LEMMA ExitOver ==
  ASSUME BooksInv, SellInv, ops[Exit] \notin Unresolved
  PROVE  ~Live(ord, Exit) /\ ord[Exit].filled = exitBooked
<1>1. Typed /\ Sums /\ BookTypes /\ Exit \in OpKeys /\ exitBooked \in Nat /\ ExitInv
  BY Families DEF BooksInv, CoreInv, BaseInv, OutboxInv, BookTypes, SellInv
<1>2. CASE ops[Exit] = "none"
  <2>1. ord[Exit] = NoOrder
    BY <1>1, <1>2, AskedFirst
  <2> QED BY <1>1, <2>1 DEF NoOrder, Live, Sums, ExitBooks
<1>3. CASE ops[Exit] = "DONE"
  BY <1>1, <1>3 DEF ExitInv
<1> QED BY <1>1, <1>2, <1>3 DEF Typed, OpStatus, Unresolved, ExitInv

\* Without a review no emergency stop is there but for one looked up.
LEMMA EmergencyOver ==
  ASSUME BooksInv, SellInv, ~review, NEW k \in EmergencyKeys, ops[k] \notin Unresolved
  PROVE  ord[k] = NoOrder
<1>1. Typed /\ k \in OpKeys /\ EmergencyInv
  BY Families DEF BooksInv, CoreInv, BaseInv, OutboxInv, SellInv, PhaseInv
<1>2. ops[k] = "none"
  BY <1>1 DEF Typed, OpStatus, Unresolved, EmergencyInv
<1> QED BY <1>1, <1>2, AskedFirst

-----------------------------------------------------------------------------
\* What is released is settled and stays so.
ReleasedInv == status \in Released =>
  pc = "idle" /\ Pending = {} /\ ~review /\ \A i \in DOMAIN lots : lots[i].rem = 0

\* Every step keeps what is released settled.
LEMMA ReleasedStep ==
  BooksInv /\ ControlInv /\ SellInv /\ ReleasedInv /\ [Next]_vars => ReleasedInv'
<1> SUFFICES ASSUME BooksInv, ControlInv, SellInv, ReleasedInv, [Next]_vars, status' \in Released
             PROVE  pc' = "idle" /\ Pending' = {} /\ ~review' /\ \A i \in DOMAIN lots' : lots'[i].rem = 0
  BY DEF ReleasedInv
<1>1. BookTypes /\ SellStep
  BY SellStepIs DEF BooksInv, CoreInv, BaseInv
<1>2. CASE GateClosed \/ GateExpired \/ BuyClosed
  <2>1. Pending = {}
    BY <1>2 DEF GateClosed, GateExpired, BuyClosed, At, SellInv, PhaseInv, CalmInv, CalmPlace
  <2>2. ~review
    BY <1>2 DEF GateClosed, GateExpired, BuyClosed, At, ControlInv, PathInv, Path, Clear
  <2>3. pc' = "idle" /\ ops' = ops /\ lots' = lots /\ review' = review
    BY <1>2 DEF GateClosed, GateExpired, BuyClosed, Abort, Goto
  <2>4. \A i \in DOMAIN lots : lots[i].rem = 0
    <3>1. CASE AllSold
      BY <1>1, <3>1, LotFields DEF AllSold, AnyHeld, Held
    <3>2. CASE lots = <<>>
      BY <3>2
    <3> QED BY <1>2, <3>1, <3>2 DEF GateClosed, GateExpired, BuyClosed
  <2> QED BY <2>1, <2>2, <2>3, <2>4 DEF Pending
<1>3. CASE status \in Released
  <2>1. pc = "idle" /\ Pending = {} /\ ~review /\ \A i \in DOMAIN lots : lots[i].rem = 0
    BY <1>3 DEF ReleasedInv
  <2>2. UNCHANGED <<ops, lots, review, pc>>
    BY <1>1, <1>3, <2>1 DEF SellStep, PlaceMove
  <2> QED BY <2>1, <2>2 DEF Pending
<1> QED BY <1>1, <1>2, <1>3 DEF SellStep, PlaceMove

\* Nothing left on the lots, nothing unresolved: nothing held, nothing on sale.
LEMMA Flat ==
  ASSUME BooksInv, SellInv, Pending = {}, ~review, \A i \in DOMAIN lots : lots[i].rem = 0
  PROVE  Position(ord) = 0 /\ \A k \in Keys : ~Live(ord, k)
<1>1. BaseInv /\ BookTypes /\ CoreInv /\ Sums
  BY DEF BooksInv, CoreInv, BaseInv
<1>2. \A k \in OpKeys : ops[k] \notin Unresolved
  BY DEF Pending
<1>3. \A k \in BuyKeys : ~Live(ord, k) /\ booked[k] = ord[k].filled
  BY <1>2, BuyOver, BuyKeysApart
<1>4. ~Live(ord, Exit) /\ ord[Exit].filled = exitBooked
  BY <1>2, ExitOver, Families
<1>5. \A k \in EmergencyKeys : ord[k] = NoOrder
  BY <1>2, EmergencyOver, Families
<1>6. \A i \in LotIx : \A k \in LotNames(i) : ~Live(ord, k)
  <2> SUFFICES ASSUME NEW i \in LotIx, NEW k \in LotNames(i) PROVE ~Live(ord, k)
    OBVIOUS
  <2>1. CASE i \in DOMAIN lots
    BY <2>1, FlatLot
  <2>2. CASE i \notin DOMAIN lots
    BY <1>1, <2>2, NoLotNoOrder DEF NoOrder, Live
  <2> QED BY <2>1, <2>2
<1>7. \A k \in Keys : ~Live(ord, k)
  <2> SUFFICES ASSUME NEW k \in SellKeys PROVE ~Live(ord, k)
    BY <1>3 DEF SellKeys
  <2> QED BY <1>4, <1>5, <1>6, SellFamilies DEF NoOrder, Live
<1>8. SumFunctionOnSet(SoldOf, LotIx) = SumFunctionOnSet(SeenAll, LotIx)
  BY FlatLot, SoldIsSeen
<1>9. SumFunctionOnSet(Filled, EmergencyKeys) = 0
  <2>1. \A k \in EmergencyKeys : Filled[k] = 0
    BY <1>5, Families DEF Filled, NoOrder
  <2> QED BY <2>1, SumZero, SellFamilies
<1>10. RemTotal(lots) = 0
  <2> DEFINE r == [i \in DOMAIN lots |-> lots[i].rem]
  <2>1. RemTotal(lots) = SumFunctionOnSet(r, DOMAIN lots)
    BY DEF RemTotal, SumFunction
  <2>2. \A i \in DOMAIN lots : r[i] = 0
    OBVIOUS
  <2> HIDE DEF r
  <2> QED BY <1>1, <2>1, <2>2, SumZero, LotsFinite
<1>11. /\ Position(ord) = ord[Entry].filled + ord[AddOn].filled - ord[Exit].filled
            - SumFunctionOnSet(Filled, EmergencyKeys) - SumFunctionOnSet(SoldOf, LotIx)
       /\ RemTotal(lots) = booked[Entry] + booked[AddOn] - exitBooked - SumFunctionOnSet(SeenAll, LotIx)
  BY <1>1, PositionParts, RemParts
<1>12. /\ booked[Entry] \in Nat /\ booked[AddOn] \in Nat /\ exitBooked \in Nat
       /\ SumFunctionOnSet(SeenAll, LotIx) \in Nat
       /\ booked[Entry] = ord[Entry].filled /\ booked[AddOn] = ord[AddOn].filled
  BY <1>1, <1>3, RemParts DEF BookTypes, BuyKeys
<1> QED BY <1>4, <1>7, <1>8, <1>9, <1>10, <1>11, <1>12

\* A released campaign holds nothing and nothing of it can still trade,
\* whatever failed on the way.
THEOREM ReleasedAlwaysFlat == Spec => []ReleasedIsFlat
<1>1. Init => ReleasedInv
  BY DEF Init, ReleasedInv, Released
<1>2. BooksInv /\ ControlInv /\ SellInv /\ ReleasedInv => ReleasedIsFlat
  BY Flat DEF ReleasedInv, ReleasedIsFlat
<1> QED BY <1>1, <1>2, ReleasedStep, SellInvariant, PTL DEF Spec

-----------------------------------------------------------------------------
\* What the tick noticed of an order on a lot: what its lot has seen.
LEMMA NoticedIs ==
  ASSUME BooksInv, NEW i \in LotIx, NEW k \in LotNames(i)
  PROVE  Noticed(k) = IF i \in DOMAIN lots THEN lots[i].seen[k] ELSE 0
<1> DEFINE f == [j \in DOMAIN lots |-> lots[j].seen[k]]
           z == [j \in DOMAIN lots |-> 0]
<1>1. BookTypes /\ GoodLots /\ k \in SellKeys /\ k # Exit
  BY LotKeyFacts DEF BooksInv, CoreInv, BaseInv
<1>2. IsFiniteSet(DOMAIN lots) /\ \A j \in DOMAIN lots : f[j] \in Nat /\ j \in LotIx
  BY <1>1, LotsFinite, LotFields
<1>3. \A j \in DOMAIN lots \ {i} : f[j] = 0
  <2> SUFFICES ASSUME NEW j \in DOMAIN lots, j # i, lots[j].seen[k] # 0 PROVE FALSE
    OBVIOUS
  <2>1. k \in LotNames(j) /\ j \in LotIx
    BY <1>1, <1>2 DEF GoodLots, GoodLot
  <2> QED BY <2>1, LotKeyFacts
<1>4. Noticed(k) = SumFunctionOnSet(f, DOMAIN lots)
  <2>1. DOMAIN f = DOMAIN lots /\ Noticed(k) = SumFunction(f)
    BY DEF Noticed
  <2> HIDE DEF f
  <2> QED BY <2>1 DEF SumFunction
<1>5. SumFunctionOnSet(z, DOMAIN lots) = 0
  <2>1. \A j \in DOMAIN lots : z[j] = 0
    OBVIOUS
  <2> HIDE DEF z
  <2> QED BY <1>2, <2>1, SumZero
<1>6. CASE i \in DOMAIN lots
  <2>1. /\ \A j \in DOMAIN lots : f[j] \in Int /\ z[j] \in Int
        /\ \A j \in DOMAIN lots \ {i} : f[j] = z[j]
        /\ z[i] = 0 /\ f[i] = lots[i].seen[k] /\ f[i] \in Nat
    BY <1>2, <1>3, <1>6
  <2> HIDE DEF f, z
  <2>2. SumFunctionOnSet(f, DOMAIN lots) = SumFunctionOnSet(z, DOMAIN lots) + f[i] - z[i]
    BY <1>2, <1>6, <2>1, SumChange
  <2> QED BY <1>4, <1>5, <1>6, <2>1, <2>2
<1>7. CASE i \notin DOMAIN lots
  <2>1. \A j \in DOMAIN lots : f[j] = 0
    BY <1>3, <1>7
  <2> HIDE DEF f
  <2>2. SumFunctionOnSet(f, DOMAIN lots) = 0
    BY <1>2, <2>1, SumZero
  <2> QED BY <1>4, <1>7, <2>2
<1> QED BY <1>6, <1>7

\* Nothing noticed is negative; of the exit, what is booked was noticed.
LEMMA NoticedExit ==
  ASSUME BooksInv
  PROVE  /\ Noticed(Exit) = exitBooked
         /\ \A k \in SellKeys : Noticed(k) \in Nat
<1>1. BookTypes /\ ExitBooks /\ IsFiniteSet(DOMAIN lots)
  BY LotsFinite DEF BooksInv, CoreInv, BaseInv, Sums
<1>2. ASSUME NEW k \in SellKeys
      PROVE  /\ Noticed(k) = SumFunctionOnSet([i \in DOMAIN lots |-> lots[i].seen[k]], DOMAIN lots)
             /\ Noticed(k) \in Nat
  <2> DEFINE f == [i \in DOMAIN lots |-> lots[i].seen[k]]
  <2>1. DOMAIN f = DOMAIN lots /\ Noticed(k) = SumFunction(f)
    BY DEF Noticed
  <2>2. \A i \in DOMAIN lots : f[i] \in Nat
    BY <1>1, LotFields
  <2>3. f = [i \in DOMAIN lots |-> lots[i].seen[k]]
    OBVIOUS
  <2> HIDE DEF f
  <2>4. Noticed(k) = SumFunctionOnSet(f, DOMAIN lots)
    BY <2>1 DEF SumFunction
  <2>5. SumFunctionOnSet(f, DOMAIN lots) \in Nat
    BY <1>1, <2>2, SumNat
  <2> QED BY <2>3, <2>4, <2>5
<1> QED BY <1>1, <1>2, ExitIsSell DEF ExitBooks, ExitSeen

\* Without trailing stops no order is out of the next tick's sight.
LEMMA NothingLost ==
  ASSUME ~Trailing, BooksInv, SellInv PROVE NoLostOrder
<1> SUFFICES ASSUME ~review, NEW k \in SellKeys, Live(ord, k) \/ ord[k].filled > Noticed(k)
             PROVE  Reachable(k)
  BY DEF NoLostOrder
<1>1. BaseInv /\ BookTypes /\ CoreInv /\ exitBooked \in Nat
  BY DEF BooksInv, CoreInv, BaseInv, BookTypes
<1>2. CASE k = Exit
  BY <1>1, <1>2, ExitOver, NoticedExit, Families DEF Reachable
<1>3. CASE k \in EmergencyKeys
  <2>1. ord[k] # NoOrder
    BY <1>1, NoticedExit DEF NoOrder, Live
  <2> QED BY <1>3, <2>1, EmergencyOver, Families DEF Reachable
<1>4. ASSUME NEW i \in LotIx, k \in LotNames(i) PROVE Reachable(k)
  <2>1. ord[k] # NoOrder
    BY <1>1, NoticedExit DEF NoOrder, Live
  <2>2. i \in DOMAIN lots
    BY <1>1, <1>4, <2>1, NoLotNoOrder
  <2>3. Noticed(k) = lots[i].seen[k]
    BY <1>4, <2>2, NoticedIs
  <2>4. lots[i].seen[k] \in Nat /\ ord[k].filled \in Nat
    BY <1>1, <1>4, <2>2, LotSeen
  <2>5. Open(i, k)
    BY <2>2, <2>3, <2>4 DEF Open
  <2>6. ops[Asker(k)] \in Unresolved \/ NamedBy(i, k)
    BY <1>4, <2>5 DEF SellInv, Known
  <2>7. CASE NamedBy(i, k)
    BY <2>7 DEF NamedBy, Reachable, Named
  <2>8. CASE ops[Asker(k)] \in Unresolved
    <3>1. Asker(k) \in OpKeys /\ (k[1] = "LEG" => Asker(k) = Protect(k[2])) /\ (k[1] # "LEG" => Asker(k) = k)
      BY <1>4, Askers DEF Asker
    <3> QED BY <2>8, <3>1 DEF Reachable
  <2> QED BY <2>6, <2>7, <2>8
<1> QED BY <1>2, <1>3, <1>4, SellFamilies

\* With stops that are not raised, every order that may still trade, or traded
\* unnoticed, is found by the next tick.
THEOREM NoOrderLost ==
  ASSUME ~Trailing PROVE Spec => []NoLostOrder
<1>1. BooksInv /\ SellInv => NoLostOrder
  BY NothingLost
<1> QED BY <1>1, SellInvariant, PTL

-----------------------------------------------------------------------------
\* Where every fill has its timestamp no emergency stop is asked for.
NoEmergency == \A k \in EmergencyKeys : ops[k] = "none"

\* Emergency stops come of fills without a timestamp only.
LEMMA NoEmergencyStep ==
  ASSUME "receipt" \notin Faults
  PROVE  BooksInv /\ NoEmergency /\ [Next]_vars => NoEmergency'
<1> SUFFICES ASSUME BooksInv, NoEmergency, [Next]_vars, NEW k \in EmergencyKeys PROVE ops'[k] = "none"
  BY DEF NoEmergency
<1>1. PolicyMove /\ ops[k] = "none"
  BY SellStepIs DEF SellStep, NoEmergency
<1>2. \A x \in BuyKeys, q \in LotIx : ~ReceiptMissing(x, q)
  BY DEF ReceiptMissing, Fault
<1> QED BY <1>1, <1>2 DEF PolicyMove, Unresolved

-----------------------------------------------------------------------------
\* What is on sale of a lot by its protections, and in all.
RestOf  == [k \in Keys |-> Rest(k)]
OpenLot == [i \in LotIx |-> OpenOf(LotKeys(i))]
OpenAll == [i \in LotIx |-> OpenOf(LotKeys(i)) + Rest(Rearm(i))]
\* What a lot may still have on sale.
Cap == [i \in LotIx |-> IF i \in DOMAIN lots THEN lots[i].qty - Sold(i) - lots[i].seen[Exit] ELSE 0]

\* Nothing negative is on sale.
LEMMA RestNat ==
  ASSUME BooksInv, NEW k \in Keys
  PROVE  /\ Rest(k) \in Nat /\ (~Live(ord, k) => Rest(k) = 0) /\ (Live(ord, k) => Rest(k) = Left(k))
         /\ RestOf[k] = Rest(k)
<1>1. Working /\ ord[k].filled \in Nat /\ ord[k].qty \in Nat
  BY OrderFields DEF BooksInv, CoreInv, BaseInv, OrdersInv
<1>2. Live(ord, k) => Left(k) \in Nat
  BY <1>1 DEF Working, Left
<1> QED BY <1>2 DEF Rest, RestOf, Left

\* No lot is of more shares than the target.
LEMMA LotFits ==
  ASSUME BooksInv, NEW i \in DOMAIN lots PROVE lots[i].qty <= FullQty
<1> DEFINE q == [j \in DOMAIN lots |-> lots[j].qty]
<1>1. BookTypes /\ Counts /\ Sums /\ BuyOps
  BY DEF BooksInv, CoreInv, BaseInv, BookTypes, Counts
<1>2. IsFiniteSet(DOMAIN lots) /\ \A j \in DOMAIN lots : q[j] \in Nat
  BY <1>1, LotsFinite, LotFields
<1>3. QtyTotal(lots) = SumFunctionOnSet(q, DOMAIN lots) /\ q[i] = lots[i].qty
  BY DEF QtyTotal, SumFunction
<1>4. QtyTotal(lots) <= FullQty
  BY <1>1, QtyIs, BookedFit DEF Sums
<1>5. FullQty \in Nat
  BY ConstantsAssumption
<1> HIDE DEF q
<1>6. q[i] <= SumFunctionOnSet(q, DOMAIN lots) /\ SumFunctionOnSet(q, DOMAIN lots) \in Nat /\ q[i] \in Nat
  BY <1>2, SumElement, SumNat
<1> QED BY <1>3, <1>4, <1>5, <1>6

\* The protections of a lot put one quantity on sale: that of any that works.
LEMMA OpenOfIs ==
  ASSUME BooksInv, SellInv, NEW i \in LotIx
  PROVE  /\ OpenLot[i] \in Nat
         /\ OpenLot[i] = 0 \/ \E k \in LotKeys(i) : Live(ord, k) /\ OpenLot[i] = Left(k)
<1>1. CoreInv /\ Paired /\ FullQty \in Nat
  BY ConstantsAssumption DEF BooksInv, CoreInv, OrdersInv
<1>2. \A k \in LotKeys(i) : k \in LotNames(i) /\ k \in Keys
  BY Askers DEF LotNames
<1> DEFINE Is(m) == /\ \A k \in LotKeys(i) : Rest(k) <= m
                    /\ m # 0 => \E k \in LotKeys(i) : Rest(k) = m
<1>3. \E m \in 0 .. FullQty : Is(m)
  <2>1. CASE \A k \in LotKeys(i) : ~Live(ord, k)
    <3>1. \A k \in LotKeys(i) : Rest(k) = 0
      BY <1>2, <2>1, RestNat
    <3>2. Is(0) /\ 0 \in 0 .. FullQty
      BY <1>1, <3>1
    <3> QED BY <3>2
  <2>2. ASSUME NEW k \in LotKeys(i), Live(ord, k) PROVE \E m \in 0 .. FullQty : Is(m)
    <3>1. i \in DOMAIN lots
      BY <1>1, <1>2, <2>2, NoLotNoOrder DEF NoOrder, Live
    <3>2. Left(k) + Sold(i) + lots[i].seen[Exit] <= lots[i].qty
      BY <1>2, <2>2, <3>1 DEF SellInv, Cover
    <3>3. /\ Sold(i) \in Nat /\ lots[i].seen[Exit] \in Nat /\ lots[i].qty \in Nat /\ lots[i].qty <= FullQty
          /\ Rest(k) = Left(k) /\ Rest(k) \in Nat
      BY <1>1, <1>2, <2>2, <3>1, SoldNat, LotSeen, LotFits, RestNat DEF CoreInv, BaseInv
    <3>4. Rest(k) \in 0 .. FullQty
      BY <1>1, <3>2, <3>3
    <3>5. \A x \in LotKeys(i) : Rest(x) <= Rest(k)
      <4> SUFFICES ASSUME NEW x \in LotKeys(i) PROVE Rest(x) <= Rest(k)
        OBVIOUS
      <4>1. CASE Live(ord, x)
        <5>1. Left(x) = Left(k)
          BY <1>1, <2>2, <4>1 DEF Paired
        <5> QED BY <1>2, <3>3, <4>1, <5>1, RestNat
      <4>2. CASE ~Live(ord, x)
        BY <1>2, <3>3, <4>2, RestNat
      <4> QED BY <4>1, <4>2
    <3>6. Is(Rest(k))
      BY <3>5
    <3> QED BY <3>4, <3>6
  <2> QED BY <2>1, <2>2
<1>4. OpenLot[i] \in 0 .. FullQty /\ Is(OpenLot[i])
  <2>1. OpenLot[i] = CHOOSE m \in 0 .. FullQty : Is(m)
    BY DEF OpenLot, OpenOf
  <2> QED BY <1>3, <2>1
<1>5. OpenLot[i] \in Nat
  BY <1>1, <1>4
<1>6. ASSUME NEW k \in LotKeys(i), Rest(k) = OpenLot[i], OpenLot[i] # 0
      PROVE  Live(ord, k) /\ OpenLot[i] = Left(k)
  BY <1>2, <1>6, RestNat
<1> QED BY <1>4, <1>5, <1>6

\* Protections and safety stop of a lot together: no more than it has left.
LEMMA OpenWithin ==
  ASSUME BooksInv, SellInv, NEW i \in LotIx
  PROVE  /\ OpenAll[i] \in Nat /\ OpenAll[i] = OpenLot[i] + RestOf[Rearm(i)]
         /\ Cap[i] \in Nat /\ OpenAll[i] <= Cap[i]
         /\ (\A k \in LotNames(i) : ~Live(ord, k)) => OpenAll[i] = 0
<1>1. BaseInv /\ CoreInv /\ BookTypes /\ Rearm(i) \in Keys /\ Rearm(i) \in LotNames(i)
  BY Families, LotKeyFacts DEF BooksInv, CoreInv, BaseInv
<1>2. /\ OpenLot[i] \in Nat
      /\ OpenLot[i] = 0 \/ \E k \in LotKeys(i) : Live(ord, k) /\ OpenLot[i] = Left(k)
  BY OpenOfIs
<1>3. Rest(Rearm(i)) \in Nat /\ RestOf[Rearm(i)] = Rest(Rearm(i))
      /\ (~Live(ord, Rearm(i)) => Rest(Rearm(i)) = 0)
      /\ (Live(ord, Rearm(i)) => Rest(Rearm(i)) = Left(Rearm(i)))
  BY <1>1, RestNat
<1>4. OpenAll[i] = OpenLot[i] + Rest(Rearm(i))
  BY DEF OpenAll, OpenLot
<1>5. (\A k \in LotNames(i) : ~Live(ord, k)) => OpenAll[i] = 0
  BY <1>1, <1>2, <1>3, <1>4 DEF LotNames
<1>6. CASE i \notin DOMAIN lots
  <2>1. \A k \in LotNames(i) : ~Live(ord, k)
    BY <1>1, <1>6, NoLotNoOrder DEF NoOrder, Live
  <2>2. Cap[i] = 0
    BY <1>6 DEF Cap
  <2> QED BY <1>2, <1>3, <1>4, <1>5, <2>1, <2>2
<1>7. CASE i \in DOMAIN lots
  <2>1. /\ Cap[i] = lots[i].qty - Sold(i) - lots[i].seen[Exit]
        /\ lots[i].qty \in Nat /\ Sold(i) \in Nat /\ lots[i].seen[Exit] \in Nat
        /\ Sold(i) + lots[i].seen[Exit] <= lots[i].qty
        /\ \A k \in LotNames(i) : Live(ord, k) => Left(k) + Sold(i) + lots[i].seen[Exit] <= lots[i].qty
    BY <1>1, <1>7, LotSeen, SoldNat DEF Cap, SellInv, Cover
  <2>2. CASE Live(ord, Rearm(i))
    <3>1. OpenLot[i] = 0
      BY <1>2, <1>7, <2>2, RearmAlone
    <3> QED BY <1>1, <1>3, <1>4, <1>5, <2>1, <2>2, <3>1
  <2>3. CASE ~Live(ord, Rearm(i))
    <3>1. OpenLot[i] = 0 \/ OpenLot[i] + Sold(i) + lots[i].seen[Exit] <= lots[i].qty
      BY <1>2, <2>1 DEF LotNames
    <3> QED BY <1>2, <1>3, <1>4, <1>5, <2>1, <2>3, <3>1
  <2> QED BY <2>2, <2>3
<1> QED BY <1>2, <1>3, <1>4, <1>5, <1>6, <1>7

\* What the lots may still have on sale, in all.
LEMMA CapSum ==
  ASSUME BooksInv, SellInv
  PROVE  SumFunctionOnSet(Cap, LotIx)
           = booked[Entry] + booked[AddOn] - exitBooked - SumFunctionOnSet(SoldOf, LotIx)
<1> DEFINE D == DOMAIN lots
           q == [i \in LotIx |-> IF i \in D THEN lots[i].qty ELSE 0]
           e == [i \in LotIx |-> IF i \in D THEN lots[i].seen[Exit] ELSE 0]
           se == [i \in LotIx |-> SoldOf[i] + e[i]]
           qty == [i \in D |-> lots[i].qty]
<1>1. BaseInv /\ BookTypes /\ CoreInv /\ Sums /\ Counts /\ IsFiniteSet(D) /\ D \subseteq LotIx /\ IsFiniteSet(LotIx)
  BY LotsFinite, SellFamilies DEF BooksInv, CoreInv, BaseInv, BookTypes, Counts
<1>2. \A i \in D : lots[i].qty \in Nat /\ lots[i].seen[Exit] \in Nat
  BY <1>1, LotSeen
<1>3. \A i \in LotIx : Sold(i) \in Nat /\ SoldOf[i] = Sold(i) /\ (i \notin D => Sold(i) = 0)
  <2> SUFFICES ASSUME NEW i \in LotIx, i \notin D PROVE Sold(i) = 0
    BY <1>1, SoldNat
  <2>1. \A k \in LotNames(i) : Filled[k] = 0
    BY <1>1, NoLotNoOrder, Askers DEF Filled, NoOrder
  <2> QED BY <2>1, SellFamilies, SumZero DEF Sold
<1>4. \A i \in LotIx : /\ q[i] \in Int /\ e[i] \in Int /\ SoldOf[i] \in Int /\ se[i] \in Int /\ Cap[i] \in Int
                       /\ se[i] = SoldOf[i] + e[i] /\ q[i] = Cap[i] + se[i]
  BY <1>2, <1>3 DEF Cap
<1>5. SumFunctionOnSet(q, LotIx) = QtyTotal(lots)
  <2>1. \A i \in D : qty[i] \in Int /\ q[i] = qty[i]
    BY <1>1, <1>2
  <2>2. \A i \in LotIx \ D : q[i] = 0
    OBVIOUS
  <2>3. QtyTotal(lots) = SumFunctionOnSet(qty, D)
    BY DEF QtyTotal, SumFunction
  <2> HIDE DEF D, q, qty
  <2> QED BY <1>1, <2>1, <2>2, <2>3, SumExtends
<1>6. SumFunctionOnSet(e, LotIx) = exitBooked
  <2>1. \A i \in D : ExitSeen[i] \in Int /\ e[i] = ExitSeen[i]
    BY <1>1, <1>2 DEF ExitSeen
  <2>2. \A i \in LotIx \ D : e[i] = 0
    OBVIOUS
  <2>3. SumFunctionOnSet(ExitSeen, D) = exitBooked
    BY <1>1 DEF Sums, ExitBooks
  <2> HIDE DEF D, e
  <2> QED BY <1>1, <2>1, <2>2, <2>3, SumExtends
<1>7. QtyTotal(lots) = booked[Entry] + booked[AddOn]
  BY <1>1, QtyIs DEF Sums
<1>8. booked[Entry] \in Nat /\ booked[AddOn] \in Nat /\ exitBooked \in Nat
  BY <1>1 DEF BookTypes, BuyKeys
<1> HIDE DEF D, q, e, se, qty
<1>9. SumFunctionOnSet(se, LotIx) = SumFunctionOnSet(SoldOf, LotIx) + SumFunctionOnSet(e, LotIx)
  BY <1>1, <1>4, SumPlus
<1>10. SumFunctionOnSet(q, LotIx) = SumFunctionOnSet(Cap, LotIx) + SumFunctionOnSet(se, LotIx)
  BY <1>1, <1>4, SumPlus
<1>11. SumFunctionOnSet(Cap, LotIx) \in Int /\ SumFunctionOnSet(SoldOf, LotIx) \in Int
  BY <1>1, <1>4, SumInt
<1> QED BY <1>5, <1>6, <1>7, <1>8, <1>9, <1>10, <1>11

\* What is on sale: by the exit, the emergency stops and on each lot.
LEMMA OpenParts ==
  ASSUME BooksInv, SellInv
  PROVE  /\ OpenSells = Rest(Exit) + SumFunctionOnSet(RestOf, EmergencyKeys) + SumFunctionOnSet(OpenAll, LotIx)
         /\ SumFunctionOnSet(RestOf, EmergencyKeys) \in Nat /\ SumFunctionOnSet(OpenAll, LotIx) \in Nat
<1> DEFINE S == [i \in LotIx |-> {Rearm(i)}]
           of == UNION {S[j] : j \in LotIx}
           one == [i \in LotIx |-> RestOf[Rearm(i)]]
<1>1. \A k \in Keys : RestOf[k] = Rest(k) /\ RestOf[k] \in Int /\ RestOf[k] \in Nat
  BY RestNat
<1>2. ASSUME NEW k \in Keys PROVE SumFunctionOnSet(RestOf, {k}) = RestOf[k]
  <2>1. {} \cup {k} = {k} /\ IsFiniteSet({}) /\ k \notin {} /\ RestOf[k] \in Int
    BY <1>1, FS_EmptySet
  <2> QED BY <2>1, SumAdd, SumEmpty
<1>3. of = {Rearm(i) : i \in LotIx}
  OBVIOUS
<1>4. IsFiniteSet(of) /\ SumFunctionOnSet(RestOf, of) = SumFunctionOnSet(one, LotIx)
  <2>1. /\ \A j \in LotIx : IsFiniteSet(S[j]) /\ \A x \in S[j] : RestOf[x] \in Int
        /\ \A i, j \in LotIx : i # j => S[i] \cap S[j] = {}
    <3>1. \A i \in LotIx : S[i] = {Rearm(i)} /\ Rearm(i) \in Keys /\ Rearm(i)[2] = i
      BY Families
    <3> HIDE DEF S
    <3>2. \A i, j \in LotIx : i # j => Rearm(i) # Rearm(j)
      BY <3>1
    <3> QED BY <1>1, <3>1, <3>2, FS_Singleton
  <2>2. \A j \in LotIx : one[j] = SumFunctionOnSet(RestOf, S[j])
    BY <1>2, Families
  <2> HIDE DEF S, one
  <2> QED BY <2>1, <2>2, SumFamily, SellFamilies
<1>5. /\ IsFiniteSet({Exit}) /\ IsFiniteSet({Exit} \cup EmergencyKeys)
      /\ {Exit} \cap EmergencyKeys = {} /\ ({Exit} \cup EmergencyKeys) \cap of = {}
      /\ of \subseteq Keys /\ EmergencyKeys \subseteq Keys /\ Exit \in Keys
  <2>1. IsFiniteSet({Exit}) /\ IsFiniteSet({Exit} \cup EmergencyKeys) /\ {Exit} \cap EmergencyKeys = {}
    BY SellFamilies, FS_Singleton, FS_Union
  <2>2. of \subseteq Keys /\ EmergencyKeys \subseteq Keys /\ Exit \in Keys
    BY <1>3, Families
  <2>3. Exit \notin of /\ EmergencyKeys \cap of = {}
    <3>1. \A i \in LotIx : Rearm(i)[1] = "REARM"
      BY Families
    <3>2. Exit[1] = "EXIT" /\ \A k \in EmergencyKeys : k[1] = "EMERGENCY_STOP"
      BY Families
    <3> HIDE DEF of
    <3> QED BY <1>3, <3>1, <3>2
  <2> QED BY <2>1, <2>2, <2>3
<1>6. SumFunctionOnSet(RestOf, {Exit} \cup EmergencyKeys)
        = SumFunctionOnSet(RestOf, {Exit}) + SumFunctionOnSet(RestOf, EmergencyKeys)
  BY <1>1, <1>5, SumUnion, SellFamilies
<1>7. SumFunctionOnSet(RestOf, ({Exit} \cup EmergencyKeys) \cup of)
        = SumFunctionOnSet(RestOf, {Exit} \cup EmergencyKeys) + SumFunctionOnSet(RestOf, of)
  <2> HIDE DEF of
  <2> QED BY <1>1, <1>4, <1>5, SumUnion
<1>8. SumFunctionOnSet(OpenAll, LotIx) = SumFunctionOnSet(OpenLot, LotIx) + SumFunctionOnSet(one, LotIx)
  <2>1. \A i \in LotIx : OpenLot[i] \in Int /\ one[i] \in Int /\ OpenAll[i] = OpenLot[i] + one[i]
    BY <1>1, OpenWithin, OpenOfIs, Families
  <2> HIDE DEF one
  <2> QED BY <2>1, SumPlus, SellFamilies
<1>9. OpenSells = SumFunctionOnSet(OpenLot, LotIx) + SumFunctionOnSet(RestOf, ({Exit} \cup EmergencyKeys) \cup of)
  <2>1. {Exit} \cup EmergencyKeys \cup {Rearm(i) : i \in LotIx} = ({Exit} \cup EmergencyKeys) \cup of
    BY <1>3
  <2>2. SumFunction(OpenLot) = SumFunctionOnSet(OpenLot, LotIx)
    BY DEF SumFunction, OpenLot
  <2> HIDE DEF of
  <2> QED BY <2>1, <2>2 DEF OpenSells, RestOf, OpenLot
<1>10. SumFunctionOnSet(RestOf, EmergencyKeys) \in Nat
  BY <1>1, <1>5, SumNat, SellFamilies
<1>11. SumFunctionOnSet(OpenAll, LotIx) \in Nat
  BY OpenWithin, SumNat, SellFamilies
<1>12. /\ SumFunctionOnSet(OpenLot, LotIx) \in Nat
       /\ SumFunctionOnSet(RestOf, {Exit}) = Rest(Exit) /\ Rest(Exit) \in Nat
  BY <1>1, <1>2, <1>5, OpenOfIs, SumNat, SellFamilies
<1>13. SumFunctionOnSet(one, LotIx) \in Nat
  <2>1. \A i \in LotIx : one[i] \in Nat
    BY <1>1, Families
  <2> HIDE DEF one
  <2> QED BY <2>1, SumNat, SellFamilies
<1> HIDE DEF of, one
<1> QED BY <1>4, <1>6, <1>7, <1>8, <1>9, <1>10, <1>11, <1>12, <1>13

\* Without emergency stops no more is on sale than is held.
LEMMA NotOversold ==
  ASSUME BooksInv, SellInv, NoEmergency PROVE NeverOversold
<1>1. BaseInv /\ BookTypes /\ CoreInv /\ Sums /\ ExitInv
  BY DEF BooksInv, CoreInv, BaseInv, SellInv
<1>2. /\ OpenSells = Rest(Exit) + SumFunctionOnSet(RestOf, EmergencyKeys) + SumFunctionOnSet(OpenAll, LotIx)
      /\ SumFunctionOnSet(OpenAll, LotIx) \in Nat
  BY OpenParts
<1>3. SumFunctionOnSet(RestOf, EmergencyKeys) = 0 /\ SumFunctionOnSet(Filled, EmergencyKeys) = 0
  <2>1. \A k \in EmergencyKeys : RestOf[k] = 0 /\ Filled[k] = 0
    <3> SUFFICES ASSUME NEW k \in EmergencyKeys PROVE RestOf[k] = 0 /\ Filled[k] = 0
      OBVIOUS
    <3>1. ord[k] = NoOrder /\ k \in Keys
      BY AskedFirst, Families DEF NoEmergency
    <3> QED BY <3>1 DEF RestOf, Rest, Filled, NoOrder, Live
  <2> QED BY <2>1, SumZero, SellFamilies
<1>4. Position(ord) = ord[Entry].filled + ord[AddOn].filled - ord[Exit].filled
           - SumFunctionOnSet(Filled, EmergencyKeys) - SumFunctionOnSet(SoldOf, LotIx)
  BY <1>1, PositionParts
<1>5. /\ booked[Entry] \in Nat /\ booked[AddOn] \in Nat /\ exitBooked \in Nat
      /\ ord[Entry].filled \in Nat /\ ord[AddOn].filled \in Nat /\ ord[Exit].filled \in Nat /\ ord[Exit].qty \in Nat
      /\ booked[Entry] <= ord[Entry].filled /\ booked[AddOn] <= ord[AddOn].filled
      /\ SumFunctionOnSet(SoldOf, LotIx) \in Nat /\ Exit \in Keys
  BY <1>1, OrderFields, ExitIsSell, SoldNat DEF BookTypes, BuyKeys, Sums, BuySums
<1>6. CASE ops[Exit] \notin Unresolved
  <2>1. ~Live(ord, Exit) /\ ord[Exit].filled = exitBooked
    BY <1>6, ExitOver
  <2>2. Rest(Exit) = 0
    BY <2>1 DEF Rest
  <2>3. SumFunctionOnSet(OpenAll, LotIx) <= SumFunctionOnSet(Cap, LotIx)
    <3>1. \A i \in LotIx : OpenAll[i] \in Int /\ Cap[i] \in Int /\ OpenAll[i] <= Cap[i]
      BY OpenWithin
    <3> QED BY <3>1, SumMonotone, SellFamilies
  <2> QED BY <1>2, <1>3, <1>4, <1>5, <2>1, <2>2, <2>3, CapSum DEF NeverOversold
<1>7. CASE ops[Exit] \in Unresolved
  <2>1. \A i \in LotIx : OpenAll[i] = 0
    <3> SUFFICES ASSUME NEW i \in LotIx PROVE \A k \in LotNames(i) : ~Live(ord, k)
      BY OpenWithin
    <3>1. CASE i \in DOMAIN lots
      BY <1>7, <3>1, ExitAlone
    <3>2. CASE i \notin DOMAIN lots
      BY <1>1, <3>2, NoLotNoOrder DEF NoOrder, Live
    <3> QED BY <3>1, <3>2
  <2>2. SumFunctionOnSet(OpenAll, LotIx) = 0
    BY <2>1, SumZero, SellFamilies
  <2>3. ord[Exit].filled <= ord[Exit].qty
        /\ ord[Exit].qty + SumFunctionOnSet(SoldOf, LotIx) <= booked[Entry] + booked[AddOn]
    BY <1>1, <1>7 DEF ExitInv
  <2>4. Rest(Exit) <= ord[Exit].qty - ord[Exit].filled /\ Rest(Exit) \in Nat
    BY <1>5, <2>3, RestNat DEF Left
  <2> QED BY <1>2, <1>3, <1>4, <1>5, <2>2, <2>3, <2>4 DEF NeverOversold
<1> QED BY <1>6, <1>7

\* As long as every fill comes with its timestamp, the campaign never has more
\* shares on sale than it holds, whatever else fails.
THEOREM NothingOversold ==
  ASSUME "receipt" \notin Faults PROVE Spec => []NeverOversold
<1>1. Init => NoEmergency
  BY Families DEF Init, NoEmergency
<1>2. BooksInv /\ NoEmergency /\ [Next]_vars => NoEmergency'
  BY NoEmergencyStep
<1>3. BooksInv /\ SellInv /\ NoEmergency => NeverOversold
  BY NotOversold
<1> QED BY <1>1, <1>2, <1>3, SellInvariant, PTL DEF Spec
=============================================================================
