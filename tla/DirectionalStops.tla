-------------------------- MODULE DirectionalStops --------------------------
(***************************************************************************)
(* The protections of one position opened by the directional (LLM)         *)
(* selection: the stop sent when the entry is filled                       *)
(* (execution_engine/children_submission.py), its repair and its promotion *)
(* to a trailing stop by the watcher (protection_watcher.py), and the exit *)
(* at a fixed session (service/llm_directional/protections.py).            *)
(*                                                                         *)
(* Every request is recorded as NEW before it is sent and stays NEW while  *)
(* its outcome is unknown.  Stops, and the late exit of another day, get a *)
(* new client id; the exit at the opening and the one of a breached stop   *)
(* have one each, which the broker takes once.  All orders below close the *)
(* position: sells of a long one, buys of a short one.                     *)
(***************************************************************************)
EXTENDS Integers

CONSTANTS
  Qty,        \* shares of the filled entry
  Stops,      \* ids of initial stops; one is used again when it is settled
  Trails,     \* ids of trailing stops, likewise
  Short,      \* the position is a short one
  Faults,     \* kinds of fault that may happen
  MaxFaults   \* and how many of them

Slots      == Stops \cup Trails
Exits      == {"moo", "late", "breach"}
Ids        == Slots \cup Exits
FaultKinds == {"lost", "undelivered", "refused", "crash", "sync", "position",
               "unconfirmed", "expires", "masked", "status"}

ASSUME ConstantsAssumption ==
  /\ Qty \in Nat \ {0} /\ MaxFaults \in Nat
  /\ Short \in BOOLEAN /\ Faults \subseteq FaultKinds
  /\ Stops \cap Trails = {} /\ Slots \cap (Exits \cup {"none"}) = {}

VARIABLES
  held,      \* shares at the broker
  price,     \* low: at the stop; high: at the trailing stop's trigger
  due,       \* exit_action: nothing, an order for the next opening, a late one
  order,     \* the broker: orders by client id
  row,       \* the database: status of each request
  known,     \* shares of the open lots, at the last sync
  pc,        \* where the executor, then the watcher's cycle, is
  task,      \* what the request or cancel at hand is for
  cur,       \* the order at hand
  qty,       \* and its shares
  todo,      \* children the exit has still to cancel
  faults     \* faults so far

vars   == <<held, price, due, order, row, known, pc, task, cur, qty, todo, faults>>
market == <<held, price, due>>
cycle  == <<pc, task, cur, qty, todo>>

Places   == {"child", "idle", "item", "ask", "confirm", "position", "arm",
             "post", "verify", "exit", "clear"}
Tasks    == {"child", "stop", "trail", "loose", "rearm", "arm", "moo", "late"}
Live     == {"open", "ending"}
Ended    == {"filled", "canceled", "expired"}
Statuses == {"none", "new", "open", "over"}
Records  == [left : 0 .. Qty, at : {"none"} \cup Live \cup Ended, loose : BOOLEAN]
Blank    == [left |-> 0, at |-> "none", loose |-> FALSE]

Init ==
  /\ held = Qty /\ known = Qty /\ price = "mid" /\ due = "no"
  /\ order = [i \in Ids |-> Blank] /\ row = [i \in Ids |-> "none"]
  /\ pc = "child" /\ task = "child" /\ cur = "none" /\ qty = 0 /\ todo = {}
  /\ faults = 0

-----------------------------------------------------------------------------
May(f)     == f \in Faults /\ faults < MaxFaults
Fault(f)   == May(f) /\ faults' = faults + 1
NoFault    == UNCHANGED faults
Working(i) == order[i].at \in Live
Over_Expired(i) == order[i].at \in {"filled", "canceled"}
Over(i)    == order[i].at \in Ended

\* load_open_child_orders: every request of the parent that is not closed.
Pending(i) == row[i] \in {"new", "open"}
Children   == {i \in Ids : Pending(i)}

\* has_open_exit_order_for_symbol looks for sells only.
OpenExit_Ignored == Short /\ \E i \in Exits : Pending(i)
OpenExit == ~Short /\ \E i \in Exits : Pending(i)

OpenStop_Observed == \E i \in Slots : row[i] = "open"
OpenStop == \E i \in Slots : Pending(i)

\* A broker order that ended closes its row.  An id that will not be asked for
\* again is forgotten, and free for a request of the same kind.
Once == {"moo", "breach"}
ClosedOrder(i) == IF i \in Once THEN order[i] ELSE Blank
ClosedRow(i)   == IF i \in Once THEN "over" ELSE "none"
Close(i) ==
  /\ order' = [order EXCEPT ![i] = ClosedOrder(i)]
  /\ row'   = [row EXCEPT ![i] = ClosedRow(i)]

Least(a, b) == IF a < b THEN a ELSE b

\* min(recorded quantity, position): never more than is there.
Take_Recorded(recorded) == recorded
Take(recorded) == Least(recorded, held)

Goto(place, what) == pc' = place /\ task' = what /\ UNCHANGED <<cur, qty, todo>>

Idle == pc' = "idle" /\ task' = "arm" /\ cur' = "none" /\ qty' = 0 /\ todo' = {}

\* The step over the parents without a take-profit, which these always are.
StartArm == pc' = "arm" /\ task' = "arm" /\ cur' = "none" /\ qty' = known /\ todo' = {}

-----------------------------------------------------------------------------
(***************************************************************************)
(* submit_order: the request is written as NEW, then sent.  A row that has *)
(* an observed order keeps that order's status.                            *)
(***************************************************************************)
Reserved_Later(i) == row[i]
Reserved(i) == IF row[i] = "over" THEN "over" ELSE "new"

Request(i, n, what) ==
  /\ row' = [row EXCEPT ![i] = Reserved(i)]
  /\ pc' = "post" /\ task' = what /\ cur' = i /\ qty' = n /\ todo' = {}
  /\ UNCHANGED <<market, order, known>>

\* A free id: build_initial_stop_intent and build_trailing_stop_intent make one.
Fresh(i) == row[i] = "none" /\ order[i] = Blank

Unused(i) == order[i].at = "none"

\* A trailing stop starts from the price of the moment it is accepted.
New == [left |-> qty, at |-> "open", loose |-> cur \in Trails /\ price # "high"]

Sent == order' = [order EXCEPT ![cur] = New]

\* The exit's attempts: one for the opening, one a day when it is late.
ExitId_OneKey(action) == "moo"
ExitId(action) == action

\* submit_children: the first stop, for what the executor saw filled.
SubmitChild ==
  /\ pc = "child" /\ ~OpenExit /\ ~OpenStop /\ NoFault
  /\ \E i \in Stops : Fresh(i) /\ Request(i, Qty, "child")

\* Where each caller goes on after a request that succeeded, and one that raised.
AfterSuccess ==
  \/ task = "trail" /\ Goto("verify", "trail")
  \/ task \in {"rearm", "loose"} /\ StartArm
  \/ task = "arm" /\ Goto("exit", "arm")
  \/ task \in {"child", "moo", "late"} /\ Idle

AfterFailure ==
  \/ task \in {"trail", "loose"} /\ StartArm
  \/ task = "arm" /\ Goto("exit", "arm")
  \/ task \in {"child", "rearm", "moo", "late"} /\ Idle

Accepted ==
  /\ pc = "post" /\ Unused(cur) /\ ~(cur = "moo" /\ due = "late")
  /\ Sent /\ row' = [row EXCEPT ![cur] = "open"] /\ AfterSuccess
  /\ NoFault /\ UNCHANGED <<market, known>>

AnswerLost ==
  /\ pc = "post" /\ Unused(cur) /\ ~(cur = "moo" /\ due = "late")
  /\ Fault("lost") /\ Sent /\ AfterFailure
  /\ UNCHANGED <<market, row, known>>

Undelivered ==
  /\ pc = "post" /\ Fault("undelivered") /\ AfterFailure
  /\ UNCHANGED <<market, order, row, known>>

\* A definite 4xx that is not about the client id; past 09:28 the broker takes
\* no order for the opening.  Masked: the answer to a first attempt is lost, the
\* transport sends the order again, and it is the second one that is refused.
Refused ==
  /\ pc = "post" /\ Unused(cur)
  /\ IF cur = "moo" /\ due = "late" THEN NoFault /\ UNCHANGED order
     ELSE \E f \in {"refused", "masked"} :
            Fault(f) /\ IF f = "masked" THEN Sent ELSE UNCHANGED order
  /\ row' = [row EXCEPT ![cur] = "none"] /\ AfterFailure
  /\ UNCHANGED <<market, known>>

\* The client id was used before: the answer proves nothing of this attempt.
Duplicate ==
  /\ pc = "post" /\ ~Unused(cur) /\ AfterFailure
  /\ NoFault /\ UNCHANGED <<market, order, row, known>>

-----------------------------------------------------------------------------
(***************************************************************************)
(* The cycle: sync, then the items, then the missing stops, then the exit. *)
(***************************************************************************)
\* A live status that map_alpaca_status does not know is FAILED, which is final.
Misread == IF May("status") THEN SUBSET {i \in Ids : Working(i)} ELSE {{}}

Sync ==
  /\ pc = "idle" /\ Goto("item", "arm")
  /\ known' = held
  /\ order' = [i \in Ids |-> IF Over(i) THEN ClosedOrder(i) ELSE order[i]]
  /\ \E odd \in Misread :
       /\ row' = [i \in Ids |-> IF Over(i) \/ i \in odd THEN ClosedRow(i)
                                ELSE IF Working(i) THEN "open" ELSE row[i]]
       /\ IF odd = {} THEN NoFault ELSE Fault("status")
  /\ UNCHANGED market

SyncFails ==
  /\ pc = "idle" /\ Fault("sync") /\ Goto("item", "arm")
  /\ UNCHANGED <<market, order, row, known>>

\* load_pending_protection_watch_items: observed stops, no trailing one pending.
Item(i) == i \in Stops /\ row[i] = "open" /\ \A t \in Trails : ~Pending(t)

NoItem ==
  /\ pc = "item" /\ (\A i \in Stops : ~Item(i)) /\ StartArm
  /\ NoFault /\ UNCHANGED <<market, order, row, known>>

\* _process_item, up to the cancel of the initial stop.
Settled(i) ==
  /\ Item(i) /\ Over(i) /\ Close(i) /\ StartArm
Early(i) ==
  /\ Item(i) /\ Working(i) /\ price # "high" /\ StartArm /\ UNCHANGED <<order, row>>
Triggered(i) ==
  /\ Item(i) /\ Working(i) /\ price = "high"
  /\ pc' = "ask" /\ task' = "stop" /\ cur' = i /\ UNCHANGED <<qty, todo, order, row>>
ProcessItem ==
  /\ pc = "item" /\ NoFault /\ UNCHANGED <<market, known>>
  /\ \E i \in Stops : Settled(i) \/ Early(i) \/ Triggered(i)

\* cancel_broker_order raises when the order has ended already.
Raised ==
  \/ task = "loose" /\ StartArm
  \/ task \in {"stop", "moo", "late"} /\ Idle

Cancel ==
  /\ pc = "ask" /\ Working(cur) /\ Goto("confirm", task)
  /\ order' = [order EXCEPT ![cur].at = "canceled"]
  /\ NoFault /\ UNCHANGED <<market, row, known>>

CancelPending ==
  /\ pc = "ask" /\ Working(cur) /\ Goto("confirm", task) /\ Fault("unconfirmed")
  /\ order' = [order EXCEPT ![cur].at = "ending"]
  /\ UNCHANGED <<market, row, known>>

CancelRefused ==
  /\ pc = "ask" /\ Over(cur) /\ Raised
  /\ NoFault /\ UNCHANGED <<market, order, row, known>>

\* _cancel_initial_stop: the promotion goes on with what was not filled, the
\* trailing stop that is too loose is replaced by a fixed one.
Removed ==
  /\ pc = "confirm" /\ task \in {"stop", "loose"} /\ order[cur].at = "canceled"
  /\ Close(cur) /\ cur' = "none" /\ qty' = order[cur].left /\ UNCHANGED todo
  /\ IF task = "stop" THEN pc' = "position" /\ task' = "stop"
                      ELSE pc' = "arm" /\ task' = "loose"
  /\ NoFault /\ UNCHANGED <<market, known>>

NotRemoved ==
  /\ pc = "confirm" /\ task \in {"stop", "loose"} /\ order[cur].at # "canceled"
  /\ IF Over(cur) THEN Close(cur) ELSE UNCHANGED <<order, row>>
  /\ StartArm /\ NoFault /\ UNCHANGED <<market, known>>

\* A price that fell while the stop was canceled gets the fixed stop again.
Promote ==
  /\ pc = "position" /\ held > 0 /\ price = "high" /\ NoFault
  /\ \E t \in Trails : Fresh(t) /\ Request(t, Take(qty), "trail")

FellBack ==
  /\ pc = "position" /\ held > 0 /\ price # "high" /\ NoFault
  /\ pc' = "arm" /\ task' = "rearm" /\ qty' = Take(qty) /\ UNCHANGED <<cur, todo>>
  /\ UNCHANGED <<market, order, row, known>>

\* get_position answers None for a position that is gone and for any failure.
NoPosition == IF held = 0 THEN NoFault ELSE Fault("position")

PromoteNothing ==
  /\ pc = "position" /\ NoPosition /\ StartArm
  /\ UNCHANGED <<market, order, row, known>>

\* The accepted trailing stop is kept if its floor is not below the stop's.
Verified ==
  /\ pc = "verify" /\ (order[cur].at = "filled" \/ ~order[cur].loose) /\ StartArm
  /\ NoFault /\ UNCHANGED <<market, order, row, known>>

TooLoose ==
  /\ pc = "verify" /\ order[cur].at # "filled" /\ order[cur].loose
  /\ Goto("ask", "loose") /\ NoFault /\ UNCHANGED <<market, order, row, known>>

-----------------------------------------------------------------------------
(***************************************************************************)
(* _arm_gpt_stop, called for a stop to give back and for every parent.     *)
(***************************************************************************)
Leave == IF task = "arm" THEN Goto("exit", "arm") ELSE StartArm

Wanted == qty > 0 /\ ~OpenExit /\ ~OpenStop

ArmNothing ==
  /\ pc = "arm" /\ Leave /\ UNCHANGED <<market, order, row, known>>
  /\ IF Wanted THEN NoPosition ELSE NoFault

\* Its own failures matter only to its callers: see AfterFailure.
ArmStop ==
  /\ pc = "arm" /\ Wanted /\ held > 0 /\ NoFault
  /\ IF price = "low"
     THEN Request("breach", Take(qty), task)
     ELSE \E i \in Stops : Fresh(i) /\ Request(i, Take(qty), task)

(***************************************************************************)
(* apply_scheduled_exit: every child is canceled and seen to be, then what *)
(* is left is sold.                                                        *)
(***************************************************************************)
NoExit ==
  /\ pc = "exit" /\ (due = "no" \/ known = 0 \/ OpenExit) /\ Idle
  /\ NoFault /\ UNCHANGED <<market, order, row, known>>

BeginExit ==
  /\ pc = "exit" /\ due # "no" /\ known > 0 /\ ~OpenExit
  /\ pc' = "clear" /\ task' = due /\ todo' = Children /\ cur' = "none" /\ qty' = 0
  /\ NoFault /\ UNCHANGED <<market, order, row, known>>

\* A child whose request has no observed order blocks the exit.
ClearNext ==
  /\ pc = "clear" /\ NoFault /\ UNCHANGED <<market, order, row, known>>
  /\ \E i \in todo :
       IF row[i] = "new" THEN Idle
       ELSE pc' = "ask" /\ cur' = i /\ UNCHANGED <<task, qty, todo>>

Cleared ==
  /\ pc = "confirm" /\ task \in {"moo", "late"} /\ order[cur].at \in {"canceled", "expired"}
  /\ Close(cur) /\ pc' = "clear" /\ todo' = todo \ {cur} /\ cur' = "none"
  /\ NoFault /\ UNCHANGED <<market, known, task, qty>>

\* Filled: the stop won the race.  Otherwise the exit is refused.
NotCleared ==
  /\ pc = "confirm" /\ task \in {"moo", "late"}
  /\ order[cur].at \notin {"canceled", "expired"} /\ Idle
  /\ NoFault /\ UNCHANGED <<market, order, row, known>>

Sell ==
  /\ pc = "clear" /\ todo = {} /\ held > 0 /\ NoFault
  /\ Request(ExitId(task), Take(known), task)

SellNothing ==
  /\ pc = "clear" /\ todo = {} /\ NoPosition /\ Idle
  /\ UNCHANGED <<market, order, row, known>>

-----------------------------------------------------------------------------
(***************************************************************************)
(* The market, the calendar, and the end of a process.                     *)
(***************************************************************************)
OneFilled(o) ==
  [left |-> o.left - 1, at |-> IF o.left = 1 THEN "filled" ELSE o.at, loose |-> o.loose]

Fill(i) ==
  /\ Working(i) /\ (i = "moo" => due = "late")
  /\ held' = held - 1
  /\ order' = [order EXCEPT ![i] = OneFilled(@)]
  /\ NoFault /\ UNCHANGED <<price, due, row, known, cycle>>

CancelLands(i) ==
  /\ order[i].at = "ending" /\ order' = [order EXCEPT ![i].at = "canceled"]
  /\ NoFault /\ UNCHANGED <<market, row, known, cycle>>

\* Of its own the broker may end any order but a market order of the day.
Expire(i) ==
  /\ order[i].at = "open" /\ i \notin {"late", "breach"} /\ Fault("expires")
  /\ order' = [order EXCEPT ![i].at = "expired"]
  /\ UNCHANGED <<market, row, known, cycle>>

PriceMoves ==
  /\ held > 0 /\ price' \in {"low", "mid", "high"} \ {price}
  /\ NoFault /\ UNCHANGED <<held, due, order, row, known, cycle>>

TimePasses ==
  /\ \/ due = "no" /\ due' \in {"moo", "late"}
     \/ due = "moo" /\ due' = "late"
  /\ NoFault /\ UNCHANGED <<held, price, order, row, known, cycle>>

\* A process that dies at a request has left it Undelivered or AnswerLost.
Crash ==
  /\ pc \notin {"idle", "post"} /\ Fault("crash") /\ Idle
  /\ UNCHANGED <<market, order, row, known>>

Post == Accepted \/ AnswerLost \/ Undelivered \/ Refused \/ Duplicate
Promotion ==
  \/ NoItem \/ ProcessItem \/ Cancel \/ CancelPending \/ CancelRefused
  \/ Removed \/ NotRemoved \/ Promote \/ FellBack \/ PromoteNothing
  \/ Verified \/ TooLoose
Exit == NoExit \/ BeginExit \/ ClearNext \/ Cleared \/ NotCleared \/ Sell \/ SellNothing

Work == SubmitChild \/ Sync \/ SyncFails \/ Promotion \/ ArmNothing \/ ArmStop \/ Exit \/ Post

World ==
  \/ \E i \in Ids : Fill(i) \/ CancelLands(i) \/ Expire(i)
  \/ PriceMoves \/ TimePasses \/ Crash

Next == Work \/ World

Spec == Init /\ [][Next]_vars

\* The watcher cycles for ever and every call returns; a market order and one
\* for the opening trade, and a cancel that was taken ends the order.
FairSpec ==
  /\ Spec /\ WF_vars(Work)
  /\ \A i \in Exits : WF_vars(Fill(i))
  /\ WF_vars(\E i \in Ids : CancelLands(i))

-----------------------------------------------------------------------------
(* Values have their types.                                                *)
TypeOK ==
  /\ held \in 0 .. Qty /\ known \in 0 .. Qty /\ qty \in 0 .. Qty
  /\ price \in {"low", "mid", "high"} /\ due \in {"no", "moo", "late"}
  /\ order \in [Ids -> Records] /\ row \in [Ids -> Statuses]
  /\ pc \in Places /\ task \in Tasks /\ cur \in Ids \cup {"none"} /\ todo \subseteq Ids
  /\ faults \in 0 .. MaxFaults

(* Two orders never work on the same shares, and none is for more shares   *)
(* than are held: whatever is lost, no fill opens the opposite position.   *)
OneSale ==
  /\ \A i, j \in Ids : Working(i) /\ Working(j) => i = j
  /\ \A i \in Ids : Working(i) => order[i].left <= held

(* An order that may still trade has a request that counts as open: it is  *)
(* what keeps the next cycle from sending another one.                     *)
NoBlindOrder == \A i \in Ids : Working(i) => Pending(i)

(* An exit that was sent is never taken back by the watcher.               *)
ExitStands == \A e \in Exits : order[e].at \notin {"ending", "canceled"}

Covered == held = 0 \/ \E i \in Ids : Working(i) /\ order[i].left = held

\* A request that never reached the broker stays NEW: submit_order leaves it to
\* the operator, and nothing may be sent beside it.
Unresolved == \E i \in Ids : row[i] = "new" /\ Unused(i) /\ (pc = "post" => cur # i)

(* Whatever else fails on the way, shares come under an order for all of   *)
(* them again.                                                             *)
EventuallyCovered == ~Covered ~> Covered \/ Unresolved

(* A position whose last session has opened is closed in the end.          *)
DueExit == due = "late" ~> held = 0 \/ Unresolved
=============================================================================
