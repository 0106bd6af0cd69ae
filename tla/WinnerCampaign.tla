--------------------------- MODULE WinnerCampaign ---------------------------
(***************************************************************************)
(* One durable LONG campaign of execution_engine/winner_runtime.py and the *)
(* orders it owns at the broker.                                           *)
(*                                                                         *)
(* A watcher tick reloads the saved campaign, reconciles every unresolved  *)
(* operation by its client identifier, protects what was filled, observes  *)
(* the standing protections, and only then exits, tightens or buys.  Every *)
(* POST or PATCH follows a save of the operation that it carries out.  The *)
(* tick may stop between any two calls (process death, exception); the     *)
(* next one starts again from what was saved.                              *)
(*                                                                         *)
(* A request that raises and a process that dies leave the same state: the *)
(* in-memory campaign is dropped, the saved one stays.  Prices are left    *)
(* out; a stop price is a level, quantities are whole shares.              *)
(***************************************************************************)
EXTENDS Integers, Sequences, FiniteSets, Functions

CONSTANTS
  FullQty,      \* state['full_quantity']: shares of the frozen target
  InitialQty,   \* state['initial_quantity']: shares the first buy may take
  TakeProfit,   \* policy take_profit_pct is set: protections are OCO pairs
  Trailing,     \* policy trailing_stop_pct is set: stops are raised
  Reinforce,    \* policy reinforcement_enabled
  Standard,     \* policy confirmation_bars = 0: the entry is a DAY order
  MaxStop,      \* bound: highest stop level (the initial one is 1)
  Faults,       \* which failures the environment may cause
  MaxFaults     \* bound: how many of them

FaultKinds ==
  {"crash",        \* the tick stops between two calls
   "lost",         \* a POST is carried out, its answer never arrives
   "undelivered",  \* a POST fails and no order exists
   "rejected",     \* a POST is definitively refused (4xx)
   "receipt",      \* a fill has no timestamp yet
   "unconfirmed",  \* a cancel is accepted, the next GET does not show it yet
   "canceled"}     \* the broker cancels a standing protection

ASSUME ConstantsAssumption ==
  /\ FullQty \in Nat \ {0}
  /\ InitialQty \in 1 .. FullQty
  /\ {TakeProfit, Trailing, Reinforce, Standard} \subseteq BOOLEAN
  /\ MaxStop \in Nat \ {0}
  /\ Faults \subseteq FaultKinds
  /\ MaxFaults \in Nat

(***************************************************************************)
(* Client identifiers.  The runtime derives one from the campaign, the     *)
(* action and, where there may be several, the lot or the fill: a triple.  *)
(***************************************************************************)
LotIx == 1 .. FullQty

Entry        == <<"ENTRY", 0, 0>>
AddOn        == <<"ADD", 0, 0>>
Exit         == <<"EXIT", 0, 0>>
Protect(i)   == <<"PROTECT", i, 0>>    \* stop alone, or take-profit of an OCO
StopLeg(i)   == <<"LEG", i, 0>>        \* stop leg of the OCO of lot i
Tighten(i,l) == <<"TIGHTEN", i, l>>
Rearm(i)     == <<"REARM", i, 0>>
Emergency(k, q) == <<"EMERGENCY_STOP", q, IF k = Entry THEN 0 ELSE 1>>
NoKey        == <<"NONE", 0, 0>>

BuyKeys       == {Entry, AddOn}
EmergencyKeys == {Emergency(k, q) : k \in BuyKeys, q \in LotIx}
TightenKeys   == {Tighten(i, l) : i \in LotIx, l \in 2 .. MaxStop}
LotKeys(i)    == {Protect(i), StopLeg(i)} \cup {Tighten(i, l) : l \in 2 .. MaxStop}
OpKeys        == BuyKeys \cup {Exit} \cup EmergencyKeys \cup TightenKeys
                   \cup {Protect(i) : i \in LotIx} \cup {Rearm(i) : i \in LotIx}
Keys          == OpKeys \cup {StopLeg(i) : i \in LotIx}
SellKeys      == Keys \ BuyKeys

OpStatus     == {"none", "RESERVED", "UNKNOWN", "SUBMITTED", "DONE", "MANUAL_REVIEW"}
Unresolved_NotReserved == {"UNKNOWN", "SUBMITTED"}
Unresolved   == {"RESERVED", "UNKNOWN", "SUBMITTED"}
OrderStatus  == {"none", "live", "filled", "canceled", "replaced"}
Released     == {"CLOSED", "EXPIRED"}

VARIABLES
  \* saved with the campaign (execution_winner_campaigns.state_json)
  status, ops, bare, want, lots, booked, exitBooked, refused, review,
  \* at the broker
  ord, posts,
  \* the tick in progress
  pc, stage, todo, cur, req,
  \* the outside world
  expired, due, off, faults

saved == <<status, ops, bare, want, lots, booked, exitBooked, refused, review>>
local == <<pc, stage, todo, cur, req>>
world == <<expired, due, off>>
vars  == <<saved, ord, posts, local, world, faults>>

Places == {"idle", "reconcile", "rearm", "rearmLots", "protect", "observe", "standard",
           "gate", "deadline", "exit", "tighten", "buy", "attach", "post"}
Stages == {"start", "standard", "bought", "tightened", "rearming"}

NoOrder == [st |-> "none", qty |-> 0, filled |-> 0]
Order   == [st : OrderStatus, qty : Nat, filled : Nat]
Lot     == [parent : BuyKeys, qty : Nat, rem : Nat, stop : 1 .. MaxStop,
            stopId : SellKeys \cup {NoKey}, tpId : SellKeys \cup {NoKey},
            seen : [SellKeys -> Nat]]

Init ==
  /\ status = "PENDING" /\ ops = [k \in OpKeys |-> "none"] /\ bare = {}
  /\ want = [k \in BuyKeys |-> 0] /\ lots = <<>>
  /\ booked = [k \in BuyKeys |-> 0] /\ exitBooked = 0
  /\ refused = FALSE /\ review = FALSE
  /\ ord = [k \in Keys |-> NoOrder] /\ posts = [k \in OpKeys |-> 0]
  /\ pc = "idle" /\ stage = "start" /\ todo = {} /\ cur = 1 /\ req = NoKey
  /\ expired = FALSE /\ due = FALSE /\ off = FALSE /\ faults = 0

-----------------------------------------------------------------------------
(***************************************************************************)
(* Reading the campaign and its orders.                                    *)
(***************************************************************************)
Pending   == {k \in OpKeys : ops[k] \in Unresolved}
Held(i)   == lots[i].rem > 0
AnyHeld   == \E i \in DOMAIN lots : Held(i)
AllSold   == lots # <<>> /\ ~AnyHeld
RemTotal(ls) == SumFunction([i \in DOMAIN ls |-> ls[i].rem])
QtyTotal(ls) == SumFunction([i \in DOMAIN ls |-> ls[i].qty])
Minimum(a, b) == IF a < b THEN a ELSE b

Live(o, k)     == o[k].st = "live"
Terminal(o, k) == o[k].st \in {"filled", "canceled"}

\* Shares the broker holds for the campaign.
Position(o) == SumFunctionOnSet([k \in Keys |-> o[k].filled], BuyKeys)
                 - SumFunctionOnSet([k \in Keys |-> o[k].filled], SellKeys)

\* apply_lot_sale: what is new in the cumulative fill of order k.
SaleDelta(o, lot, k) == IF k = NoKey THEN 0 ELSE o[k].filled - lot.seen[k]
SaleOk(o, lot, k)    == SaleDelta(o, lot, k) \in 0 .. lot.rem
SaleOf_Unseen(o, lot, k) == IF k = NoKey THEN lot
  ELSE [lot EXCEPT !.rem = @ - SaleDelta(o, lot, k)]
SaleOf(o, lot, k)    == IF k = NoKey THEN lot
  ELSE [lot EXCEPT !.rem = @ - SaleDelta(o, lot, k), !.seen[k] = o[k].filled]
LegsOk(o, lot) == /\ SaleOk(o, lot, lot.stopId)
                  /\ SaleOk(o, SaleOf(o, lot, lot.stopId), lot.tpId)
Observed(o, lot) == SaleOf(o, SaleOf(o, lot, lot.stopId), lot.tpId)

\* book_sell spreads a cumulative exit fill over the lots in their order.
RemBefore(i)  == SumFunctionOnSet([j \in DOMAIN lots |-> lots[j].rem], 1 .. (i - 1))
Share_Unbounded(i, d) == IF d > RemBefore(i) THEN d - RemBefore(i) ELSE 0
Share(i, d)   == Minimum(lots[i].rem, IF d > RemBefore(i) THEN d - RemBefore(i) ELSE 0)
ExitSpread(d) == [i \in DOMAIN lots |->
  [lots[i] EXCEPT !.rem = @ - Share(i, d), !.seen[Exit] = @ + Share(i, d)]]

NewLot(k, q) == [parent |-> k, qty |-> q, rem |-> q, stop |-> 1,
  stopId |-> NoKey, tpId |-> NoKey, seen |-> [s \in SellKeys |-> 0]]

\* protect() and reconcile() attach both ids of the protection of lot i.
Attached_ParentAsStop(i) == [lots EXCEPT ![i].stopId = Protect(i)]
Attached(i) == [lots EXCEPT
  ![i].stopId = IF TakeProfit THEN StopLeg(i) ELSE Protect(i),
  ![i].tpId   = IF TakeProfit THEN Protect(i) ELSE NoKey]

(***************************************************************************)
(* Broker effects of a request (Alpaca, as broker_adapter uses it).        *)
(***************************************************************************)
Siblings(k) == IF k \in UNION {LotKeys(i) : i \in LotIx}
               THEN LotKeys(k[2]) \ {k} ELSE {}

Quantity(k) ==
  CASE k \in BuyKeys                   -> want[k]
    [] k[1] \in {"PROTECT", "REARM"}  -> lots[k[2]].rem
    [] k[1] = "TIGHTEN"               -> LET old == ord[lots[k[2]].stopId]
                                         IN  old.qty - old.filled
    [] k[1] = "EXIT"                  -> RemTotal(lots)
    [] k[1] = "EMERGENCY_STOP"        ->
         k[2] - booked[IF k[3] = 0 THEN Entry ELSE AddOn]

\* A POST creates the order; the POST of an OCO creates both legs; the PATCH
\* of a stop replaces the order by one for its unfilled quantity.
Placed(k) ==
  LET new == [st |-> "live", qty |-> Quantity(k), filled |-> 0]
  IN  CASE k[1] = "PROTECT" /\ TakeProfit ->
             [ord EXCEPT ![k] = new, ![StopLeg(k[2])] = new]
        [] k[1] = "TIGHTEN" ->
             [ord EXCEPT ![lots[k[2]].stopId].st = "replaced", ![k] = new]
        [] OTHER -> [ord EXCEPT ![k] = new]

Canceled(o, k) == [x \in Keys |->
  IF x \in {k} \cup Siblings(k) /\ Live(o, x) THEN [o[x] EXCEPT !.st = "canceled"] ELSE o[x]]

-----------------------------------------------------------------------------
(***************************************************************************)
(* Steps of the tick.  Abort drops the in-memory campaign: an exception    *)
(* leaves tick() and run() goes on with the next record.                   *)
(***************************************************************************)
At(p) == pc = p
Goto(p) == pc' = p
Keep(s) == stage' = s

Abort == /\ Goto("idle") /\ Keep("start") /\ todo' = {} /\ cur' = 1 /\ req' = NoKey

Fault(kinds) == /\ kinds \cap Faults # {} /\ faults < MaxFaults /\ faults' = faults + 1

\* reserve(): the operation is durable before its request is sent.
Reserve(k) == /\ ops' = [ops EXCEPT ![k] = "RESERVED"]
              /\ req' = k /\ Goto("post")

StartReconcile(s) == /\ Goto("reconcile") /\ Keep(s) /\ todo' = Pending

TickStart ==
  /\ At("idle") /\ status \notin Released
  /\ StartReconcile("start")
  /\ UNCHANGED <<saved, ord, posts, cur, req, world, faults>>

\* reconcile() raises on a reserved buy that has no OMS intent.
ReconcileBare(k) ==
  /\ At("reconcile") /\ k \in todo /\ k \in bare
  /\ Abort
  /\ UNCHANGED <<saved, ord, posts, world, faults>>

\* The broker knows no such identifier: never a permission to send again.
ReconcileMissing(k) ==
  /\ At("reconcile") /\ k \in todo \ bare /\ ord[k].st = "none"
  /\ ops' = [ops EXCEPT ![k] = "UNKNOWN"]
  /\ todo' = todo \ {k}
  /\ UNCHANGED <<status, bare, want, lots, booked, exitBooked, refused, review,
                 ord, posts, pc, stage, cur, req, world, faults>>

Settled(k) == [ops EXCEPT ![k] = IF Terminal(ord, k) THEN "DONE" ELSE "SUBMITTED"]
Found(k)   == At("reconcile") /\ k \in todo \ bare /\ ord[k].st # "none"
NewFill_Cumulative(k) == ord[k].filled
NewFill(k) == ord[k].filled - booked[k]

\* book_buy: what is new in the cumulative fill becomes a lot of its own.
ReconcileBuy(k) ==
  /\ Found(k) /\ k \in BuyKeys
  /\ IF NewFill(k) = 0
     THEN UNCHANGED <<status, lots, booked>>
     ELSE /\ lots' = Append(lots, NewLot(k, NewFill(k)))
          /\ booked' = [booked EXCEPT ![k] = ord[k].filled]
          /\ status' = "OPEN"
  /\ ops' = Settled(k)
  /\ todo' = todo \ {k}
  /\ UNCHANGED <<bare, want, exitBooked, refused, review,
                 ord, posts, pc, stage, cur, req, world, faults>>

\* No timestamp for the fill: emergency_stop reserves a stop for the new
\* shares, once for each cumulative quantity, and the tick ends.
ReceiptMissing(k, q) ==
  /\ Found(k) /\ k \in BuyKeys /\ NewFill(k) > 0 /\ q = ord[k].filled
  /\ Fault({"receipt"})
  /\ LET stop == Emergency(k, q)
     IN  IF ops[stop] = "none"
         THEN Reserve(stop) /\ UNCHANGED <<stage, todo, cur>>
         ELSE Abort /\ UNCHANGED ops
  /\ UNCHANGED <<status, bare, want, lots, booked, exitBooked, refused, review,
                 ord, posts, world>>

ReconcileProtect(i) ==
  /\ Found(Protect(i))
  /\ lots' = Attached(i)
  /\ ops' = [ops EXCEPT ![Protect(i)] = "DONE"]
  /\ todo' = todo \ {Protect(i)}
  /\ UNCHANGED <<status, bare, want, booked, exitBooked, refused, review,
                 ord, posts, pc, stage, cur, req, world, faults>>

\* Only a live replacement becomes the stop of the lot; a terminal one closes
\* the operation and leaves the lot on the replaced order.
ReconcileTighten(i, l) ==
  LET k == Tighten(i, l)
  IN  /\ Found(k)
      /\ lots' = IF Live(ord, k) THEN [lots EXCEPT ![i].stopId = k, ![i].stop = l] ELSE lots
      /\ ops' = [ops EXCEPT ![k] = "DONE"]
      /\ todo' = todo \ {k}
      /\ UNCHANGED <<status, bare, want, booked, exitBooked, refused, review,
                     ord, posts, pc, stage, cur, req, world, faults>>

\* A canceled safety stop raises, and that status is not saved.
ReconcileRearm(i) ==
  LET k == Rearm(i)
  IN  /\ Found(k)
      /\ IF ord[k].st = "canceled"
         THEN Abort /\ UNCHANGED <<lots, ops>>
         ELSE /\ lots' = [lots EXCEPT ![i].stopId = k, ![i].tpId = NoKey]
              /\ ops' = [ops EXCEPT ![k] = "DONE"]
              /\ todo' = todo \ {k}
              /\ UNCHANGED <<pc, stage, cur, req>>
      /\ UNCHANGED <<status, bare, want, booked, exitBooked, refused, review,
                     ord, posts, world, faults>>

\* book_sell, then the status of the exit operation.
ReconcileExit ==
  LET delta == ord[Exit].filled - exitBooked
  IN  /\ Found(Exit)
      /\ IF delta \in 0 .. RemTotal(lots)
         THEN /\ lots' = ExitSpread(delta)
              /\ exitBooked' = ord[Exit].filled
              /\ ops' = Settled(Exit)
              /\ todo' = todo \ {Exit}
              /\ UNCHANGED <<pc, stage, cur, req>>
         ELSE Abort /\ UNCHANGED <<lots, exitBooked, ops>>
      /\ UNCHANGED <<status, bare, want, booked, refused, review,
                     ord, posts, world, faults>>

\* reconcile() has no branch for an emergency stop: it stays unresolved.
ReconcileEmergency(k) ==
  /\ Found(k) /\ k \in EmergencyKeys
  /\ todo' = todo \ {k}
  /\ UNCHANGED <<saved, ord, posts, pc, stage, cur, req, world, faults>>

\* After the failed exit is rearmed the campaign is frozen for review, and
\* protect() (or the failed submit itself) raises.
ReconcileDone ==
  /\ At("reconcile") /\ todo = {}
  /\ IF stage = "rearming"
     THEN review' = TRUE /\ Abort
     ELSE /\ Goto(IF stage = "start" THEN "rearm" ELSE "protect")
          /\ UNCHANGED <<review, stage, todo, cur, req>>
  /\ UNCHANGED <<status, ops, bare, want, lots, booked, exitBooked, refused,
                 ord, posts, world, faults>>

-----------------------------------------------------------------------------
(***************************************************************************)
(* Canceling the protection of a lot and accounting for what it sold.  The *)
(* second disjunct is the cancel that raised: it did take place, nothing   *)
(* was booked, and the tick is over.                                       *)
(***************************************************************************)
Standing(i) == {k \in {lots[i].stopId, lots[i].tpId} \ {NoKey} : ~Terminal(ord, k)}

AllDown_Assumed(i) == TRUE
AllDown(i)  == Standing(i) = {} /\ Observed(ord, lots[i]) = lots[i]

CancelLegs(i) ==
  LET o    == Canceled(ord, lots[i].stopId)
      half == SaleOf(o, lots[i], lots[i].stopId)
      down == \A k \in {lots[i].stopId, lots[i].tpId} \ {NoKey} : Terminal(o, k)
  IN  /\ ord' = o
      /\ IF LegsOk(o, lots[i]) /\ down
         THEN lots' = [lots EXCEPT ![i] = Observed(o, @)] /\ UNCHANGED local
         ELSE /\ lots' = IF SaleOk(o, lots[i], lots[i].stopId)
                         THEN [lots EXCEPT ![i] = half] ELSE lots
              /\ Abort
      /\ UNCHANGED faults

CancelUnconfirmed(i) ==
  /\ \E k \in Standing(i) : Live(ord, k)
  /\ Fault({"unconfirmed"})
  /\ ord' = Canceled(ord, lots[i].stopId)
  /\ Abort /\ UNCHANGED lots

(***************************************************************************)
(* rearm_failed_exit: a definitively failed exit puts one stop on each lot *)
(* that is still held.                                                     *)
(***************************************************************************)
ExitFailed_RefusedOnly == ops[Exit] = "DONE" /\ AnyHeld /\ refused
ExitFailed == /\ ops[Exit] = "DONE" /\ AnyHeld
              /\ refused \/ ord[Exit].st = "canceled"

RearmStart ==
  /\ At("rearm")
  /\ IF ~ExitFailed
     THEN Goto("protect") /\ UNCHANGED <<stage, todo, cur, req>>
     ELSE IF Position(ord) < RemTotal(lots) THEN Abort
     ELSE Goto("rearmLots") /\ cur' = 1 /\ UNCHANGED <<stage, todo, req>>
  /\ UNCHANGED <<saved, ord, posts, world, faults>>

Rearmed(i) == ~Held(i) \/ ops[Rearm(i)] # "none"

RearmSkip ==
  /\ At("rearmLots") /\ cur <= Len(lots) /\ Rearmed(cur)
  /\ cur' = cur + 1
  /\ UNCHANGED <<saved, ord, posts, pc, stage, todo, req, world, faults>>

\* The exit was reserved with every leg of the held lots terminal and booked,
\* and no leg was attached since: the cancels made here find nothing to do.
RearmReserve(i) ==
  /\ At("rearmLots") /\ cur = i /\ i <= Len(lots) /\ ~Rearmed(i)
  /\ Reserve(Rearm(i))
  /\ UNCHANGED <<status, bare, want, lots, booked, exitBooked, refused, review,
                 ord, posts, stage, todo, cur, world, faults>>

RearmEnd ==
  /\ At("rearmLots") /\ cur > Len(lots)
  /\ StartReconcile("rearming")
  /\ UNCHANGED <<saved, ord, posts, cur, req, world, faults>>

(***************************************************************************)
(* protect: the first held lot without a stop gets one; a lot whose        *)
(* protection was already requested ends the pass over the lots.           *)
(***************************************************************************)
Unprotected == {i \in DOMAIN lots : Held(i) /\ lots[i].stopId = NoKey}
First(i)    == i \in Unprotected /\ \A j \in Unprotected : i <= j
MayProtect_Again(i) == First(i)
MayProtect(i) == First(i) /\ ops[Protect(i)] = "none"

ProtectFrozen ==
  /\ At("protect") /\ review
  /\ Abort
  /\ UNCHANGED <<saved, ord, posts, world, faults>>

ProtectReserve(i) ==
  /\ At("protect") /\ ~review /\ MayProtect(i)
  /\ Reserve(Protect(i))
  /\ UNCHANGED <<status, bare, want, lots, booked, exitBooked, refused, review,
                 ord, posts, stage, todo, cur, world, faults>>

ProtectEnd ==
  /\ At("protect") /\ ~review /\ ~\E i \in LotIx : MayProtect(i)
  /\ CASE stage = "start"    -> Goto("observe") /\ cur' = 1 /\ UNCHANGED <<stage, todo, req>>
       [] stage = "standard" -> Goto("gate") /\ UNCHANGED <<stage, todo, cur, req>>
       [] OTHER              -> Abort
  /\ UNCHANGED <<saved, ord, posts, world, faults>>

(***************************************************************************)
(* reconcile_lots: what the standing protections sold; a canceled one over *)
(* a held lot raises unless an exit is under way.                          *)
(***************************************************************************)
ObserveLot ==
  /\ At("observe") /\ cur <= Len(lots)
  /\ LET lot == lots[cur]
         new == Observed(ord, lot)
         ids == {lot.stopId, lot.tpId} \ {NoKey}
     IN  IF ~LegsOk(ord, lot)
         THEN Abort /\ UNCHANGED lots
         ELSE /\ lots' = [lots EXCEPT ![cur] = new]
              /\ IF /\ new.rem > 0 /\ ops[Exit] \notin Unresolved
                    /\ \E k \in ids : ord[k].st = "canceled"
                 THEN Abort
                 ELSE cur' = cur + 1 /\ UNCHANGED <<pc, stage, todo, req>>
  /\ UNCHANGED <<status, ops, bare, want, booked, exitBooked, refused, review,
                 ord, posts, world, faults>>

ObserveEnd ==
  /\ At("observe") /\ cur > Len(lots)
  /\ Goto(IF stage = "start" THEN "standard" ELSE "buy")
  /\ UNCHANGED <<saved, ord, posts, stage, todo, cur, req, world, faults>>

\* A queued standard order is canceled once entries are off or the plan is
\* over; what it filled in the race is reconciled and protected.
StandardCancel ==
  /\ At("standard") /\ Standard /\ (off \/ expired)
  /\ ord' = IF ops[Entry] = "SUBMITTED" THEN Canceled(ord, Entry) ELSE ord
  /\ StartReconcile("standard")
  /\ UNCHANGED <<saved, posts, cur, req, world, faults>>

StandardSkip ==
  /\ At("standard") /\ ~(Standard /\ (off \/ expired))
  /\ Goto("gate")
  /\ UNCHANGED <<saved, ord, posts, stage, todo, cur, req, world, faults>>

(***************************************************************************)
(* After the protections: wait, release, exit, or look at the market.      *)
(***************************************************************************)
MarketNeeded == IF lots = <<>> THEN ~off ELSE Trailing \/ Reinforce
MustExit     == due /\ AnyHeld

GatePending ==
  /\ At("gate") /\ Pending # {}
  /\ Abort
  /\ UNCHANGED <<saved, ord, posts, world, faults>>

GateClosed_Pending ==
  /\ At("gate") /\ AllSold
  /\ status' = "CLOSED"
  /\ Abort
  /\ UNCHANGED <<ops, bare, want, lots, booked, exitBooked, refused, review,
                 ord, posts, world, faults>>

GateClosed ==
  /\ At("gate") /\ Pending = {} /\ AllSold
  /\ status' = "CLOSED"
  /\ Abort
  /\ UNCHANGED <<ops, bare, want, lots, booked, exitBooked, refused, review,
                 ord, posts, world, faults>>

\* One exit intent only: a second one needs an operator.
GateDeadline ==
  /\ At("gate") /\ Pending = {} /\ MustExit
  /\ IF ops[Exit] # "none"
     THEN Abort
     ELSE Goto("deadline") /\ cur' = 1 /\ UNCHANGED <<stage, todo, req>>
  /\ UNCHANGED <<saved, ord, posts, world, faults>>

GateExpired_Untried ==
  /\ At("gate") /\ Pending = {} /\ lots = <<>> /\ expired /\ ops[Entry] = "none"
  /\ status' = "EXPIRED"
  /\ Abort
  /\ UNCHANGED <<ops, bare, want, lots, booked, exitBooked, refused, review,
                 ord, posts, world, faults>>

GateExpired ==
  /\ At("gate") /\ Pending = {} /\ lots = <<>> /\ expired
  /\ status' = "EXPIRED"
  /\ Abort
  /\ UNCHANGED <<ops, bare, want, lots, booked, exitBooked, refused, review,
                 ord, posts, world, faults>>

\* The market snapshot may be unavailable, or not called for.
GateWait ==
  /\ At("gate") /\ Pending = {} /\ ~AllSold /\ ~MustExit
  /\ ~(lots = <<>> /\ expired)
  /\ Abort
  /\ UNCHANGED <<saved, ord, posts, world, faults>>

GateMarket ==
  /\ At("gate") /\ Pending = {} /\ ~AllSold /\ ~MustExit
  /\ ~(lots = <<>> /\ expired) /\ MarketNeeded
  /\ Goto("tighten") /\ cur' = 1
  /\ UNCHANGED <<saved, ord, posts, stage, todo, req, world, faults>>

(***************************************************************************)
(* deadline: take down every protection, check the broker's holding, sell. *)
(***************************************************************************)
Down(i) == ~Held(i) \/ AllDown(i)

DeadlineSkip ==
  /\ At("deadline") /\ cur <= Len(lots) /\ Down(cur)
  /\ cur' = cur + 1
  /\ UNCHANGED <<saved, ord, posts, pc, stage, todo, req, world, faults>>

DeadlineCancel ==
  /\ At("deadline") /\ cur <= Len(lots) /\ ~Down(cur)
  /\ CancelLegs(cur) \/ CancelUnconfirmed(cur)
  /\ UNCHANGED <<status, ops, bare, want, booked, exitBooked, refused, review, posts, world>>

DeadlineSell_Strict ==
  /\ At("deadline") /\ cur > Len(lots)
  /\ IF RemTotal(lots) = 0 \/ Position(ord) <= RemTotal(lots)
     THEN Abort /\ UNCHANGED ops
     ELSE Reserve(Exit) /\ UNCHANGED <<stage, todo, cur>>
  /\ UNCHANGED <<status, bare, want, lots, booked, exitBooked, refused, review,
                 ord, posts, world, faults>>

DeadlineSell ==
  /\ At("deadline") /\ cur > Len(lots)
  /\ IF RemTotal(lots) = 0 \/ Position(ord) < RemTotal(lots)
     THEN Abort /\ UNCHANGED ops
     ELSE Reserve(Exit) /\ UNCHANGED <<stage, todo, cur>>
  /\ UNCHANGED <<status, bare, want, lots, booked, exitBooked, refused, review,
                 ord, posts, world, faults>>

(***************************************************************************)
(* tighten: raise the stop of each held lot that has one, by a PATCH.      *)
(***************************************************************************)
Tightening == Trailing /\ Pending = {} /\ cur <= Len(lots)

TightenReserve(i, l) ==
  /\ At("tighten") /\ Tightening /\ cur = i
  /\ Held(i) /\ lots[i].stopId # NoKey /\ l > lots[i].stop
  /\ Reserve(Tighten(i, l))
  /\ UNCHANGED <<status, bare, want, lots, booked, exitBooked, refused, review,
                 ord, posts, stage, todo, cur, world, faults>>

TightenNext ==
  /\ At("tighten") /\ Tightening
  /\ cur' = cur + 1
  /\ UNCHANGED <<saved, ord, posts, pc, stage, todo, req, world, faults>>

TightenEnd ==
  /\ At("tighten") /\ ~Tightening
  /\ Goto("observe") /\ Keep("tightened") /\ cur' = 1
  /\ UNCHANGED <<saved, ord, posts, todo, req, world, faults>>

(***************************************************************************)
(* The buys: one entry, then at most one reinforcement.  The signal and    *)
(* the risk approval may always say no.  reserve_operation saves the       *)
(* operation first and the exact order in a second save.                   *)
(***************************************************************************)
MayEnter == lots = <<>> /\ ops[Entry] = "none" /\ ~off /\ ~expired
MayAdd   == /\ Reinforce /\ InitialQty < FullQty /\ ops[AddOn] = "none" /\ ~off /\ ~due
            /\ lots # <<>> /\ \A i \in DOMAIN lots : lots[i].rem = lots[i].qty

BuyClosed ==
  /\ At("buy") /\ AllSold
  /\ status' = "CLOSED"
  /\ Abort
  /\ UNCHANGED <<ops, bare, want, lots, booked, exitBooked, refused, review,
                 ord, posts, world, faults>>

BuyNothing ==
  /\ At("buy") /\ ~AllSold
  /\ Abort
  /\ UNCHANGED <<saved, ord, posts, world, faults>>

BuyReserve(k, q) ==
  /\ At("buy") /\ ~AllSold /\ Pending = {}
  /\ \/ k = Entry /\ MayEnter /\ q <= InitialQty
     \/ k = AddOn /\ MayAdd /\ q <= FullQty - QtyTotal(lots)
  /\ ops' = [ops EXCEPT ![k] = "RESERVED"]
  /\ bare' = bare \cup {k}
  /\ want' = [want EXCEPT ![k] = q]
  /\ req' = k /\ Goto("attach")
  /\ UNCHANGED <<status, lots, booked, exitBooked, refused, review,
                 ord, posts, stage, todo, cur, world, faults>>

BuyAttach ==
  /\ At("attach")
  /\ bare' = bare \ {req}
  /\ Goto("post")
  /\ UNCHANGED <<status, ops, want, lots, booked, exitBooked, refused, review,
                 ord, posts, stage, todo, cur, req, world, faults>>

-----------------------------------------------------------------------------
(***************************************************************************)
(* The request itself, and its outcome.                                    *)
(***************************************************************************)
Posting == At("post") /\ posts' = [posts EXCEPT ![req] = @ + 1]
Action  == req[1]
Ends(s) == ops' = [ops EXCEPT ![req] = s]

AcceptBuy ==
  /\ Posting /\ req \in BuyKeys
  /\ ord' = Placed(req) /\ Ends("SUBMITTED")
  /\ Goto("reconcile") /\ Keep("bought") /\ todo' = {req} /\ req' = NoKey
  /\ UNCHANGED <<status, bare, want, lots, booked, exitBooked, refused, review,
                 cur, world, faults>>

AcceptProtect ==
  /\ Posting /\ Action = "PROTECT"
  /\ ord' = Placed(req) /\ Ends("DONE") /\ lots' = Attached(req[2])
  /\ Goto("protect") /\ req' = NoKey
  /\ UNCHANGED <<status, bare, want, booked, exitBooked, refused, review,
                 stage, todo, cur, world, faults>>

AcceptTighten ==
  /\ Posting /\ Action = "TIGHTEN" /\ Live(ord, lots[req[2]].stopId)
  /\ ord' = Placed(req) /\ Ends("DONE")
  /\ lots' = [lots EXCEPT ![req[2]].stopId = req, ![req[2]].stop = req[3]]
  /\ Goto("tighten") /\ cur' = cur + 1 /\ req' = NoKey
  /\ UNCHANGED <<status, bare, want, booked, exitBooked, refused, review,
                 stage, todo, world, faults>>

\* broker.tighten reads the standing stop first: no PATCH over one that is
\* no longer live, and the reserved operation stays behind.
TightenRefused ==
  /\ At("post") /\ Action = "TIGHTEN" /\ ~Live(ord, lots[req[2]].stopId)
  /\ Abort
  /\ UNCHANGED <<saved, ord, posts, world, faults>>

AcceptRearm ==
  /\ Posting /\ Action = "REARM"
  /\ ord' = Placed(req) /\ Ends("SUBMITTED")
  /\ Goto("rearmLots") /\ cur' = cur + 1 /\ req' = NoKey
  /\ UNCHANGED <<status, bare, want, lots, booked, exitBooked, refused, review,
                 stage, todo, world, faults>>

AcceptExit ==
  /\ Posting /\ req = Exit
  /\ ord' = Placed(req) /\ Ends("SUBMITTED")
  /\ Abort
  /\ UNCHANGED <<status, bare, want, lots, booked, exitBooked, refused, review,
                 world, faults>>

\* emergency_stop freezes the campaign and the missing timestamp raises.
AcceptEmergency ==
  /\ Posting /\ req \in EmergencyKeys
  /\ ord' = Placed(req) /\ Ends("MANUAL_REVIEW") /\ review' = TRUE
  /\ Abort
  /\ UNCHANGED <<status, bare, want, lots, booked, exitBooked, refused,
                 world, faults>>

Sendable == Action = "TIGHTEN" => Live(ord, lots[req[2]].stopId)

\* The request is carried out and its answer is lost.
AnswerLost ==
  /\ Posting /\ Sendable /\ Fault({"lost"})
  /\ ord' = Placed(req)
  /\ Abort
  /\ UNCHANGED <<saved, world>>

\* The request fails and leaves nothing at the broker.
Undelivered ==
  /\ Posting /\ Sendable /\ Fault({"undelivered"})
  /\ Abort
  /\ UNCHANGED <<saved, ord, world>>

\* A definitive 4xx: only the exit has a branch for it, which rearms.
Rejected ==
  /\ Posting /\ Sendable /\ Fault({"rejected"})
  /\ IF req = Exit
     THEN /\ Ends("DONE") /\ refused' = TRUE
          /\ Goto("rearm") /\ req' = NoKey /\ UNCHANGED <<stage, todo, cur>>
     ELSE Abort /\ UNCHANGED <<ops, refused>>
  /\ UNCHANGED <<status, bare, want, lots, booked, exitBooked, review, ord, world>>

-----------------------------------------------------------------------------
(***************************************************************************)
(* The outside world.                                                      *)
(***************************************************************************)
\* One share of order k trades.  The other leg of an OCO shrinks with it,
\* and is canceled when the order completes.
BrokerFill(k) ==
  /\ Live(ord, k)
  /\ LET full == ord[k].filled + 1 = ord[k].qty
     IN  ord' = [x \in Keys |->
           IF x = k
           THEN [ord[k] EXCEPT !.filled = @ + 1, !.st = IF full THEN "filled" ELSE @]
           ELSE IF x \in Siblings(k) /\ Live(ord, x)
           THEN [ord[x] EXCEPT !.qty = @ - 1, !.st = IF full THEN "canceled" ELSE @]
           ELSE ord[x]]
  /\ UNCHANGED <<saved, posts, local, world, faults>>

\* The rest of an IOC, DAY or opening order is canceled.
BrokerTerminate(k) ==
  /\ k \in BuyKeys \cup {Exit} /\ Live(ord, k)
  /\ ord' = Canceled(ord, k)
  /\ UNCHANGED <<saved, posts, local, world, faults>>

BrokerCancel(k) ==
  /\ k \in SellKeys \ {Exit} /\ Live(ord, k)
  /\ Fault({"canceled"})
  /\ ord' = Canceled(ord, k)
  /\ UNCHANGED <<saved, posts, local, world>>

Crash ==
  /\ pc # "idle" /\ Fault({"crash"})
  /\ Abort
  /\ UNCHANGED <<saved, ord, posts, world>>

Expire ==
  /\ ~expired /\ expired' = TRUE
  /\ UNCHANGED <<saved, ord, posts, local, due, off, faults>>

\* due_open is frozen by the first fill; its window opens.
DueArrives ==
  /\ ~due /\ lots # <<>> /\ due' = TRUE
  /\ UNCHANGED <<saved, ord, posts, local, expired, off, faults>>

SwitchOff ==
  /\ ~off /\ off' = TRUE
  /\ UNCHANGED <<saved, ord, posts, local, expired, due, faults>>

-----------------------------------------------------------------------------
Reconcile ==
  \/ \E k \in OpKeys : ReconcileBare(k) \/ ReconcileMissing(k) \/ ReconcileEmergency(k)
  \/ \E k \in BuyKeys : ReconcileBuy(k)
  \/ \E i \in LotIx : ReconcileProtect(i) \/ ReconcileRearm(i)
  \/ \E i \in LotIx, l \in 2 .. MaxStop : ReconcileTighten(i, l)
  \/ ReconcileExit \/ ReconcileDone

RearmFailedExit == \/ RearmStart \/ RearmSkip \/ RearmEnd
                   \/ \E i \in LotIx : RearmReserve(i)
ProtectLots     == \/ ProtectFrozen \/ ProtectEnd
                   \/ \E i \in LotIx : ProtectReserve(i)
ReconcileLots   == ObserveLot \/ ObserveEnd
StandardEntry   == StandardCancel \/ StandardSkip
Gate            == \/ GatePending \/ GateClosed \/ GateDeadline
                   \/ GateExpired \/ GateWait \/ GateMarket
Deadline        == DeadlineSkip \/ DeadlineCancel \/ DeadlineSell
TightenStops    == \/ \E i \in LotIx, l \in 2 .. MaxStop : TightenReserve(i, l)
                   \/ TightenNext \/ TightenEnd
Buy             == \/ BuyClosed \/ BuyNothing \/ BuyAttach
                   \/ \E k \in BuyKeys, q \in LotIx : BuyReserve(k, q)
Accept          == \/ AcceptBuy \/ AcceptProtect \/ AcceptTighten \/ TightenRefused
                   \/ AcceptRearm \/ AcceptExit \/ AcceptEmergency

\* What the watcher does when nothing fails.
Tick == \/ Reconcile \/ RearmFailedExit \/ ProtectLots \/ ReconcileLots \/ StandardEntry
        \/ Gate \/ Deadline \/ TightenStops \/ Buy \/ Accept

Failure == \/ \E k \in BuyKeys, q \in LotIx : ReceiptMissing(k, q)
           \/ AnswerLost \/ Undelivered \/ Rejected \/ Crash
           \/ \E k \in SellKeys \ {Exit} : BrokerCancel(k)

Market == \/ \E k \in Keys : BrokerFill(k) \/ BrokerTerminate(k)
          \/ Expire \/ DueArrives \/ SwitchOff

Next == TickStart \/ Tick \/ Failure \/ Market

Spec == Init /\ [][Next]_vars

\* The watcher loop keeps ticking, a tick runs to its end, and an order that
\* trades at once (IOC, DAY, market) comes to an end.
Fairness == /\ WF_vars(TickStart) /\ WF_vars(Tick)
            /\ \A k \in BuyKeys \cup {Exit} : WF_vars(BrokerFill(k) \/ BrokerTerminate(k))

FairSpec == Spec /\ Fairness

-----------------------------------------------------------------------------
TypeOK ==
  /\ status \in {"PENDING", "OPEN", "CLOSED", "EXPIRED"}
  /\ ops \in [OpKeys -> OpStatus] /\ bare \subseteq BuyKeys
  /\ want \in [BuyKeys -> Nat] /\ lots \in Seq(Lot) /\ Len(lots) <= FullQty
  /\ booked \in [BuyKeys -> Nat] /\ exitBooked \in Nat
  /\ {refused, review, expired, due, off} \subseteq BOOLEAN
  /\ ord \in [Keys -> Order] /\ posts \in [OpKeys -> Nat]
  /\ pc \in Places /\ stage \in Stages /\ todo \subseteq OpKeys
  /\ cur \in Nat /\ req \in OpKeys \cup {NoKey} /\ faults \in 0 .. MaxFaults

(***************************************************************************)
(* Every POST of the runtime, against what winner_runtime.py promises in   *)
(* its header (no HTTP is retried after a reserved operation): reserved in *)
(* an earlier step, sent at most once.  A PATCH is not a new order.        *)
(***************************************************************************)
PostKeys == OpKeys \ TightenKeys

Outbox == INSTANCE WinnerOutbox WITH
  Operations <- PostKeys,
  reserved   <- {k \in PostKeys : ops[k] # "none"},
  sent       <- [k \in PostKeys |-> posts[k]]

OutboxSpec == Outbox!Spec

\* Shares that live sell orders may still take; the two legs of an OCO share
\* one quantity.
Rest(k)  == IF Live(ord, k) THEN ord[k].qty - ord[k].filled ELSE 0
OpenOf(ks) == CHOOSE m \in 0 .. FullQty : /\ \A k \in ks : Rest(k) <= m
                                          /\ m # 0 => \E k \in ks : Rest(k) = m
OpenSells ==
  SumFunction([i \in LotIx |-> OpenOf(LotKeys(i))])
    + SumFunctionOnSet([k \in Keys |-> Rest(k)],
                       {Exit} \cup EmergencyKeys \cup {Rearm(i) : i \in LotIx})

(***************************************************************************)
(* The campaign never has more shares on sale than it holds, whatever was  *)
(* lost, rearmed, replaced or sold in between (rearm_failed_exit: an       *)
(* ambiguous fill could cause an oversell).                                *)
(***************************************************************************)
NeverOversold == OpenSells <= Position(ord)

(***************************************************************************)
(* Every order that may still trade, or traded unnoticed, can be reached   *)
(* by the next tick: a lot names it, or its operation is unresolved and is *)
(* looked up.  A campaign frozen for review is left to the operator.       *)
(***************************************************************************)
Named(k)      == \E i \in DOMAIN lots : k \in {lots[i].stopId, lots[i].tpId}
Noticed(k)    == SumFunction([i \in DOMAIN lots |-> lots[i].seen[k]])
Reachable(k)  == \/ Named(k)
                 \/ k \in OpKeys /\ ops[k] \in Unresolved
                 \/ k[1] = "LEG" /\ ops[Protect(k[2])] \in Unresolved
NoLostOrder   == ~review => \A k \in SellKeys :
                   Live(ord, k) \/ ord[k].filled > Noticed(k) => Reachable(k)

(***************************************************************************)
(* The books add up: each lot stands for shares the broker filled once,    *)
(* and each share it lost for a share some order sold, counted once        *)
(* (book_buy, apply_lot_sale and book_sell on cumulative quantities).      *)
(***************************************************************************)
LotsOf(k) == SumFunction([i \in DOMAIN lots |->
               IF lots[i].parent = k THEN lots[i].qty ELSE 0])
BooksBalance ==
  /\ \A k \in BuyKeys : LotsOf(k) = booked[k] /\ booked[k] <= ord[k].filled
  /\ \A k \in SellKeys : Noticed(k) <= ord[k].filled
  /\ \A i \in DOMAIN lots :
       /\ lots[i].rem \in 0 .. lots[i].qty
       /\ lots[i].qty - lots[i].rem = SumFunction(lots[i].seen)

(***************************************************************************)
(* A released campaign (its symbol may be planned again) holds nothing and *)
(* has no order that could still trade.                                    *)
(***************************************************************************)
ReleasedIsFlat == status \in Released =>
  Position(ord) = 0 /\ \A k \in Keys : ~Live(ord, k)

(***************************************************************************)
(* A buy leaves only when no other operation is unresolved, every held lot *)
(* has its stop, no exit was ever sent and no review is due (the header of *)
(* winner_runtime.py: lots are reconciled and protected before a new entry *)
(* is attempted).                                                          *)
(***************************************************************************)
Settling(k) == /\ Pending = {k} /\ bare = {} /\ ops[Exit] = "none" /\ ~review
               /\ \A i \in DOMAIN lots : Held(i) => lots[i].stopId # NoKey
BuysOnlyWhenSettled ==
  [][\A k \in BuyKeys : posts'[k] # posts[k] => Settling(k)]_vars

(***************************************************************************)
(* Shares without a live sell order get one, or the campaign asks for the  *)
(* operator (protect, deadline, rearm_failed_exit).                        *)
(***************************************************************************)
EventuallyCovered == Position(ord) > OpenSells ~> Position(ord) <= OpenSells \/ review

(***************************************************************************)
(* Once the horizon is reached the lots still held are sold, or the exit   *)
(* failed and every share is back under a stop (deadline and               *)
(* rearm_failed_exit: no failed horizon sell leaves canceled stops).       *)
(***************************************************************************)
Exited  == \/ Position(ord) = 0
           \/ ops[Exit] = "DONE" /\ Position(ord) <= OpenSells
DueExit == MustExit ~> Exited

(***************************************************************************)
(* The same horizon while only the reinforcement is unresolved             *)
(* (doc/execution/renforcement_gagnant.md, item 8: "un ajout ne décale     *)
(* jamais cette échéance").                                                *)
(***************************************************************************)
AddNeverDelays == MustExit /\ Pending = {AddOn} ~> Exited

(***************************************************************************)
(* A plan whose entry window is over is released, unless it holds shares.  *)
(***************************************************************************)
PlanEnds == expired ~> status \in Released \/ lots # <<>>
=============================================================================
