------------------------------ MODULE FillLedger ------------------------------
(***************************************************************************)
(* How the fills of the broker become rows of execution_broker_fills, for  *)
(* one account and one symbol outside the winner campaigns.                *)
(*                                                                         *)
(* Three writers share the tables without a lock: the executor, which      *)
(* books an order it has polled to the end; BrokerStateSynchronizer.sync,  *)
(* which the executor calls once more and the watcher in every cycle; and  *)
(* the watcher's adoption of positions that no request explains.           *)
(*                                                                         *)
(* An order is for whole shares; prices are left out.  A broker order has  *)
(* a revision, its updated_at: each change of the order moves it.          *)
(***************************************************************************)
EXTENDS FiniteSets, Functions, Integers

CONSTANTS
  Orders,      \* broker orders of the symbol
  Buys,        \* those that buy
  Planned,     \* those of Alpha Trade: their request precedes them
  Polls,       \* those a running executor follows to the end
  Holding,     \* the synthetic order adopt-pos-<sha> of an adopted position
  Syncers,     \* processes that call sync
  Executor,    \* the one of them that polls first, or none
  Adopters,    \* those that adopt positions afterwards (the watcher)
  Shares,      \* shares of each order
  MaxFailures  \* bound: how many calls raise

Books == Orders \cup {Holding}

ASSUME ConstantsAssumption ==
  /\ IsFiniteSet(Orders) /\ Buys \subseteq Orders
  /\ Planned \subseteq Orders /\ Polls \subseteq Planned
  /\ Holding \notin Orders
  /\ Adopters \subseteq Syncers /\ Executor \notin Adopters
  /\ Shares \in [Orders -> Nat \ {0}] /\ MaxFailures \in Nat

VARIABLES
  ord,       \* the broker: [filled, rev, open] of each order
  req,       \* execution_order_requests that sync can resolve
  row,       \* execution_broker_orders: the observation last written
  ids,       \* fill_id (unique) of execution_broker_fills
  booked,    \* SUM(filled_qty) of execution_broker_fills, per request
  snap,      \* latest quantity in broker_positions_snapshots
  unsaved,   \* orders the executor has sent and not yet recorded
  followed,  \* orders the executor has still to poll
  pc, seen, cur, had,   \* each sync: place, the listed orders still to treat,
                        \* the one at hand, the quantity read for it
  failures

tables   == <<req, row, ids, booked, snap>>
executor == <<unsaved, followed>>
sync     == <<pc, seen, cur, had>>
vars     == <<ord, tables, executor, sync, failures>>

Places == {"idle", "orders", "insert", "adopt", "orphans", "position", "done"}
Fresh  == [filled |-> 0, rev |-> 0, open |-> TRUE]
Observations == [filled : Nat, rev : Nat, open : BOOLEAN]

Init ==
  /\ ord = [o \in Orders |-> Fresh]
  /\ req = Planned /\ row = [o \in Orders |-> Fresh]
  /\ ids = {} /\ booked = [b \in Books |-> 0] /\ snap = 0
  /\ unsaved = Polls /\ followed = Polls
  /\ pc = [s \in Syncers |-> "idle"] /\ seen = [s \in Syncers |-> <<>>]
  /\ cur = [s \in Syncers |-> Holding]
  /\ had = [s \in Syncers |-> 0] /\ failures = 0

-----------------------------------------------------------------------------
At(s, p)   == pc[s] = p
Goto(s, p) == pc' = [pc EXCEPT ![s] = p]
Fault      == failures < MaxFailures /\ failures' = failures + 1

\* The executor syncs once, the watcher again and again.
Rest(s)    == IF s = Executor THEN "done" ELSE "idle"
Left(s)    == DOMAIN seen[s]
Drop(s, o) == seen' = [seen EXCEPT ![s] = [x \in Left(s) \ {o} |-> seen[s][x]]]

Filled(b) == IF b \in Orders THEN ord[b].filled ELSE 0
Sum(os)   == SumFunctionOnSet([b \in Books |-> Filled(b)], os)
Position  == Sum(Buys) - Sum(Orders \ Buys)

\* INSERT OR IGNORE of a fill: a known fill_id changes nothing.
Insert(id, b, q) ==
  IF id \in ids THEN UNCHANGED <<ids, booked>>
  ELSE ids' = ids \cup {id} /\ booked' = [booked EXCEPT ![b] = @ + q]

\* Upsert of execution_broker_orders: the last writer wins.
Upsert_IfAbsent(o, seenNow) == row' = IF row[o] = Fresh THEN [row EXCEPT ![o] = seenNow] ELSE row
Upsert(o, seenNow) == row' = [row EXCEPT ![o] = seenNow]

\* The fill_id of a missing quantity hashes the order, the quantity and the
\* order's updated_at; that of an adopted order its cumulative quantity.
MissingId_ByOrder(o, q, rev) == <<"missing", o, 0, 0>>
MissingId(o, q, rev) == <<"missing", o, q, rev>>
AdoptedId(o, q)      == <<"adopted", o, q, 0>>
PolledId(o)          == <<"polled", o, 0, 0>>   \* a uuid: the executor books once

\* Only the statuses filled and partially_filled are adopted: not an order
\* canceled after a partial fill.
Adoptable(o, seenNow) == seenNow.filled > 0 /\ (seenNow.open \/ seenNow.filled = Shares[o])

HasBuyRequest_Orders == req \cap Buys # {}
HasBuyRequest == req \cap (Buys \cup {Holding}) # {}

-----------------------------------------------------------------------------
(***************************************************************************)
(* BrokerStateSynchronizer.sync: one list of the recent orders, then order *)
(* by order.  The upsert of the order and the read of what is booked make  *)
(* one step: no other writer can tell them apart.                          *)
(***************************************************************************)
\* The executor syncs once it has polled the last of its orders.
Polled(s) == s = Executor => followed = {}

List(s) ==
  /\ At(s, "idle") /\ Polled(s)
  /\ seen' = [seen EXCEPT ![s] = ord] /\ Goto(s, "orders")
  /\ UNCHANGED <<ord, tables, executor, cur, had, failures>>

\* A list that raises is an empty list.
ListFails(s) ==
  /\ At(s, "idle") /\ Polled(s) /\ Fault
  /\ Goto(s, "orders")
  /\ UNCHANGED <<ord, tables, executor, seen, cur, had>>

Known(s, o) ==
  /\ At(s, "orders") /\ o \in Left(s) \cap req
  /\ Upsert(o, seen[s][o])
  /\ had' = [had EXCEPT ![s] = booked[o]]
  /\ cur' = [cur EXCEPT ![s] = o] /\ Goto(s, "insert")
  /\ UNCHANGED <<ord, req, ids, booked, snap, executor, seen, failures>>

Missing_Cumulative(s) == seen[s][cur[s]].filled
Missing(s) == LET d == seen[s][cur[s]].filled - had[s] IN IF d > 0 THEN d ELSE 0
NextOrder(s) ==
  /\ Drop(s, cur[s]) /\ Goto(s, "orders")
  /\ cur' = [cur EXCEPT ![s] = Holding] /\ had' = [had EXCEPT ![s] = 0]

InsertMissing(s) ==
  /\ At(s, "insert")
  /\ IF Missing(s) = 0 THEN UNCHANGED <<ids, booked>>
     ELSE Insert(MissingId(cur[s], Missing(s), seen[s][cur[s]].rev), cur[s], Missing(s))
  /\ NextOrder(s)
  /\ UNCHANGED <<ord, req, row, snap, executor, failures>>

\* An order without a request: adopt_orphan_buy or adopt_orphan_sell writes the
\* request and the order first, the fill afterwards.
Adopt(s, o) ==
  /\ At(s, "orders") /\ o \in Left(s) \ req /\ Adoptable(o, seen[s][o])
  /\ req' = req \cup {o} /\ Upsert(o, seen[s][o])
  /\ cur' = [cur EXCEPT ![s] = o] /\ Goto(s, "adopt")
  /\ UNCHANGED <<ord, ids, booked, snap, executor, seen, had, failures>>

AdoptFill(s) ==
  /\ At(s, "adopt")
  /\ LET q == seen[s][cur[s]].filled IN Insert(AdoptedId(cur[s], q), cur[s], q)
  /\ NextOrder(s)
  /\ UNCHANGED <<ord, req, row, snap, executor, failures>>

\* An adoption that raises before its order is written is logged, with or
\* without its request, and the sync goes on with the next order.
AdoptFails(s, o) ==
  /\ At(s, "orders") /\ o \in Left(s) \ req /\ Adoptable(o, seen[s][o]) /\ Fault
  /\ req' \in {req, req \cup {o}} /\ Drop(s, o)
  /\ UNCHANGED <<ord, row, ids, booked, snap, executor, pc, cur, had>>

\* The insert of an adopted fill may raise: the order stays adopted.
AdoptFillLost(s) ==
  /\ At(s, "adopt") /\ Fault
  /\ NextOrder(s)
  /\ UNCHANGED <<ord, tables, executor>>

Unmatched(s, o) ==
  /\ At(s, "orders") /\ o \in Left(s) \ req /\ ~Adoptable(o, seen[s][o])
  /\ Drop(s, o)
  /\ UNCHANGED <<ord, tables, executor, pc, cur, had, failures>>

\* A symbol without a position leaves its earlier snapshot the latest one.
Snapshot_Adds == snap + Position
Snapshot == IF Position > 0 THEN Position ELSE snap

\* The positions are asked for after the orders.
Photograph(s) ==
  /\ At(s, "orders") /\ Left(s) = {}
  /\ snap' = Snapshot
  /\ Goto(s, IF s \in Adopters THEN "orphans" ELSE Rest(s))
  /\ UNCHANGED <<ord, req, row, ids, booked, executor, seen, cur, had, failures>>

\* Any call may raise, and the process may die: the watcher's cycle goes on
\* with what is in the tables, or starts again.
SyncFails(s) ==
  /\ pc[s] \in {"orders", "insert"} /\ Fault
  /\ seen' = [seen EXCEPT ![s] = <<>>]
  /\ cur' = [cur EXCEPT ![s] = Holding] /\ had' = [had EXCEPT ![s] = 0]
  /\ Goto(s, Rest(s)) \/ (s \in Adopters /\ Goto(s, "orphans"))
  /\ UNCHANGED <<ord, tables, executor>>

-----------------------------------------------------------------------------
(***************************************************************************)
(* The watcher adopts a position of the latest snapshot when no entry      *)
(* request names its symbol.                                               *)
(***************************************************************************)
LoadOrphans(s) ==
  /\ At(s, "orphans")
  /\ IF snap > 0 /\ ~HasBuyRequest
     THEN had' = [had EXCEPT ![s] = snap] /\ Goto(s, "position")
     ELSE Goto(s, "idle") /\ UNCHANGED had
  /\ UNCHANGED <<ord, tables, executor, seen, cur, failures>>

AdoptPosition(s) ==
  /\ At(s, "position")
  /\ req' = req \cup {Holding}
  /\ Insert(AdoptedId(Holding, had[s]), Holding, had[s])
  /\ had' = [had EXCEPT ![s] = 0] /\ Goto(s, "idle")
  /\ UNCHANGED <<ord, row, snap, executor, seen, cur, failures>>

\* The request may be written or not; the fill is not.
AdoptPositionLost(s) ==
  /\ At(s, "position") /\ Fault
  /\ req' \in {req, req \cup {Holding}}
  /\ had' = [had EXCEPT ![s] = 0] /\ Goto(s, "idle")
  /\ UNCHANGED <<ord, row, ids, booked, snap, executor, seen, cur>>

-----------------------------------------------------------------------------
(***************************************************************************)
(* The executor: it records the response to each submission, then polls    *)
(* the orders and books one that is filled in full, without a look at what *)
(* is booked already.                                                      *)
(***************************************************************************)
SaveResponse(o) ==
  /\ o \in unsaved /\ Upsert(o, Fresh)
  /\ unsaved' = unsaved \ {o}
  /\ UNCHANGED <<ord, req, ids, booked, snap, followed, sync, failures>>

BookPolled(o) ==
  /\ unsaved = {} /\ o \in followed /\ ord[o].filled = Shares[o]
  /\ Insert(PolledId(o), o, ord[o].filled)
  /\ followed' = followed \ {o}
  /\ UNCHANGED <<ord, req, row, snap, unsaved, sync, failures>>

\* Timed out, canceled, not written, or the process died.
GiveUp(o) ==
  /\ o \in followed
  /\ followed' = followed \ {o} /\ unsaved' = unsaved \ {o}
  /\ UNCHANGED <<ord, tables, sync, failures>>

-----------------------------------------------------------------------------
\* The broker: one share at a time, sells only what is held.
BrokerFill(o) ==
  /\ ord[o].open /\ (o \notin Buys => Position > 0)
  /\ ord' = [ord EXCEPT ![o].filled = @ + 1, ![o].rev = @ + 1,
                        ![o].open = ord[o].filled + 1 < Shares[o]]
  /\ UNCHANGED <<tables, executor, sync, failures>>

BrokerCancel(o) ==
  /\ ord[o].open
  /\ ord' = [ord EXCEPT ![o].open = FALSE, ![o].rev = @ + 1]
  /\ UNCHANGED <<tables, executor, sync, failures>>

-----------------------------------------------------------------------------
Sync(s) ==
  \/ List(s) \/ InsertMissing(s) \/ AdoptFill(s) \/ Photograph(s)
  \/ \E o \in Orders : Known(s, o) \/ Adopt(s, o) \/ Unmatched(s, o)
  \/ LoadOrphans(s) \/ AdoptPosition(s)

Failure(s) ==
  \/ ListFails(s) \/ AdoptFillLost(s) \/ SyncFails(s) \/ AdoptPositionLost(s)
  \/ \E o \in Orders : AdoptFails(s, o)

Follow(o) == SaveResponse(o) \/ BookPolled(o) \/ GiveUp(o)
Broker(o) == BrokerFill(o) \/ BrokerCancel(o)

Next == \/ \E s \in Syncers : Sync(s) \/ Failure(s)
        \/ \E o \in Orders : Follow(o) \/ Broker(o)

Spec == Init /\ [][Next]_vars

\* The watcher cycles again and again, and a cycle comes to its end.
FairSpec == Spec /\ \A s \in Adopters : WF_vars(Sync(s))

-----------------------------------------------------------------------------
(***************************************************************************)
(* Every value has its type; a snapshot shows no more than the buys could  *)
(* have filled.                                                            *)
(***************************************************************************)
Types ==
  /\ ord \in [Orders -> Observations] /\ row \in [Orders -> Observations]
  /\ req \subseteq Books /\ booked \in [Books -> Nat]
  /\ unsaved \subseteq followed /\ followed \subseteq Polls
  /\ pc \in [Syncers -> Places]
  /\ \A s \in Syncers : Left(s) \subseteq Orders /\ \A o \in Left(s) : seen[s][o] \in Observations
  /\ cur \in [Syncers -> Books]
  /\ failures \in 0 .. MaxFailures

TypeOK ==
  /\ Types
  /\ snap \in 0 .. SumFunctionOnSet(Shares, Buys) /\ had \in [Syncers -> Nat]
  /\ \A id \in ids : id[2] \in Books

(***************************************************************************)
(* Nothing is replayed twice: an order's rows never sum to more than the   *)
(* broker filled, nor an adopted position's to more than was ever bought,  *)
(* over failed calls, repeated cycles and late fills (sync: the missing    *)
(* quantity only; the recovery guide: replay missing fills idempotently).  *)
(***************************************************************************)
NeverOverbooked ==
  /\ \A o \in Orders : booked[o] <= ord[o].filled
  /\ booked[Holding] <= Sum(Buys)

(***************************************************************************)
(* Executor and watcher share the tables without a lock, and a share that  *)
(* both come to book is booked twice.  That is the worst of it: whatever   *)
(* one writes between the reads and the inserts of the other, and however  *)
(* often it cycles, no share is booked more often than there are processes.*)
(***************************************************************************)
EachBooksOnce ==
  \A o \in Orders : booked[o] <= Cardinality(Syncers) * ord[o].filled

(***************************************************************************)
(* What adoption promises: a share is adopted as part of an order or as    *)
(* part of a position, so that the rows of the buys and of the position    *)
(* never sum to more than was bought (a second adoption makes no double).  *)
(***************************************************************************)
AdoptedOnce ==
  booked[Holding] + SumFunctionOnSet(booked, Buys) <= Sum(Buys)

(***************************************************************************)
(* No share is forgotten: whatever failed, raced or was canceled, all that *)
(* was filled of an order with a request, or of one filled in full, is     *)
(* booked in the end.                                                      *)
(***************************************************************************)
FillsBooked == \A o \in Orders :
  (o \in req \/ ord[o].filled = Shares[o]) ~> booked[o] >= ord[o].filled

(***************************************************************************)
(* The order table recovers from every late writer: once the broker is     *)
(* through with an order that has a request, its row comes to say so and   *)
(* no stale observation replaces it for good.                              *)
(***************************************************************************)
RowsSettle == \A o \in Orders :
  (o \in req /\ ~ord[o].open) ~> row[o] = ord[o]
=============================================================================
