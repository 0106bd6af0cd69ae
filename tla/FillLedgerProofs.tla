--------------------------- MODULE FillLedgerProofs ---------------------------
(***************************************************************************)
(* Fills are booked once, for any orders, sizes and number of failures,    *)
(* where one process alone books: the watcher, or an executor that polls   *)
(* its orders and then syncs.                                              *)
(***************************************************************************)
EXTENDS FillLedger, SumTheorems, TLAPS

OneProcess ==
  /\ \A s, t \in Syncers : s = t
  /\ Polls # {} => Executor \in Syncers

Bought == Sum(Buys)

-----------------------------------------------------------------------------
(***************************************************************************)
(* The inductive invariant.  What a sync has listed is no more than the    *)
(* broker has filled since; between the read of the booked quantity and    *)
(* the insert nobody else books; an order without a request has no row; an *)
(* order still polled has none either, and nothing syncs beside it; what   *)
(* is photographed, read or booked of the position was bought, and it is   *)
(* adopted once, as its request then excludes it.                          *)
(***************************************************************************)
ListedIsFilled == \A s \in Syncers : \A o \in Left(s) : seen[s][o].filled <= ord[o].filled

ReadIsCurrent == \A s \in Syncers :
  At(s, "insert") => cur[s] \in Left(s) \cap req /\ had[s] = booked[cur[s]]

AdoptedAnew == \A s \in Syncers :
  At(s, "adopt") => cur[s] \in Left(s) \cap req /\ booked[cur[s]] = 0

RowsHaveRequests == Planned \subseteq req /\ \A b \in Books \ req : booked[b] = 0

PollsFirst ==
  /\ \A o \in followed : booked[o] = 0
  /\ followed # {} => \A s \in Syncers : At(s, "idle")

HoldingFits ==
  /\ snap \in Nat /\ snap <= Bought /\ booked[Holding] <= Bought
  /\ \A s \in Syncers : At(s, "position") =>
       had[s] \in Nat /\ had[s] <= Bought /\ Holding \notin req

LedgerInv ==
  /\ Types /\ DOMAIN had = Syncers /\ DOMAIN seen = Syncers
  /\ ListedIsFilled /\ ReadIsCurrent /\ AdoptedAnew /\ RowsHaveRequests
  /\ PollsFirst /\ HoldingFits
  /\ \A o \in Orders : booked[o] <= ord[o].filled

-----------------------------------------------------------------------------
(***************************************************************************)
(* A position is never more than what was bought.                          *)
(***************************************************************************)
LEMMA PositionBought ==
  ASSUME ord \in [Orders -> Observations]
  PROVE  Bought \in Nat /\ Position \in Int /\ Position <= Bought
<1> DEFINE f == [b \in Books |-> Filled(b)]
<1>1. IsFiniteSet(Buys) /\ IsFiniteSet(Orders \ Buys)
  BY ConstantsAssumption, SubsetFinite
<1>2. \A o \in Orders : f[o] \in Nat
  BY DEF Books, Filled, Observations
<1>3. Bought = SumFunctionOnSet(f, Buys)
      /\ Position = SumFunctionOnSet(f, Buys) - SumFunctionOnSet(f, Orders \ Buys)
  BY DEF Bought, Position, Sum
<1> HIDE DEF f
<1>4. SumFunctionOnSet(f, Buys) \in Nat /\ SumFunctionOnSet(f, Orders \ Buys) \in Nat
  BY <1>1, <1>2, SumNat, ConstantsAssumption
<1> QED BY <1>3, <1>4

(***************************************************************************)
(* What was bought only grows as orders fill.                              *)
(***************************************************************************)
LEMMA BoughtGrows ==
  ASSUME ord \in [Orders -> Observations], ord' \in [Orders -> Observations],
         \A o \in Orders : ord[o].filled <= ord'[o].filled
  PROVE  Bought \in Nat /\ Bought' \in Nat /\ Bought <= Bought'
<1> DEFINE f == [b \in Books |-> Filled(b)]
           g == [b \in Books |-> Filled(b)']
<1>1. IsFiniteSet(Buys)
  BY ConstantsAssumption, SubsetFinite
<1>2. \A o \in Buys : f[o] \in Nat /\ g[o] \in Nat /\ f[o] <= g[o]
  BY ConstantsAssumption DEF Books, Filled, Observations
<1>3. Bought = SumFunctionOnSet(f, Buys) /\ Bought' = SumFunctionOnSet(g, Buys)
  BY DEF Bought, Sum
<1> HIDE DEF f, g
<1> QED BY <1>1, <1>2, <1>3, SumNat, SumMonotone

(***************************************************************************)
(* The tables are empty at first, and nothing is listed.                   *)
(***************************************************************************)
LEMMA LedgerInit ==
  ASSUME OneProcess
  PROVE  Init => LedgerInv
<1> SUFFICES ASSUME Init PROVE LedgerInv
  OBVIOUS
<1> USE ConstantsAssumption DEF Init, Books, Fresh, At
<1>1. \A s \in Syncers : Left(s) = {}
  BY DEF Left
<1>2. Types
  BY <1>1 DEF Types, Observations, Places
<1>3. Bought \in Nat
  BY <1>2, PositionBought DEF Types
<1> QED BY <1>1, <1>2, <1>3 DEF LedgerInv, ListedIsFilled, ReadIsCurrent, AdoptedAnew,
          RowsHaveRequests, PollsFirst, HoldingFits

(***************************************************************************)
(* Booking a quantity that leaves the order at hand within what the broker *)
(* filled, and going on with the next order, keeps the invariant.          *)
(***************************************************************************)
BookMore(s, q) ==
  /\ pc[s] # "idle" /\ q \in Nat
  /\ cur[s] \in Left(s) \cap req /\ booked[cur[s]] + q <= ord[cur[s]].filled
  /\ booked' = booked \/ booked' = [booked EXCEPT ![cur[s]] = @ + q]

\* A fill booked within what the order has filled keeps the books of the ledger.
LEMMA MoreKeeps ==
  ASSUME OneProcess, LedgerInv, NEW s \in Syncers, NEW q, BookMore(s, q), NextOrder(s),
         UNCHANGED <<ord, req, row, snap, executor, failures>>
  PROVE  LedgerInv'
<1> USE ConstantsAssumption DEF OneProcess, LedgerInv, Types, ListedIsFilled, ReadIsCurrent,
    AdoptedAnew, RowsHaveRequests, PollsFirst, HoldingFits, At, Goto, Books, executor, NextOrder
<1>1. /\ pc' = [pc EXCEPT ![s] = "orders"] /\ cur' = [cur EXCEPT ![s] = Holding]
      /\ DOMAIN had' = Syncers
  OBVIOUS
<1>2. /\ DOMAIN seen' = Syncers /\ \A t \in Syncers : Left(t)' \subseteq Left(t)
      /\ \A t \in Syncers : \A o \in Left(t)' : seen'[t][o] = seen[t][o]
  BY DEF Drop, Left
<1>3. /\ booked' \in [Books -> Nat] /\ booked'[Holding] = booked[Holding]
      /\ \A o \in Orders : booked'[o] <= ord[o].filled
      /\ \A b \in Books \ req : booked'[b] = 0
  <2>1. /\ cur[s] \in Orders /\ \A b \in Books : b # cur[s] => booked'[b] = booked[b]
        /\ booked'[cur[s]] = booked[cur[s]] \/ booked'[cur[s]] = booked[cur[s]] + q
    BY DEF BookMore
  <2>2. booked' \in [Books -> Nat]
    BY DEF BookMore
  <2> QED BY <2>1, <2>2 DEF BookMore
<1>4. \A t \in Syncers : pc'[t] = "orders"
  BY <1>1
<1>5. Types'
  BY <1>1, <1>2, <1>3 DEF Places
<1>6. followed = {}
  BY DEF BookMore
<1>7. Bought' \in Nat /\ Bought <= Bought' /\ Bought \in Nat
  BY <1>5, BoughtGrows DEF Observations
<1> QED BY <1>1, <1>2, <1>3, <1>4, <1>5, <1>6, <1>7

(***************************************************************************)
(* Every step of the one process that syncs, failures included, keeps it.  *)
(***************************************************************************)
LEMMA SyncKeeps ==
  ASSUME OneProcess, LedgerInv, NEW s \in Syncers, Sync(s)
  PROVE  LedgerInv'
<1>0. ord' = ord /\ Bought' \in Nat /\ Bought <= Bought' /\ Bought \in Nat
      /\ Position \in Int /\ Position <= Bought
  <2>1. ord' = ord
    BY DEF Sync, List, InsertMissing, AdoptFill, Photograph, Known, Adopt, Unmatched,
       LoadOrphans, AdoptPosition
  <2> QED BY <2>1, BoughtGrows, PositionBought DEF LedgerInv, Types, Observations
<1> USE <1>0, ConstantsAssumption DEF OneProcess, LedgerInv, Types, ListedIsFilled, ReadIsCurrent,
    AdoptedAnew, RowsHaveRequests, PollsFirst, HoldingFits, At, Goto, Left, Books, Places,
    Observations, tables, executor
<1>1. CASE List(s)
  BY <1>1 DEF List, Polled
<1>2. CASE InsertMissing(s)
  <2>1. BookMore(s, Missing(s))
    <3>1. Missing(s) \in Nat
      BY <1>2 DEF InsertMissing, Missing
    <3> QED BY <1>2, <3>1 DEF InsertMissing, Missing, Insert, NextOrder, BookMore
  <2> QED BY <1>2, <2>1, MoreKeeps DEF InsertMissing, NextOrder
<1>3. CASE AdoptFill(s)
  <2>1. BookMore(s, seen[s][cur[s]].filled)
    BY <1>3 DEF AdoptFill, Insert, NextOrder, BookMore
  <2> QED BY <1>3, <2>1, MoreKeeps DEF AdoptFill, NextOrder
<1>4. CASE Photograph(s)
  <2>1. snap' \in Nat /\ snap' <= Bought
    BY <1>4 DEF Photograph, Snapshot
  <2> QED BY <1>4, <2>1 DEF Photograph, Rest
<1>5. ASSUME NEW o \in Orders, Known(s, o) PROVE LedgerInv'
  BY <1>5 DEF Known, Upsert
<1>6. ASSUME NEW o \in Orders, Adopt(s, o) PROVE LedgerInv'
  BY <1>6 DEF Adopt, Upsert
<1>7. ASSUME NEW o \in Orders, Unmatched(s, o) PROVE LedgerInv'
  BY <1>7 DEF Unmatched, Drop
<1>8. CASE LoadOrphans(s)
  BY <1>8 DEF LoadOrphans, HasBuyRequest
<1>9. CASE AdoptPosition(s)
  <2>1. booked' \in [Books -> Nat] /\ booked'[Holding] <= Bought
        /\ \A o \in Orders : booked'[o] = booked[o]
    BY <1>9 DEF AdoptPosition, Insert
  <2> QED BY <1>9, <2>1 DEF AdoptPosition
<1> QED BY <1>1, <1>2, <1>3, <1>4, <1>5, <1>6, <1>7, <1>8, <1>9 DEF Sync

(***************************************************************************)
(* A call that raises leaves less to do and nothing booked.                *)
(***************************************************************************)
LEMMA FailureKeeps ==
  ASSUME OneProcess, LedgerInv, NEW s \in Syncers, Failure(s)
  PROVE  LedgerInv'
<1>0. ord' = ord /\ Bought' \in Nat /\ Bought <= Bought' /\ Bought \in Nat
  <2>1. ord' = ord
    BY DEF Failure, ListFails, AdoptFillLost, SyncFails, AdoptPositionLost, AdoptFails
  <2> QED BY <2>1, BoughtGrows DEF LedgerInv, Types, Observations
<1> USE <1>0, ConstantsAssumption DEF OneProcess, LedgerInv, Types, ListedIsFilled, ReadIsCurrent,
    AdoptedAnew, RowsHaveRequests, PollsFirst, HoldingFits, At, Goto, Left, Books, Places, Fault,
    tables, executor
<1>1. CASE ListFails(s)
  BY <1>1 DEF ListFails, Polled
<1>2. CASE AdoptFillLost(s)
  BY <1>2 DEF AdoptFillLost, NextOrder, Drop
<1>3. CASE SyncFails(s)
  BY <1>3 DEF SyncFails, Rest
<1>4. CASE AdoptPositionLost(s)
  BY <1>4 DEF AdoptPositionLost
<1>5. ASSUME NEW o \in Orders, AdoptFails(s, o) PROVE LedgerInv'
  BY <1>5 DEF AdoptFails, Drop
<1> QED BY <1>1, <1>2, <1>3, <1>4, <1>5 DEF Failure

(***************************************************************************)
(* The executor books an order it polls while nothing of it is booked; the *)
(* broker only fills more.                                                 *)
(***************************************************************************)
LEMMA OrderKeeps ==
  ASSUME OneProcess, LedgerInv, NEW o \in Orders, Follow(o) \/ Broker(o)
  PROVE  LedgerInv'
<1>0. Bought' \in Nat /\ Bought <= Bought' /\ Bought \in Nat
  <2>1. ord' \in [Orders -> Observations] /\ \A x \in Orders : ord[x].filled <= ord'[x].filled
    BY DEF Follow, SaveResponse, BookPolled, GiveUp, Broker, BrokerFill, BrokerCancel,
       LedgerInv, Types, Observations, tables
  <2> QED BY <2>1, BoughtGrows DEF LedgerInv, Types
<1> USE <1>0, ConstantsAssumption DEF OneProcess, LedgerInv, Types, ListedIsFilled, ReadIsCurrent,
    AdoptedAnew, RowsHaveRequests, PollsFirst, HoldingFits, At, Left, Books, Observations,
    tables, executor, sync
<1>1. CASE SaveResponse(o)
  BY <1>1 DEF SaveResponse, Upsert, Fresh
<1>2. CASE BookPolled(o)
  <2>1. /\ booked' \in [Books -> Nat] /\ booked'[o] <= ord[o].filled
        /\ \A b \in Books : b # o => booked'[b] = booked[b]
    BY <1>2 DEF BookPolled, Insert
  <2>2. o \in req /\ o # Holding
    BY <1>2 DEF BookPolled
  <2> QED BY <1>2, <2>1, <2>2 DEF BookPolled
<1>3. CASE GiveUp(o)
  BY <1>3 DEF GiveUp
<1>4. CASE BrokerFill(o)
  BY <1>4 DEF BrokerFill
<1>5. CASE BrokerCancel(o)
  BY <1>5 DEF BrokerCancel
<1> QED BY <1>1, <1>2, <1>3, <1>4, <1>5 DEF Follow, Broker

(***************************************************************************)
(* The invariant of a symbol that one process books.                       *)
(***************************************************************************)
THEOREM LedgerInvariant ==
  ASSUME OneProcess
  PROVE  Spec => []LedgerInv
<1>1. LedgerInv /\ [Next]_vars => LedgerInv'
  <2> SUFFICES ASSUME LedgerInv, [Next]_vars PROVE LedgerInv'
    OBVIOUS
  <2>1. CASE UNCHANGED vars
    <3>1. Bought' = Bought
      BY <2>1 DEF vars, Bought, Sum, Filled
    <3> QED BY <2>1, <3>1 DEF vars, tables, executor, sync, LedgerInv, Types, ListedIsFilled,
         ReadIsCurrent, AdoptedAnew, RowsHaveRequests, PollsFirst, HoldingFits, At, Left
  <2>2. ASSUME NEW s \in Syncers, Sync(s) PROVE LedgerInv'
    BY <2>2, SyncKeeps
  <2>3. ASSUME NEW s \in Syncers, Failure(s) PROVE LedgerInv'
    BY <2>3, FailureKeeps
  <2>4. ASSUME NEW o \in Orders, Follow(o) \/ Broker(o) PROVE LedgerInv'
    BY <2>4, OrderKeeps
  <2> QED BY <2>1, <2>2, <2>3, <2>4 DEF Next
<1> QED BY <1>1, LedgerInit, PTL DEF Spec

(***************************************************************************)
(* Nothing is replayed twice (NeverOverbooked) while one process alone     *)
(* books, be it the watcher with its adoptions or an executor that polls   *)
(* and then syncs: however its calls fail, the broker fills and cancels.   *)
(***************************************************************************)
THEOREM BookedOnce ==
  ASSUME OneProcess
  PROVE  Spec => []NeverOverbooked
<1>1. LedgerInv => NeverOverbooked
  BY DEF LedgerInv, HoldingFits, Bought, NeverOverbooked
<1> QED BY <1>1, LedgerInvariant, PTL

-----------------------------------------------------------------------------
(***************************************************************************)
(* Types, for any orders, processes and failures. A snapshot shows no more *)
(* than the buys could fill: a sum over the orders, of which the number is *)
(* finite.                                                                 *)
(***************************************************************************)

\* No order fills more than its shares.
Sizes == \A o \in Orders : /\ ord[o].filled <= Shares[o]
                           /\ ord[o].open => ord[o].filled < Shares[o]

\* The order a sync has at hand is one it has listed.
AtHand == \A s \in Syncers : pc[s] \in {"insert", "adopt"} => cur[s] \in Left(s)

TypeInv == TypeOK /\ DOMAIN seen = Syncers /\ Sizes /\ AtHand

(***************************************************************************)
(* The position of the symbol is no more than all its buys are for.        *)
(***************************************************************************)
LEMMA PositionFits ==
  ASSUME TypeInv
  PROVE  /\ Position \in Int /\ Position <= SumFunctionOnSet(Shares, Buys)
         /\ SumFunctionOnSet(Shares, Buys) \in Nat
<1> DEFINE f == [b \in Books |-> Filled(b)]
<1>1. IsFiniteSet(Buys) /\ IsFiniteSet(Orders \ Buys)
  BY ConstantsAssumption, SubsetFinite
<1>2. \A o \in Orders : f[o] \in Nat /\ f[o] <= Shares[o] /\ Shares[o] \in Nat
  BY ConstantsAssumption DEF Books, Filled, TypeInv, TypeOK, Types, Sizes, Observations
<1>3. Position = SumFunctionOnSet(f, Buys) - SumFunctionOnSet(f, Orders \ Buys)
  BY DEF Position, Sum
<1> HIDE DEF f
<1>4. SumFunctionOnSet(f, Buys) \in Nat /\ SumFunctionOnSet(f, Orders \ Buys) \in Nat
      /\ SumFunctionOnSet(Shares, Buys) \in Nat
  BY <1>1, <1>2, SumNat, ConstantsAssumption
<1>5. SumFunctionOnSet(f, Buys) <= SumFunctionOnSet(Shares, Buys)
  BY <1>1, <1>2, SumMonotone, ConstantsAssumption
<1> QED BY <1>3, <1>4, <1>5

(***************************************************************************)
(* The tables are empty at first.                                          *)
(***************************************************************************)
LEMMA TypeInit == Init => TypeInv
<1> SUFFICES ASSUME Init PROVE TypeInv
  OBVIOUS
<1> USE ConstantsAssumption DEF Init, Books, Fresh
<1>1. \A s \in Syncers : Left(s) = {}
  BY DEF Left
<1>2. Types
  BY <1>1 DEF Types, Observations, Places
<1>3. Sizes
  BY DEF Sizes
<1>4. AtHand
  BY DEF AtHand
<1>5. SumFunctionOnSet(Shares, Buys) \in Nat
  BY SubsetFinite, SumNat
<1> QED BY <1>2, <1>3, <1>4, <1>5 DEF TypeInv, TypeOK

(***************************************************************************)
(* A row that is inserted names its book, and adds a quantity to it.       *)
(***************************************************************************)
LEMMA InsertTypes ==
  ASSUME TypeInv, NEW kind, NEW b \in Books, NEW n, NEW m, NEW q \in Nat,
         Insert(<<kind, b, n, m>>, b, q)
  PROVE  booked' \in [Books -> Nat] /\ \A id \in ids' : id[2] \in Books
<1> DEFINE id == <<kind, b, n, m>>
<1>1. id[2] = b
  OBVIOUS
<1> HIDE DEF id
<1>2. Insert(id, b, q)
  BY DEF id
<1> QED BY <1>1, <1>2 DEF Insert, TypeInv, TypeOK, Types

(***************************************************************************)
(* Every step keeps the types.                                             *)
(***************************************************************************)
LEMMA TypeStep ==
  ASSUME TypeInv, [Next]_vars
  PROVE  TypeInv'
<1> USE ConstantsAssumption DEF TypeInv, TypeOK, Types, Sizes, AtHand, At, Goto, Left, Books,
    Places, Fault, tables, executor, sync
<1>1. CASE UNCHANGED vars
  BY <1>1 DEF vars
<1>2. ASSUME NEW s \in Syncers, Sync(s) PROVE TypeInv'
  <2>1. CASE List(s)
    BY <2>1 DEF List
  <2>2. CASE InsertMissing(s)
    <3>1. cur[s] \in Left(s) /\ Missing(s) \in Nat /\ cur[s] \in Books
      BY <2>2 DEF InsertMissing, Missing, Observations
    <3>2. booked' \in [Books -> Nat] /\ \A id \in ids' : id[2] \in Books
      <4>1. CASE Missing(s) = 0
        BY <2>2, <4>1 DEF InsertMissing
      <4>2. CASE Missing(s) # 0
        BY <2>2, <3>1, <4>2, InsertTypes DEF InsertMissing, MissingId
      <4> QED BY <4>1, <4>2
    <3>3. UNCHANGED <<ord, req, row, snap, executor, failures>> /\ NextOrder(s)
      BY <2>2 DEF InsertMissing
    <3> QED BY <3>2, <3>3 DEF NextOrder, Drop
  <2>3. CASE AdoptFill(s)
    <3>1. cur[s] \in Left(s) /\ seen[s][cur[s]].filled \in Nat /\ cur[s] \in Books
      BY <2>3 DEF AdoptFill, Observations
    <3>2. booked' \in [Books -> Nat] /\ \A id \in ids' : id[2] \in Books
      BY <2>3, <3>1, InsertTypes DEF AdoptFill, AdoptedId
    <3>3. UNCHANGED <<ord, req, row, snap, executor, failures>> /\ NextOrder(s)
      BY <2>3 DEF AdoptFill
    <3> QED BY <3>2, <3>3 DEF NextOrder, Drop
  <2>4. CASE Photograph(s)
    <3>1. snap' \in 0 .. SumFunctionOnSet(Shares, Buys)
      BY <2>4, PositionFits DEF Photograph, Snapshot
    <3> QED BY <2>4, <3>1 DEF Photograph, Rest
  <2>5. ASSUME NEW o \in Orders, Known(s, o) PROVE TypeInv'
    BY <2>5 DEF Known, Upsert
  <2>6. ASSUME NEW o \in Orders, Adopt(s, o) PROVE TypeInv'
    BY <2>6 DEF Adopt, Upsert
  <2>7. ASSUME NEW o \in Orders, Unmatched(s, o) PROVE TypeInv'
    BY <2>7 DEF Unmatched, Drop
  <2>8. CASE LoadOrphans(s)
    <3>1. SumFunctionOnSet(Shares, Buys) \in Nat
      BY PositionFits
    <3> QED BY <2>8, <3>1 DEF LoadOrphans
  <2>9. CASE AdoptPosition(s)
    <3>1. booked' \in [Books -> Nat] /\ \A id \in ids' : id[2] \in Books
      BY <2>9, InsertTypes DEF AdoptPosition, AdoptedId
    <3> QED BY <2>9, <3>1 DEF AdoptPosition
  <2> QED BY <1>2, <2>1, <2>2, <2>3, <2>4, <2>5, <2>6, <2>7, <2>8, <2>9 DEF Sync
<1>3. ASSUME NEW s \in Syncers, Failure(s) PROVE TypeInv'
  <2>1. CASE ListFails(s)
    BY <2>1 DEF ListFails
  <2>2. CASE AdoptFillLost(s)
    BY <2>2 DEF AdoptFillLost, NextOrder, Drop
  <2>3. CASE SyncFails(s)
    <3>1. /\ seen' = [seen EXCEPT ![s] = <<>>] /\ cur' = [cur EXCEPT ![s] = Holding]
          /\ had' = [had EXCEPT ![s] = 0]
          /\ \E p \in {"idle", "done", "orphans"} : pc' = [pc EXCEPT ![s] = p]
          /\ UNCHANGED <<ord, req, row, ids, booked, snap, unsaved, followed>>
          /\ failures' \in 0 .. MaxFailures
      BY <2>3 DEF SyncFails, Rest
    <3>2. /\ DOMAIN seen' = Syncers /\ DOMAIN seen'[s] = {}
          /\ \A t \in Syncers \ {s} : seen'[t] = seen[t]
      BY <3>1
    <3> QED BY <3>1, <3>2
  <2>4. CASE AdoptPositionLost(s)
    BY <2>4 DEF AdoptPositionLost
  <2>5. ASSUME NEW o \in Orders, AdoptFails(s, o) PROVE TypeInv'
    BY <2>5 DEF AdoptFails, Drop
  <2> QED BY <1>3, <2>1, <2>2, <2>3, <2>4, <2>5 DEF Failure
<1>4. ASSUME NEW o \in Orders, Follow(o) PROVE TypeInv'
  <2>1. CASE SaveResponse(o)
    BY <2>1 DEF SaveResponse, Upsert, Fresh, Observations
  <2>2. CASE BookPolled(o)
    <3>1. ord[o].filled \in Nat
      BY DEF Observations
    <3>2. booked' \in [Books -> Nat] /\ \A id \in ids' : id[2] \in Books
      BY <2>2, <3>1, InsertTypes DEF BookPolled, PolledId
    <3> QED BY <2>2, <3>2 DEF BookPolled
  <2>3. CASE GiveUp(o)
    BY <2>3 DEF GiveUp
  <2> QED BY <1>4, <2>1, <2>2, <2>3 DEF Follow
<1>5. ASSUME NEW o \in Orders, Broker(o) PROVE TypeInv'
  <2>1. CASE BrokerFill(o)
    BY <2>1 DEF BrokerFill, Observations
  <2>2. CASE BrokerCancel(o)
    BY <2>2 DEF BrokerCancel, Observations
  <2> QED BY <1>5, <2>1, <2>2 DEF Broker
<1> QED BY <1>1, <1>2, <1>3, <1>4, <1>5 DEF Next

(***************************************************************************)
(* Every value keeps its type, whoever books beside whom, and the snapshots*)
(* stay within what the buys could have filled.                            *)
(***************************************************************************)
THEOREM LedgerTypes == Spec => []TypeOK
<1>1. TypeInv => TypeOK
  BY DEF TypeInv
<1> QED BY <1>1, TypeInit, TypeStep, PTL DEF Spec
=============================================================================
