------------------------ MODULE EntrySubmissionProofs ------------------------
(* For any number of runs, names, shares, tries and money: no order is lost  *)
(* to the records (Traced), when at most one thing goes wrong or the writes  *)
(* of the requests do not: the request is written before the POST, so that   *)
(* it takes a failed write and then a crash to leave an order unmatched.     *)
(* No entry is sent that the cash does not cover (EntriesInFunds), whatever  *)
(* goes wrong. No run holds more than the target (WithinTarget), with one    *)
(* fault, or with more of those that do not hide an order.                   *)
EXTENDS EntrySubmission, SumTheorems, TLAPS

USE DEF RoleOf

\* What the best-effort writes of the requests are worth.
OneFaultOrWrites == MaxFaults <= 1 \/ "write" \notin Faults

Sending == {"posting", "answered", "refused", "gaveup"}

\* A run that is sending has an intent of its own in hand.
HandInv ==
  /\ phase \in [Runs -> Phases]
  /\ hand \in [Runs -> Intents \cup {Nobody}]
  /\ \A r \in Runs : phase[r] \in Sending => hand[r] \in Intents /\ RunOf(hand[r]) = r

\* An intent in hand without a request is a write that failed.
FaultInv ==
  /\ faults \in Nat
  /\ \A r \in Runs :
       phase[r] \in Sending /\ request[hand[r]] = "none" => faults >= 1 /\ "write" \in Faults

\* An order without a request is still in hand.
OrderInv ==
  /\ request \in [Intents -> RequestStatuses]
  /\ \A k \in DOMAIN order :
       /\ k[1] \in Intents
       /\ request[k[1]] = "none" =>
            hand[RunOf(k[1])] = k[1] /\ phase[RunOf(k[1])] \in Sending

TracedInv == HandInv /\ FaultInv /\ OrderInv

\* The run of an intent is a run.
LEMMA RunOfIntent == \A i \in Intents : RunOf(i) \in Runs
  BY DEF Intents, RunOf

\* The intents a run takes in hand are its own.
LEMMA OwnIntent ==
  ASSUME NEW r \in Runs, NEW n \in Names, NEW role \in Roles
  PROVE  <<r, n, role>> \in Intents /\ RunOf(<<r, n, role>>) = r
  BY DEF Intents, RunOf

\* The invariant holds initially.
LEMMA TracedInit == Init => TracedInv
  BY SizesAssumption DEF Init, TracedInv, HandInv, FaultInv, OrderInv, Sending, Phases,
     RequestStatuses, Intents

\* The steps of the broker and of the lock leave the records and the hands.
LEMMA BrokerKeeps ==
  ASSUME TracedInv,
         UNCHANGED <<phase, hand, request, faults>>, DOMAIN order' = DOMAIN order
  PROVE  TracedInv'
  BY DEF TracedInv, HandInv, FaultInv, OrderInv

\* The steps of a run that has nothing in hand, before and after, and of which
\* the records only gain statuses.
LEMMA IdleKeeps ==
  ASSUME TracedInv, NEW r \in Runs, NEW p \in Phases \ Sending,
         phase[r] \notin Sending, phase' = [phase EXCEPT ![r] = p],
         hand' = hand \/ hand' = [hand EXCEPT ![r] = Nobody],
         faults' \in Nat, faults' >= faults,
         request' \in [Intents -> RequestStatuses],
         \A i \in Intents : request'[i] = "none" => request[i] = "none",
         order' = order
  PROVE  TracedInv'
  BY RunOfIntent DEF TracedInv, HandInv, FaultInv, OrderInv

\* A write of a request gives it its status, or is the fault.
LEMMA WrittenGives ==
  ASSUME TracedInv, NEW i \in Intents, NEW status \in RequestStatuses \ {"none"},
         Written(i, status)
  PROVE  /\ request' \in [Intents -> RequestStatuses]
         /\ \A j \in Intents : request'[j] = "none" => request[j] = "none"
         /\ \A j \in Intents \ {i} : request'[j] = request[j]
         /\ faults' \in Nat /\ faults' >= faults
         /\ \/ request'[i] = status /\ faults' = faults
            \/ request' = request /\ faults' = faults + 1 /\ "write" \in Faults
                 /\ faults < MaxFaults
  BY DEF TracedInv, FaultInv, OrderInv, Written, MayFault

\* An entry or a buy taken in hand: its request is written first.
LEMMA PrepareKeeps ==
  ASSUME TracedInv, NEW r \in Runs, NEW n \in Names, NEW role \in Roles,
         phase[r] \notin Sending, Prepare(r, n, role)
  PROVE  TracedInv'
<1> DEFINE i == <<r, n, role>>
<1>1. i \in Intents /\ RunOf(i) = r
  BY OwnIntent
<1>2. Written(i, "NEW") /\ phase' = [phase EXCEPT ![r] = "posting"]
      /\ hand' = [hand EXCEPT ![r] = i] /\ order' = order
  BY DEF Prepare, Announced
<1>3. /\ request' \in [Intents -> RequestStatuses]
      /\ \A j \in Intents : request'[j] = "none" => request[j] = "none"
      /\ faults' \in Nat /\ faults' >= faults
      /\ \/ request'[i] = "NEW"
         \/ faults' = faults + 1 /\ "write" \in Faults
  BY <1>1, <1>2, WrittenGives DEF RequestStatuses
<1> HIDE DEF i
<1>4. HandInv'
  BY <1>1, <1>2 DEF TracedInv, HandInv, Sending, Phases
<1>5. FaultInv'
  BY <1>1, <1>2, <1>3 DEF TracedInv, HandInv, FaultInv, OrderInv, Sending
<1>6. OrderInv'
  BY <1>2, <1>3, RunOfIntent DEF TracedInv, HandInv, OrderInv
<1> QED BY <1>4, <1>5, <1>6 DEF TracedInv

\* A POST, whatever becomes of it: the order it may place is the one in hand.
LEMMA PostKeeps ==
  ASSUME TracedInv, NEW r \in Runs, phase[r] = "posting",
         NEW p \in Sending, phase' = [phase EXCEPT ![r] = p],
         UNCHANGED <<hand, request>>, faults' \in Nat, faults' >= faults,
         DOMAIN order' \subseteq DOMAIN order \cup {Key(r)}
  PROVE  TracedInv'
<1>1. Key(r)[1] = hand[r]
  BY DEF Key, KeyOf
<1>2. hand[r] \in Intents /\ RunOf(hand[r]) = r
  BY DEF TracedInv, HandInv, Sending
<1>3. HandInv' /\ FaultInv'
  BY <1>2 DEF TracedInv, HandInv, FaultInv, Sending, Phases
<1>4. OrderInv'
  <2> SUFFICES ASSUME NEW k \in DOMAIN order'
               PROVE  /\ k[1] \in Intents
                      /\ request[k[1]] = "none" =>
                           hand[RunOf(k[1])] = k[1] /\ phase'[RunOf(k[1])] \in Sending
    BY DEF TracedInv, OrderInv
  <2>1. CASE k = Key(r)
    BY <1>1, <1>2, <2>1 DEF TracedInv, HandInv
  <2>2. CASE k \in DOMAIN order
    BY <2>2, RunOfIntent DEF TracedInv, HandInv, OrderInv
  <2> QED BY <2>1, <2>2
<1> QED BY <1>3, <1>4 DEF TracedInv

\* A run may let go of an intent that has a request.
LEMMA LetGoKeeps ==
  ASSUME TracedInv, NEW r \in Runs, phase[r] \in Sending,
         NEW p \in Phases \ Sending, phase' = [phase EXCEPT ![r] = p],
         hand' = [hand EXCEPT ![r] = Nobody], order' = order,
         faults' \in Nat, faults' >= faults,
         request' \in [Intents -> RequestStatuses],
         \A j \in Intents : request'[j] = "none" => request[j] = "none",
         request'[hand[r]] # "none"
  PROVE  TracedInv'
<1>1. HandInv' /\ FaultInv'
  BY DEF TracedInv, HandInv, FaultInv, OrderInv
<1>2. OrderInv'
  BY RunOfIntent DEF TracedInv, HandInv, OrderInv
<1> QED BY <1>1, <1>2 DEF TracedInv
-----------------------------------------------------------------------------
\* Every step keeps the invariant: the fills and the lock touch nothing of it;
\* a run that sends has its request written, or has used up its one fault.
LEMMA TracedStep ==
  ASSUME TracedInv, OneFaultOrWrites, [Next]_vars
  PROVE  TracedInv'
<1> USE DEF sending, books
<1>1. CASE UNCHANGED vars
  BY <1>1, BrokerKeeps DEF vars
<1>2. ASSUME NEW k \in DOMAIN order, Fill(k) \/ Lapse(k) \/ CloseOut(k) PROVE TracedInv'
  <2>1. UNCHANGED <<phase, hand, request, faults>>
    BY <1>2 DEF Fill, Lapse, CloseOut
  <2>2. DOMAIN order' = DOMAIN order
    BY <1>2 DEF Fill, Lapse, CloseOut
  <2> QED BY <2>1, <2>2, BrokerKeeps
<1>3. CASE LockExpires
  BY <1>3, BrokerKeeps DEF LockExpires
<1>4. ASSUME NEW r \in Runs, NEW n \in Names,
             Skip(r, n) \/ Gate(r, n) \/ Submit(r, n) \/ BuyMore(r, n)
      PROVE  TracedInv'
  <2>1. CASE Skip(r, n)
    BY <2>1, BrokerKeeps DEF Skip
  <2>2. CASE Gate(r, n)
    <3>1. Written(<<r, n, "entry">>, "REJECTED") /\ UNCHANGED <<phase, hand, order>>
          /\ phase[r] = "submit"
      BY <2>2 DEF Gate
    <3>2. <<r, n, "entry">> \in Intents
      BY OwnIntent DEF Roles
    <3>3. /\ request' \in [Intents -> RequestStatuses]
          /\ \A j \in Intents : request'[j] = "none" => request[j] = "none"
          /\ faults' \in Nat /\ faults' >= faults
      BY <3>1, <3>2, WrittenGives DEF RequestStatuses
    <3>4. phase' = [phase EXCEPT ![r] = "submit"]
      BY <3>1 DEF TracedInv, HandInv
    <3> QED BY <3>1, <3>3, <3>4, IdleKeeps DEF Sending, Phases
  <2>3. CASE Submit(r, n)
    BY <2>3, PrepareKeeps DEF Submit, Roles, Sending
  <2>4. CASE BuyMore(r, n)
    BY <2>4, PrepareKeeps DEF BuyMore, Roles, Sending
  <2> QED BY <1>4, <2>1, <2>2, <2>3, <2>4
<1>5. ASSUME NEW r \in Runs, Accepted(r) \/ AnswerLost(r) \/ Undelivered(r) \/ Refused(r)
      PROVE  TracedInv'
  <2>1. phase[r] = "posting" /\ UNCHANGED <<hand, request>>
    BY <1>5 DEF Accepted, AnswerLost, Undelivered, Refused
  <2>2. \E p \in Sending : phase' = [phase EXCEPT ![r] = p]
    <3>1. phase = [phase EXCEPT ![r] = "posting"]
      BY <2>1 DEF TracedInv, HandInv
    <3> QED BY <1>5, <3>1 DEF Accepted, AnswerLost, Undelivered, Refused, Again, Sending
  <2>3. faults' \in Nat /\ faults' >= faults
    BY <1>5 DEF Accepted, AnswerLost, Undelivered, Refused, MayFault, TracedInv, FaultInv
  <2>4. DOMAIN order' \subseteq DOMAIN order \cup {Key(r)}
    BY <1>5 DEF Accepted, AnswerLost, Undelivered, Refused, Place
  <2> QED BY <2>1, <2>2, <2>3, <2>4, PostKeeps
<1>6. ASSUME NEW r \in Runs, RecordOrder(r) \/ RecordFailure(r)
      PROVE  TracedInv'
  <2>1. /\ phase[r] \in Sending /\ order' = order
        /\ hand' = [hand EXCEPT ![r] = Nobody]
        /\ \E p \in Phases \ Sending : phase' = [phase EXCEPT ![r] = p]
    BY <1>6 DEF RecordOrder, RecordFailure, Resumes, Sending, Phases
  <2>2. hand[r] \in Intents
    BY <2>1 DEF TracedInv, HandInv
  <2>3. \/ \E s \in RequestStatuses \ {"none"} : Written(hand[r], s)
        \/ /\ request' = [request EXCEPT ![hand[r]] = "SUBMITTED"]
           /\ MayFault("write")
    BY <1>6 DEF RecordOrder, RecordFailure, RequestStatuses
  <2>4. /\ request' \in [Intents -> RequestStatuses]
        /\ \A j \in Intents : request'[j] = "none" => request[j] = "none"
        /\ faults' \in Nat /\ faults' >= faults
        /\ request'[hand[r]] # "none"
    <3>1. ASSUME NEW s \in RequestStatuses \ {"none"}, Written(hand[r], s) PROVE <2>4!:
      <4>1. CASE request'[hand[r]] = s
        BY <2>2, <3>1, <4>1, WrittenGives
      <4>2. CASE request' = request /\ "write" \in Faults /\ faults < MaxFaults
        BY <2>1, <2>2, <3>1, <4>2, WrittenGives, SizesAssumption
           DEF OneFaultOrWrites, TracedInv, FaultInv
      <4> QED BY <2>2, <3>1, <4>1, <4>2, WrittenGives
    <3>2. CASE request' = [request EXCEPT ![hand[r]] = "SUBMITTED"] /\ MayFault("write")
      BY <2>2, <3>2 DEF TracedInv, OrderInv, FaultInv, MayFault, RequestStatuses
    <3> QED BY <2>3, <3>1, <3>2
  <2> QED BY <2>1, <2>4, LetGoKeeps
<1>7. ASSUME NEW r \in Runs,
             \/ Begin(r) \/ Abort(r) \/ KillSwitch(r) \/ AllSent(r)
             \/ List(r) \/ Project(r) \/ Read(r) \/ Decide(r) \/ Finish(r)
      PROVE  TracedInv'
  <2>1. phase[r] \notin Sending /\ UNCHANGED <<request, order>>
    BY <1>7 DEF Begin, Abort, KillSwitch, AllSent, List, Project, Read, Decide, Finish,
                Sending
  <2>2. hand' = hand \/ hand' = [hand EXCEPT ![r] = Nobody]
    BY <1>7 DEF Begin, Abort, KillSwitch, AllSent, List, Project, Read, Decide, Finish,
                Forgets
  <2>3. \E p \in Phases \ Sending : phase' = [phase EXCEPT ![r] = p]
    <3>1. CASE KillSwitch(r)
      <4>1. phase' = [phase EXCEPT ![r] = "submit"]
        BY <3>1 DEF KillSwitch, TracedInv, HandInv
      <4> QED BY <4>1 DEF Phases, Sending
    <3>2. CASE ~KillSwitch(r)
      BY <1>7, <3>2 DEF Begin, Abort, AllSent, List, Project, Read, Decide, Finish,
                Phases, Sending
    <3> QED BY <3>1, <3>2
  <2>4. faults' \in Nat /\ faults' >= faults
    BY <1>7 DEF Begin, Abort, KillSwitch, AllSent, List, Project, Read, Decide, Finish,
                MayFault, TracedInv, FaultInv
  <2> QED BY <2>1, <2>2, <2>3, <2>4, IdleKeeps DEF TracedInv, OrderInv
<1>8. ASSUME NEW r \in Runs, Crash(r) PROVE TracedInv'
  <2>1. /\ phase' = [phase EXCEPT ![r] = "crashed"] /\ hand' = [hand EXCEPT ![r] = Nobody]
        /\ UNCHANGED <<request, order>> /\ faults < MaxFaults /\ faults' = faults + 1
    BY <1>8 DEF Crash, Forgets, MayFault
  <2>2. faults' \in Nat /\ faults' >= faults
    BY <2>1 DEF TracedInv, FaultInv
  <2>3. CASE phase[r] \in Sending
    <3>1. request[hand[r]] # "none"
      BY <2>1, <2>3, SizesAssumption DEF TracedInv, FaultInv, OneFaultOrWrites
    <3> QED BY <2>1, <2>2, <2>3, <3>1, LetGoKeeps DEF TracedInv, OrderInv, Phases, Sending
  <2>4. CASE phase[r] \notin Sending
    BY <2>1, <2>2, <2>4, IdleKeeps DEF TracedInv, OrderInv, Phases, Sending
  <2> QED BY <2>3, <2>4
<1> QED BY <1>1, <1>2, <1>3, <1>4, <1>5, <1>6, <1>7, <1>8 DEF Next

\* Every order at the broker has a request on record, unless its run still
\* has it in hand: for every number of runs, names and tries, whatever the
\* one thing is that goes wrong, or however many but the writes.
THEOREM TracedAlways ==
  ASSUME OneFaultOrWrites
  PROVE  Spec => []Traced
<1>1. TracedInv => Traced
  BY DEF TracedInv, OrderInv, Traced, Sending
<1>2. TracedInv /\ [Next]_vars => TracedInv'
  BY TracedStep
<1> QED BY <1>1, <1>2, TracedInit, PTL DEF Spec
-----------------------------------------------------------------------------
(* The cash covers the entries (EntriesInFunds), and the types.              *)

\* A run between its lock and its end.
Active(r) == phase[r] \notin {"idle", "ended", "crashed"}

\* What an order may be: an open one holds what it filled, and is not full.
Orders == {v \in [open : BOOLEAN, filled : 0..Target, held : 0..Target] :
             v.open => v.filled < Target /\ v.held = v.filled}
Book(o) == IsFiniteSet(DOMAIN o) /\ \A k \in DOMAIN o : o[k] \in Orders
SpentOf(o) == SumFunction([k \in DOMAIN o |-> Committed(o[k])])

\* What an order commits is a number of shares.
LEMMA CommittedNat == ASSUME NEW v \in Orders PROVE Committed(v) \in Nat
  BY SizesAssumption DEF Orders, Committed

\* A record that may stand for an order at the broker.
LEMMA OrderOf ==
  ASSUME NEW b \in BOOLEAN, NEW f \in 0..Target, NEW h \in 0..Target, b => f < Target /\ h = f
  PROVE  [open |-> b, filled |-> f, held |-> h] \in Orders
<1> DEFINE o == [open |-> b, filled |-> f, held |-> h]
<1>1. o \in [open : BOOLEAN, filled : 0..Target, held : 0..Target]
  OBVIOUS
<1>2. (o.open <=> b) /\ o.filled = f /\ o.held = h
  OBVIOUS
<1> HIDE DEF o
<1>3. o \in Orders
  BY <1>1, <1>2 DEF Orders
<1> QED BY <1>3 DEF o

\* What a book of orders spends is a number.
LEMMA SpentNat == ASSUME NEW o, Book(o) PROVE SpentOf(o) \in Nat
<1> DEFINE f == [k \in DOMAIN o |-> Committed(o[k])]
<1>1. \A k \in DOMAIN o : f[k] \in Nat
  BY CommittedNat DEF Book
<1>2. SpentOf(o) = SumFunctionOnSet(f, DOMAIN o)
  BY DEF SpentOf, SumFunction
<1> HIDE DEF f
<1> QED BY <1>1, <1>2, SumNat DEF Book

\* One order of the book changes: the money spent changes by its difference.
LEMMA SpentChange ==
  ASSUME NEW o, Book(o), NEW k \in DOMAIN o, NEW v \in Orders
  PROVE  /\ Book([o EXCEPT ![k] = v])
         /\ SpentOf([o EXCEPT ![k] = v]) = SpentOf(o) + Committed(v) - Committed(o[k])
<1> DEFINE p == [o EXCEPT ![k] = v]
           f == [j \in DOMAIN o |-> Committed(o[j])]
           g == [j \in DOMAIN p |-> Committed(p[j])]
<1>1. DOMAIN p = DOMAIN o /\ \A j \in DOMAIN o : p[j] = IF j = k THEN v ELSE o[j]
  OBVIOUS
<1> HIDE DEF p
<1>2. Book(p)
  BY <1>1 DEF Book
<1>3. /\ \A j \in DOMAIN o : f[j] \in Int /\ g[j] \in Int
      /\ \A j \in DOMAIN o \ {k} : g[j] = f[j]
      /\ g[k] = Committed(v) /\ f[k] = Committed(o[k])
  BY <1>1, CommittedNat DEF Book
<1>4. SpentOf(o) = SumFunctionOnSet(f, DOMAIN o) /\ SpentOf(p) = SumFunctionOnSet(g, DOMAIN o)
  BY <1>1 DEF SpentOf, SumFunction
<1> HIDE DEF f, g
<1>5. SumFunctionOnSet(g, DOMAIN o) = SumFunctionOnSet(f, DOMAIN o) + g[k] - f[k]
  BY <1>3, SumChange DEF Book
<1> QED BY <1>2, <1>3, <1>4, <1>5 DEF p

\* A new order commits all of its shares.
LEMMA SpentPlace ==
  ASSUME NEW o, Book(o), NEW k, k \notin DOMAIN o,
         NEW p, p = [j \in DOMAIN o \cup {k} |-> IF j = k THEN Open ELSE o[j]]
  PROVE  Book(p) /\ SpentOf(p) = SpentOf(o) + Target
<1> DEFINE f == [j \in DOMAIN o |-> Committed(o[j])]
           g == [j \in DOMAIN p |-> Committed(p[j])]
<1>1. DOMAIN p = DOMAIN o \cup {k} /\ p[k] = Open /\ \A j \in DOMAIN o : p[j] = o[j]
  OBVIOUS
<1>2. Open \in Orders /\ Committed(Open) = Target
  BY SizesAssumption DEF Open, Orders, Committed
<1>3. Book(p)
  BY <1>1, <1>2, FS_AddElement DEF Book
<1>4. /\ \A j \in DOMAIN o : f[j] \in Int /\ g[j] = f[j]
      /\ g[k] = Target
      /\ \A j \in DOMAIN o \cup {k} : g[j] \in Int
  BY <1>1, <1>2, SizesAssumption, CommittedNat DEF Book
<1>5. SpentOf(o) = SumFunctionOnSet(f, DOMAIN o) /\ SpentOf(p) = SumFunctionOnSet(g, DOMAIN o \cup {k})
  BY <1>1 DEF SpentOf, SumFunction
<1> HIDE DEF f, g
<1>6. SumFunctionOnSet(g, DOMAIN o) = SumFunctionOnSet(f, DOMAIN o)
  BY <1>4, SumSame DEF Book
<1>7. SumFunctionOnSet(g, DOMAIN o \cup {k}) = SumFunctionOnSet(g, DOMAIN o) + g[k]
  BY <1>4, SumAdd DEF Book
<1> QED BY <1>3, <1>4, <1>5, <1>6, <1>7

\* Reserved for the order in hand, until it is placed.
Owed(r) == IF phase[r] = "posting" /\ Key(r) \notin DOMAIN order THEN Target ELSE 0

\* The active run has the lock.
Locked == \A r \in Runs : Active(r) => lock = r

\* A run sends its entries.
Entering(r) == phase[r] = "submit" \/ (phase[r] \in Sending /\ RoleOf(hand[r]) = "entry")

\* While a run sends its entries the orders, its budget and what it reserved
\* fit in the cash together, unless it has nothing to spend: a budget read while
\* another run spends would not.
Solvent ==
  /\ Book(order)
  /\ \A r \in Runs : Entering(r) =>
       \/ budget[r] = 0 /\ Owed(r) = 0
       \/ SpentOf(order) + budget[r] + Owed(r) <= Cash

\* The entry in hand was taken below the kill switch.
Tallied == \A r \in Runs :
  /\ phase[r] \in Sending => hand[r] \in Intents /\ RunOf(hand[r]) = r
  /\ phase[r] = "posting" => tries[r] # 0
  /\ phase[r] \in Sending /\ RoleOf(hand[r]) = "entry" => fails[r] < MaxFails

FundsInv == TypeOK /\ Locked /\ Solvent /\ Tallied

\* The invariant of the money holds initially.
LEMMA FundsInit == Init => FundsInv
<1> SUFFICES ASSUME Init PROVE FundsInv
  OBVIOUS
<1>1. DOMAIN order = {} /\ Book(order)
  BY FS_EmptySet DEF Init, Book
<1> QED BY <1>1, SizesAssumption DEF Init, FundsInv, TypeOK, Locked, Solvent,
   Tallied, Active, Entering, Sending, Phases, RequestStatuses, RowStatuses

\* The money spent is that of the broker's book.
LEMMA SpentIs == Spent = SpentOf(order)
  BY DEF Spent, SpentOf

\* A step of a run that leaves the orders, and of which the budget and what is
\* reserved for the order in hand do not grow together, keeps the account solvent.
LEMMA SolventKeeps ==
  ASSUME FundsInv, NEW r \in Runs, order' = order,
         \A q \in Runs \ {r} : phase'[q] = phase[q] /\ hand'[q] = hand[q] /\ budget'[q] = budget[q],
         Entering(r)' => /\ Entering(r) /\ budget'[r] \in Nat
                         /\ budget'[r] + Owed(r)' <= budget[r] + Owed(r)
  PROVE  Solvent'
<1>1. SpentOf(order) \in Nat /\ Cash \in Nat /\ Target \in Nat
  BY SpentNat, SizesAssumption DEF FundsInv, Solvent
<1>2. ASSUME NEW q \in Runs, Entering(q)'
      PROVE  \/ budget'[q] = 0 /\ Owed(q)' = 0
             \/ SpentOf(order) + budget'[q] + Owed(q)' <= Cash
  <2>1. CASE q # r
    BY <1>2, <2>1 DEF FundsInv, Solvent, Owed, Key, KeyOf, Entering
  <2>2. CASE q = r
    <3>1. /\ budget[r] \in Nat /\ budget'[r] \in Nat /\ Owed(r) \in Nat /\ Owed(r)' \in Nat
          /\ budget'[r] + Owed(r)' <= budget[r] + Owed(r)
      BY <1>1, <1>2, <2>2 DEF FundsInv, TypeOK, Owed
    <3>2. \/ budget[r] = 0 /\ Owed(r) = 0
          \/ SpentOf(order) + budget[r] + Owed(r) <= Cash
      BY <1>2, <2>2 DEF FundsInv, Solvent
    <3> QED BY ONLY <1>1, <2>2, <3>1, <3>2
  <2> QED BY <2>1, <2>2
<1> QED BY <1>2 DEF FundsInv, Solvent

\* A write of a request leaves requests and faults of their types.
LEMMA WrittenTypes ==
  ASSUME TypeOK, NEW i \in Intents, NEW status \in RequestStatuses, Written(i, status)
  PROVE  request' \in [Intents -> RequestStatuses] /\ faults' \in 0..MaxFaults
  BY SizesAssumption DEF TypeOK, Written, MayFault

\* The listing gives rows of their type.
LEMMA ListedTypes ==
  ASSUME TypeOK
  PROVE  Listed \in [Intents -> RowStatuses]
<1>1. ASSUME NEW i \in Intents, Sent(i) # {} PROVE StatusOf(order[CHOOSE k \in Sent(i) : TRUE]) \in RowStatuses
  <2>1. PICK k : k = (CHOOSE j \in Sent(i) : TRUE) /\ k \in Sent(i)
    BY <1>1
  <2>2. order[k] \in [open : BOOLEAN, filled : 0..Target, held : 0..Target]
    BY <2>1 DEF TypeOK, Sent
  <2>3. StatusOf(order[k]) \in RowStatuses
    BY <2>2, SizesAssumption DEF StatusOf, RowStatuses
  <2> QED BY <2>1, <2>3
<1>2. \A i \in Intents : Listed[i] \in RowStatuses
  BY <1>1 DEF Listed, TypeOK
<1> QED BY <1>2 DEF Listed

\* The budget is what the orders leave of the cash, and no other run is active.
LEMMA BeginFunds == ASSUME FundsInv, NEW r \in Runs, Begin(r) PROVE FundsInv'
<1> USE SizesAssumption, NobodyAssumption DEF FundsInv, Active, Sending, Entering,
   sending, books, Begin, LockFree
<1> DEFINE left == IF Spent <= Cash THEN Cash - Spent ELSE 0
<1>0. left \in 0..Cash /\ (left = 0 \/ SpentOf(order) + left <= Cash)
  BY SpentIs, SpentNat DEF Solvent
<1>1. TypeOK'
  BY <1>0 DEF TypeOK, Phases
<1>2. Locked'
  BY DEF TypeOK, Locked
<1>3. Solvent'
  <2>1. budget'[r] = left /\ Owed(r)' = 0 /\ order' = order
    BY DEF TypeOK, Owed
  <2>2. ASSUME NEW q \in Runs \ {r} PROVE ~Entering(q)'
    BY <2>2 DEF TypeOK, Locked
  <2> HIDE DEF left
  <2>3. (left = 0 /\ Owed(r)' = 0) \/ SpentOf(order) + left + Owed(r)' <= Cash
    <3>1. SpentOf(order) \in Nat
      BY SpentNat DEF Solvent
    <3> QED BY ONLY <1>0, <2>1, <3>1, Cash \in Nat
  <2> QED BY <2>1, <2>2, <2>3 DEF Solvent
<1>4. Tallied'
  BY OwnIntent DEF TypeOK, Tallied, Roles, Intents, RunOf
<1> QED BY <1>1, <1>2, <1>3, <1>4

\* A run that does not begin.
LEMMA AbortFunds == ASSUME FundsInv, NEW r \in Runs, Abort(r) PROVE FundsInv'
<1> USE SizesAssumption, NobodyAssumption DEF FundsInv, Active, Sending, Entering,
   sending, books, Abort
<1>1. TypeOK'
  BY DEF TypeOK, Phases, Owned
<1>2. Locked'
  BY DEF TypeOK, Locked
<1>3. Solvent'
  BY SpentNat DEF TypeOK, Locked, Solvent, Owed, Key, KeyOf, Spent, SpentOf
<1>4. Tallied'
  BY OwnIntent DEF TypeOK, Tallied, Roles, Intents, RunOf
<1> QED BY <1>1, <1>2, <1>3, <1>4

\* The kill switch reserves for an entry it does not send.
LEMMA KillSwitchFunds == ASSUME FundsInv, NEW r \in Runs, KillSwitch(r) PROVE FundsInv'
<1> USE SizesAssumption, NobodyAssumption DEF FundsInv, Active, Sending, Entering,
   sending, books, KillSwitch, Affordable, Reserved
<1>1. TypeOK'
  BY DEF TypeOK, Phases, Owned
<1>2. Locked'
  BY DEF TypeOK, Locked
<1>3. Solvent'
  <2>1. budget'[r] + Owed(r)' <= budget[r] + Owed(r) /\ budget'[r] \in Nat
    BY DEF TypeOK, Owed, Key, KeyOf
  <2> QED BY <2>1, SolventKeeps DEF TypeOK
<1>4. Tallied'
  BY OwnIntent DEF TypeOK, Tallied, Roles, Intents, RunOf
<1> QED BY <1>1, <1>2, <1>3, <1>4

\* An entry left out.
LEMMA SkipFunds ==
  ASSUME FundsInv, NEW r \in Runs, NEW n \in Names, Skip(r, n)
  PROVE  FundsInv'
<1> USE SizesAssumption, NobodyAssumption DEF FundsInv, Active, Sending, Entering,
   sending, books, Skip
<1>1. TypeOK'
  BY DEF TypeOK, Phases, Owned
<1>2. Locked'
  BY DEF TypeOK, Locked
<1>3. Solvent'
  BY SpentNat DEF TypeOK, Locked, Solvent, Owed, Key, KeyOf, Spent, SpentOf
<1>4. Tallied'
  BY OwnIntent DEF TypeOK, Tallied, Roles, Intents, RunOf
<1> QED BY <1>1, <1>2, <1>3, <1>4

\* The liquidity gate does not give back what was reserved.
LEMMA GateFunds ==
  ASSUME FundsInv, NEW r \in Runs, NEW n \in Names, Gate(r, n)
  PROVE  FundsInv'
<1> USE SizesAssumption, NobodyAssumption DEF FundsInv, Active, Sending, Entering,
   sending, books, Gate, Affordable, Reserved
<1>0. Written(<<r, n, "entry">>, "REJECTED") /\ <<r, n, "entry">> \in Intents
  BY OwnIntent DEF Roles
<1>1. TypeOK'
  <2>1. request' \in [Intents -> RequestStatuses] /\ faults' \in 0..MaxFaults
    BY <1>0, WrittenTypes DEF RequestStatuses
  <2>2. budget' \in [Runs -> 0..Cash] /\ todo' \in [Runs -> SUBSET Names]
    BY DEF TypeOK
  <2> QED BY <2>1, <2>2 DEF TypeOK
<1>2. Locked'
  BY DEF TypeOK, Locked
<1>3. Solvent'
  <2>1. budget'[r] + Owed(r)' <= budget[r] + Owed(r) /\ budget'[r] \in Nat
    BY DEF TypeOK, Owed, Key, KeyOf
  <2> QED BY <2>1, SolventKeeps DEF TypeOK
<1>4. Tallied'
  BY OwnIntent DEF TypeOK, Tallied, Roles, Intents, RunOf
<1> QED BY <1>1, <1>2, <1>3, <1>4

\* An entry is reserved before it is sent.
LEMMA SubmitFunds ==
  ASSUME FundsInv, NEW r \in Runs, NEW n \in Names, Submit(r, n)
  PROVE  FundsInv'
<1> USE SizesAssumption, NobodyAssumption DEF FundsInv, Active, Sending, Entering,
   sending, books, Submit, Prepare, Affordable, Reserved, Announced
<1>0. Written(<<r, n, "entry">>, "NEW") /\ <<r, n, "entry">> \in Intents
  BY OwnIntent DEF Roles
<1>1. TypeOK'
  <2>1. request' \in [Intents -> RequestStatuses] /\ faults' \in 0..MaxFaults
    BY <1>0, WrittenTypes DEF RequestStatuses
  <2>2. budget' \in [Runs -> 0..Cash] /\ todo' \in [Runs -> SUBSET Names]
    BY DEF TypeOK
  <2>3. hand' \in [Runs -> Intents \cup {Nobody}] /\ tries' \in [Runs -> 0..MaxTries]
    BY <1>0 DEF TypeOK
  <2>4. phase' \in [Runs -> Phases]
    BY DEF TypeOK, Phases
  <2> QED BY <2>1, <2>2, <2>3, <2>4 DEF TypeOK
<1>2. Locked'
  BY DEF TypeOK, Locked
<1>3. Solvent'
  <2>1. budget'[r] + Owed(r)' <= budget[r] + Owed(r) /\ budget'[r] \in Nat
    BY DEF TypeOK, Owed, Key, KeyOf
  <2> QED BY <2>1, SolventKeeps DEF TypeOK
<1>4. Tallied'
  BY OwnIntent DEF TypeOK, Tallied, Roles, Intents, RunOf
<1> QED BY <1>1, <1>2, <1>3, <1>4

\* What the rebalance buys is not reserved: it is no entry.
LEMMA BuyMoreFunds ==
  ASSUME FundsInv, NEW r \in Runs, NEW n \in Names, BuyMore(r, n)
  PROVE  FundsInv'
<1> USE SizesAssumption, NobodyAssumption DEF FundsInv, Active, Sending, Entering,
   sending, books, BuyMore, Prepare, Announced
<1>0. Written(<<r, n, "buy_more">>, "NEW") /\ <<r, n, "buy_more">> \in Intents
  BY OwnIntent DEF Roles
<1>1. TypeOK'
  <2>1. request' \in [Intents -> RequestStatuses] /\ faults' \in 0..MaxFaults
    BY <1>0, WrittenTypes DEF RequestStatuses
  <2>2. todo' \in [Runs -> SUBSET Names]
    BY DEF TypeOK
  <2>3. hand' \in [Runs -> Intents \cup {Nobody}] /\ tries' \in [Runs -> 0..MaxTries]
    BY <1>0 DEF TypeOK
  <2>4. phase' \in [Runs -> Phases]
    BY DEF TypeOK, Phases
  <2> QED BY <2>1, <2>2, <2>3, <2>4 DEF TypeOK
<1>2. Locked'
  BY DEF TypeOK, Locked
<1>3. Solvent'
  <2>1. ~Entering(r)'
    BY DEF TypeOK
  <2> QED BY <2>1, SolventKeeps DEF TypeOK
<1>4. Tallied'
  BY OwnIntent DEF TypeOK, Tallied, Roles, Intents, RunOf
<1> QED BY <1>1, <1>2, <1>3, <1>4

\* A POST that does not arrive leaves the reserve.
LEMMA UndeliveredFunds == ASSUME FundsInv, NEW r \in Runs, Undelivered(r) PROVE FundsInv'
<1> USE SizesAssumption, NobodyAssumption DEF FundsInv, Active, Sending, Entering,
   sending, books, Undelivered, MayFault, Again
<1>1. TypeOK'
  <2>1. tries' \in [Runs -> 0..MaxTries] /\ phase' \in [Runs -> Phases]
    <3>1. "gaveup" \in Phases /\ tries[r] \in 0..MaxTries
      BY DEF TypeOK, Phases
    <3>2. tries[r] < MaxTries => tries[r] + 1 \in 0..MaxTries
      BY <3>1
    <3>3. tries \in [Runs -> 0..MaxTries] /\ phase \in [Runs -> Phases]
      BY DEF TypeOK
    <3>4. CASE tries[r] < MaxTries
      BY ONLY <3>2, <3>3, <3>4, r \in Runs, Again(r) DEF Again
    <3>5. CASE ~(tries[r] < MaxTries)
      BY ONLY <3>1, <3>3, <3>5, r \in Runs, Again(r) DEF Again
    <3> QED BY <3>4, <3>5
  <2>2. faults' \in 0..MaxFaults
    BY DEF TypeOK
  <2> QED BY <2>1, <2>2 DEF TypeOK
<1>2. Locked'
  BY DEF TypeOK, Locked
<1>3. Solvent'
  BY SpentNat DEF TypeOK, Locked, Solvent, Owed, Key, KeyOf, Spent, SpentOf
<1>4. Tallied'
  BY OwnIntent DEF TypeOK, Tallied, Roles, Intents, RunOf
<1> QED BY <1>1, <1>2, <1>3, <1>4

\* A refusal leaves it too.
LEMMA RefusedFunds == ASSUME FundsInv, NEW r \in Runs, Refused(r) PROVE FundsInv'
<1> USE SizesAssumption, NobodyAssumption DEF FundsInv, Active, Sending, Entering,
   sending, books, Refused
<1>1. TypeOK'
  BY DEF TypeOK, Phases, Owned
<1>2. Locked'
  BY DEF TypeOK, Locked
<1>3. Solvent'
  BY SpentNat DEF TypeOK, Locked, Solvent, Owed, Key, KeyOf, Spent, SpentOf
<1>4. Tallied'
  BY OwnIntent DEF TypeOK, Tallied, Roles, Intents, RunOf
<1> QED BY <1>1, <1>2, <1>3, <1>4

\* The failures are counted from zero after an order.
LEMMA RecordOrderFunds == ASSUME FundsInv, NEW r \in Runs, RecordOrder(r) PROVE FundsInv'
<1> USE SizesAssumption, NobodyAssumption DEF FundsInv, Active, Sending, Entering,
   sending, books, RecordOrder, Resumes
<1>1. TypeOK'
  <2>1. hand[r] \in Intents
    BY DEF Tallied
  <2>2. request' \in [Intents -> RequestStatuses] /\ faults' \in 0..MaxFaults
    <3>1. "SUBMITTED" \in RequestStatuses
      BY DEF RequestStatuses
    <3>2. CASE Written(hand[r], "SUBMITTED")
      BY <2>1, <3>1, <3>2, WrittenTypes
    <3>3. CASE MayFault("write") /\ request' = [request EXCEPT ![hand[r]] = "SUBMITTED"]
      BY <2>1, <3>1, <3>3 DEF TypeOK, MayFault
    <3> QED BY <3>2, <3>3
  <2>3. row' \in [Intents -> RowStatuses]
    BY <2>1 DEF TypeOK, RowStatuses
  <2>4. /\ phase' \in [Runs -> Phases] /\ fails' \in [Runs -> 0..MaxFails]
        /\ hand' \in [Runs -> Intents \cup {Nobody}] /\ tries' \in [Runs -> 0..MaxTries]
    BY DEF TypeOK, Phases
  <2> QED BY <2>2, <2>3, <2>4 DEF TypeOK
<1>2. Locked'
  BY DEF TypeOK, Locked
<1>3. Solvent'
  BY SpentNat DEF TypeOK, Locked, Solvent, Owed, Key, KeyOf, Spent, SpentOf
<1>4. Tallied'
  BY OwnIntent DEF TypeOK, Tallied, Roles, Intents, RunOf
<1> QED BY <1>1, <1>2, <1>3, <1>4

\* A failure of an entry is counted below the kill switch.
LEMMA RecordFailureFunds ==
  ASSUME FundsInv, NEW r \in Runs, RecordFailure(r)
  PROVE  FundsInv'
<1> USE SizesAssumption, NobodyAssumption DEF FundsInv, Active, Sending, Entering,
   sending, books, RecordFailure, Resumes
<1>1. TypeOK'
  <2>1. hand[r] \in Intents
    BY DEF Tallied
  <2>2. request' \in [Intents -> RequestStatuses] /\ faults' \in 0..MaxFaults
    BY <2>1, WrittenTypes DEF RequestStatuses
  <2>3. RoleOf(hand[r]) = "entry" => fails[r] + 1 \in 0..MaxFails
    BY DEF TypeOK, Tallied
  <2>4. /\ phase' \in [Runs -> Phases] /\ fails' \in [Runs -> 0..MaxFails]
        /\ hand' \in [Runs -> Intents \cup {Nobody}] /\ tries' \in [Runs -> 0..MaxTries]
    BY <2>3 DEF TypeOK, Phases
  <2> QED BY <2>2, <2>4 DEF TypeOK
<1>2. Locked'
  BY DEF TypeOK, Locked
<1>3. Solvent'
  BY SpentNat DEF TypeOK, Locked, Solvent, Owed, Key, KeyOf, Spent, SpentOf
<1>4. Tallied'
  BY OwnIntent DEF TypeOK, Tallied, Roles, Intents, RunOf
<1> QED BY <1>1, <1>2, <1>3, <1>4

\* The entries are all sent.
LEMMA AllSentFunds == ASSUME FundsInv, NEW r \in Runs, AllSent(r) PROVE FundsInv'
<1> USE SizesAssumption, NobodyAssumption DEF FundsInv, Active, Sending, Entering,
   sending, books, AllSent
<1>1. TypeOK'
  BY DEF TypeOK, Phases, Owned
<1>2. Locked'
  BY DEF TypeOK, Locked
<1>3. Solvent'
  BY SpentNat DEF TypeOK, Locked, Solvent, Owed, Key, KeyOf, Spent, SpentOf
<1>4. Tallied'
  BY OwnIntent DEF TypeOK, Tallied, Roles, Intents, RunOf
<1> QED BY <1>1, <1>2, <1>3, <1>4

\* The listing writes rows only.
LEMMA ListFunds == ASSUME FundsInv, NEW r \in Runs, List(r) PROVE FundsInv'
<1> USE SizesAssumption, NobodyAssumption DEF FundsInv, Active, Sending, Entering,
   sending, books, List, MayFault
<1>1. TypeOK'
  <2>1. Listed \in [Intents -> RowStatuses]
    BY ListedTypes
  <2>2. (row' = Listed \/ row' = row) /\ faults' \in 0..MaxFaults
    BY DEF TypeOK
  <2>3. row' \in [Intents -> RowStatuses]
    BY ONLY <2>1, <2>2, TypeOK DEF TypeOK
  <2> QED BY <2>2, <2>3 DEF TypeOK, Phases
<1>2. Locked'
  BY DEF TypeOK, Locked
<1>3. Solvent'
  BY SpentNat DEF TypeOK, Locked, Solvent, Owed, Key, KeyOf, Spent, SpentOf
<1>4. Tallied'
  BY OwnIntent DEF TypeOK, Tallied, Roles, Intents, RunOf
<1> QED BY <1>1, <1>2, <1>3, <1>4

\* The projection writes the positions only.
LEMMA ProjectFunds == ASSUME FundsInv, NEW r \in Runs, Project(r) PROVE FundsInv'
<1> USE SizesAssumption, NobodyAssumption DEF FundsInv, Active, Sending, Entering,
   sending, books, Project, MayFault
<1>1. TypeOK'
  BY DEF TypeOK, Phases, Owned
<1>2. Locked'
  BY DEF TypeOK, Locked
<1>3. Solvent'
  BY SpentNat DEF TypeOK, Locked, Solvent, Owed, Key, KeyOf, Spent, SpentOf
<1>4. Tallied'
  BY OwnIntent DEF TypeOK, Tallied, Roles, Intents, RunOf
<1> QED BY <1>1, <1>2, <1>3, <1>4

\* The positions are read.
LEMMA ReadFunds == ASSUME FundsInv, NEW r \in Runs, Read(r) PROVE FundsInv'
<1> USE SizesAssumption, NobodyAssumption DEF FundsInv, Active, Sending, Entering,
   sending, books, Read
<1>1. TypeOK'
  BY DEF TypeOK, Phases, Owned
<1>2. Locked'
  BY DEF TypeOK, Locked
<1>3. Solvent'
  BY SpentNat DEF TypeOK, Locked, Solvent, Owed, Key, KeyOf, Spent, SpentOf
<1>4. Tallied'
  BY OwnIntent DEF TypeOK, Tallied, Roles, Intents, RunOf
<1> QED BY <1>1, <1>2, <1>3, <1>4

\* The decision of the rebalance lists names.
LEMMA DecideFunds == ASSUME FundsInv, NEW r \in Runs, Decide(r) PROVE FundsInv'
<1> USE SizesAssumption, NobodyAssumption DEF FundsInv, Active, Sending, Entering,
   sending, books, Decide
<1>1. TypeOK'
  <2>1. todo' \in [Runs -> SUBSET Names] /\ seen' \in [Runs -> SUBSET Names]
    BY DEF TypeOK
  <2>2. budget' \in [Runs -> 0..Cash]
    BY DEF TypeOK
  <2> QED BY <2>1, <2>2 DEF TypeOK, Phases
<1>2. Locked'
  BY DEF TypeOK, Locked
<1>3. Solvent'
  BY SpentNat DEF TypeOK, Locked, Solvent, Owed, Key, KeyOf, Spent, SpentOf
<1>4. Tallied'
  BY OwnIntent DEF TypeOK, Tallied, Roles, Intents, RunOf
<1> QED BY <1>1, <1>2, <1>3, <1>4

\* The lock is given back by a run that is over.
LEMMA FinishFunds == ASSUME FundsInv, NEW r \in Runs, Finish(r) PROVE FundsInv'
<1> USE SizesAssumption, NobodyAssumption DEF FundsInv, Active, Sending, Entering,
   sending, books, Finish, Forgets, MayFault
<1>1. TypeOK'
  BY DEF TypeOK, Phases, Owned
<1>2. Locked'
  BY DEF TypeOK, Locked
<1>3. Solvent'
  BY SpentNat DEF TypeOK, Locked, Solvent, Owed, Key, KeyOf, Spent, SpentOf
<1>4. Tallied'
  BY OwnIntent DEF TypeOK, Tallied, Roles, Intents, RunOf
<1> QED BY <1>1, <1>2, <1>3, <1>4

\* A run that dies keeps the lock, and is not active any more.
LEMMA CrashFunds == ASSUME FundsInv, NEW r \in Runs, Crash(r) PROVE FundsInv'
<1> USE SizesAssumption, NobodyAssumption DEF FundsInv, Active, Sending, Entering,
   sending, books, Crash, Forgets, MayFault
<1>1. TypeOK'
  <2>1. /\ todo' \in [Runs -> SUBSET Names] /\ seen' \in [Runs -> SUBSET Names]
        /\ budget' \in [Runs -> 0..Cash] /\ hand' \in [Runs -> Intents \cup {Nobody}]
        /\ tries' \in [Runs -> 0..MaxTries] /\ phase' \in [Runs -> Phases]
    BY DEF TypeOK, Phases
  <2>2. fails' \in [Runs -> 0..MaxFails] /\ faults' \in 0..MaxFaults
    BY DEF TypeOK
  <2> QED BY <2>1, <2>2 DEF TypeOK
<1>2. Locked'
  BY DEF TypeOK, Locked
<1>3. Solvent'
  BY SpentNat DEF TypeOK, Locked, Solvent, Owed, Key, KeyOf, Spent, SpentOf
<1>4. Tallied'
  BY OwnIntent DEF TypeOK, Tallied, Roles, Intents, RunOf
<1> QED BY <1>1, <1>2, <1>3, <1>4

\* Fill Lapse CloseOut
LEMMA BrokerFunds ==
  ASSUME FundsInv, NEW k \in DOMAIN order, Fill(k) \/ Lapse(k) \/ CloseOut(k)
  PROVE  FundsInv'
<1> USE DEF FundsInv, sending, books
<1>1. UNCHANGED <<lock, phase, mode, todo, sending, fails, budget, seen, books, faults>>
  BY DEF Fill, Lapse, CloseOut
<1>2. PICK v \in Orders : order' = [order EXCEPT ![k] = v] /\ Committed(v) <= Committed(order[k])
  <2>1. order[k] \in Orders
    BY DEF Solvent, Book
  <2>2. CASE Fill(k)
    <3> DEFINE v == [open |-> order[k].filled + 1 < Target, filled |-> order[k].filled + 1,
                     held |-> order[k].held + 1]
    <3>1. order' = [order EXCEPT ![k] = v] /\ order[k].open
      BY <2>2 DEF Fill
    <3>2. /\ order[k].filled \in Nat /\ order[k].held = order[k].filled
          /\ order[k].filled < Target /\ Target \in Nat
      BY <2>1, <3>1, SizesAssumption DEF Orders
    <3>3. v \in Orders
      <4>1. order[k].filled + 1 \in 0..Target /\ order[k].held + 1 \in 0..Target
        BY <3>2
      <4>2. (order[k].filled + 1 < Target) \in BOOLEAN
        OBVIOUS
      <4> QED BY ONLY <3>2, <4>1, <4>2, OrderOf
    <3>4. Committed(order[k]) = Target /\ Committed(v) <= Target
      BY ONLY <3>1, <3>2 DEF Committed
    <3> QED BY <3>1, <3>3, <3>4
  <2>3. CASE Lapse(k)
    <3> DEFINE v == [order[k] EXCEPT !.open = FALSE]
    <3>1. order' = [order EXCEPT ![k] = v] /\ order[k].open
      BY <2>3 DEF Lapse
    <3>2. order[k] \in [open : BOOLEAN, filled : 0..Target, held : 0..Target]
      BY <2>1 DEF Orders
    <3>3. v \in [open : BOOLEAN, filled : 0..Target, held : 0..Target]
      BY ONLY <3>2
    <3>4. v.open = FALSE /\ v.filled = order[k].filled
      BY ONLY <3>2
    <3> HIDE DEF v
    <3>5. v \in Orders /\ Committed(v) <= Committed(order[k])
      BY <3>1, <3>2, <3>3, <3>4, SizesAssumption DEF Orders, Committed
    <3> QED BY <3>1, <3>5
  <2>4. CASE CloseOut(k)
    <3> DEFINE v == [order[k] EXCEPT !.held = 0]
    <3>1. order' = [order EXCEPT ![k] = v] /\ ~order[k].open
      BY <2>4 DEF CloseOut
    <3>2. v \in Orders /\ Committed(v) <= Committed(order[k])
      BY <2>1, <3>1, SizesAssumption DEF Orders, Committed
    <3> QED BY <3>1, <3>2
  <2> QED BY <2>2, <2>3, <2>4
<1>3. Book(order') /\ SpentOf(order') <= SpentOf(order) /\ SpentOf(order') \in Nat
      /\ SpentOf(order) \in Nat /\ DOMAIN order' = DOMAIN order
  <2>1. Book(order) /\ order[k] \in Orders
    BY DEF Solvent, Book
  <2>2. /\ Book([order EXCEPT ![k] = v])
        /\ SpentOf([order EXCEPT ![k] = v]) = SpentOf(order) + Committed(v) - Committed(order[k])
    BY ONLY <2>1, SpentChange, v \in Orders, k \in DOMAIN order
  <2>3. Committed(v) \in Nat /\ Committed(order[k]) \in Nat
    BY <2>1, CommittedNat
  <2>4. Book(order') /\ SpentOf(order') = SpentOf(order) + Committed(v) - Committed(order[k])
    BY <1>2, <2>2
  <2>5. SpentOf(order) \in Nat /\ SpentOf(order') \in Nat
    BY <2>1, <2>4, SpentNat
  <2>6. SpentOf(order') <= SpentOf(order)
    BY ONLY <1>2, <2>3, <2>4, <2>5
  <2> QED BY <1>2, <2>4, <2>5, <2>6
<1>4. TypeOK'
  BY <1>1, <1>2, <1>3 DEF TypeOK, Book, Orders
<1>5. Locked' /\ Tallied'
  BY <1>1 DEF Locked, Tallied, Active
<1>6. Solvent'
  <2>1. ASSUME NEW r \in Runs, Entering(r)'
        PROVE  \/ budget'[r] = 0 /\ Owed(r)' = 0
               \/ SpentOf(order') + budget'[r] + Owed(r)' <= Cash
    <3>1. Entering(r) /\ budget' = budget /\ Owed(r)' = Owed(r)
      BY <1>1, <1>3, <2>1 DEF Entering, Owed, Key, KeyOf
    <3>2. budget[r] \in Nat /\ Owed(r) \in Nat /\ Cash \in Nat
      BY SizesAssumption DEF TypeOK, Owed
    <3>3. \/ budget[r] = 0 /\ Owed(r) = 0
          \/ SpentOf(order) + budget[r] + Owed(r) <= Cash
      BY <3>1 DEF Solvent
    <3> QED BY ONLY <1>3, <3>1, <3>2, <3>3
  <2> QED BY <1>3, <2>1 DEF Solvent
<1> QED BY <1>4, <1>5, <1>6

\* A POST that places the order of the intent in hand spends what was reserved.
LEMMA PlaceFunds ==
  ASSUME FundsInv, NEW r \in Runs, phase[r] = "posting", Key(r) \notin DOMAIN order, Place(Key(r)),
         UNCHANGED <<lock, mode, todo, hand, fails, budget, seen, request, row, booked>>,
         NEW p \in {"posting", "answered", "gaveup"}, phase' = [phase EXCEPT ![r] = p],
         tries' \in [Runs -> 0..MaxTries],
         \A q \in Runs : tries[q] # 0 => tries'[q] # 0,
         faults' \in 0..MaxFaults
  PROVE  FundsInv'
<1> USE DEF FundsInv
<1>1. hand[r] \in Intents /\ Key(r) \in Keys /\ tries[r] # 0 /\ lock = r /\ RunOf(hand[r]) = r
  BY SizesAssumption DEF Tallied, Sending, Key, KeyOf, Keys, Locked, Active
<1>2. Book(order) /\ SpentOf(order) \in Nat
  BY SpentNat DEF Solvent
<1>3. order' = [j \in DOMAIN order \cup {Key(r)} |-> IF j = Key(r) THEN Open ELSE order[j]]
  BY DEF Place
<1> DEFINE k == Key(r)
<1> HIDE DEF k
<1>4. k \notin DOMAIN order /\ order' = [j \in DOMAIN order \cup {k} |-> IF j = k THEN Open ELSE order[j]]
  BY <1>3 DEF k
<1>5. Book(order') /\ SpentOf(order') = SpentOf(order) + Target
  BY ONLY <1>2, <1>4, SpentPlace
<1>6. DOMAIN order' = DOMAIN order \cup {k} /\ k \in Keys
  BY <1>1, <1>4 DEF k
<1>7. TypeOK'
  <2>1. phase' \in [Runs -> Phases]
    BY DEF TypeOK, Phases
  <2>2. /\ DOMAIN order' \subseteq Keys
        /\ \A j \in DOMAIN order' :
             order'[j] \in [open : BOOLEAN, filled : 0..Target, held : 0..Target]
    BY <1>5, <1>6 DEF TypeOK, Book, Orders
  <2> QED BY <2>1, <2>2 DEF TypeOK
<1>8. Locked'
  BY <1>1 DEF TypeOK, Locked, Active
<1>9. Tallied'
  <2>1. phase[r] \in Sending /\ phase'[r] \in Sending
    BY DEF TypeOK, Sending
  <2>2. \A q \in Runs \ {r} : phase'[q] = phase[q]
    BY DEF TypeOK
  <2> QED BY <2>1, <2>2, Zenon DEF Tallied, Sending
<1>10. Solvent'
  <2>1. budget[r] \in Nat /\ Cash \in Nat /\ Target \in Nat \ {0} /\ Owed(r) = Target
    BY SizesAssumption DEF TypeOK, Owed
  <2>2. ASSUME NEW q \in Runs, Entering(q)' PROVE q = r
    BY <1>1, <1>8, <2>2 DEF Locked, Entering, Active, Sending
  <2>3. Owed(r)' = 0
    <3>1. Key(r)' = k
      BY DEF Key, KeyOf, k
    <3> QED BY <1>6, <3>1 DEF Owed
  <2>4. Entering(r)' => Entering(r)
    BY DEF TypeOK, Entering, Sending
  <2>5. Entering(r) => SpentOf(order) + budget[r] + Target <= Cash
    BY <2>1 DEF Solvent
  <2>6. Entering(r) => SpentOf(order') + budget'[r] + Owed(r)' <= Cash
    BY ONLY <1>2, <1>5, <2>1, <2>3, <2>5, budget' = budget
  <2> QED BY <1>5, <2>2, <2>4, <2>6 DEF Solvent
<1> QED BY <1>7, <1>8, <1>9, <1>10

\* The order is accepted.
LEMMA AcceptedFunds == ASSUME FundsInv, NEW r \in Runs, Accepted(r) PROVE FundsInv'
<1>1. /\ phase[r] = "posting" /\ Key(r) \notin DOMAIN order /\ Place(Key(r))
      /\ phase' = [phase EXCEPT ![r] = "answered"]
      /\ UNCHANGED <<lock, mode, todo, hand, tries, fails, budget, seen, request, row, booked, faults>>
  BY DEF Accepted, sending, books
<1>2. tries' \in [Runs -> 0..MaxTries] /\ faults' \in 0..MaxFaults
  BY <1>1 DEF FundsInv, TypeOK
<1> QED BY <1>1, <1>2, PlaceFunds

\* The order is accepted and the answer lost; the next POST of the intent
\* reserves nothing, and its key is taken.
LEMMA AnswerLostFunds == ASSUME FundsInv, NEW r \in Runs, AnswerLost(r) PROVE FundsInv'
<1>1. /\ phase[r] = "posting" /\ Key(r) \notin DOMAIN order /\ Place(Key(r))
      /\ UNCHANGED <<lock, mode, todo, hand, fails, budget, seen, request, row, booked>>
      /\ Again(r) /\ faults' \in 0..MaxFaults
  BY SizesAssumption DEF AnswerLost, MayFault, books, FundsInv, TypeOK
<1>2. tries' \in [Runs -> 0..MaxTries] /\ \A q \in Runs : tries[q] # 0 => tries'[q] # 0
  BY <1>1, SizesAssumption DEF FundsInv, TypeOK, Again
<1>3. \E p \in {"posting", "answered", "gaveup"} : phase' = [phase EXCEPT ![r] = p]
  <2>1. phase = [phase EXCEPT ![r] = "posting"]
    BY <1>1 DEF FundsInv, TypeOK
  <2> QED BY <1>1, <2>1 DEF Again
<1> QED BY <1>1, <1>2, <1>3, PlaceFunds

\* The lock that expires is that of a dead run.
LEMMA ExpiresFunds == ASSUME FundsInv, LockExpires PROVE FundsInv'
<1> USE DEF FundsInv, LockExpires, sending, books
<1>1. TypeOK' /\ Tallied'
  BY DEF TypeOK, Tallied
<1>2. Locked'
  BY DEF Locked, Active
<1>3. Solvent'
  BY DEF Solvent, Entering, Owed, Key, KeyOf
<1> QED BY <1>1, <1>2, <1>3

\* Nothing changes.
LEMMA FundsStutter == ASSUME FundsInv, UNCHANGED vars PROVE FundsInv'
<1> USE DEF FundsInv, vars, sending, books
<1>1. TypeOK' /\ Tallied'
  BY DEF TypeOK, Tallied
<1>2. Locked' /\ Solvent'
  BY DEF Locked, Active, Entering, Solvent, Owed, Key, KeyOf
<1> QED BY <1>1, <1>2

\* Every step keeps the invariant of the money.
LEMMA FundsStep == ASSUME FundsInv, [Next]_vars PROVE FundsInv'
<1>1. CASE UNCHANGED vars
  BY <1>1, FundsStutter
<1>2. CASE Next
  <2>1. ASSUME NEW k \in DOMAIN order, Fill(k) \/ Lapse(k) \/ CloseOut(k) PROVE FundsInv'
    BY <2>1, BrokerFunds
  <2>2. CASE LockExpires
    BY <2>2, ExpiresFunds
  <2>3. ASSUME NEW r \in Runs, NEW n \in Names,
               Skip(r, n) \/ Gate(r, n) \/ Submit(r, n) \/ BuyMore(r, n)
        PROVE  FundsInv'
    BY <2>3, SkipFunds, GateFunds, SubmitFunds, BuyMoreFunds
  <2>4. ASSUME NEW r \in Runs,
               \/ Begin(r) \/ Abort(r) \/ KillSwitch(r)
               \/ Accepted(r) \/ AnswerLost(r) \/ Undelivered(r) \/ Refused(r)
        PROVE  FundsInv'
    BY <2>4, BeginFunds, AbortFunds, KillSwitchFunds, AcceptedFunds, AnswerLostFunds,
       UndeliveredFunds, RefusedFunds
  <2>5. ASSUME NEW r \in Runs,
               \/ RecordOrder(r) \/ RecordFailure(r) \/ AllSent(r) \/ List(r) \/ Project(r)
               \/ Read(r) \/ Decide(r) \/ Finish(r) \/ Crash(r)
        PROVE  FundsInv'
    BY <2>5, RecordOrderFunds, RecordFailureFunds, AllSentFunds, ListFunds, ProjectFunds,
       ReadFunds, DecideFunds, FinishFunds, CrashFunds
  <2> QED BY <1>2, <2>1, <2>2, <2>3, <2>4, <2>5 DEF Next
<1> QED BY <1>1, <1>2

\* What a step adds to the broker's book is the order in hand of the run that
\* posts it; if it is an entry, the cash covers it.
LEMMA EntryCovered ==
  ASSUME FundsInv, [Next]_vars, NEW k \in DOMAIN order' \ DOMAIN order, RoleOf(k[1]) = "entry"
  PROVE  Spent' <= Cash
<1>1. PICK r \in Runs : phase[r] = "posting" /\ Key(r) \notin DOMAIN order /\ Place(Key(r))
  <2>1. CASE UNCHANGED vars
    BY <2>1 DEF vars
  <2>2. ASSUME NEW j \in DOMAIN order, Fill(j) \/ Lapse(j) \/ CloseOut(j) PROVE FALSE
    BY <2>2 DEF Fill, Lapse, CloseOut
  <2>3. CASE LockExpires
    BY <2>3 DEF LockExpires
  <2>4. ASSUME NEW r \in Runs, NEW n \in Names,
               Skip(r, n) \/ Gate(r, n) \/ Submit(r, n) \/ BuyMore(r, n)
        PROVE  FALSE
    BY <2>4 DEF Skip, Gate, Submit, BuyMore, Prepare
  <2>5. ASSUME NEW r \in Runs,
               \/ Begin(r) \/ Abort(r) \/ KillSwitch(r) \/ Undelivered(r) \/ Refused(r)
               \/ RecordOrder(r) \/ RecordFailure(r) \/ AllSent(r) \/ List(r) \/ Project(r)
               \/ Read(r) \/ Decide(r) \/ Finish(r) \/ Crash(r)
        PROVE  FALSE
    BY <2>5 DEF Begin, Abort, KillSwitch, Undelivered, Refused, RecordOrder, RecordFailure,
       AllSent, List, Project, Read, Decide, Finish, Crash, books
  <2>6. ASSUME NEW r \in Runs, Accepted(r) \/ AnswerLost(r)
        PROVE  phase[r] = "posting" /\ Key(r) \notin DOMAIN order /\ Place(Key(r))
    BY <2>6 DEF Accepted, AnswerLost
  <2> QED BY <2>1, <2>2, <2>3, <2>4, <2>5, <2>6 DEF Next
<1> DEFINE key == Key(r)
<1>2. k = key /\ key \notin DOMAIN order /\ key[1] = hand[r]
      /\ order' = [j \in DOMAIN order \cup {key} |-> IF j = key THEN Open ELSE order[j]]
  BY <1>1 DEF Place, Key, KeyOf
<1>3. Entering(r) /\ Owed(r) = Target
  BY <1>1, <1>2 DEF Entering, Sending, Owed
<1> HIDE DEF key
<1>4. Book(order) /\ SpentOf(order) \in Nat /\ SpentOf(order') = SpentOf(order) + Target
  BY <1>2, SpentNat, SpentPlace DEF FundsInv, Solvent
<1>5. budget[r] \in Nat /\ SpentOf(order) + budget[r] + Target <= Cash
  BY <1>3, SizesAssumption DEF FundsInv, Solvent, TypeOK
<1> QED BY <1>4, <1>5, SizesAssumption DEF Spent, SpentOf

\* No entry is sent that the cash does not cover, for every number of runs,
\* names, shares, tries and faults, and whatever the rebalances have spent: the
\* lock holds from the reading of the budget to the end of the run, so that no
\* other run counts the same cash.
THEOREM EntriesInFundsAlways == Spec => EntriesInFunds
<1>1. FundsInv /\ [Next]_vars =>
        \A k \in DOMAIN order' \ DOMAIN order : RoleOf(k[1]) = "entry" => Spent' <= Cash
  BY EntryCovered
<1> QED BY <1>1, FundsInit, FundsStep, PTL DEF Spec, EntriesInFunds

\* Every variable keeps its type: no budget goes below zero, and the
\* consecutive failures stay within the kill switch.
THEOREM EntryTypes == Spec => []TypeOK
<1>1. FundsInv => TypeOK
  BY DEF FundsInv
<1> QED BY <1>1, FundsInit, FundsStep, PTL DEF Spec

-----------------------------------------------------------------------------
(* No run has more than the target of a name (WithinTarget).                 *)

\* At most one thing goes wrong; or more, but every POST has its answer and
\* every request is written. With two, a lost answer and then a failed
\* listing, the rebalance buys a second time what lives at the broker.
OneFaultOrAnswers == MaxFaults <= 1 \/ ("lost" \notin Faults /\ "write" \notin Faults)

Entry(r, n) == <<r, n, "entry">>
More(r, n) == <<r, n, "buy_more">>
First(i) == <<i, 1>>
Placed(i) == First(i) \in DOMAIN order

\* The order of an intent, if it has one, has nothing open and nothing held.
Over(i) == Placed(i) => ~order[First(i)].open /\ order[First(i)].held = 0

\* A run sends what the rebalance buys.
Adding(r) == phase[r] = "rebalance" \/ (phase[r] \in Sending /\ RoleOf(hand[r]) = "buy_more")
InHand(r, i) == phase[r] \in Sending /\ hand[r] = i

\* Nothing can fail any more.
Quiet == faults >= MaxFaults
Closed == {"FILLED", "CANCELED"}

\* The records say that the intent has an order, or had one.
Known(i) == request[i] # "none" /\ (row[i] # "none" \/ request[i] \in OpenStatuses)

\* Every order is the only one of its intent: each try carries the same key.
ByTheBook == \A k \in DOMAIN order : k[1] \in Intents /\ k = First(k[1])

\* A row that says an order is closed is right.
RowsTrue == \A i \in Intents : row[i] \in Closed => Placed(i) /\ ~order[First(i)].open

\* There is no order before its time: none of a run that has not begun, no
\* second one before the rebalance, none of an entry still to send.
Staged(r) == \A n \in Names :
  /\ phase[r] = "idle" => ~Placed(Entry(r, n))
  /\ phase[r] \in {"idle", "listing", "projecting", "reading", "deciding"} \/ Entering(r) =>
       ~Placed(More(r, n))
  /\ Entering(r) /\ n \in todo[r] => ~Placed(Entry(r, n)) /\ ~InHand(r, Entry(r, n))

\* A second order is placed, sent or decided only when the first is over.
OnlyAfter(r) == \A n \in Names :
  \/ Placed(More(r, n))
  \/ Adding(r) /\ n \in todo[r]
  \/ InHand(r, More(r, n))
  => Over(Entry(r, n))

\* The entry in hand has an order without an answer: the fault was that one.
Handed(r) == \A n \in Names :
  InHand(r, Entry(r, n)) /\ Placed(Entry(r, n)) =>
    /\ phase[r] # "answered" => Quiet /\ request[Entry(r, n)] # "none"
    /\ phase[r] = "answered" => Quiet \/ request[Entry(r, n)] # "none"

\* An entry out of hand is known if it has an order, or will be: the listing
\* cannot fail. After the listing it is known.
Recorded(r) == \A n \in Names : Placed(Entry(r, n)) =>
  /\ (Entering(r) \/ phase[r] = "listing") /\ ~InHand(r, Entry(r, n)) =>
       request[Entry(r, n)] # "none" /\ (Known(Entry(r, n)) \/ Quiet)
  /\ phase[r] \in {"projecting", "reading", "deciding"} => Known(Entry(r, n))

\* A closed order of a name of which no shares were seen is over.
Looked(r) == \A n \in Names :
  phase[r] = "deciding" /\ n \notin seen[r] /\ row[Entry(r, n)] \in Closed => Over(Entry(r, n))

Bought(r) == Staged(r) /\ OnlyAfter(r) /\ Handed(r) /\ Recorded(r) /\ Looked(r)
WithinInv == ByTheBook /\ RowsTrue /\ \A r \in Runs : Bought(r)

\* All that is known of a state: the records, the money and the orders.
EntryInv == TracedInv /\ FundsInv /\ WithinInv

\* The two intents of a run and a name.
LEMMA OwnNames ==
  ASSUME NEW r \in Runs, NEW n \in Names
  PROVE  /\ Entry(r, n) \in Intents /\ More(r, n) \in Intents
         /\ RunOf(Entry(r, n)) = r /\ RunOf(More(r, n)) = r
         /\ First(Entry(r, n))[1] = Entry(r, n) /\ First(More(r, n))[1] = More(r, n)
         /\ RoleOf(Entry(r, n)) = "entry" /\ RoleOf(More(r, n)) = "buy_more"
         /\ NameOf(Entry(r, n)) = n /\ NameOf(More(r, n)) = n
  BY DEF Entry, More, Intents, Roles, RunOf, NameOf, First

\* An intent is the entry or the second buy of its run and its name.
LEMMA TwoRoles ==
  ASSUME NEW i \in Intents
  PROVE  /\ RunOf(i) \in Runs /\ NameOf(i) \in Names
         /\ i = Entry(RunOf(i), NameOf(i)) \/ i = More(RunOf(i), NameOf(i))
         /\ RoleOf(i) \in Roles
  BY DEF Entry, More, Intents, Roles, RunOf, NameOf

\* A run that is not in the account's lock is only held to its past.
\* What is asked of a run at rest.
Past(r) == \A n \in Names :
  /\ phase[r] = "idle" => ~Placed(Entry(r, n)) /\ ~Placed(More(r, n))
  /\ Placed(More(r, n)) => Over(Entry(r, n))

\* Of a run at rest the invariant only asks its past.
LEMMA AtRest ==
  ASSUME NEW r \in Runs PROVE ~Active(r) => (Bought(r) <=> Past(r))
<1> SUFFICES ASSUME ~Active(r) PROVE Bought(r) <=> Past(r)
  OBVIOUS
<1>1. /\ phase[r] \in {"idle", "ended", "crashed"}
      /\ ~Entering(r) /\ ~Adding(r) /\ phase[r] \notin Sending
      /\ \A i \in Intents : ~InHand(r, i)
  BY DEF Active, Entering, Adding, InHand, Sending
<1>2. Handed(r) /\ Looked(r) /\ Recorded(r)
  BY <1>1, OwnNames DEF Handed, Looked, Recorded
<1>3. Staged(r) <=> \A n \in Names :
        phase[r] = "idle" => ~Placed(Entry(r, n)) /\ ~Placed(More(r, n))
  BY <1>1 DEF Staged
<1>4. OnlyAfter(r) <=> \A n \in Names : Placed(More(r, n)) => Over(Entry(r, n))
  BY <1>1, OwnNames DEF OnlyAfter
<1> QED BY <1>2, <1>3, <1>4 DEF Bought, Past

\* So it does after a step.
LEMMA AtRestNext ==
  ASSUME NEW r \in Runs PROVE (~Active(r) => (Bought(r) <=> Past(r)))'
  BY AtRest, PTL

\* What the step of a run leaves of the others, at rest.
LEMMA OthersKeep ==
  ASSUME EntryInv, NEW r \in Runs, NEW q \in Runs \ {r}, ~Active(q), phase'[q] = phase[q],
         \A i \in Intents : RunOf(i) = q =>
            (Placed(i)' <=> Placed(i)) /\ (Placed(i) => order'[First(i)] = order[First(i)])
  PROVE  Bought(q)'
<1>1. ~Active(q)'
  BY DEF Active
<1>2. ASSUME NEW n \in Names
      PROVE  /\ phase'[q] = "idle" => ~Placed(Entry(q, n))' /\ ~Placed(More(q, n))'
             /\ Placed(More(q, n))' => Over(Entry(q, n))'
  <2>1. /\ phase[q] = "idle" => ~Placed(Entry(q, n)) /\ ~Placed(More(q, n))
        /\ Placed(More(q, n)) => Over(Entry(q, n))
    BY AtRest DEF EntryInv, WithinInv, Past
  <2>2. /\ Placed(Entry(q, n))' <=> Placed(Entry(q, n))
        /\ Placed(More(q, n))' <=> Placed(More(q, n))
        /\ Placed(Entry(q, n)) => order'[First(Entry(q, n))] = order[First(Entry(q, n))]
    BY OwnNames
  <2> QED BY <2>1, <2>2 DEF Over, First, Entry
<1>3. Past(q)'
  BY <1>2 DEF Past
<1> QED BY <1>1, <1>3, AtRestNext
\* A run, q, of which a step changes nothing.
LEMMA SameKeep ==
  ASSUME EntryInv, NEW q \in Runs, order' = order, row' = row, request' = request, 
         faults' \in Nat, faults' >= faults,
         phase'[q] = phase[q], hand'[q] = hand[q], todo'[q] = todo[q], seen'[q] = seen[q]
  PROVE  Bought(q)'
<1>0. Bought(q) /\ (Quiet => Quiet')
  BY SizesAssumption DEF EntryInv, WithinInv, Quiet, TracedInv, FaultInv
<1> USE DEF Bought, Entering, Adding, InHand, Placed, Over, Known
<1>1. Staged(q)'
  BY <1>0 DEF Staged
<1>2. OnlyAfter(q)'
  BY <1>0 DEF OnlyAfter
<1>3. Handed(q)'
  BY <1>0 DEF Handed
<1>4. Recorded(q)'
  BY <1>0 DEF Recorded
<1>5. Looked(q)'
  BY <1>0 DEF Looked
<1> QED BY <1>1, <1>2, <1>3, <1>4, <1>5

\* The lock keeps the others at rest.
LEMMA Alone ==
  ASSUME EntryInv, NEW r \in Runs, Active(r) \/ lock = Nobody, NEW q \in Runs \ {r}
  PROVE  ~Active(q)
  BY NobodyAssumption DEF EntryInv, FundsInv, Locked

\* A step of a run that leaves the orders and their rows.
LEMMA RunStep ==
  ASSUME EntryInv, NEW r \in Runs, Active(r) \/ lock = Nobody,
         \A q \in Runs \ {r} : phase'[q] = phase[q], order' = order, row' = row, Bought(r)'
  PROVE  WithinInv'
<1>1. ByTheBook' /\ RowsTrue'
  BY DEF EntryInv, WithinInv, ByTheBook, RowsTrue, Placed
<1>2. ASSUME NEW q \in Runs \ {r} PROVE Bought(q)'
  BY Alone, OthersKeep DEF Placed
<1> QED BY <1>1, <1>2 DEF WithinInv

\* No shares of a name are held: none of any of its orders.
LEMMA HeldNone ==
  ASSUME FundsInv, NEW k \in DOMAIN order, NameOf(k[1]) \in Names \ Owned
  PROVE  order[k].held = 0
  BY SizesAssumption DEF FundsInv, Solvent, Book, Orders, Owned

\* A write of a request leaves the others.
LEMMA WrittenElse ==
  ASSUME TypeOK, NEW i \in Intents, NEW status, Written(i, status), NEW j \in Intents \ {i}
  PROVE  request'[j] = request[j]
  BY DEF Written, MayFault, TypeOK

\* A run that begins has no orders.
LEMMA BeginKeeps == ASSUME EntryInv, NEW r \in Runs, Begin(r) PROVE WithinInv'
<1> USE DEF Begin, LockFree, sending, books
<1>1. /\ Bought(r) /\ TypeOK /\ faults' \in Nat /\ faults' >= faults
  BY DEF EntryInv, FundsInv, WithinInv, TypeOK, Written, MayFault
<1> USE DEF Bought, Entering, Adding, InHand, Sending
<1>2. Staged(r)'
  BY <1>1, OwnNames DEF Staged, Placed, TypeOK
<1>3. OnlyAfter(r)'
  BY <1>1, OwnNames DEF OnlyAfter, Placed, Over, TypeOK
<1>4. Handed(r)'
  BY <1>1, OwnNames, SizesAssumption DEF Handed, Placed, Quiet, TypeOK
<1>5. Recorded(r)'
  BY <1>1, OwnNames DEF Recorded, Staged, Placed, TypeOK
<1>6. Looked(r)'
  BY <1>1, OwnNames DEF Looked, Placed, Over, TypeOK
<1>7. Bought(r)'
  BY <1>2, <1>3, <1>4, <1>5, <1>6
<1> QED BY <1>1, <1>7, RunStep DEF Active, TypeOK

\* An entry left out.
LEMMA SkipKeeps ==
  ASSUME EntryInv, NEW r \in Runs, NEW n \in Names, Skip(r, n)
  PROVE  WithinInv'
<1> USE DEF Skip, sending, books
<1>1. /\ Bought(r) /\ TypeOK /\ faults' \in Nat /\ faults' >= faults
  BY DEF EntryInv, FundsInv, WithinInv, TypeOK, Written, MayFault
<1> USE DEF Bought, Entering, Adding, InHand, Sending
<1>2. Staged(r)'
  BY <1>1, OwnNames DEF Staged, Placed, TypeOK
<1>3. OnlyAfter(r)'
  BY <1>1, OwnNames DEF OnlyAfter, Placed, Over, TypeOK
<1>4. Handed(r)'
  BY <1>1, OwnNames, SizesAssumption DEF Handed, Placed, Quiet, TypeOK
<1>5. Recorded(r)'
  BY <1>1, OwnNames, SizesAssumption DEF Recorded, Placed, Quiet, Known, TypeOK
<1>6. Looked(r)'
  BY <1>1, OwnNames DEF Looked, Placed, Over, TypeOK
<1>7. Bought(r)'
  BY <1>2, <1>3, <1>4, <1>5, <1>6
<1> QED BY <1>1, <1>7, RunStep DEF Active, TypeOK

\* No entry is sent any more.
LEMMA KillSwitchKeeps == ASSUME EntryInv, NEW r \in Runs, KillSwitch(r) PROVE WithinInv'
<1> USE DEF KillSwitch, sending, books
<1>1. /\ Bought(r) /\ TypeOK /\ faults' \in Nat /\ faults' >= faults
  BY DEF EntryInv, FundsInv, WithinInv, TypeOK, Written, MayFault
<1> USE DEF Bought, Entering, Adding, InHand, Sending
<1>2. Staged(r)'
  BY <1>1, OwnNames DEF Staged, Placed, TypeOK
<1>3. OnlyAfter(r)'
  BY <1>1, OwnNames DEF OnlyAfter, Placed, Over, TypeOK
<1>4. Handed(r)'
  BY <1>1, OwnNames, SizesAssumption DEF Handed, Placed, Quiet, TypeOK
<1>5. Recorded(r)'
  BY <1>1, OwnNames, SizesAssumption DEF Recorded, Placed, Quiet, Known, TypeOK
<1>6. Looked(r)'
  BY <1>1, OwnNames DEF Looked, Placed, Over, TypeOK
<1>7. Bought(r)'
  BY <1>2, <1>3, <1>4, <1>5, <1>6
<1> QED BY <1>1, <1>7, RunStep DEF Active, TypeOK

\* The request that is written REJECTED has no order.
LEMMA GateKeeps ==
  ASSUME EntryInv, NEW r \in Runs, NEW n \in Names, Gate(r, n)
  PROVE  WithinInv'
<1> USE DEF Gate
<1>1. /\ Bought(r) /\ TypeOK /\ faults' \in Nat /\ faults' >= faults
  BY DEF EntryInv, FundsInv, WithinInv, TypeOK, Written, MayFault
<1> USE DEF Bought, Entering, Adding, InHand, Sending
<1>2. Staged(r)'
  BY <1>1, OwnNames DEF Staged, Placed, TypeOK
<1>3. OnlyAfter(r)'
  BY <1>1, OwnNames DEF OnlyAfter, Placed, Over, TypeOK
<1>4. Handed(r)'
  BY <1>1, OwnNames, SizesAssumption DEF Handed, Placed, Quiet, TypeOK
<1>5. Recorded(r)'
  <2>1. ~Placed(Entry(r, n))
    BY <1>1 DEF Staged
  <2>2. \A m \in Names \ {n} : request'[Entry(r, m)] = request[Entry(r, m)]
    <3>1. Written(Entry(r, n), "REJECTED")
      BY DEF Entry
    <3>2. \A m \in Names \ {n} : Entry(r, m) # Entry(r, n)
      BY DEF Entry
    <3> QED BY <1>1, <3>1, <3>2, OwnNames, WrittenElse
  <2>3. Quiet => Quiet'
    BY <1>1, SizesAssumption DEF Quiet, TypeOK
  <2> QED BY <1>1, <2>1, <2>2, <2>3, OwnNames DEF Recorded, Placed, Known, TypeOK
<1>6. Looked(r)'
  BY <1>1, OwnNames DEF Looked, Placed, Over, TypeOK
<1>7. Bought(r)'
  BY <1>2, <1>3, <1>4, <1>5, <1>6
<1> QED BY <1>1, <1>7, RunStep DEF Active, TypeOK

\* The entry taken in hand has no order.
LEMMA SubmitKeeps ==
  ASSUME EntryInv, NEW r \in Runs, NEW n \in Names, Submit(r, n)
  PROVE  WithinInv'
<1> USE DEF Submit, Prepare, Announced
<1>1. /\ Bought(r) /\ TypeOK /\ faults' \in Nat /\ faults' >= faults
  BY DEF EntryInv, FundsInv, WithinInv, TypeOK, Written, MayFault
<1> USE DEF Bought, Entering, Adding, InHand, Sending
<1>2. Staged(r)'
  <2>1. \A m \in Names \ {n} : Entry(r, m) # Entry(r, n)
    BY DEF Entry
  <2>2. hand'[r] = Entry(r, n) /\ todo'[r] = todo[r] \ {n} /\ phase'[r] = "posting"
    BY <1>1 DEF TypeOK, Entry
  <2> QED BY <1>1, <2>1, <2>2, OwnNames DEF Staged, Placed
<1>3. OnlyAfter(r)'
  BY <1>1, OwnNames DEF OnlyAfter, Placed, Over, TypeOK
<1>4. Handed(r)'
  <2>1. ~Placed(Entry(r, n))
    BY <1>1 DEF Staged
  <2>2. \A m \in Names \ {n} : Entry(r, m) # Entry(r, n)
    BY DEF Entry
  <2>3. hand'[r] = Entry(r, n)
    BY <1>1 DEF TypeOK, Entry
  <2> QED BY <2>1, <2>2, <2>3 DEF Handed, Placed
<1>5. Recorded(r)'
  <2>1. ~Placed(Entry(r, n))
    BY <1>1 DEF Staged
  <2>2. \A m \in Names \ {n} : request'[Entry(r, m)] = request[Entry(r, m)]
    <3>1. Written(Entry(r, n), "NEW")
      BY DEF Entry
    <3>2. \A m \in Names \ {n} : Entry(r, m) # Entry(r, n)
      BY DEF Entry
    <3> QED BY <1>1, <3>1, <3>2, OwnNames, WrittenElse
  <2>3. Quiet => Quiet'
    BY <1>1, SizesAssumption DEF Quiet, TypeOK
  <2>4. phase'[r] = "posting"
    BY <1>1 DEF TypeOK
  <2>5. ASSUME NEW m \in Names \ {n}, Placed(Entry(r, m))
        PROVE  request'[Entry(r, m)] # "none" /\ (Known(Entry(r, m))' \/ Quiet')
    BY <1>1, <2>2, <2>3, <2>5 DEF Recorded, Known, Entry
  <2> QED BY <2>1, <2>4, <2>5 DEF Recorded, Placed
<1>6. Looked(r)'
  BY <1>1, OwnNames DEF Looked, Placed, Over, TypeOK
<1>7. Bought(r)'
  BY <1>2, <1>3, <1>4, <1>5, <1>6
<1> QED BY <1>1, <1>7, RunStep DEF Active, TypeOK

\* The second buy taken in hand was decided: the first is over.
LEMMA BuyMoreKeeps ==
  ASSUME EntryInv, NEW r \in Runs, NEW n \in Names, BuyMore(r, n)
  PROVE  WithinInv'
<1> USE DEF BuyMore, Prepare, Announced
<1>1. /\ Bought(r) /\ TypeOK /\ faults' \in Nat /\ faults' >= faults
  BY DEF EntryInv, FundsInv, WithinInv, TypeOK, Written, MayFault
<1> USE DEF Bought, Entering, Adding, InHand, Sending
<1>2. Staged(r)'
  BY <1>1, OwnNames DEF Staged, Placed, TypeOK
<1>3. OnlyAfter(r)'
  <2>1. hand'[r] = More(r, n) /\ todo'[r] = todo[r] \ {n} /\ phase[r] = "rebalance"
    BY <1>1 DEF TypeOK, More
  <2>2. \A m \in Names : Over(Entry(r, m))' <=> Over(Entry(r, m))
    BY DEF Over, Placed, Entry
  <2>3. \A m \in Names \ {n} : More(r, m) # More(r, n)
    BY DEF More
  <2> QED BY <1>1, <2>1, <2>2, <2>3 DEF OnlyAfter, Placed
<1>4. Handed(r)'
  BY <1>1, OwnNames, SizesAssumption DEF Handed, Placed, Quiet, TypeOK
<1>5. Recorded(r)'
  BY <1>1, OwnNames, SizesAssumption DEF Recorded, Placed, Quiet, Known, TypeOK
<1>6. Looked(r)'
  BY <1>1, OwnNames DEF Looked, Placed, Over, TypeOK
<1>7. Bought(r)'
  BY <1>2, <1>3, <1>4, <1>5, <1>6
<1> QED BY <1>1, <1>7, RunStep DEF Active, TypeOK

\* A POST that does not arrive; the one in hand may have an order of an
\* earlier try.
LEMMA UndeliveredKeeps == ASSUME EntryInv, NEW r \in Runs, Undelivered(r) PROVE WithinInv'
<1> USE DEF Undelivered, sending, books, Again, MayFault
<1>1. /\ Bought(r) /\ TypeOK /\ faults' \in Nat /\ faults' >= faults
  BY DEF EntryInv, FundsInv, WithinInv, TypeOK
<1> USE DEF Bought, Entering, Adding, InHand, Sending
<1>2. Staged(r)'
  BY <1>1, OwnNames DEF Staged, Placed, TypeOK
<1>3. OnlyAfter(r)'
  BY <1>1, OwnNames DEF OnlyAfter, Placed, Over, TypeOK
<1>4. Handed(r)'
  BY <1>1, OwnNames, SizesAssumption DEF Handed, Placed, Quiet, TypeOK
<1>5. Recorded(r)'
  BY <1>1, OwnNames, SizesAssumption DEF Recorded, Placed, Quiet, Known, TypeOK
<1>6. Looked(r)'
  BY <1>1, OwnNames DEF Looked, Placed, Over, TypeOK
<1>7. Bought(r)'
  BY <1>2, <1>3, <1>4, <1>5, <1>6
<1> QED BY <1>1, <1>7, RunStep DEF Active, TypeOK

\* A refusal, also of a try whose order exists.
LEMMA RefusedKeeps == ASSUME EntryInv, NEW r \in Runs, Refused(r) PROVE WithinInv'
<1> USE DEF Refused, sending, books
<1>1. /\ Bought(r) /\ TypeOK /\ faults' \in Nat /\ faults' >= faults
  BY DEF EntryInv, FundsInv, WithinInv, TypeOK, Written, MayFault
<1> USE DEF Bought, Entering, Adding, InHand, Sending
<1>2. Staged(r)'
  BY <1>1, OwnNames DEF Staged, Placed, TypeOK
<1>3. OnlyAfter(r)'
  BY <1>1, OwnNames DEF OnlyAfter, Placed, Over, TypeOK
<1>4. Handed(r)'
  BY <1>1, OwnNames, SizesAssumption DEF Handed, Placed, Quiet, TypeOK
<1>5. Recorded(r)'
  BY <1>1, OwnNames, SizesAssumption DEF Recorded, Placed, Quiet, Known, TypeOK
<1>6. Looked(r)'
  BY <1>1, OwnNames DEF Looked, Placed, Over, TypeOK
<1>7. Bought(r)'
  BY <1>2, <1>3, <1>4, <1>5, <1>6
<1> QED BY <1>1, <1>7, RunStep DEF Active, TypeOK

\* A failure is recorded of an order that may live: then nothing else fails,
\* and the sync will find it.
LEMMA RecordFailureKeeps ==
  ASSUME EntryInv, NEW r \in Runs, RecordFailure(r)
  PROVE  WithinInv'
<1> USE DEF RecordFailure, Resumes
<1>1. /\ Bought(r) /\ TypeOK /\ faults' \in Nat /\ faults' >= faults
  BY DEF EntryInv, FundsInv, WithinInv, TypeOK, Written, MayFault
<1> USE DEF Bought, Entering, Adding, InHand, Sending
<1>2. Staged(r)'
  BY <1>1, OwnNames DEF Staged, Placed, TypeOK
<1>3. OnlyAfter(r)'
  <2>1. Adding(r)' => Adding(r)
    <3>1. hand[r] \in Intents
      BY DEF EntryInv, FundsInv, Tallied
    <3>2. RoleOf(hand[r]) \in {"entry", "buy_more"}
      BY <3>1, TwoRoles DEF Roles
    <3> QED BY <1>1, <3>2 DEF TypeOK
  <2>2. \A m \in Names : Over(Entry(r, m))' <=> Over(Entry(r, m))
    BY DEF Over, Placed, Entry
  <2>3. phase'[r] \notin Sending
    BY <1>1 DEF TypeOK
  <2> QED BY <1>1, <2>1, <2>2, <2>3 DEF OnlyAfter, Placed
<1>4. Handed(r)'
  BY <1>1, OwnNames, SizesAssumption DEF Handed, Placed, Quiet, TypeOK
<1>5. Recorded(r)'
  <2>1. hand[r] \in Intents
    BY DEF EntryInv, FundsInv, Tallied
  <2> SUFFICES ASSUME NEW m \in Names, Placed(Entry(r, m))', phase'[r] = "submit"
               PROVE  request'[Entry(r, m)] # "none" /\ (Known(Entry(r, m))' \/ Quiet')
    BY <1>1 DEF Recorded, TypeOK
  <2>2. Placed(Entry(r, m)) /\ RoleOf(hand[r]) = "entry" /\ Entry(r, m) \in Intents
    BY <1>1, OwnNames DEF Placed, TypeOK, Entry
  <2>3. Quiet => Quiet'
    BY <1>1, SizesAssumption DEF Quiet, TypeOK
  <2>4. CASE hand[r] = Entry(r, m)
    <3>1. Quiet /\ request[Entry(r, m)] # "none"
      BY <1>1, <2>2, <2>4 DEF Handed
    <3>2. request'[Entry(r, m)] # "none"
      BY <1>1, <2>2, <2>4, <3>1 DEF Written, TypeOK
    <3> QED BY <2>3, <3>1, <3>2
  <2>5. CASE hand[r] # Entry(r, m)
    <3>1. request'[Entry(r, m)] = request[Entry(r, m)]
      BY <1>1, <2>1, <2>2, <2>5, WrittenElse
    <3>2. request[Entry(r, m)] # "none" /\ (Known(Entry(r, m)) \/ Quiet)
      BY <1>1, <2>2, <2>5 DEF Recorded
    <3> QED BY <2>3, <3>1, <3>2 DEF Known, Entry
  <2> QED BY <2>4, <2>5
<1>6. Looked(r)'
  BY <1>1, OwnNames DEF Looked, Placed, Over, TypeOK
<1>7. Bought(r)'
  BY <1>2, <1>3, <1>4, <1>5, <1>6
<1> QED BY <1>1, <1>7, RunStep DEF Active, TypeOK

\* The entries are all sent.
LEMMA AllSentKeeps == ASSUME EntryInv, NEW r \in Runs, AllSent(r) PROVE WithinInv'
<1> USE DEF AllSent, sending, books
<1>1. /\ Bought(r) /\ TypeOK /\ faults' \in Nat /\ faults' >= faults
  BY DEF EntryInv, FundsInv, WithinInv, TypeOK, Written, MayFault
<1> USE DEF Bought, Entering, Adding, InHand, Sending
<1>2. Staged(r)'
  BY <1>1, OwnNames DEF Staged, Placed, TypeOK
<1>3. OnlyAfter(r)'
  BY <1>1, OwnNames DEF OnlyAfter, Placed, Over, TypeOK
<1>4. Handed(r)'
  BY <1>1, OwnNames, SizesAssumption DEF Handed, Placed, Quiet, TypeOK
<1>5. Recorded(r)'
  BY <1>1, OwnNames, SizesAssumption DEF Recorded, Placed, Quiet, Known, TypeOK
<1>6. Looked(r)'
  BY <1>1, OwnNames DEF Looked, Placed, Over, TypeOK
<1>7. Bought(r)'
  BY <1>2, <1>3, <1>4, <1>5, <1>6
<1> QED BY <1>1, <1>7, RunStep DEF Active, TypeOK

\* The projection of the positions.
LEMMA ProjectKeeps == ASSUME EntryInv, NEW r \in Runs, Project(r) PROVE WithinInv'
<1> USE DEF Project, sending
<1>1. /\ Bought(r) /\ TypeOK /\ faults' \in Nat /\ faults' >= faults
  BY DEF EntryInv, FundsInv, WithinInv, TypeOK, Written, MayFault
<1> USE DEF Bought, Entering, Adding, InHand, Sending
<1>2. Staged(r)'
  BY <1>1, OwnNames DEF Staged, Placed, TypeOK
<1>3. OnlyAfter(r)'
  BY <1>1, OwnNames DEF OnlyAfter, Placed, Over, TypeOK
<1>4. Handed(r)'
  BY <1>1, OwnNames, SizesAssumption DEF Handed, Placed, Quiet, TypeOK
<1>5. Recorded(r)'
  BY <1>1, OwnNames, SizesAssumption DEF Recorded, Placed, Quiet, Known, TypeOK
<1>6. Looked(r)'
  BY <1>1, OwnNames DEF Looked, Placed, Over, TypeOK
<1>7. Bought(r)'
  BY <1>2, <1>3, <1>4, <1>5, <1>6
<1> QED BY <1>1, <1>7, RunStep DEF Active, TypeOK

\* A name of which nothing is held: an order of it that is known to be closed
\* is over.
LEMMA ReadKeeps == ASSUME EntryInv, NEW r \in Runs, Read(r) PROVE WithinInv'
<1> USE DEF Read, sending, books
<1>1. /\ Bought(r) /\ TypeOK /\ faults' \in Nat /\ faults' >= faults
  BY DEF EntryInv, FundsInv, WithinInv, TypeOK, Written, MayFault
<1> USE DEF Bought, Entering, Adding, InHand, Sending
<1>2. Staged(r)'
  BY <1>1, OwnNames DEF Staged, Placed, TypeOK
<1>3. OnlyAfter(r)'
  BY <1>1, OwnNames DEF OnlyAfter, Placed, Over, TypeOK
<1>4. Handed(r)'
  BY <1>1, OwnNames, SizesAssumption DEF Handed, Placed, Quiet, TypeOK
<1>5. Recorded(r)'
  BY <1>1, OwnNames, SizesAssumption DEF Recorded, Placed, Quiet, Known, TypeOK
<1>6. Looked(r)'
  <2> SUFFICES ASSUME NEW m \in Names, m \notin seen'[r], row[Entry(r, m)] \in Closed, Placed(Entry(r, m))
               PROVE  ~order[First(Entry(r, m))].open /\ order[First(Entry(r, m))].held = 0
    BY DEF Looked, Over, Placed, Entry
  <2>1. ~order[First(Entry(r, m))].open
    BY OwnNames DEF EntryInv, WithinInv, RowsTrue
  <2>2. m \notin Owned
    BY <1>1 DEF TypeOK
  <2>3. order[First(Entry(r, m))].held = 0
    BY <2>2, HeldNone, OwnNames DEF EntryInv, Placed
  <2> QED BY <2>1, <2>3
<1>7. Bought(r)'
  BY <1>2, <1>3, <1>4, <1>5, <1>6
<1> QED BY <1>1, <1>7, RunStep DEF Active, TypeOK

\* What is bought again has no order in flight and no shares held.
LEMMA DecideKeeps == ASSUME EntryInv, NEW r \in Runs, Decide(r) PROVE WithinInv'
<1> USE DEF Decide, sending, books, SafeAuto, InFlight
<1>1. /\ Bought(r) /\ TypeOK /\ faults' \in Nat /\ faults' >= faults
  BY DEF EntryInv, FundsInv, WithinInv, TypeOK, Written, MayFault
<1> USE DEF Bought, Entering, Adding, InHand, Sending
<1>2. Staged(r)'
  BY <1>1, OwnNames DEF Staged, Placed, TypeOK
<1>3. OnlyAfter(r)'
  <2> SUFFICES ASSUME NEW m \in Names, SafeAuto(r, m), Placed(Entry(r, m))
               PROVE  Over(Entry(r, m))
    <3>1. \A m \in Names : Over(Entry(r, m))' <=> Over(Entry(r, m))
      BY DEF Over, Placed, Entry
    <3>2. phase'[r] = "rebalance" /\ todo'[r] = {m \in Names : SafeAuto(r, m)}
      BY <1>1 DEF TypeOK
    <3>3. \A m \in Names : ~Placed(More(r, m))'
      BY <1>1 DEF Staged, Placed, More
    <3> QED BY <3>1, <3>2, <3>3 DEF OnlyAfter, Over
  <2>1. Known(Entry(r, m)) /\ Entry(r, m) \in Intents /\ NameOf(Entry(r, m)) = m
    BY <1>1, OwnNames DEF Recorded
  <2>2. row[Entry(r, m)] \in Closed
    <3>1. row[Entry(r, m)] \in RowStatuses
      BY <1>1, <2>1 DEF TypeOK
    <3>2. (IF row[Entry(r, m)] # "none" THEN row[Entry(r, m)] ELSE request[Entry(r, m)]) \notin OpenStatuses
      BY <2>1 DEF Known
    <3> QED BY <2>1, <3>1, <3>2 DEF Known, Closed, RowStatuses, OpenStatuses
  <2> QED BY <1>1, <2>2 DEF Looked
<1>4. Handed(r)'
  BY <1>1, OwnNames, SizesAssumption DEF Handed, Placed, Quiet, TypeOK
<1>5. Recorded(r)'
  BY <1>1, OwnNames, SizesAssumption DEF Recorded, Placed, Quiet, Known, TypeOK
<1>6. Looked(r)'
  BY <1>1, OwnNames DEF Looked, Placed, Over, TypeOK
<1>7. Bought(r)'
  BY <1>2, <1>3, <1>4, <1>5, <1>6
<1> QED BY <1>1, <1>7, RunStep DEF Active, TypeOK

\* The run is over.
LEMMA FinishKeeps == ASSUME EntryInv, NEW r \in Runs, Finish(r) PROVE WithinInv'
<1> USE DEF Finish, Forgets, books, sending, MayFault
<1>1. /\ Bought(r) /\ TypeOK /\ faults' \in Nat /\ faults' >= faults
  BY DEF EntryInv, FundsInv, WithinInv, TypeOK
<1> USE DEF Bought, Entering, Adding, InHand, Sending
<1>2. Staged(r)'
  BY <1>1, OwnNames DEF Staged, Placed, TypeOK
<1>3. OnlyAfter(r)'
  BY <1>1, OwnNames DEF OnlyAfter, Placed, Over, TypeOK
<1>4. Handed(r)'
  BY <1>1, OwnNames, SizesAssumption DEF Handed, Placed, Quiet, TypeOK
<1>5. Recorded(r)'
  BY <1>1, OwnNames, SizesAssumption DEF Recorded, Placed, Quiet, Known, TypeOK
<1>6. Looked(r)'
  BY <1>1, OwnNames DEF Looked, Placed, Over, TypeOK
<1>7. Bought(r)'
  BY <1>2, <1>3, <1>4, <1>5, <1>6
<1> QED BY <1>1, <1>7, RunStep DEF Active, TypeOK

\* The run dies.
LEMMA CrashKeeps == ASSUME EntryInv, NEW r \in Runs, Crash(r) PROVE WithinInv'
<1> USE DEF Crash, Forgets, books, MayFault
<1>1. /\ Bought(r) /\ TypeOK /\ faults' \in Nat /\ faults' >= faults
  BY DEF EntryInv, FundsInv, WithinInv, TypeOK
<1> USE DEF Bought, Entering, Adding, InHand, Sending
<1>2. Staged(r)'
  BY <1>1, OwnNames DEF Staged, Placed, TypeOK
<1>3. OnlyAfter(r)'
  BY <1>1, OwnNames DEF OnlyAfter, Placed, Over, TypeOK
<1>4. Handed(r)'
  BY <1>1, OwnNames, SizesAssumption DEF Handed, Placed, Quiet, TypeOK
<1>5. Recorded(r)'
  BY <1>1, OwnNames, SizesAssumption DEF Recorded, Placed, Quiet, Known, TypeOK
<1>6. Looked(r)'
  BY <1>1, OwnNames DEF Looked, Placed, Over, TypeOK
<1>7. Bought(r)'
  BY <1>2, <1>3, <1>4, <1>5, <1>6
<1> QED BY <1>1, <1>7, RunStep DEF Active, TypeOK

\* The order and its request are recorded; one of the two writes may fail.
LEMMA RecordOrderKeeps ==
  ASSUME EntryInv, OneFaultOrAnswers, NEW r \in Runs, RecordOrder(r) PROVE WithinInv'
<1> USE DEF RecordOrder, Resumes
<1>1. Bought(r) /\ TypeOK /\ hand[r] \in Intents /\ RunOf(hand[r]) = r /\ phase[r] = "answered"
  BY DEF EntryInv, FundsInv, WithinInv, Tallied, Sending
<1>2. /\ order' = order /\ row' \in [Intents -> RowStatuses]
      /\ \A i \in Intents : row'[i] = row[i] \/ (i = hand[r] /\ row'[i] = "SUBMITTED")
      /\ \A i \in Intents \ {hand[r]} : request'[i] = request[i]
  <2>1. \A i \in Intents : row'[i] = row[i] \/ (i = hand[r] /\ row'[i] = "SUBMITTED")
    BY <1>1 DEF TypeOK
  <2>2. row' \in [Intents -> RowStatuses]
    BY <1>1 DEF TypeOK, RowStatuses
  <2>3. \A i \in Intents \ {hand[r]} : request'[i] = request[i]
    BY <1>1, WrittenElse DEF TypeOK
  <2> QED BY <2>1, <2>2, <2>3
<1>3. Quiet => Quiet'
  BY <1>1, SizesAssumption DEF Quiet, TypeOK, Written, MayFault
\* The intent that is recorded is known afterwards, or nothing else can fail.
<1>4. Placed(hand[r]) /\ RoleOf(hand[r]) = "entry" =>
        /\ request'[hand[r]] # "none"
        /\ request'[hand[r]] \in OpenStatuses \/ Quiet' \/ row'[hand[r]] # "none"
  <2> SUFFICES ASSUME Placed(hand[r]), RoleOf(hand[r]) = "entry"
               PROVE  /\ request'[hand[r]] # "none"
                      /\ request'[hand[r]] \in OpenStatuses \/ Quiet' \/ row'[hand[r]] # "none"
    OBVIOUS
  <2>1. Quiet \/ request[hand[r]] # "none"
    <3>1. hand[r] = Entry(r, NameOf(hand[r])) /\ NameOf(hand[r]) \in Names
      BY <1>1, TwoRoles, OwnNames DEF More
    <3> QED BY <1>1, <3>1 DEF Bought, Handed, InHand, Sending
  <2>2. CASE request' = [request EXCEPT ![hand[r]] = "SUBMITTED"]
    BY <1>1, <2>2 DEF OpenStatuses, TypeOK
  <2>3. CASE MayFault("write") /\ request' = request /\ row' = [row EXCEPT ![hand[r]] = "SUBMITTED"]
    BY <1>1, <2>1, <2>3, SizesAssumption DEF MayFault, Quiet, TypeOK
  <2> QED BY <2>2, <2>3 DEF Written
<1>5. ByTheBook' /\ RowsTrue'
  BY <1>2 DEF EntryInv, WithinInv, ByTheBook, RowsTrue, Placed, Closed
<1>6. phase'[r] = (IF RoleOf(hand[r]) = "entry" THEN "submit" ELSE "rebalance") /\ todo' = todo
  BY <1>1 DEF TypeOK
<1>7. RoleOf(hand[r]) \in {"entry", "buy_more"}
  BY <1>1, TwoRoles DEF Roles
<1> USE DEF Bought, Entering, Adding, InHand, Sending
<1>8. Staged(r)'
  BY <1>1, <1>2, <1>6, OwnNames DEF Staged, Placed
<1>9. OnlyAfter(r)'
  <2>1. \A m \in Names : Over(Entry(r, m))' <=> Over(Entry(r, m))
    BY <1>2 DEF Over, Placed, Entry
  <2> QED BY <1>1, <1>2, <1>6, <1>7, <2>1 DEF OnlyAfter, Placed
<1>10. Handed(r)' /\ Looked(r)'
  BY <1>6 DEF Handed, Looked
<1>11. Recorded(r)'
  <2> SUFFICES ASSUME NEW m \in Names, Placed(Entry(r, m)), RoleOf(hand[r]) = "entry"
               PROVE  request'[Entry(r, m)] # "none" /\ (Known(Entry(r, m))' \/ Quiet')
    BY <1>2, <1>6 DEF Recorded, Placed, Entry
  <2>1. CASE hand[r] = Entry(r, m)
    BY <1>4, <2>1 DEF Known, Entry
  <2>2. CASE hand[r] # Entry(r, m)
    BY <1>1, <1>2, <1>3, <2>2, OwnNames DEF Recorded, Known, Entry
  <2> QED BY <2>1, <2>2
<1>12. ASSUME NEW q \in Runs \ {r} PROVE Bought(q)'
  <2>1. ~Active(q) /\ phase'[q] = phase[q]
    BY <1>1, <1>12, Alone DEF Active, TypeOK
  <2> QED BY <1>2, <2>1, OthersKeep DEF Placed
<1> QED BY <1>5, <1>8, <1>9, <1>10, <1>11, <1>12 DEF WithinInv, Bought

\* The sync gives every order that has a request its row, or was the last
\* fault: what is not in a row is open in its request.
LEMMA ListKeeps ==
  ASSUME EntryInv, OneFaultOrAnswers, NEW r \in Runs, List(r) PROVE WithinInv'
<1> USE DEF List, sending
<1>1. Bought(r) /\ TypeOK /\ ByTheBook /\ RowsTrue
  BY DEF EntryInv, FundsInv, WithinInv
\* A row is the status of the one order the intent can have.
<1>2. ASSUME NEW i \in Intents, Placed(i)
      PROVE  Sent(i) # {} /\ (CHOOSE k \in Sent(i) : TRUE) = First(i)
  <2>1. Sent(i) = {First(i)}
    BY <1>1, <1>2 DEF ByTheBook, Sent, Placed, First
  <2> QED BY <2>1
<1>3. ASSUME NEW i \in Intents, row' = Listed
      PROVE  row'[i] = IF request[i] # "none" /\ Placed(i) THEN StatusOf(order[First(i)]) ELSE row[i]
  <2>1. CASE Placed(i)
    BY <1>2, <1>3, <2>1 DEF Listed
  <2>2. CASE ~Placed(i)
    <3>1. Sent(i) = {}
      BY <1>1, <2>2 DEF ByTheBook, Sent, Placed
    <3> QED BY <1>3, <2>2, <3>1 DEF Listed
  <2> QED BY <2>1, <2>2
<1>4. ASSUME NEW i \in Intents, Placed(i)
      PROVE  StatusOf(order[First(i)]) # "none" /\ (StatusOf(order[First(i)]) \in Closed => ~order[First(i)].open)
  <2>1. order[First(i)] \in [open : BOOLEAN, filled : 0..Target, held : 0..Target]
    BY <1>1, <1>4 DEF TypeOK, Placed
  <2> QED BY <2>1, SizesAssumption DEF StatusOf, Closed
<1>5. ByTheBook' /\ RowsTrue'
  <2>1. ByTheBook'
    BY <1>1 DEF ByTheBook
  <2>2. ASSUME NEW i \in Intents, row'[i] \in Closed PROVE Placed(i)' /\ ~order'[First(i)].open
    <3>1. CASE row' = Listed /\ request[i] # "none" /\ Placed(i)
      BY <1>3, <1>4, <2>2, <3>1 DEF Placed
    <3>2. CASE ~(row' = Listed /\ request[i] # "none" /\ Placed(i))
      BY <1>1, <1>3, <2>2, <3>2 DEF Placed, RowsTrue
    <3> QED BY <3>1, <3>2
  <2> QED BY <2>1, <2>2 DEF RowsTrue
<1>6. phase'[r] = "projecting" /\ phase[r] = "listing"
  BY <1>1 DEF TypeOK
<1> USE DEF Bought, Entering, Adding, InHand, Sending
<1>7. Staged(r)' /\ Handed(r)' /\ Looked(r)'
  BY <1>1, <1>6, OwnNames DEF Staged, Handed, Looked, Placed
<1>8. OnlyAfter(r)'
  BY <1>1, <1>6 DEF OnlyAfter, Staged, Placed, More
<1>9. Recorded(r)'
  <2> SUFFICES ASSUME NEW m \in Names, Placed(Entry(r, m)) PROVE Known(Entry(r, m))'
    BY <1>6 DEF Recorded, Placed, Entry
  <2>1. request[Entry(r, m)] # "none" /\ (Known(Entry(r, m)) \/ Quiet) /\ Entry(r, m) \in Intents
    BY <1>1, <1>6, OwnNames DEF Recorded
  <2>2. CASE row' = Listed
    BY <1>3, <1>4, <2>1, <2>2 DEF Known, Entry
  <2>3. CASE MayFault("listing") /\ row' = row
    BY <1>1, <2>1, <2>3, SizesAssumption DEF Known, Quiet, MayFault, TypeOK, Entry
  <2> QED BY <2>2, <2>3
<1>10. ASSUME NEW q \in Runs \ {r} PROVE Bought(q)'
  <2>1. ~Active(q) /\ phase'[q] = phase[q]
    BY <1>1, <1>6, <1>10, Alone DEF Active, TypeOK
  <2> QED BY <2>1, OthersKeep DEF Placed
<1> QED BY <1>5, <1>7, <1>8, <1>9, <1>10 DEF WithinInv, Bought

\* An order is placed for the intent in hand. If its answer is lost, that was
\* the one fault and the request is on record.
LEMMA PlaceKeeps ==
  ASSUME EntryInv, OneFaultOrAnswers, NEW r \in Runs, phase[r] = "posting", Key(r) \notin DOMAIN order,
         Place(Key(r)), UNCHANGED <<todo, hand, seen, request, row>>,
         NEW p \in {"posting", "answered", "gaveup"}, phase' = [phase EXCEPT ![r] = p],
         faults' \in Nat, faults' >= faults,
         p = "answered" \/ MayFault("lost")
  PROVE  WithinInv'
<1>1. Bought(r) /\ TypeOK /\ ByTheBook /\ RowsTrue /\ hand[r] \in Intents /\ RunOf(hand[r]) = r
  BY DEF EntryInv, FundsInv, WithinInv, Tallied, Sending
<1>2. Key(r) = First(hand[r])
  BY DEF Key, KeyOf, First
<1>3. /\ \A i \in Intents : Placed(i)' <=> Placed(i) \/ i = hand[r]
      /\ \A i \in Intents : Placed(i) => i # hand[r] /\ order'[First(i)] = order[First(i)]
      /\ ByTheBook'
  BY <1>1, <1>2 DEF Place, Placed, First, ByTheBook
<1>4. RowsTrue'
  BY <1>1, <1>3 DEF RowsTrue, Placed
<1>5. RoleOf(hand[r]) \in {"entry", "buy_more"} /\ phase'[r] = p
  BY <1>1, TwoRoles DEF Roles, TypeOK
<1> USE DEF Bought, Entering, Adding, InHand, Sending
\* The request of what is sent is on record, or the one fault is used up.
<1>6. /\ request[hand[r]] # "none" \/ Quiet'
      /\ p # "answered" => request[hand[r]] # "none" /\ Quiet'
  <2>1. request[hand[r]] = "none" => faults >= 1 /\ "write" \in Faults
    BY DEF EntryInv, TracedInv, FaultInv
  <2>2. faults \in Nat /\ MaxFaults \in Nat
    BY <1>1, SizesAssumption DEF TypeOK
  <2> QED BY <2>1, <2>2 DEF OneFaultOrAnswers, MayFault, Quiet
<1>7. Staged(r)'
  BY <1>1, <1>3, <1>5, OwnNames DEF Staged
<1>8. OnlyAfter(r)'
  <2>1. \A m \in Names : hand[r] # Entry(r, m) => (Over(Entry(r, m))' <=> Over(Entry(r, m)))
    BY <1>1, <1>3, OwnNames DEF Over, Entry
  <2> QED BY <1>1, <1>3, <1>5, <2>1, OwnNames DEF OnlyAfter, Staged
<1>9. Handed(r)'
  BY <1>5, <1>6 DEF Handed, Entry
<1>10. Recorded(r)'
  BY <1>1, <1>3, <1>5, SizesAssumption, OwnNames DEF Recorded, Known, Quiet, TypeOK
<1>11. Looked(r)'
  BY <1>5 DEF Looked
<1>12. ASSUME NEW q \in Runs \ {r} PROVE Bought(q)'
  <2>1. ~Active(q) /\ phase'[q] = phase[q]
    BY <1>1, <1>12, Alone DEF Active, TypeOK
  <2>2. \A i \in Intents : RunOf(i) = q => i # hand[r]
    BY <1>1, <1>12
  <2> QED BY <1>3, <2>1, <2>2, OthersKeep
<1> QED BY <1>3, <1>4, <1>7, <1>8, <1>9, <1>10, <1>11, <1>12 DEF WithinInv, Bought

\* The broker fills, lapses or closes out: what is over stays over.
LEMMA BrokerKeepsWithin ==
  ASSUME EntryInv, NEW k \in DOMAIN order, Fill(k) \/ Lapse(k) \/ CloseOut(k)
  PROVE  WithinInv'
<1>1. UNCHANGED <<phase, hand, todo, seen, request, row, faults>> /\ DOMAIN order' = DOMAIN order
  BY DEF Fill, Lapse, CloseOut, sending, books
<1>2. \A j \in DOMAIN order :
        /\ ~order[j].open => ~order'[j].open
        /\ ~order[j].open /\ order[j].held = 0 => order'[j].held = 0
  <2>1. \A j \in DOMAIN order : order[j] \in [open : BOOLEAN, filled : 0..Target, held : 0..Target]
    BY DEF EntryInv, FundsInv, TypeOK
  <2>2. CASE Fill(k)
    BY <2>1, <2>2 DEF Fill
  <2>3. CASE Lapse(k)
    BY <2>1, <2>3 DEF Lapse
  <2>4. CASE CloseOut(k)
    BY <2>1, <2>4 DEF CloseOut
  <2> QED BY <2>2, <2>3, <2>4
<1>3. \A i \in Intents : (Placed(i)' <=> Placed(i)) /\ (Over(i) => Over(i)')
  BY <1>1, <1>2 DEF Placed, Over, First
<1>4. ByTheBook' /\ RowsTrue'
  BY <1>1, <1>2, <1>3 DEF EntryInv, WithinInv, ByTheBook, RowsTrue, Placed
<1>5. ASSUME NEW q \in Runs PROVE Bought(q)'
  <2>1. Bought(q)
    BY DEF EntryInv, WithinInv
  <2>2. \A m \in Names : /\ Placed(Entry(q, m))' <=> Placed(Entry(q, m))
                         /\ Placed(More(q, m))' <=> Placed(More(q, m))
                         /\ Over(Entry(q, m)) => Over(Entry(q, m))'
    BY <1>3, OwnNames DEF Entry, More
  <2> USE DEF Bought, Entering, Adding, InHand
  <2>3. Staged(q)' /\ OnlyAfter(q)' /\ Looked(q)'
    BY <1>1, <2>1, <2>2 DEF Staged, OnlyAfter, Looked
  <2>4. Handed(q)' /\ Recorded(q)'
    BY <1>1, <2>1, <2>2 DEF Handed, Recorded, Quiet, Known
  <2> QED BY <2>3, <2>4
<1> QED BY <1>4, <1>5 DEF WithinInv

\* Nothing of what the invariant speaks of changes.
LEMMA AsideKeeps ==
  ASSUME EntryInv, UNCHANGED <<hand, todo, seen, request, row, order, faults>>,
         \A q \in Runs : phase'[q] = phase[q] \/ (phase[q] = "idle" /\ phase'[q] = "ended")
  PROVE  WithinInv'
<1>1. ByTheBook' /\ RowsTrue'
  BY DEF EntryInv, WithinInv, ByTheBook, RowsTrue, Placed
<1>2. ASSUME NEW q \in Runs PROVE Bought(q)'
  <2>1. CASE phase'[q] = phase[q]
    BY <2>1, SameKeep DEF EntryInv, TracedInv, FaultInv
  <2>2. CASE phase[q] = "idle" /\ phase'[q] = "ended"
    <3>1. Past(q)
      BY <2>2, AtRest DEF EntryInv, WithinInv, Active
    <3>2. Past(q)'
      BY <2>2, <3>1 DEF Past, Placed, Over, Entry, More
    <3> QED BY <2>2, <3>2, AtRestNext DEF Active
  <2> QED BY <2>1, <2>2
<1> QED BY <1>1, <1>2 DEF WithinInv

\* Every step keeps it.
LEMMA WithinStep ==
  ASSUME EntryInv, OneFaultOrAnswers, [Next]_vars
  PROVE  WithinInv'
<1>1. CASE UNCHANGED vars
  BY <1>1, AsideKeeps DEF vars, sending, books
<1>2. CASE Next
  <2>1. ASSUME NEW k \in DOMAIN order, Fill(k) \/ Lapse(k) \/ CloseOut(k) PROVE WithinInv'
    BY <2>1, BrokerKeepsWithin
  <2>2. CASE LockExpires
    BY <2>2, AsideKeeps DEF LockExpires, sending, books
  <2>3. ASSUME NEW r \in Runs, NEW n \in Names,
               Skip(r, n) \/ Gate(r, n) \/ Submit(r, n) \/ BuyMore(r, n)
        PROVE  WithinInv'
    BY <2>3, SkipKeeps, GateKeeps, SubmitKeeps, BuyMoreKeeps
  <2>4. ASSUME NEW r \in Runs, Abort(r) PROVE WithinInv'
    BY <2>4, AsideKeeps DEF Abort, sending, books, EntryInv, FundsInv, TypeOK
  <2>5. ASSUME NEW r \in Runs, Accepted(r) PROVE WithinInv'
    <3>1. faults' \in Nat /\ faults' >= faults
      BY <2>5 DEF Accepted, EntryInv, TracedInv, FaultInv
    <3>2. UNCHANGED <<todo, hand, seen, request, row>>
      BY <2>5 DEF Accepted, sending, books
    <3> QED BY <2>5, <3>1, <3>2, PlaceKeeps DEF Accepted
  <2>6. ASSUME NEW r \in Runs, AnswerLost(r) PROVE WithinInv'
    <3>1. \E p \in {"posting", "answered", "gaveup"} :
             phase' = [phase EXCEPT ![r] = p]
      <4>1. phase = [phase EXCEPT ![r] = "posting"]
        BY <2>6 DEF AnswerLost, EntryInv, FundsInv, TypeOK
      <4> QED BY <2>6, <4>1 DEF AnswerLost, Again
    <3>2. faults' \in Nat /\ faults' >= faults
      BY <2>6 DEF AnswerLost, MayFault, EntryInv, TracedInv, FaultInv
    <3> QED BY <2>6, <3>1, <3>2, PlaceKeeps DEF AnswerLost, books
  <2>7. ASSUME NEW r \in Runs,
               \/ Begin(r) \/ KillSwitch(r) \/ Undelivered(r) \/ Refused(r)
               \/ RecordOrder(r) \/ RecordFailure(r)
        PROVE  WithinInv'
    BY <2>7, BeginKeeps, KillSwitchKeeps, UndeliveredKeeps, RefusedKeeps, RecordOrderKeeps,
       RecordFailureKeeps
  <2>8. ASSUME NEW r \in Runs,
               \/ AllSent(r) \/ List(r) \/ Project(r) \/ Read(r) \/ Decide(r)
               \/ Finish(r) \/ Crash(r)
        PROVE  WithinInv'
    BY <2>8, AllSentKeeps, ListKeeps, ProjectKeeps, ReadKeeps, DecideKeeps, FinishKeeps, CrashKeeps
  <2> QED BY <1>2, <2>1, <2>2, <2>3, <2>4, <2>5, <2>6, <2>7, <2>8 DEF Next
<1> QED BY <1>1, <1>2

\* It holds initially.
LEMMA WithinInit == Init => WithinInv
<1> SUFFICES ASSUME Init PROVE WithinInv
  OBVIOUS
<1>1. DOMAIN order = {} /\ \A i \in Intents : ~Placed(i) /\ row[i] = "none"
  BY DEF Init, Placed
<1>2. ByTheBook /\ RowsTrue
  BY <1>1 DEF ByTheBook, RowsTrue, Closed
<1>3. ASSUME NEW r \in Runs PROVE Bought(r)
  <2>1. phase[r] = "idle"
    BY DEF Init
  <2>2. Past(r)
    BY <1>1, OwnNames DEF Past
  <2> QED BY <2>1, <2>2, AtRest DEF Active
<1> QED BY <1>2, <1>3 DEF WithinInv

\* A run has at most two orders of a name, and of these the first is over
\* when there is a second.
LEMMA WithinHolds == ASSUME EntryInv PROVE WithinTarget
<1> SUFFICES ASSUME NEW r \in Runs, NEW n \in Names
             PROVE  SumFunction([k \in OrdersOf(r, n) |-> Exposure(order[k])]) <= Target
  BY DEF WithinTarget
<1> DEFINE S == OrdersOf(r, n)
           f == [k \in S |-> Exposure(order[k])]
           e == First(Entry(r, n))
           m == First(More(r, n))
<1>1. S \subseteq {e, m} /\ S \subseteq DOMAIN order
  <2>1. ASSUME NEW k \in S PROVE k \in {e, m}
    <3>1. k \in DOMAIN order /\ k[1] \in Intents /\ k = First(k[1]) /\ RunOf(k[1]) = r /\ NameOf(k[1]) = n
      BY DEF EntryInv, WithinInv, ByTheBook, OrdersOf
    <3>2. k[1] = Entry(r, n) \/ k[1] = More(r, n)
      BY <3>1, TwoRoles
    <3> QED BY <3>1, <3>2
  <2> QED BY <2>1 DEF OrdersOf
<1>2. \A k \in S : f[k] \in Nat /\ f[k] <= Target
  <2>1. \A k \in DOMAIN order : order[k] \in Orders
    BY DEF EntryInv, FundsInv, Solvent, Book
  <2> QED BY <1>1, <2>1, SizesAssumption DEF Orders, Exposure
<1>3. e \in S /\ m \in S => f[e] = 0
  <2> SUFFICES ASSUME e \in S, m \in S PROVE f[e] = 0
    OBVIOUS
  <2>1. Placed(Entry(r, n)) /\ Placed(More(r, n))
    BY DEF OrdersOf, Placed
  <2>2. Over(Entry(r, n))
    BY <2>1 DEF EntryInv, WithinInv, Bought, OnlyAfter
  <2> QED BY <2>1, <2>2 DEF Over, Exposure
<1>4. e # m
  BY DEF Entry, More, First
<1>5. SumFunction([k \in OrdersOf(r, n) |-> Exposure(order[k])]) = SumFunctionOnSet(f, S)
  BY DEF SumFunction
<1> HIDE DEF f, S, e, m
<1>6. IsFiniteSet(S) /\ \A k \in S : f[k] \in Int
  <2>1. IsFiniteSet({e, m})
    <3>1. IsFiniteSet({e}) /\ {e, m} = {e} \cup {m}
      BY FS_Singleton
    <3> QED BY ONLY <3>1, FS_AddElement
  <2> QED BY <1>1, <1>2, <2>1, SubsetFinite
<1>7. CASE S = {}
  BY <1>5, <1>7, SumEmpty, SizesAssumption
<1>8. ASSUME NEW k \in S, S = {k} PROVE SumFunctionOnSet(f, S) <= Target
  <2>1. S \ {k} = {}
    BY <1>8
  <2>2. SumFunctionOnSet(f, S) = f[k] + 0
    BY <1>6, <2>1, SumRemove, SumEmpty
  <2> QED BY <1>2, <2>2
<1>9. CASE S = {e, m}
  <2>1. S \ {e} = {m} /\ {m} \ {m} = {} /\ {m} \subseteq S /\ IsFiniteSet({m})
    BY <1>4, <1>6, <1>9, SubsetFinite
  <2>2. SumFunctionOnSet(f, S) = f[e] + SumFunctionOnSet(f, {m})
    BY <1>6, <1>9, <2>1, SumRemove
  <2>3. SumFunctionOnSet(f, {m}) = f[m] + 0
    BY <1>6, <1>9, <2>1, SumRemove, SumEmpty
  <2> QED BY <1>2, <1>3, <1>5, <1>9, <2>2, <2>3
<1> QED BY <1>1, <1>5, <1>7, <1>8, <1>9

\* What a run holds and has open of a name never exceeds the target, for every
\* number of runs, names, shares and tries, whatever the one thing is that goes
\* wrong, or however many but lost answers and failed writes: an order whose
\* POST failed is found by the sync before the rebalance decides.
THEOREM WithinTargetAlways ==
  ASSUME OneFaultOrAnswers
  PROVE  Spec => []WithinTarget
<1>1. Init => EntryInv
  BY TracedInit, FundsInit, WithinInit DEF EntryInv
<1>2. EntryInv /\ [Next]_vars => EntryInv'
  <2>1. OneFaultOrWrites
    BY DEF OneFaultOrAnswers, OneFaultOrWrites
  <2> QED BY <2>1, TracedStep, FundsStep, WithinStep DEF EntryInv
<1> QED BY <1>1, <1>2, WithinHolds, PTL DEF Spec
=============================================================================
