--------------------------- MODULE EntrySubmission ---------------------------
(* The execution runs of one account on one list of targets                  *)
(* (execution_engine/executor.py, execute_run): the account lock, the        *)
(* capacity reserved for each entry, the requests written before and after   *)
(* each POST, the retries, the kill switch, the final broker sync and the    *)
(* reconciliation that may buy what is missing (auto_rebalance_on_reconcile).*)
(*                                                                           *)
(* An order is known by its client id, which the broker accepts only once.   *)
(* Quantities are shares, every name is bought long in Target shares at one  *)
(* unit of money each. A run that was cut short or refused its entries is    *)
(* followed by another on the same targets. The broker lends: it takes the   *)
(* orders that the account's cash does not cover.                            *)
EXTENDS FiniteSets, Functions, Integers

CONSTANTS
  Runs, Names,   \* executions of the same targets, and the targets' symbols
  Target,        \* shares of each name
  Cash,          \* the account's settled cash
  MaxTries,      \* POSTs of one intent before giving up (transport and executor)
  MaxFails,      \* max_consecutive_failures of the kill switch
  MaxSales,      \* bound: orders whose shares are sold again
  Modes,         \* entry modes of the runs: "open", or "closed" (blocks_new_entries)
  Faults,        \* kinds of fault that may happen
  MaxFaults,     \* and how many of them
  Nobody         \* no run, no intent

Roles == {"entry", "buy_more"}
Intents == Runs \X Names \X Roles
Keys == Intents \X (1..MaxTries)
FaultKinds == {"undelivered", "lost", "write", "error", "listing", "positions", "crash"}
OpenStatuses == {"NEW", "SUBMITTED", "PARTIALLY_FILLED"}
RequestStatuses == {"none", "NEW", "SUBMITTED", "REJECTED", "FAILED"}
RowStatuses == {"none", "SUBMITTED", "PARTIALLY_FILLED", "FILLED", "CANCELED"}
Phases == {"idle", "submit", "posting", "answered", "listing", "projecting",
           "refused", "gaveup", "reading", "deciding", "rebalance", "ended", "crashed"}

ASSUME SizesAssumption ==
  /\ Target \in Nat \ {0} /\ Cash \in Nat
  /\ MaxTries \in Nat \ {0} /\ MaxFails \in Nat \ {0}
  /\ MaxSales \in Nat /\ MaxFaults \in Nat
ASSUME KindsAssumption == Modes \subseteq {"open", "closed"} /\ Faults \subseteq FaultKinds
ASSUME NobodyAssumption == Nobody \notin Runs \cup Intents

VARIABLES
  lock,      \* the account's row of execution_locks
  phase,     \* where each run is
  mode,      \* the entry mode a run was started in
  todo,      \* names a run has still to submit
  hand,      \* the intent a run is sending
  tries,     \* its POSTs so far
  fails,     \* consecutive_failures
  budget,    \* account_state.settled_cash_available
  seen,      \* names with a position, as read for the reconciliation
  request,   \* execution_order_requests: status of each intent
  row,       \* execution_broker_orders: last status written for each intent
  booked,    \* names with a position in execution_positions
  order,     \* the broker: orders by client id
  faults     \* faults so far

vars == <<lock, phase, mode, todo, hand, tries, fails, budget, seen,
          request, row, booked, order, faults>>
sending == <<hand, tries>>
books == <<request, row, booked>>

-----------------------------------------------------------------------------
(* The broker.                                                               *)

RunOf(i) == i[1]
NameOf(i) == i[2]
RoleOf(i) == i[3]

\* _submission_key: the run, the name, the role and the intent's own id; every
\* try of the intent carries the same one.
KeyOf(i, try) == <<i, 1>>

Sent(i) == {k \in DOMAIN order : k[1] = i}

\* What an order may still become, and what it came to.
Committed(o) == IF o.open THEN Target ELSE o.filled
Exposure(o) == IF o.open THEN Target ELSE o.held
Spent == SumFunction([k \in DOMAIN order |-> Committed(order[k])])
Owned == {n \in Names : \E k \in DOMAIN order : NameOf(k[1]) = n /\ order[k].held > 0}

StatusOf(o) ==
  CASE o.open /\ o.filled = 0          -> "SUBMITTED"
    [] o.open /\ o.filled > 0          -> "PARTIALLY_FILLED"
    [] ~o.open /\ o.filled = Target    -> "FILLED"
    [] ~o.open /\ o.filled < Target    -> "CANCELED"

\* At most MaxFaults of the kinds of fault the instance allows.
MayFault(kind) == kind \in Faults /\ faults < MaxFaults /\ faults' = faults + 1

Init ==
  /\ lock = Nobody /\ faults = 0
  /\ phase = [r \in Runs |-> "idle"]
  /\ mode = [r \in Runs |-> "none"]
  /\ todo = [r \in Runs |-> {}]
  /\ hand = [r \in Runs |-> Nobody]
  /\ tries = [r \in Runs |-> 0]
  /\ fails = [r \in Runs |-> 0]
  /\ budget = [r \in Runs |-> 0]
  /\ seen = [r \in Runs |-> {}]
  /\ request = [i \in Intents |-> "none"]
  /\ row = [i \in Intents |-> "none"]
  /\ booked = {}
  /\ order = <<>>

\* An open order fills a share at a time.
Fill(k) ==
  /\ order[k].open
  /\ order' = [order EXCEPT ![k] = [open |-> @.filled + 1 < Target,
                                   filled |-> @.filled + 1, held |-> @.held + 1]]
  /\ UNCHANGED <<lock, phase, mode, todo, sending, fails, budget, seen, books, faults>>

\* A day order lapses, or is canceled or rejected after it was accepted.
Lapse(k) ==
  /\ order[k].open
  /\ order' = [order EXCEPT ![k].open = FALSE]
  /\ UNCHANGED <<lock, phase, mode, todo, sending, fails, budget, seen, books, faults>>

\* The shares of a finished order are sold by its protections; those of at most
\* MaxSales orders are.
SoldOut == {k \in DOMAIN order : order[k].held < order[k].filled}

CloseOut(k) ==
  /\ ~order[k].open /\ order[k].held > 0 /\ Cardinality(SoldOut) < MaxSales
  /\ order' = [order EXCEPT ![k].held = 0]
  /\ UNCHANGED <<lock, phase, mode, todo, sending, fails, budget, seen, books, faults>>

-----------------------------------------------------------------------------
(* The run: lock, budget and entries.                                        *)

\* acquire_execution_lock, and the budget read from the broker, which is zero
\* for an account in debt. A run in a mode that blocks new entries drops all of
\* its intents.
LockFree_Unchecked == TRUE
LockFree == lock = Nobody

Begin(r) ==
  /\ phase[r] = "idle" /\ LockFree
  /\ lock' = r
  /\ phase' = [phase EXCEPT ![r] = "submit"]
  /\ \E m \in Modes :
       /\ mode' = [mode EXCEPT ![r] = m]
       /\ todo' = [todo EXCEPT ![r] = IF m = "closed" THEN {} ELSE Names]
  /\ budget' = [budget EXCEPT ![r] = IF Spent <= Cash THEN Cash - Spent ELSE 0]
  /\ UNCHANGED <<sending, fails, seen, books, order, faults>>

\* The lock is taken, there are no targets, the market is closed or the
\* broker's snapshot is invalid.
Abort(r) ==
  /\ phase[r] = "idle"
  /\ phase' = [phase EXCEPT ![r] = "ended"]
  /\ UNCHANGED <<lock, mode, todo, sending, fails, budget, seen, books, order, faults>>

\* A row left by a run that died outlives its TTL and is purged.
LockExpires ==
  /\ \E r \in Runs : lock = r /\ phase[r] = "crashed"
  /\ lock' = Nobody
  /\ UNCHANGED <<phase, mode, todo, sending, fails, budget, seen, books, order, faults>>

Affordable_Unchecked(r) == TRUE
Affordable(r) == Target <= budget[r]
Reserved(r) == [budget EXCEPT ![r] = @ - Target]

\* The best-effort write of a request: the run goes on when it fails.
Written(i, status) ==
  \/ request' = [request EXCEPT ![i] = status] /\ UNCHANGED faults
  \/ MayFault("write") /\ UNCHANGED request

\* An entry left out: its data no longer qualifies, a gap, a guard of the
\* regime, or the budget does not reach.
Skip(r, n) ==
  /\ phase[r] = "submit" /\ n \in todo[r]
  /\ todo' = [todo EXCEPT ![r] = @ \ {n}]
  /\ UNCHANGED <<lock, phase, mode, sending, fails, budget, seen, books, order, faults>>

\* The liquidity gate says no after the capacity was reserved, which is not
\* given back.
Gate(r, n) ==
  /\ phase[r] = "submit" /\ n \in todo[r] /\ Affordable(r) /\ fails[r] < MaxFails
  /\ todo' = [todo EXCEPT ![r] = @ \ {n}]
  /\ budget' = Reserved(r)
  /\ Written(<<r, n, "entry">>, "REJECTED")
  /\ UNCHANGED <<lock, phase, mode, sending, fails, seen, row, booked, order>>

\* The kill switch: the entry that was next is reserved and none is sent.
KillSwitch(r) ==
  /\ phase[r] = "submit" /\ todo[r] # {} /\ Affordable(r) /\ fails[r] >= MaxFails
  /\ todo' = [todo EXCEPT ![r] = {}]
  /\ budget' = Reserved(r)
  /\ UNCHANGED <<lock, phase, mode, sending, fails, seen, books, order, faults>>

\* The request is written as NEW before anything is sent.
Announced_Later(i) == UNCHANGED <<request, faults>>
Announced(i) == Written(i, "NEW")

Prepare(r, n, role) ==
  /\ n \in todo[r]
  /\ todo' = [todo EXCEPT ![r] = @ \ {n}]
  /\ hand' = [hand EXCEPT ![r] = <<r, n, role>>]
  /\ tries' = [tries EXCEPT ![r] = 1]
  /\ phase' = [phase EXCEPT ![r] = "posting"]
  /\ Announced(<<r, n, role>>)
  /\ UNCHANGED <<lock, mode, fails, seen, row, booked, order>>

\* An entry leaves once its price times its shares are reserved.
Submit(r, n) ==
  /\ phase[r] = "submit" /\ fails[r] < MaxFails /\ Affordable(r)
  /\ budget' = Reserved(r)
  /\ Prepare(r, n, "entry")

-----------------------------------------------------------------------------
(* One POST.                                                                 *)

Key(r) == KeyOf(hand[r], tries[r])
Open == [open |-> TRUE, filled |-> 0, held |-> 0]
Place(k) == order' = [j \in DOMAIN order \cup {k} |-> IF j = k THEN Open ELSE order[j]]

\* No answer came: the same intent is sent again until the tries are used up.
Again(r) ==
  IF tries[r] < MaxTries
    THEN tries' = [tries EXCEPT ![r] = @ + 1] /\ UNCHANGED phase
    ELSE phase' = [phase EXCEPT ![r] = "gaveup"] /\ UNCHANGED tries

Accepted(r) ==
  /\ phase[r] = "posting" /\ Key(r) \notin DOMAIN order
  /\ Place(Key(r))
  /\ phase' = [phase EXCEPT ![r] = "answered"]
  /\ UNCHANGED <<lock, mode, todo, sending, fails, budget, seen, books, faults>>

AnswerLost(r) ==
  /\ phase[r] = "posting" /\ Key(r) \notin DOMAIN order
  /\ MayFault("lost")
  /\ Place(Key(r))
  /\ Again(r)
  /\ UNCHANGED <<lock, mode, todo, hand, fails, budget, seen, books>>

Undelivered(r) ==
  /\ phase[r] = "posting" /\ MayFault("undelivered")
  /\ Again(r)
  /\ UNCHANGED <<lock, mode, todo, hand, fails, budget, seen, books, order>>

\* A 4xx ends the attempts, also the one that says the client id exists.
Refused(r) ==
  /\ phase[r] = "posting"
  /\ phase' = [phase EXCEPT ![r] = "refused"]
  /\ UNCHANGED <<lock, mode, todo, sending, fails, budget, seen, books, order, faults>>

\* Back in the loop the intent came from.
Resumes(r) == phase' = [phase EXCEPT ![r] = IF RoleOf(hand[r]) = "entry" THEN "submit" ELSE "rebalance"]

\* The answer gives the request its status and the order its row.
RecordOrder(r) ==
  /\ phase[r] = "answered"
  /\ \/ Written(hand[r], "SUBMITTED") /\ row' = [row EXCEPT ![hand[r]] = "SUBMITTED"]
     \/ MayFault("write") /\ request' = [request EXCEPT ![hand[r]] = "SUBMITTED"] /\ UNCHANGED row
  /\ fails' = [fails EXCEPT ![r] = 0]
  /\ Resumes(r)
  /\ hand' = [hand EXCEPT ![r] = Nobody] /\ tries' = [tries EXCEPT ![r] = 0]
  /\ UNCHANGED <<lock, mode, todo, budget, seen, booked, order>>

\* The failures of entries count for the kill switch, those of the rebalance
\* do not.
RecordFailure(r) ==
  /\ phase[r] \in {"refused", "gaveup"}
  /\ Written(hand[r], IF phase[r] = "refused" THEN "REJECTED" ELSE "FAILED")
  /\ fails' = [fails EXCEPT ![r] = IF RoleOf(hand[r]) = "entry" THEN @ + 1 ELSE @]
  /\ Resumes(r)
  /\ hand' = [hand EXCEPT ![r] = Nobody] /\ tries' = [tries EXCEPT ![r] = 0]
  /\ UNCHANGED <<lock, mode, todo, budget, seen, row, booked, order>>

-----------------------------------------------------------------------------
(* The broker sync, the reconciliation and the rebalance.                    *)

\* All entries are sent, the failures no longer count; polling for fills only
\* lets time pass.
AllSent(r) ==
  /\ phase[r] = "submit" /\ todo[r] = {}
  /\ phase' = [phase EXCEPT ![r] = "listing"]
  /\ fails' = [fails EXCEPT ![r] = 0]
  /\ UNCHANGED <<lock, mode, todo, sending, budget, seen, books, order, faults>>

\* sync: every listed order whose client id has a request updates its row. A
\* listing that fails counts as an empty one.
Listed == [i \in Intents |->
  IF request[i] # "none" /\ Sent(i) # {}
    THEN StatusOf(order[CHOOSE k \in Sent(i) : TRUE]) ELSE row[i]]

List(r) ==
  /\ phase[r] = "listing"
  /\ \/ row' = Listed /\ UNCHANGED faults
     \/ MayFault("listing") /\ UNCHANGED row
  /\ phase' = [phase EXCEPT ![r] = "projecting"]
  /\ UNCHANGED <<lock, mode, todo, sending, fails, budget, seen, request, booked, order>>

\* sync: the positions are read and projected; its failure is only logged.
Project(r) ==
  /\ phase[r] = "projecting"
  /\ \/ booked' = Owned /\ UNCHANGED faults
     \/ MayFault("positions") /\ UNCHANGED booked
  /\ phase' = [phase EXCEPT ![r] = "reading"]
  /\ UNCHANGED <<lock, mode, todo, sending, fails, budget, seen, request, row, order>>

Read(r) ==
  /\ phase[r] = "reading"
  /\ seen' = [seen EXCEPT ![r] = Owned]
  /\ phase' = [phase EXCEPT ![r] = "deciding"]
  /\ UNCHANGED <<lock, mode, todo, sending, fails, budget, books, order, faults>>

\* load_open_reconciliation_order_state: the broker's status where there is a
\* row, the request's otherwise.
InFlight_Requests(n) == \E i \in Intents : NameOf(i) = n /\ request[i] \in OpenStatuses
InFlight(n) == \E i \in Intents :
  /\ NameOf(i) = n /\ request[i] # "none"
  /\ (IF row[i] # "none" THEN row[i] ELSE request[i]) \in OpenStatuses

\* SAFE_AUTO. A name with shares never is: without an open stop it lacks its
\* protection, and an open stop is itself an order in flight. So what is left
\* of the target is all of it. Each name is compared with the budget alone,
\* which nothing depends on afterwards.
SafeAuto(r, n) == n \notin seen[r] \cup booked /\ ~InFlight(n) /\ Affordable(r)

Decide(r) ==
  /\ phase[r] = "deciding"
  /\ todo' = [todo EXCEPT ![r] = {n \in Names : SafeAuto(r, n)}]
  /\ seen' = [seen EXCEPT ![r] = {}]
  /\ budget' = [budget EXCEPT ![r] = 0]
  /\ phase' = [phase EXCEPT ![r] = "rebalance"]
  /\ UNCHANGED <<lock, mode, sending, fails, books, order, faults>>

\* The rebalance asks for the capacity too, but of an intent without a price:
\* its notional is zero, which always fits and takes nothing from the budget.
BuyMore(r, n) ==
  /\ phase[r] = "rebalance"
  /\ Prepare(r, n, "buy_more")
  /\ UNCHANGED budget

\* The rebalance is done, or an error outside the guarded parts. The lock goes
\* back in the finally block.
Forgets(r) ==
  /\ todo' = [todo EXCEPT ![r] = {}]
  /\ hand' = [hand EXCEPT ![r] = Nobody]
  /\ tries' = [tries EXCEPT ![r] = 0]
  /\ fails' = [fails EXCEPT ![r] = 0]
  /\ budget' = [budget EXCEPT ![r] = 0]

Finish(r) ==
  /\ \/ phase[r] = "rebalance" /\ todo[r] = {} /\ UNCHANGED faults
     \/ phase[r] = "submit" /\ MayFault("error")
     \/ phase[r] = "reading" /\ MayFault("positions")
  /\ lock' = IF lock = r THEN Nobody ELSE lock
  /\ phase' = [phase EXCEPT ![r] = "ended"]
  /\ Forgets(r) /\ UNCHANGED <<mode, seen, books, order>>

Crash(r) ==
  /\ phase[r] \notin {"idle", "ended", "crashed"} /\ MayFault("crash")
  /\ phase' = [phase EXCEPT ![r] = "crashed"]
  /\ seen' = [seen EXCEPT ![r] = {}]
  /\ Forgets(r) /\ UNCHANGED <<lock, mode, books, order>>

Next ==
  \/ \E k \in DOMAIN order : Fill(k) \/ Lapse(k) \/ CloseOut(k)
  \/ LockExpires
  \/ \E r \in Runs :
       \/ Begin(r) \/ Abort(r) \/ KillSwitch(r)
       \/ \E n \in Names : Skip(r, n) \/ Gate(r, n) \/ Submit(r, n) \/ BuyMore(r, n)
       \/ Accepted(r) \/ AnswerLost(r) \/ Undelivered(r) \/ Refused(r)
       \/ RecordOrder(r) \/ RecordFailure(r)
       \/ AllSent(r) \/ List(r) \/ Project(r) \/ Read(r) \/ Decide(r)
       \/ Finish(r) \/ Crash(r)

Spec == Init /\ [][Next]_vars

-----------------------------------------------------------------------------
(* Properties.                                                               *)

TypeOK ==
  /\ lock \in Runs \cup {Nobody}
  /\ phase \in [Runs -> Phases]
  /\ mode \in [Runs -> Modes \cup {"none"}]
  /\ todo \in [Runs -> SUBSET Names]
  /\ hand \in [Runs -> Intents \cup {Nobody}]
  /\ tries \in [Runs -> 0..MaxTries]
  /\ fails \in [Runs -> 0..MaxFails]
  /\ budget \in [Runs -> 0..Cash]
  /\ seen \in [Runs -> SUBSET Names]
  /\ request \in [Intents -> RequestStatuses]
  /\ row \in [Intents -> RowStatuses]
  /\ booked \subseteq Names
  /\ DOMAIN order \subseteq Keys
  /\ \A k \in DOMAIN order :
       order[k] \in [open : BOOLEAN, filled : 0..Target, held : 0..Target]
  /\ faults \in 0..MaxFaults

OrdersOf(r, n) == {k \in DOMAIN order : RunOf(k[1]) = r /\ NameOf(k[1]) = n}

\* However its answers, writes and readings fail, what one run holds and has
\* open of a name never exceeds the target: an order that lives although its
\* POST failed is not bought again by a retry or by the rebalance.
WithinTarget == \A r \in Runs, n \in Names :
  SumFunction([k \in OrdersOf(r, n) |-> Exposure(order[k])]) <= Target

\* Every order at the broker has a request on record, unless the run that sent
\* it still has it in hand: a crash leaves nothing the next sync cannot match.
Traced == \A k \in DOMAIN order :
  request[k[1]] = "none" =>
    hand[RunOf(k[1])] = k[1] /\ phase[RunOf(k[1])] # "crashed"

\* No run sends an entry that the cash does not cover, whatever the orders of
\* the other runs and their rebalances have already taken: the lock keeps a run
\* from reading a budget that another has reserved and not yet spent.
EntriesInFunds == [][\A k \in DOMAIN order' \ DOMAIN order :
                       RoleOf(k[1]) = "entry" => Spent' <= Cash]_vars

\* doc/execution/reconciliation_et_tca.md:41, the rebalance is blocked when the
\* buying power does not suffice: all the orders together stay within the cash.
InFunds == Spent <= Cash

\* execution_engine/config.py:441 of blocks_new_entries: the mode forbids the
\* opening of new positions.
ClosedOpensNothing == \A k \in DOMAIN order : mode[RunOf(k[1])] # "closed"
=============================================================================
