----------------------- MODULE DirectionalStopsProofs -----------------------
(***************************************************************************)
(* What the protections of a directional position guarantee for any        *)
(* quantity, any number of ids and any faults but two, when the position   *)
(* is a long one: has_open_exit_order_for_symbol does not see the exit of  *)
(* a short, a masked refusal closes the request of a live order, and so    *)
(* does a status the code does not know.                                   *)
(*                                                                         *)
(* The argument: a request is recorded before it is sent and closed only   *)
(* by an order that has ended, so an order that works has a pending        *)
(* request; a request is made only when none is pending; so there is one.  *)
(***************************************************************************)
EXTENDS DirectionalStops, TLAPS

Legible == ~Short /\ "masked" \notin Faults /\ "status" \notin Faults

InExit == pc = "clear" \/ (pc \in {"ask", "confirm"} /\ task \in {"moo", "late"})

Single == \A i, j \in Ids : Pending(i) /\ Pending(j) => i = j

Shares == \A i \in Ids :
  /\ order[i].at \in Live \cup {"canceled"} => order[i].left > 0
  /\ Working(i) => order[i].left <= held

Overs == \A i \in Ids : row[i] = "over" => Over(i)

\* What the process at work relies on, at each place of its cycle.
Hand ==
  /\ pc = "child" => held = Qty /\ \A i \in Ids : ~Pending(i)
  /\ pc = "post" => /\ cur \in Ids /\ qty \in 1 .. held /\ row[cur] \in {"new", "over"}
                    /\ \A i \in Ids : Working(i) \/ Pending(i) => i = cur
                    /\ ~Working(cur) /\ (task = "trail" => cur \in Trails)
  /\ pc = "position" => qty > 0 /\ \A i \in Ids : ~Pending(i)
  /\ pc \in {"ask", "confirm"} => cur \in Slots /\ Pending(cur)
  /\ pc = "verify" => cur \in Trails /\ Pending(cur)
  /\ pc = "clear" => task \in {"moo", "late"}
  /\ pc = "arm" => task \in {"arm", "rearm", "loose"}
  /\ InExit => known > 0 /\ todo = Children /\ todo \subseteq Slots

IInv == TypeOK /\ NoBlindOrder /\ Single /\ Shares /\ Overs /\ Hand /\ ExitStands

(***************************************************************************)
(* The invariant holds of a filled entry before its first stop.            *)
(***************************************************************************)
LEMMA InitInv == Init => IInv
  BY ConstantsAssumption DEF Init, IInv, TypeOK, NoBlindOrder, Single, Shares, Overs, Over, Hand,
     ExitStands, Working, Pending, Children, InExit, Blank, Live, Ended, Places, Tasks, Ids, Slots, Exits,
     Records, Statuses


(***************************************************************************)
(* The closing of a row and the acceptance of an order give records of the *)
(* right type.                                                             *)
(***************************************************************************)
LEMMA ClosedTypes ==
  ASSUME order \in [Ids -> Records], NEW i \in Ids
  PROVE  ClosedOrder(i) \in Records /\ ClosedRow(i) \in Statuses
<1>1. Blank \in Records
  BY ConstantsAssumption DEF Blank, Records
<1> QED BY <1>1 DEF ClosedOrder, ClosedRow, Statuses

(***************************************************************************)
(* An accepted order is for at most the shares of the entry.               *)
(***************************************************************************)
LEMMA NewType ==
  ASSUME qty \in 0 .. Qty
  PROVE  New \in Records
BY DEF New, Records, Live

(***************************************************************************)
(* Every step keeps the types of the variables.                            *)
(***************************************************************************)
LEMMA TypeStep ==
  ASSUME IInv, [Next]_vars
  PROVE  TypeOK'
<1> USE ConstantsAssumption DEF IInv, TypeOK, Places, Tasks, market, cycle
<1> USE DEF Fault, May, NoFault, Goto, Idle, StartArm
<1>t. order \in [Ids -> Records] /\ row \in [Ids -> Statuses]
  BY DEF Records, Statuses
<1>u. {"moo", "late", "breach"} \subseteq Ids /\ Stops \subseteq Ids /\ Trails \subseteq Ids
      /\ Slots \subseteq Ids
  BY DEF Ids, Exits, Slots
<1>3. \A n \in 0 .. Qty : Take(n) \in 0 .. Qty
  BY DEF Take, Least
<1>1. CASE UNCHANGED vars
  BY <1>1 DEF vars
<1>r. ASSUME NEW i \in Ids, NEW n \in 0 .. Qty, NEW what \in Tasks, Request(i, n, what), NoFault
      PROVE  TypeOK'
  BY <1>r DEF Request, Reserved, Statuses
<1>4. CASE SubmitChild \/ Promote \/ ArmStop \/ Sell
  <2>1. CASE SubmitChild
    BY <2>1, <1>r, <1>u DEF SubmitChild
  <2>2. CASE Promote
    BY <2>2, <1>r, <1>u, <1>3 DEF Promote
  <2>3. CASE ArmStop
    BY <2>3, <1>r, <1>u, <1>3 DEF ArmStop
  <2>4. CASE Sell
    BY <2>4, <1>r, <1>u, <1>3 DEF Sell, ExitId, Hand
  <2> QED BY <1>4, <2>1, <2>2, <2>3, <2>4
<1>5. CASE Post
  <2>1. pc = "post" /\ cur \in Ids
    BY <1>5 DEF Post, Accepted, AnswerLost, Undelivered, Refused, Duplicate, Hand
  <2>2. pc' \in Places /\ task' \in Tasks /\ cur' \in Ids \cup {"none"} /\ qty' \in 0 .. Qty
        /\ todo' \subseteq Ids
    BY <1>5, <2>1 DEF Post, Accepted, AnswerLost, Undelivered, Refused, Duplicate,
       AfterSuccess, AfterFailure
  <2>3. faults' \in 0 .. MaxFaults /\ UNCHANGED <<market, known>>
    BY <1>5 DEF Post, Accepted, AnswerLost, Undelivered, Refused, Duplicate
  <2>4. row' \in [Ids -> Statuses]
    BY <1>5, <1>t DEF Post, Accepted, AnswerLost, Undelivered, Refused, Duplicate, Statuses
  <2>5. order' \in [Ids -> Records]
    <3>1. order' = order \/ Sent
      BY <1>5 DEF Post, Accepted, AnswerLost, Undelivered, Refused, Duplicate
    <3> QED BY <3>1, <1>t, NewType DEF Sent
  <2> QED BY <2>2, <2>3, <2>4, <2>5 DEF Records, Statuses
<1>6. CASE Sync \/ SyncFails
  <2>1. CASE SyncFails
    BY <2>1 DEF SyncFails
  <2>2. CASE Sync
    <3>1. order' \in [Ids -> Records] /\ row' \in [Ids -> Statuses]
      BY <2>2, <1>t, ClosedTypes DEF Sync, Statuses
    <3>2. faults' \in 0 .. MaxFaults
      BY <2>2 DEF Sync
    <3> QED BY <2>2, <3>1, <3>2 DEF Sync, Records, Statuses
  <2> QED BY <1>6, <2>1, <2>2
<1>c. ASSUME NEW i \in Ids, Close(i) PROVE order' \in [Ids -> Records] /\ row' \in [Ids -> Statuses]
  BY <1>c, <1>t, ClosedTypes DEF Close
<1>7. CASE NoItem \/ ProcessItem
  <2>1. CASE NoItem
    BY <2>1 DEF NoItem
  <2>2. ASSUME NEW i \in Stops, Settled(i) \/ Early(i) \/ Triggered(i), ProcessItem PROVE TypeOK'
    <3>1. order' \in [Ids -> Records] /\ row' \in [Ids -> Statuses]
      BY <2>2, <1>c, <1>t, <1>u DEF Settled, Early, Triggered
    <3> QED BY <2>2, <3>1, <1>u DEF ProcessItem, Settled, Early, Triggered, Records, Statuses
  <2> QED BY <1>7, <2>1, <2>2 DEF ProcessItem
<1>8. CASE Cancel \/ CancelPending \/ CancelRefused
  <2>1. cur \in Ids
    BY <1>8, <1>u DEF Cancel, CancelPending, CancelRefused, Hand
  <2>2. order' \in [Ids -> Records]
    <3>1. \A at \in {"canceled", "ending"} : [order[cur] EXCEPT !.at = at] \in Records
      BY <2>1, <1>t DEF Records, Live, Ended
    <3>2. CASE Cancel
      BY <3>1, <3>2, <2>1, <1>t DEF Cancel
    <3>3. CASE CancelPending
      BY <3>1, <3>3, <2>1, <1>t DEF CancelPending
    <3> QED BY <1>8, <1>t, <3>2, <3>3 DEF CancelRefused
  <2> QED BY <1>8, <2>2 DEF Cancel, CancelPending, CancelRefused, Raised
<1>9. CASE Removed \/ NotRemoved \/ Cleared \/ NotCleared
  <2>1. cur \in Ids
    BY <1>9, <1>u DEF Removed, NotRemoved, Cleared, NotCleared, Hand
  <2>2. order' \in [Ids -> Records] /\ row' \in [Ids -> Statuses]
    BY <1>9, <2>1, <1>c, <1>t DEF Removed, NotRemoved, Cleared, NotCleared
  <2>3. order[cur].left \in 0 .. Qty
    BY <2>1 DEF Records
  <2> QED BY <1>9, <2>1, <2>2, <2>3 DEF Removed, NotRemoved, Cleared, NotCleared, Records, Statuses
<1>10. CASE FellBack \/ PromoteNothing \/ Verified \/ TooLoose \/ ArmNothing
  BY <1>10, <1>3 DEF FellBack, PromoteNothing, Verified, TooLoose, ArmNothing, NoPosition, Leave
<1>11. CASE NoExit \/ BeginExit \/ ClearNext \/ SellNothing
  BY <1>11 DEF NoExit, BeginExit, ClearNext, SellNothing, NoPosition, Children
<1>12. CASE World
  <2>1. ASSUME NEW i \in Ids, Fill(i) PROVE TypeOK'
    <3>1. order[i].left \in 1 .. Qty /\ order[i].left <= held /\ order[i] \in Records
      BY <2>1 DEF Fill, Shares, Working, Records
    <3>2. order'[i] \in Records /\ held' \in 0 .. Qty
      <4>1. OneFilled(order[i]) \in Records
        BY <3>1 DEF OneFilled, Records, Live, Ended
      <4> QED BY <2>1, <3>1, <4>1 DEF Fill
    <3> QED BY <2>1, <3>2 DEF Fill
  <2>2. ASSUME NEW i \in Ids, CancelLands(i) \/ Expire(i) PROVE TypeOK'
    <3>1. order'[i] \in Records
      BY <2>2 DEF CancelLands, Expire, Records, Live, Ended
    <3> QED BY <2>2, <3>1 DEF CancelLands, Expire
  <2>3. CASE PriceMoves \/ TimePasses \/ Crash
    BY <2>3 DEF PriceMoves, TimePasses, Crash
  <2> QED BY <1>12, <2>1, <2>2, <2>3 DEF World
<1> QED BY <1>1, <1>4, <1>5, <1>6, <1>7, <1>8, <1>9, <1>10, <1>11, <1>12
     DEF Next, Work, Promotion, Exit

Books == NoBlindOrder /\ Single /\ Shares /\ Overs /\ ExitStands

(***************************************************************************)
(* When neither an exit nor a stop is open nothing is pending, and then no *)
(* order works.                                                            *)
(***************************************************************************)
LEMMA NothingOpen ==
  ASSUME ~Short, ~OpenExit, ~OpenStop
  PROVE  \A i \in Ids : ~Pending(i)
BY DEF OpenExit, OpenStop, Ids

(***************************************************************************)
(* A request made when nothing is pending, for some of the shares held, is *)
(* the only one.                                                           *)
(***************************************************************************)
LEMMA RequestStep ==
  ASSUME IInv, NEW i \in Ids, NEW n \in 1 .. held, NEW what, Request(i, n, what),
         what = "trail" => i \in Trails,
         \A j \in Ids : ~Pending(j)
  PROVE  Books' /\ Hand'
<1>1. \A j \in Ids : ~Working(j)
  BY DEF IInv, NoBlindOrder
<1>2. \A j \in Ids : Pending(j)' => j = i
  BY DEF Request, Pending, IInv, TypeOK
<1>3. UNCHANGED <<order, held>> /\ pc' = "post" /\ cur' = i /\ qty' = n
  BY DEF Request, market
<1>4. Books'
  <2>1. \A j \in Ids : row'[j] = "over" => row[j] = "over"
    BY DEF Request, Reserved, IInv, TypeOK
  <2> QED BY <1>1, <1>2, <1>3, <2>1
      DEF IInv, Books, NoBlindOrder, Single, Shares, Overs, Over, ExitStands, Working
<1>5. Hand'
  <2>1. row'[i] \in {"new", "over"} /\ task' = what
    BY DEF Request, Reserved, IInv, TypeOK
  <2> QED BY <1>1, <1>2, <1>3, <2>1 DEF Hand, InExit, Working
<1> QED BY <1>4, <1>5

(***************************************************************************)
(* Closing the row of an order that has ended leaves the others as they    *)
(* are.                                                                    *)
(***************************************************************************)
LEMMA CloseStep ==
  ASSUME IInv, NEW i \in Ids, Over(i), Close(i), UNCHANGED held
  PROVE  Books' /\ \A j \in Ids : Pending(j)' <=> Pending(j) /\ j # i
<1> USE DEF IInv, TypeOK
<1>1. \A j \in Ids : Pending(j)' <=> Pending(j) /\ j # i
  BY DEF Close, ClosedRow, Pending
<1>2. ~Working(i)
  BY DEF Over, Working, Live, Ended
<1>3. \A j \in Ids : order'[j] = order[j] \/ order'[j] = Blank
  BY DEF Close, ClosedOrder
<1>4. \A j \in Ids : Working(j)' => Working(j) /\ order'[j] = order[j] /\ j # i
  <2>1. TAKE j \in Ids
  <2>2. CASE order'[j] = Blank
    BY <2>2 DEF Working, Blank, Live
  <2>3. CASE order'[j] = order[j]
    BY <2>3, <1>2 DEF Working
  <2> QED BY <1>3, <2>2, <2>3
<1>5. Shares' /\ ExitStands'
  BY <1>3, <1>4 DEF Shares, ExitStands, Blank, Live, Exits, Ids, Working
<1>6. Overs'
  BY DEF Close, ClosedRow, ClosedOrder, Overs, Over
<1> QED BY <1>1, <1>4, <1>5, <1>6 DEF Books, NoBlindOrder, Single

(***************************************************************************)
(* A step that changes neither orders, rows nor shares keeps the books.    *)
(***************************************************************************)
LEMMA SameBooks ==
  ASSUME IInv, UNCHANGED <<held, order, row>>
  PROVE  Books' /\ \A j \in Ids : Pending(j)' <=> Pending(j)
BY DEF IInv, Books, NoBlindOrder, Single, Shares, Overs, Over, ExitStands, Working, Pending

(***************************************************************************)
(* Orders, requests and shares still agree after a request was sent,       *)
(* whatever became of it.                                                  *)
(***************************************************************************)
LEMMA PostStep ==
  ASSUME IInv, Legible, Post
  PROVE  Books' /\ Hand'
<1> USE DEF IInv, TypeOK
<1>1. /\ pc = "post" /\ cur \in Ids /\ qty \in 1 .. held /\ ~Working(cur)
      /\ row[cur] \in {"new", "over"} /\ (task = "trail" => cur \in Trails)
      /\ \A i \in Ids : Working(i) \/ Pending(i) => i = cur
  BY DEF Post, Accepted, AnswerLost, Undelivered, Refused, Duplicate, Hand
<1>2. \A i \in Ids : ~Working(i)
  BY <1>1
<1>3. held' = held
  BY DEF Post, Accepted, AnswerLost, Undelivered, Refused, Duplicate, market
<1>4. /\ \A i \in Ids : Pending(i)' => i = cur
      /\ \A i \in Ids : row'[i] = "over" => row[i] = "over"
  BY <1>1 DEF Post, Accepted, AnswerLost, Undelivered, Refused, Duplicate, Pending
<1>5. \/ order' = order
      \/ order' = [order EXCEPT ![cur] = New] /\ row'[cur] \in {"new", "open"}
  <2>1. CASE Accepted
    BY <2>1, <1>1 DEF Accepted, Sent
  <2>2. CASE AnswerLost
    BY <2>2, <1>1 DEF AnswerLost, Sent, Overs, Over, Unused, Ended
  <2>3. CASE Undelivered \/ Refused \/ Duplicate
    BY <2>3 DEF Undelivered, Refused, Duplicate, Fault, May, Legible
  <2> QED BY <2>1, <2>2, <2>3 DEF Post
<1>6. Books'
  <2>1. CASE order' = order
    BY <2>1, <1>2, <1>3, <1>4 DEF Books, NoBlindOrder, Single, Shares, Overs, Over, ExitStands, Working
  <2>2. CASE order' = [order EXCEPT ![cur] = New] /\ row'[cur] \in {"new", "open"}
    <3>1. order'[cur].at = "open" /\ order'[cur].left = qty
      BY <2>2, <1>1 DEF New
    <3>2. \A i \in Ids : i # cur => order'[i] = order[i]
      BY <2>2
    <3>3. NoBlindOrder' /\ Single' /\ Overs'
      BY <2>2, <3>2, <1>2, <1>4
         DEF NoBlindOrder, Single, Overs, Over, Working, Pending
    <3>4. Shares' /\ ExitStands'
      BY <3>1, <3>2, <1>1, <1>2, <1>3 DEF Shares, ExitStands, Working, Live, Ids
    <3> QED BY <3>3, <3>4 DEF Books
  <2> QED BY <1>5, <2>1, <2>2
<1>7. Hand'
  <2>1. CASE Accepted /\ task = "trail"
    <3>1. pc' = "verify" /\ cur' = cur /\ row'[cur] = "open"
      BY <2>1, <1>1 DEF Accepted, AfterSuccess, Goto
    <3> QED BY <3>1, <1>1, <2>1 DEF Hand, InExit, Pending
  <2>2. CASE ~(Accepted /\ task = "trail")
    BY <2>2 DEF Post, Accepted, AnswerLost, Undelivered, Refused, Duplicate,
       AfterSuccess, AfterFailure, Goto, Idle, StartArm, Hand, InExit
  <2> QED BY <2>1, <2>2
<1> QED BY <1>6, <1>7

(***************************************************************************)
(* A sync, which writes what it sees of every order, keeps the books.      *)
(***************************************************************************)
LEMMA SyncStep ==
  ASSUME IInv, Legible, Sync \/ SyncFails
  PROVE  Books' /\ Hand'
<1>1. CASE SyncFails
  BY <1>1, SameBooks DEF SyncFails, market, Goto, Hand, InExit
<1>2. CASE Sync
  <2> USE DEF IInv, TypeOK
  <2>0. row' = [i \in Ids |-> IF Over(i) THEN ClosedRow(i)
                             ELSE IF Working(i) THEN "open" ELSE row[i]]
    BY <1>2 DEF Sync, Misread, May, Legible
  <2>1. \A i \in Ids : /\ Working(i)' => Working(i) /\ order'[i] = order[i]
                       /\ Working(i) => Pending(i)'
                       /\ Pending(i)' => Pending(i)
    BY <1>2, <2>0 DEF Sync, Over, Working, Pending, ClosedOrder, ClosedRow, Blank, Live, Ended,
       NoBlindOrder
  <2>2. \A i \in Ids : order'[i] = order[i] \/ order'[i] = Blank
    BY <1>2 DEF Sync, ClosedOrder
  <2>3. Overs'
    BY <1>2, <2>0 DEF Sync, Overs, Over, ClosedOrder, ClosedRow
  <2>4. Shares' /\ ExitStands'
    <3>1. held' = held
      BY <1>2 DEF Sync, market
    <3>2. Shares'
      <4>1. ASSUME NEW i \in Ids
            PROVE  /\ order'[i].at \in Live \cup {"canceled"} => order'[i].left > 0
                   /\ Working(i)' => order'[i].left <= held'
        <5>1. CASE order'[i] = Blank
          BY <5>1 DEF Blank, Working, Live
        <5>2. CASE order'[i] = order[i]
          BY <5>2, <3>1 DEF Shares, Working
        <5> QED BY <2>2, <5>1, <5>2
      <4> QED BY <4>1 DEF Shares
    <3>3. ExitStands'
      BY <2>2 DEF ExitStands, Blank, Ids
    <3> QED BY <3>2, <3>3
  <2>5. NoBlindOrder' /\ Single'
    BY <2>1 DEF NoBlindOrder, Single
  <2>6. Hand'
    BY <1>2 DEF Sync, Goto, Hand, InExit
  <2> QED BY <2>3, <2>4, <2>5, <2>6 DEF Books
<1> QED BY <1>1, <1>2

(***************************************************************************)
(* The promotion of a stop keeps the books: a trailing stop is requested   *)
(* only once the stop's order has ended.                                   *)
(***************************************************************************)
LEMMA PromotionStep ==
  ASSUME IInv, Promotion
  PROVE  Books' /\ Hand'
<1> USE DEF IInv
<1>u. Stops \subseteq Ids /\ Trails \subseteq Ids /\ Slots \subseteq Ids /\ Stops \subseteq Slots
      /\ Trails \subseteq Slots
  BY DEF Ids, Slots
<1>1. CASE NoItem \/ PromoteNothing \/ Verified
  BY <1>1, SameBooks DEF NoItem, PromoteNothing, Verified, market, StartArm, Hand, InExit
<1>2. CASE TooLoose
  <2>1. Books' /\ \A j \in Ids : Pending(j)' <=> Pending(j)
    BY <1>2, SameBooks DEF TooLoose, market
  <2> QED BY <1>2, <2>1, <1>u DEF TooLoose, Goto, Hand, InExit, Pending
<1>3. CASE ProcessItem
  <2>1. PICK i \in Stops : Settled(i) \/ Early(i) \/ Triggered(i)
    BY <1>3 DEF ProcessItem
  <2>2. CASE Settled(i)
    BY <1>3, <2>2, <1>u, CloseStep DEF ProcessItem, Settled, market, StartArm, Hand, InExit
  <2>3. CASE Early(i)
    BY <1>3, <2>3, SameBooks DEF ProcessItem, Early, market, StartArm, Hand, InExit
  <2>4. CASE Triggered(i)
    <3>1. Books' /\ \A j \in Ids : Pending(j)' <=> Pending(j)
      BY <1>3, <2>4, SameBooks DEF ProcessItem, Triggered, market
    <3> QED BY <2>4, <3>1, <1>u DEF Triggered, Item, Hand, InExit, Pending
  <2> QED BY <2>1, <2>2, <2>3, <2>4
<1>4. CASE CancelRefused
  BY <1>4, SameBooks DEF CancelRefused, Raised, market, StartArm, Idle, Hand, InExit
<1>5. CASE Cancel \/ CancelPending
  <2> USE DEF TypeOK
  <2>1. cur \in Slots /\ Pending(cur) /\ Working(cur) /\ pc = "ask"
    BY <1>5 DEF Cancel, CancelPending, Hand
  <2>2. PICK at \in {"canceled", "ending"} : order' = [order EXCEPT ![cur].at = at]
    BY <1>5 DEF Cancel, CancelPending
  <2>3. \A i \in Ids : i # cur => order'[i] = order[i]
    BY <2>2
  <2>4. order'[cur].at = at /\ order'[cur].left = order[cur].left
    BY <2>1, <2>2, <1>u DEF Records
  <2>5. UNCHANGED <<row, held, known, cur, todo, task>> /\ pc' = "confirm"
    BY <1>5 DEF Cancel, CancelPending, Goto, market
  <2>6. cur \notin Exits /\ cur \in Ids
    BY <2>1, <1>u, ConstantsAssumption
  <2>7. NoBlindOrder' /\ Single'
    BY <2>1, <2>3, <2>5 DEF NoBlindOrder, Single, Pending, Working
  <2>8. Shares' /\ ExitStands'
    BY <2>1, <2>3, <2>4, <2>5, <2>6 DEF Shares, ExitStands, Working, Live, Ids
  <2>9. Overs'
    BY <2>1, <2>3, <2>5 DEF Overs, Over, Pending
  <2>10. Hand'
    BY <2>1, <2>5 DEF Hand, InExit, Children, Pending
  <2> QED BY <2>7, <2>8, <2>9, <2>10 DEF Books
<1>6. CASE Removed
  <2>1. cur \in Ids /\ Over(cur) /\ Close(cur) /\ UNCHANGED held /\ Pending(cur) /\ order[cur].left > 0
    BY <1>6, <1>u DEF Removed, market, Over, Ended, Hand, Shares
  <2>2. Books' /\ \A j \in Ids : Pending(j)' <=> Pending(j) /\ j # cur
    BY <2>1, CloseStep
  <2>3. \A j \in Ids : ~Pending(j)'
    BY <2>1, <2>2 DEF Single
  <2> QED BY <1>6, <2>1, <2>2, <2>3 DEF Removed, Hand, InExit
<1>7. CASE NotRemoved
  <2>1. CASE Over(cur)
    <3>1. cur \in Ids /\ Close(cur) /\ UNCHANGED held
      BY <1>7, <2>1, <1>u DEF NotRemoved, market, Hand
    <3> QED BY <1>7, <2>1, <3>1, CloseStep DEF NotRemoved, StartArm, Hand, InExit
  <2>2. CASE ~Over(cur)
    BY <1>7, <2>2, SameBooks DEF NotRemoved, market, StartArm, Hand, InExit
  <2> QED BY <2>1, <2>2
<1>8. CASE Promote
  <2>1. PICK t \in Trails : Request(t, Take(qty), "trail")
    BY <1>8 DEF Promote
  <2>2. Take(qty) \in 1 .. held /\ \A j \in Ids : ~Pending(j)
    BY <1>8 DEF Promote, Take, Least, Hand, TypeOK
  <2> QED BY <2>1, <2>2, <1>u, RequestStep
<1>9. CASE FellBack
  BY <1>9, SameBooks DEF FellBack, market, Hand, InExit
<1> QED BY <1>1, <1>2, <1>3, <1>4, <1>5, <1>6, <1>7, <1>8, <1>9 DEF Promotion

(***************************************************************************)
(* A first stop, and one that is missing, is sent only if nothing else is. *)
(***************************************************************************)
LEMMA ArmStep ==
  ASSUME IInv, ~Short, SubmitChild \/ ArmNothing \/ ArmStop
  PROVE  Books' /\ Hand'
<1> USE DEF IInv
<1>1. CASE SubmitChild
  <2>1. PICK i \in Stops : Request(i, Qty, "child")
    BY <1>1 DEF SubmitChild
  <2>2. Qty \in 1 .. held /\ \A j \in Ids : ~Pending(j)
    BY <1>1, ConstantsAssumption DEF SubmitChild, Hand, TypeOK
  <2> QED BY <2>1, <2>2, RequestStep DEF Ids, Slots
<1>2. CASE ArmNothing
  BY <1>2, SameBooks DEF ArmNothing, Leave, Goto, StartArm, market, Hand, InExit
<1>3. CASE ArmStop
  <2>1. Take(qty) \in 1 .. held /\ \A j \in Ids : ~Pending(j)
    BY <1>3, NothingOpen DEF ArmStop, Wanted, Take, Least, TypeOK
  <2>2. PICK i \in Stops \cup {"breach"} : Request(i, Take(qty), task)
    BY <1>3 DEF ArmStop
  <2>3. task # "trail"
    BY <1>3 DEF ArmStop, Hand
  <2> QED BY <2>1, <2>2, <2>3, RequestStep DEF Ids, Slots, Exits
<1> QED BY <1>1, <1>2, <1>3

(***************************************************************************)
(* The exit is sent only once every child has ended.                       *)
(***************************************************************************)
LEMMA ExitStep ==
  ASSUME IInv, ~Short, Exit
  PROVE  Books' /\ Hand'
<1> USE DEF IInv
<1>1. CASE NoExit \/ NotCleared \/ SellNothing
  BY <1>1, SameBooks DEF NoExit, NotCleared, SellNothing, Idle, market, Hand, InExit
<1>2. CASE BeginExit
  <2>1. Books' /\ \A j \in Ids : Pending(j)' <=> Pending(j)
    BY <1>2, SameBooks DEF BeginExit, market
  <2>2. Children' = Children /\ Children \subseteq Slots
    BY <1>2, <2>1 DEF BeginExit, OpenExit, Children, Ids
  <2> QED BY <1>2, <2>1, <2>2 DEF BeginExit, Hand, InExit, TypeOK
<1>3. CASE ClearNext
  <2>1. Books' /\ \A j \in Ids : Pending(j)' <=> Pending(j)
    BY <1>3, SameBooks DEF ClearNext, market
  <2>2. Children' = Children /\ known' = known
    BY <1>3, <2>1 DEF ClearNext, Children
  <2>3. pc = "clear"
    BY <1>3 DEF ClearNext
  <2>4. CASE Idle
    BY <2>1, <2>4 DEF Idle, Hand, InExit
  <2>5. CASE ~Idle
    <3>1. PICK i \in todo : pc' = "ask" /\ cur' = i /\ UNCHANGED <<task, qty, todo, row>>
      BY <1>3, <2>5 DEF ClearNext
    <3>2. i \in Slots /\ i \in Children
      BY <2>3 DEF Hand, InExit
    <3> QED BY <2>1, <2>2, <2>3, <3>1, <3>2 DEF Hand, InExit, Children, Pending
  <2> QED BY <2>4, <2>5
<1>4. CASE Cleared
  <2>1. cur \in Ids /\ Over(cur) /\ Close(cur) /\ UNCHANGED held
    BY <1>4 DEF Cleared, market, Over, Ended, Hand, Ids
  <2>2. Books' /\ \A j \in Ids : Pending(j)' <=> Pending(j) /\ j # cur
    BY <2>1, CloseStep
  <2>3. Children' = Children \ {cur}
    BY <2>2 DEF Children
  <2> QED BY <1>4, <2>2, <2>3 DEF Cleared, Hand, InExit
<1>5. CASE Sell
  <2>1. Take(known) \in 1 .. held /\ \A j \in Ids : ~Pending(j)
    BY <1>5 DEF Sell, Take, Least, TypeOK, Hand, InExit, Children
  <2>2. ExitId(task) \in Ids /\ task # "trail"
    BY <1>5 DEF Sell, ExitId, Hand, Ids, Exits
  <2> QED BY <1>5, <2>1, <2>2, RequestStep DEF Sell
<1> QED BY <1>1, <1>2, <1>3, <1>4, <1>5 DEF Exit

(***************************************************************************)
(* The market, the calendar and a crash keep the books.                    *)
(***************************************************************************)
LEMMA WorldStep ==
  ASSUME IInv, World
  PROVE  Books' /\ Hand'
<1> USE DEF IInv, TypeOK
<1>1. ASSUME NEW i \in Ids, Fill(i) PROVE Books' /\ Hand'
  <2>1. /\ Working(i) /\ Pending(i) /\ order[i].left > 0 /\ order[i].left <= held /\ held' = held - 1
        /\ UNCHANGED <<row, known, cycle>>
    BY <1>1 DEF Fill, Shares, NoBlindOrder, Working
  <2>2. order'[i] = OneFilled(order[i]) /\ \A j \in Ids : j # i => order'[j] = order[j]
    BY <1>1 DEF Fill
  <2>3. /\ order'[i].left = order[i].left - 1
        /\ order'[i].at = IF order[i].left = 1 THEN "filled" ELSE order[i].at
    BY <2>2 DEF OneFilled
  <2>4. \A j \in Ids : Working(j) => j = i
    BY <2>1 DEF NoBlindOrder, Single
  <2>5. NoBlindOrder' /\ Single' /\ Overs'
    BY <2>1, <2>2, <2>3, <2>4 DEF NoBlindOrder, Single, Overs, Over, Working, Pending, Ended, Live
  <2>6. Shares' /\ ExitStands'
    <3>1. order[i].left \in Nat /\ held \in Nat
      BY <2>1 DEF Records
    <3> QED BY <3>1, <2>1, <2>2, <2>3, <2>4 DEF Shares, ExitStands, Working, Live, Ids
  <2>7. Hand'
    BY <2>1, <2>2, <2>3, <2>4 DEF Hand, InExit, cycle, Children, Pending, Working
  <2> QED BY <2>5, <2>6, <2>7 DEF Books
<1>2. ASSUME NEW i \in Ids, CancelLands(i) \/ Expire(i) PROVE Books' /\ Hand'
  <2>1. Working(i) /\ UNCHANGED <<row, held, known, cycle>>
    BY <1>2 DEF CancelLands, Expire, market, Working, Live
  <2>2. /\ order'[i].left = order[i].left /\ order'[i].at \in {"canceled", "expired"}
        /\ \A j \in Ids : j # i => order'[j] = order[j]
    BY <1>2 DEF CancelLands, Expire, Records
  <2>3. i \in Exits => order'[i].at = "expired"
    BY <1>2 DEF CancelLands, Expire, ExitStands, Records
  <2>4. NoBlindOrder' /\ Single' /\ Overs'
    BY <2>1, <2>2 DEF NoBlindOrder, Single, Overs, Over, Working, Pending, Ended, Live
  <2>5. Shares' /\ ExitStands'
    BY <2>1, <2>2, <2>3 DEF Shares, ExitStands, Working, Live, Ids
  <2>6. Hand'
    BY <2>1, <2>2 DEF Hand, InExit, cycle, Children, Pending, Working, Live
  <2> QED BY <2>4, <2>5, <2>6 DEF Books
<1>3. CASE PriceMoves \/ TimePasses
  <2>1. UNCHANGED <<held, order, row, known, cycle>>
    BY <1>3 DEF PriceMoves, TimePasses
  <2> QED BY <2>1, SameBooks DEF Hand, InExit, cycle, Children, Pending, Working
<1>4. CASE Crash
  BY <1>4, SameBooks DEF Crash, Idle, market, Hand, InExit
<1> QED BY <1>1, <1>2, <1>3, <1>4 DEF World

(***************************************************************************)
(* Every step keeps the invariant.                                         *)
(***************************************************************************)
LEMMA StepInv ==
  ASSUME IInv, Legible, [Next]_vars
  PROVE  IInv'
<1>1. TypeOK'
  BY TypeStep
<1>2. CASE UNCHANGED vars
  <2>1. Books'
    BY <1>2, SameBooks DEF vars
  <2>2. Hand'
    BY <1>2 DEF vars, IInv, Hand, InExit, Children, Pending, Working
  <2> QED BY <1>1, <2>1, <2>2 DEF IInv, Books
<1>3. CASE Next
  <2>1. Books' /\ Hand'
    BY <1>3, PostStep, SyncStep, PromotionStep, ArmStep, ExitStep, WorldStep
       DEF Next, Work, Legible
  <2> QED BY <1>1, <2>1 DEF IInv, Books
<1> QED BY <1>1, <1>2, <1>3

(***************************************************************************)
(* The invariant, for a long position, any quantity and ids, and faults    *)
(* that leave every request and status legible.                            *)
(***************************************************************************)
LEMMA Invariant == ASSUME Legible PROVE Spec => []IInv
BY InitInv, StepInv, PTL DEF Spec

(***************************************************************************)
(* Values have their types: nothing more is ever sold than was bought.     *)
(***************************************************************************)
THEOREM StopTypes == ASSUME Legible PROVE Spec => []TypeOK
<1>1. IInv => TypeOK
  BY DEF IInv
<1> QED BY <1>1, Invariant, PTL

(***************************************************************************)
(* Whatever is lost, refused or interrupted, no two orders may trade the   *)
(* same shares, and none more shares than are held.                        *)
(***************************************************************************)
THEOREM OneSaleAlways == ASSUME Legible PROVE Spec => []OneSale
<1>1. IInv => OneSale
  BY DEF IInv, OneSale, NoBlindOrder, Single, Shares
<1> QED BY <1>1, Invariant, PTL

(***************************************************************************)
(* An order that may still trade has a request that counts as open.        *)
(***************************************************************************)
THEOREM NeverBlind == ASSUME Legible PROVE Spec => []NoBlindOrder
<1>1. IInv => NoBlindOrder
  BY DEF IInv
<1> QED BY <1>1, Invariant, PTL

(***************************************************************************)
(* The watcher takes back no exit that was sent.                           *)
(***************************************************************************)
THEOREM ExitsStand == ASSUME Legible PROVE Spec => []ExitStands
<1>1. IInv => ExitStands
  BY DEF IInv
<1> QED BY <1>1, Invariant, PTL
=============================================================================
