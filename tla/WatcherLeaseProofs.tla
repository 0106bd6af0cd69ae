------------------------- MODULE WatcherLeaseProofs -------------------------
(***************************************************************************)
(* What the watcher lease guarantees for any number of services, any TTL   *)
(* and any length of run.  A leader keeps its unexpired row when the       *)
(* reclaim tool sees the processes of every service, whatever is late or   *)
(* fails; there is one leader when, besides, every leader renews in time   *)
(* and none leads without having asked for the row; and whatever the tool  *)
(* sees, a leader that has lost the row never has it again.                *)
(***************************************************************************)
EXTENDS WatcherLease, TLAPS

\* A service that is named has been started.
Started(s) == s # NoOne => pc[s] \notin {"new", "boot"}

(***************************************************************************)
(* Who the row and the tool may name: a process that was started, and once *)
(* the tool has checked, one that has ended and will not come back.        *)
(***************************************************************************)
OwnersInv ==
  /\ pc \in [Services -> Places]
  /\ row.owner \in Services \cup {NoOne}
  /\ snap.row.owner \in Services \cup {NoOne}
  /\ Started(row.owner) /\ Started(snap.row.owner)
  /\ tool = "checked" /\ snap.row.owner # NoOne => ~Alive(snap.row.owner)

(***************************************************************************)
(* The owners are as said initially, and after every step of a service, of *)
(* the tool and of the clock, however late any of them is.                 *)
(***************************************************************************)
LEMMA OwnersInit == Init => OwnersInv
  BY ConstantsAssumption DEF Init, OwnersInv, Started, Leading, Alive, NoRow, NoSnap,
     NoHeart, Places, Loop

(***************************************************************************)
(* The owners are still as said after any step of the system.              *)
(***************************************************************************)
LEMMA OwnersStep ==
  ASSUME Local = Services, OwnersInv, [Next]_vars
  PROVE  OwnersInv'
<1> USE ConstantsAssumption DEF OwnersInv, Started, Alive, Loop, Places, Move
<1>1. CASE UNCHANGED vars
  BY <1>1 DEF vars
<1>2. ASSUME NEW s \in Services, Service(s) PROVE OwnersInv'
  <2>1. CASE Start(s) \/ Wake(s) \/ Leave(s) \/ Kill(s)
    BY <2>1 DEF Start, Wake, Leave, Kill, Leading
  <2>2. CASE Acquire(s)
    BY <2>2 DEF Acquire, Acquired
  <2>3. CASE AcquireError(s) \/ RefreshError(s) \/ Beat(s) \/ BeatSkipped(s)
    BY <2>3 DEF AcquireError, RefreshError, Beat, BeatSkipped
  <2>4. CASE Refresh(s)
    <3>1. row'.owner = row.owner
      BY <2>4 DEF Refresh, Renewed
    <3> QED BY <2>4, <3>1 DEF Refresh
  <2>5. CASE Release(s) \/ ReleaseError(s)
    <3>1. row'.owner \in {row.owner, NoOne}
      BY <2>5 DEF Release, ReleaseError, Released, NoRow
    <3> QED BY <2>5, <3>1 DEF Release, ReleaseError
  <2> QED BY <1>2, <2>1, <2>2, <2>3, <2>4, <2>5 DEF Service
<1>3. CASE Reclaim
  <2>1. CASE ReclaimRead
    BY <2>1 DEF ReclaimRead
  <2>2. CASE ReclaimCheck
    BY <2>2 DEF ReclaimCheck, NoneRunning
  <2>3. CASE ReclaimDelete \/ ReclaimRefused
    BY <2>3 DEF ReclaimDelete, ReclaimRefused, NoRow, NoSnap
  <2> QED BY <1>3, <2>1, <2>2, <2>3 DEF Reclaim
<1>4. CASE Tick
  BY <1>4 DEF Tick
<1> QED BY <1>1, <1>2, <1>3, <1>4 DEF Next

(***************************************************************************)
(* A leader keeps its unexpired row (LiveLeaseKept), for every set of      *)
(* services, every delay and every failing database call, as long as the   *)
(* reclaim tool runs on the host of all the services.                      *)
(***************************************************************************)
THEOREM LeaseKept ==
  ASSUME Local = Services
  PROVE  Spec => LiveLeaseKept
<1> DEFINE Kept == \A s \in Services :
             row.owner = s /\ Leading(s) /\ ~Expired(row) => row'.owner = s
<1>1. OwnersInv /\ [Next]_vars => [Kept]_vars
  <2> SUFFICES ASSUME OwnersInv, Next,
                      NEW s \in Services, row.owner = s, Leading(s), ~Expired(row)
               PROVE  row'.owner = s
    OBVIOUS
  <2> USE ConstantsAssumption
  <2>1. ASSUME NEW t \in Services, Service(t) PROVE row'.owner = s
    <3>1. CASE Acquire(t)
      BY <3>1 DEF Acquire, Free, NoRow
    <3>2. CASE Refresh(t)
      BY <3>2 DEF Refresh, Renewed
    <3>3. CASE Release(t)
      BY <3>3 DEF Release, Released, Leading, Loop
    <3>4. CASE Start(t) \/ AcquireError(t) \/ RefreshError(t) \/ Beat(t) \/ BeatSkipped(t)
               \/ Wake(t) \/ Leave(t) \/ ReleaseError(t) \/ Kill(t)
      BY <3>4 DEF Start, AcquireError, RefreshError, Beat, BeatSkipped, Wake, Leave,
                  ReleaseError, Kill
    <3> QED BY <2>1, <3>1, <3>2, <3>3, <3>4 DEF Service
  <2>2. CASE Reclaim
    <3>1. CASE ReclaimDelete
      BY <3>1 DEF ReclaimDelete, OwnersInv, Leading, Alive, Loop
    <3>2. CASE ReclaimRead \/ ReclaimCheck \/ ReclaimRefused
      BY <3>2 DEF ReclaimRead, ReclaimCheck, ReclaimRefused
    <3> QED BY <2>2, <3>1, <3>2 DEF Reclaim
  <2>3. CASE Tick
    BY <2>3 DEF Tick
  <2> QED BY <2>1, <2>2, <2>3 DEF Next
<1>2. OwnersInv /\ [Next]_vars => OwnersInv'
  BY OwnersStep
<1> QED BY <1>1, <1>2, OwnersInit, PTL DEF Spec, LiveLeaseKept

-----------------------------------------------------------------------------
(***************************************************************************)
(* Besides, every leader owns an unexpired row.                            *)
(***************************************************************************)
LeaseInv ==
  /\ OwnersInv
  /\ now \in Nat /\ row.expires \in Int
  /\ \A s \in Services : Leading(s) => row.owner = s /\ now <= row.expires

\* A leader renews before the row expires, and asks for it before it leads.
Dependable == Timely /\ "acquire" \notin Errors /\ Local = Services

(***************************************************************************)
(* The invariant holds initially.                                          *)
(***************************************************************************)
LEMMA LeaseInit == Init => LeaseInv
  BY ConstantsAssumption, OwnersInit DEF Init, LeaseInv, Leading, NoRow, Loop

(***************************************************************************)
(* No step of a service takes the row from a leader, or moves a process    *)
(* that has ended.                                                         *)
(***************************************************************************)
LEMMA ServiceKeeps ==
  ASSUME LeaseInv, Dependable, NEW s \in Services, Service(s)
  PROVE  LeaseInv'
<1> USE ConstantsAssumption DEF Dependable, LeaseInv, OwnersInv, Started, Leading, Alive, Loop, Places,
        Move, May
<1>1. CASE Start(s) \/ Wake(s) \/ Leave(s) \/ Kill(s)
  BY <1>1 DEF Start, Wake, Leave, Kill
<1>2. CASE Acquire(s)
  <2>1. CASE Free
    <3>1. row' = [owner |-> s, acquired |-> now, expires |-> now + TTL] /\ Move(s, "cycle")
      BY <1>2, <2>1 DEF Acquire, Acquired
    <3>2. \A t \in Services : ~Leading(t)
      BY <2>1 DEF Free, NoRow, Expired
    <3> QED BY <1>2, <3>1, <3>2 DEF Acquire
  <2>2. CASE ~Free
    BY <1>2, <2>2 DEF Acquire
  <2> QED BY <2>1, <2>2
<1>3. CASE AcquireError(s)
  BY <1>3 DEF AcquireError
<1>4. CASE Refresh(s)
  <2>1. /\ row'.owner = row.owner /\ row'.expires \in Int
        /\ \A t \in Services : Leading(t) => now <= row'.expires
    BY <1>4 DEF Refresh, Renewed
  <2> QED BY <1>4, <2>1 DEF Refresh
<1>5. CASE RefreshError(s) \/ Beat(s) \/ BeatSkipped(s)
  BY <1>5 DEF RefreshError, Beat, BeatSkipped
<1>6. CASE Release(s)
  <2>1. CASE row.owner = s
    <3>1. \A t \in Services : ~Leading(t)
      BY <1>6, <2>1 DEF Release
    <3> QED BY <1>6, <2>1, <3>1 DEF Release, Released, NoRow
  <2>2. CASE row.owner # s
    BY <1>6, <2>2 DEF Release, Released
  <2> QED BY <2>1, <2>2
<1>7. CASE ReleaseError(s)
  BY <1>7 DEF ReleaseError
<1> QED BY <1>1, <1>2, <1>3, <1>4, <1>5, <1>6, <1>7 DEF Service

(***************************************************************************)
(* The reclaim tool deletes only the row of a process that has ended.      *)
(***************************************************************************)
LEMMA ReclaimKeeps ==
  ASSUME LeaseInv, Dependable, Reclaim
  PROVE  LeaseInv'
<1> USE ConstantsAssumption DEF Dependable, LeaseInv, OwnersInv, Started, Leading, Alive, Loop, Places
<1>1. CASE ReclaimRead
  BY <1>1 DEF ReclaimRead
<1>2. CASE ReclaimCheck
  BY <1>2 DEF ReclaimCheck, NoneRunning
<1>3. CASE ReclaimDelete
  <2>1. \A s \in Services : ~Leading(s)
    BY <1>3 DEF ReclaimDelete
  <2> QED BY <1>3, <2>1 DEF ReclaimDelete, NoRow, NoSnap
<1>4. CASE ReclaimRefused
  BY <1>4 DEF ReclaimRefused, NoSnap, NoRow
<1> QED BY <1>1, <1>2, <1>3, <1>4 DEF Reclaim

(***************************************************************************)
(* A second passes only while every leader still has time left.            *)
(***************************************************************************)
LEMMA TickKeeps ==
  ASSUME LeaseInv, Dependable, Tick
  PROVE  LeaseInv'
  BY DEF Dependable, LeaseInv, OwnersInv, Started, Leading, Alive, Loop, Places, Tick

(***************************************************************************)
(* The inductive invariant of a dependable installation.                   *)
(***************************************************************************)
THEOREM LeaseInvariant ==
  ASSUME Dependable
  PROVE  Spec => []LeaseInv
<1>1. LeaseInv /\ [Next]_vars => LeaseInv'
  <2> SUFFICES ASSUME LeaseInv, [Next]_vars PROVE LeaseInv'
    OBVIOUS
  <2>1. CASE UNCHANGED vars
    BY <2>1 DEF vars, LeaseInv, OwnersInv, Started, Leading, Alive
  <2>2. ASSUME NEW s \in Services, Service(s) PROVE LeaseInv'
    BY <2>2, ServiceKeeps
  <2>3. CASE Reclaim
    BY <2>3, ReclaimKeeps
  <2>4. CASE Tick
    BY <2>4, TickKeeps
  <2> QED BY <2>1, <2>2, <2>3, <2>4 DEF Next
<1> QED BY <1>1, LeaseInit, PTL DEF Spec

(***************************************************************************)
(* Two services never cycle at the same time (OneLeader), for every set of *)
(* services and every TTL, in a dependable installation.                   *)
(***************************************************************************)
THEOREM LeaseExclusive ==
  ASSUME Dependable
  PROVE  Spec => []OneLeader
<1>1. LeaseInv => OneLeader
  BY DEF LeaseInv, OneLeader
<1> QED BY <1>1, LeaseInvariant, PTL

-----------------------------------------------------------------------------
(***************************************************************************)
(* A service that has lost the row never gets it back (NeverRegained), for *)
(* any services, hosts, delays and failing calls: only a service that has  *)
(* not led yet writes its name into the row.                               *)
(***************************************************************************)
THEOREM NeverRegainedAlways == Spec => NeverRegained
<1>1. ASSUME Next, NEW s \in Services, Leading(s), row.owner # s
      PROVE  row'.owner # s
  <2> USE ConstantsAssumption
  <2>1. ASSUME NEW t \in Services, Service(t) PROVE row'.owner # s
    <3>1. CASE Acquire(t)
      BY <1>1, <3>1 DEF Acquire, Acquired, Leading, Loop
    <3>2. CASE Refresh(t)
      BY <1>1, <3>2 DEF Refresh, Renewed
    <3>3. CASE Release(t)
      BY <1>1, <3>3 DEF Release, Released, NoRow
    <3>4. CASE Start(t) \/ AcquireError(t) \/ RefreshError(t) \/ Beat(t) \/ BeatSkipped(t)
               \/ Wake(t) \/ Leave(t) \/ ReleaseError(t) \/ Kill(t)
      BY <1>1, <3>4 DEF Start, AcquireError, RefreshError, Beat, BeatSkipped, Wake, Leave,
                  ReleaseError, Kill
    <3> QED BY <2>1, <3>1, <3>2, <3>3, <3>4 DEF Service
  <2>2. CASE Reclaim
    BY <1>1, <2>2 DEF Reclaim, ReclaimRead, ReclaimCheck, ReclaimDelete, ReclaimRefused, NoRow
  <2>3. CASE Tick
    BY <1>1, <2>3 DEF Tick
  <2> QED BY <1>1, <2>1, <2>2, <2>3 DEF Next
<1>2. [Next]_vars => [\A s \in Services : Leading(s) /\ row.owner # s => row'.owner # s]_vars
  BY <1>1
<1> QED BY <1>2, PTL DEF Spec, NeverRegained

(***************************************************************************)
(* The values of the variables (TypeOK), for any constants: whatever is    *)
(* late or fails, no lease lasts longer than TTL from now.                 *)
(***************************************************************************)
THEOREM LeaseTypes == Spec => []TypeOK
<1> USE ConstantsAssumption DEF TypeOK, Rows, Hearts, NoRow, NoHeart, NoSnap, Places, Loop
<1>1. Init => TypeOK
  BY DEF Init
<1>2. TypeOK /\ [Next]_vars => TypeOK'
  <2> SUFFICES ASSUME TypeOK, [Next]_vars PROVE TypeOK'
    OBVIOUS
  <2>1. CASE UNCHANGED vars
    BY <2>1 DEF vars
  <2>2. ASSUME NEW s \in Services, Service(s) PROVE TypeOK'
    <3> USE DEF Move
    <3>1. CASE Acquire(s)
      BY <3>1 DEF Acquire, Acquired
    <3>2. CASE Refresh(s)
      BY <3>2 DEF Refresh, Renewed
    <3>3. CASE Release(s)
      BY <3>3 DEF Release, Released
    <3>4. CASE Beat(s) \/ BeatSkipped(s)
      BY <3>4 DEF Beat, BeatSkipped
    <3>5. CASE Start(s) \/ AcquireError(s) \/ RefreshError(s) \/ Wake(s) \/ Leave(s)
               \/ ReleaseError(s) \/ Kill(s)
      BY <3>5 DEF Start, AcquireError, RefreshError, Wake, Leave, ReleaseError, Kill
    <3> QED BY <2>2, <3>1, <3>2, <3>3, <3>4, <3>5 DEF Service
  <2>3. CASE Reclaim
    BY <2>3 DEF Reclaim, ReclaimRead, ReclaimCheck, ReclaimDelete, ReclaimRefused
  <2>4. CASE Tick
    BY <2>4 DEF Tick
  <2> QED BY <2>1, <2>2, <2>3, <2>4 DEF Next
<1> QED BY <1>1, <1>2, PTL DEF Spec
=============================================================================
