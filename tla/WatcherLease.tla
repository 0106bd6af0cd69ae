---------------------------- MODULE WatcherLease ----------------------------
(***************************************************************************)
(* Leader election of the protection watcher of one account: the row       *)
(* 'watcher:<account>' of execution_locks (execution_engine/db_io.py), the *)
(* service loop that takes, renews and releases it (protection_watcher.py) *)
(* and the tool that frees the row of a dead service (watcher_lease.py).   *)
(*                                                                         *)
(* Each service is one process with a run id of its own; its heartbeat is  *)
(* the single row of the account, overwritten by whoever writes last.  The *)
(* columns are TIMESTAMPs: time is counted in seconds, so that a heartbeat *)
(* and an acquisition may carry the same value.                            *)
(***************************************************************************)
EXTENDS Integers, FiniteSets

CONSTANTS
  Services,   \* processes that run the watcher service for the account
  NoOne,      \* no such process
  Local,      \* those the reclaim tool can see: on its host, and started by a
              \* command line that names protection_watcher.py
  TTL,        \* leader_ttl_seconds
  MaxNow,     \* bound: how long the clock runs
  Timely,     \* every leader renews its row before it expires
  Errors      \* which database calls of the service may raise

ErrorKinds == {"acquire", "refresh", "heartbeat", "release"}

ASSUME ConstantsAssumption ==
  /\ NoOne \notin Services
  /\ Local \subseteq Services
  /\ TTL \in Nat \ {0} /\ MaxNow \in Nat
  /\ Timely \in BOOLEAN
  /\ Errors \subseteq ErrorKinds

VARIABLES
  row,     \* execution_locks: [owner, acquired, expires]
  heart,   \* watcher_heartbeats: [pid, at]
  now,     \* the clock of the database and of every host
  pc,      \* where each service is
  first,   \* services that have not finished their first iteration
  tool,    \* where release_dead_local_watcher_lease is
  snap     \* the row and the heartbeat it has read

vars == <<row, heart, now, pc, first, tool, snap>>

Loop   == {"cycle", "beat", "sleep"}
Places == {"new", "boot", "leaving", "refused", "stopped", "dead"} \cup Loop

NoRow   == [owner |-> NoOne, acquired |-> 0, expires |-> 0]
NoHeart == [pid |-> NoOne, at |-> 0]
Rows    == [owner : Services \cup {NoOne}, acquired : 0 .. MaxNow, expires : 0 .. (MaxNow + TTL)]
NoSnap  == [row |-> NoRow, heart |-> NoHeart]
Hearts  == [pid : Services \cup {NoOne}, at : 0 .. MaxNow]

Init ==
  /\ row = NoRow /\ heart = NoHeart /\ now = 0
  /\ pc = [s \in Services |-> "new"] /\ first = Services
  /\ tool = "idle" /\ snap = NoSnap

Leading(s) == pc[s] \in Loop
Alive(s)   == pc[s] \in {"boot", "leaving"} \cup Loop
Move(s, p) == pc' = [pc EXCEPT ![s] = p]
May(e)     == e \in Errors

-----------------------------------------------------------------------------
(***************************************************************************)
(* The row of execution_locks.                                             *)
(***************************************************************************)
Expired_AtOnce(r) == r.expires <= now
Expired(r)        == r.expires < now

\* A purge of the expired row and an INSERT, in one transaction.
Free == row = NoRow \/ Expired(row)
Acquired(s) == [owner |-> s, acquired |-> now, expires |-> now + TTL]

\* UPDATE ... WHERE locked_by_run_id = s: the row may be expired by then.
Renewed_Upsert(s) == [Acquired(s) EXCEPT !.acquired = row.acquired]
Renewed_Adds(s)   == IF row.owner = s THEN [row EXCEPT !.expires = @ + TTL] ELSE row
Renewed(s) == IF row.owner = s THEN [row EXCEPT !.expires = now + TTL] ELSE row

\* DELETE ... WHERE locked_by_run_id = s.
Released(s) == IF row.owner = s THEN NoRow ELSE row

-----------------------------------------------------------------------------
(***************************************************************************)
(* ProtectionWatcherService.run.                                           *)
(***************************************************************************)
Start(s) ==
  /\ pc[s] = "new" /\ Move(s, "boot")
  /\ UNCHANGED <<row, heart, now, first, tool, snap>>

Acquire(s) ==
  /\ pc[s] = "boot"
  /\ IF Free THEN row' = Acquired(s) /\ Move(s, "cycle")
             ELSE Move(s, "refused") /\ UNCHANGED row
  /\ UNCHANGED <<heart, now, first, tool, snap>>

\* Best effort: a service that cannot ask for the lock runs without it.
AcquireError(s) ==
  /\ pc[s] = "boot" /\ May("acquire") /\ Move(s, "cycle")
  /\ UNCHANGED <<row, heart, now, first, tool, snap>>

\* The cycle is over, whatever its outcome.  A row that was not renewed is
\* only logged; so is an exception.
Refresh(s) ==
  /\ pc[s] = "cycle" /\ Move(s, "beat")
  /\ row' = Renewed(s)
  /\ UNCHANGED <<heart, now, first, tool, snap>>

RefreshError(s) ==
  /\ pc[s] = "cycle" /\ May("refresh") /\ Move(s, "beat")
  /\ UNCHANGED <<row, heart, now, first, tool, snap>>

Beat(s) ==
  /\ pc[s] = "beat" /\ Move(s, "sleep")
  /\ heart' = [pid |-> s, at |-> now] /\ first' = first \ {s}
  /\ UNCHANGED <<row, now, tool, snap>>

\* Less than heartbeat_interval_seconds since the last one, or a write that
\* failed; the first iteration always tries.
BeatSkipped(s) ==
  /\ pc[s] = "beat" /\ (s \notin first \/ May("heartbeat")) /\ Move(s, "sleep")
  /\ first' = first \ {s}
  /\ UNCHANGED <<row, heart, now, tool, snap>>

Wake(s) ==
  /\ pc[s] = "sleep" /\ Move(s, "cycle")
  /\ UNCHANGED <<row, heart, now, first, tool, snap>>

\* Ctrl+C, too many failed cycles, nothing left to watch.
Leave(s) ==
  /\ Leading(s) /\ Move(s, "leaving")
  /\ UNCHANGED <<row, heart, now, first, tool, snap>>

Release(s) ==
  /\ pc[s] = "leaving" /\ Move(s, "stopped")
  /\ row' = Released(s)
  /\ UNCHANGED <<heart, now, first, tool, snap>>

ReleaseError(s) ==
  /\ pc[s] = "leaving" /\ May("release") /\ Move(s, "stopped")
  /\ UNCHANGED <<row, heart, now, first, tool, snap>>

Kill(s) ==
  /\ Alive(s) /\ Move(s, "dead")
  /\ UNCHANGED <<row, heart, now, first, tool, snap>>

-----------------------------------------------------------------------------
(***************************************************************************)
(* release_dead_local_watcher_lease: read, look at the processes of this   *)
(* host, delete the row if neither it nor the heartbeat has moved.         *)
(***************************************************************************)
ReclaimRead ==
  /\ tool = "idle" /\ row # NoRow
  /\ heart.pid \in Local /\ row.acquired <= heart.at
  /\ tool' = "read" /\ snap' = [row |-> row, heart |-> heart]
  /\ UNCHANGED <<row, heart, now, pc, first>>

NoneRunning_Unchecked == ~Alive(snap.heart.pid)
NoneRunning == \A s \in Local : ~Alive(s)

ReclaimCheck ==
  /\ tool = "read" /\ NoneRunning
  /\ tool' = "checked"
  /\ UNCHANGED <<row, heart, now, pc, first, snap>>

ReclaimDelete ==
  /\ tool = "checked" /\ row = snap.row /\ heart = snap.heart
  /\ row' = NoRow
  /\ tool' = "idle" /\ snap' = NoSnap
  /\ UNCHANGED <<heart, now, pc, first>>

\* A process is running, its pid cannot be told apart, or something moved.
ReclaimRefused ==
  /\ \/ tool = "read"
     \/ tool = "checked" /\ (row # snap.row \/ heart # snap.heart)
  /\ tool' = "idle" /\ snap' = NoSnap
  /\ UNCHANGED <<row, heart, now, pc, first>>

-----------------------------------------------------------------------------
\* Under Timely no second passes while a leader is about to lose its row.
Tick ==
  /\ now < MaxNow
  /\ Timely => \A s \in Services : Leading(s) /\ row.owner = s => now < row.expires
  /\ now' = now + 1
  /\ UNCHANGED <<row, heart, pc, first, tool, snap>>

Service(s) ==
  \/ Start(s) \/ Acquire(s) \/ AcquireError(s)
  \/ Refresh(s) \/ RefreshError(s) \/ Beat(s) \/ BeatSkipped(s) \/ Wake(s)
  \/ Leave(s) \/ Release(s) \/ ReleaseError(s) \/ Kill(s)

Reclaim == ReclaimRead \/ ReclaimCheck \/ ReclaimDelete \/ ReclaimRefused

Next == (\E s \in Services : Service(s)) \/ Reclaim \/ Tick

Spec == Init /\ [][Next]_vars

-----------------------------------------------------------------------------
(***************************************************************************)
(* Every value has its type; no lease lasts longer than TTL from now.      *)
(***************************************************************************)
TypeOK ==
  /\ row \in Rows /\ heart \in Hearts /\ now \in 0 .. MaxNow
  /\ row.expires <= now + TTL
  /\ pc \in [Services -> Places] /\ first \subseteq Services
  /\ tool \in {"idle", "read", "checked"}
  /\ snap \in [row : Rows, heart : Hearts]

(***************************************************************************)
(* Two services of one account never cycle at the same time (the watcher   *)
(* guide: two instances for the same account cannot coexist).              *)
(***************************************************************************)
OneLeader == \A s, t \in Services : Leading(s) /\ Leading(t) => s = t

(***************************************************************************)
(* An unexpired row of a service that is still in its loop stays its own:  *)
(* neither a newcomer, a service that lost the row earlier nor the reclaim *)
(* tool takes it away ("never an active leader").                          *)
(***************************************************************************)
LiveLeaseKept ==
  [][\A s \in Services :
       row.owner = s /\ Leading(s) /\ ~Expired(row) => row'.owner = s]_vars

(***************************************************************************)
(* A service that has lost the row while it was busy never gets it back:   *)
(* the late refresh does not steal the lease of its successor.             *)
(***************************************************************************)
NeverRegained ==
  [][\A s \in Services : Leading(s) /\ row.owner # s => row'.owner # s]_vars
=============================================================================
