------------------------------ MODULE RunLocks ------------------------------
(***************************************************************************)
(* The locks that keep a pipeline workflow and a backtest that writes from *)
(* running together (ihm/services/pipeline_lock.py), with the two callers  *)
(* that take them: the thread of a workflow (process_registry.py) and the  *)
(* launcher of a backtest (backtesting_registry.py).  A lock is a file     *)
(* that names a run and a process; several operator consoles share the     *)
(* files, die and restart, and the numbers of dead processes are reused.   *)
(***************************************************************************)
EXTENDS Naturals, FiniteSets

CONSTANTS
  Apps,                        \* operator consoles
  Workflows, Writers, Readers, \* runs: workflows, backtests, isolated backtests
  Pids,                        \* process numbers
  Nobody, Foreign,             \* no process; a process of another program
  Faults                       \* what may go wrong, among FaultKinds

Runs      == Workflows \cup Writers \cup Readers
Backtests == Writers \cup Readers
Scopes    == {"pipeline", "backtesting", "backtesting_readonly"}
Births    == 4  \* start times told apart: one more than the scopes

(* "step": a console dies while a step of its workflow runs; "thread": the *)
(* thread of the workflow fails then; "spawn": a console dies between the  *)
(* start of a backtest and the rebinding of its lock; "rebind": the        *)
(* rebinding fails; "prelock": a lock not rebound yet is stopped from      *)
(* another session; "unlink": a lock file cannot be removed.               *)
FaultKinds == {"step", "thread", "spawn", "rebind", "prelock", "unlink"}

ASSUME ConstantsAssumption ==
  /\ Faults \subseteq FaultKinds
  /\ Workflows \cap Backtests = {} /\ Writers \cap Readers = {}
  /\ Apps \cap Runs = {}
  /\ {Nobody, Foreign} \cap (Apps \cup Runs) = {} /\ Nobody # Foreign
  /\ Nobody \notin Pids

VARIABLES
  proc,    \* what runs under each process number
  born,    \* when the process of each number started, 0 for none
  ended,   \* numbers of children that ended and were not waited for
  file,    \* the lock file of each scope
  held,    \* _HELD_LOCKS of each console: the run it holds each scope for
  phase,   \* where each run is in its caller
  host,    \* the console each run is followed by
  stopped  \* runs each console stopped and has yet to release the lock of
os    == <<proc, born, ended>>
locks == <<file, held>>
work  == <<phase, host>>
vars  == <<os, locks, work, stopped>>

Free   == [run |-> Nobody, pid |-> Nobody, born |-> 0]
Lock   == [run : Runs, pid : Pids, born : 1 .. Births]
Phases == {"idle", "acquired", "spawned", "bound", "releasing", "over"}

ScopeOf(r) == CASE r \in Workflows -> "pipeline"
                [] r \in Writers   -> "backtesting"
                [] r \in Readers   -> "backtesting_readonly"

Up(a)       == \E p \in Pids : proc[p] = a
PidOf(a)    == CHOOSE p \in Pids : proc[p] = a
Children(r) == {p \in Pids : proc[p] = r}
Live(r)     == Children(r) \ ended # {}

(* Two scopes that may not be held together.                               *)
Conflicts_Same(s, t) == s = t
Conflicts(s, t) == s = t \/ "backtesting_readonly" \notin {s, t}

(* Whether console a takes the lock of scope s for a live one: the process *)
(* must exist, and either be a itself and in a's own table, or have        *)
(* started when the file says.                                             *)
IsActive_NoTable(a, s) ==
  LET l == file[s]
  IN  l # Free /\ proc[l.pid] # Nobody /\ born[l.pid] = l.born
IsActive_AnyBirth(a, s) ==
  LET l == file[s]
  IN  /\ l # Free
      /\ proc[l.pid] # Nobody
      /\ proc[l.pid] = a => held[a][s] = l.run
IsActive(a, s) ==
  LET l == file[s]
  IN  /\ l # Free
      /\ proc[l.pid] # Nobody
      /\ IF proc[l.pid] = a THEN held[a][s] = l.run ELSE born[l.pid] = l.born

(* The lock files after console a removed those it takes for stale.        *)
Purged(a) == [s \in Scopes |-> IF IsActive(a, s) THEN file[s] ELSE Free]

Init ==
  /\ proc = [p \in Pids |-> Nobody] /\ born = [p \in Pids |-> 0] /\ ended = {}
  /\ file = [s \in Scopes |-> Free]
  /\ held = [a \in Apps |-> [s \in Scopes |-> Nobody]]
  /\ phase = [r \in Runs |-> "idle"] /\ host = [r \in Runs |-> Nobody]
  /\ stopped = [a \in Apps |-> {}]

-----------------------------------------------------------------------------
(* Processes.  A start time only matters compared with those in the lock    *)
(* files: a new process has one that no file holds for its number.         *)

Start(p, who) ==
  /\ proc[p] = Nobody
  /\ proc' = [proc EXCEPT ![p] = who]
  /\ born' = [born EXCEPT ![p] =
       CHOOSE n \in 1 .. Births : \A s \in Scopes : file[s].pid = p => file[s].born # n]
  /\ UNCHANGED ended

Gone(ps) ==
  /\ proc' = [p \in Pids |-> IF p \in ps THEN Nobody ELSE proc[p]]
  /\ born' = [p \in Pids |-> IF p \in ps THEN 0 ELSE born[p]]
  /\ ended' = ended \ ps

AppStarts(a, p) ==
  /\ ~Up(a) /\ Start(p, a)
  /\ UNCHANGED <<locks, work, stopped>>

ForeignStarts(p) == Start(p, Foreign) /\ UNCHANGED <<locks, work, stopped>>

ForeignEnds(p) ==
  /\ proc[p] = Foreign /\ Gone({p})
  /\ UNCHANGED <<locks, work, stopped>>

(* A console that dies forgets its table and its threads; the children it  *)
(* started go on, and nobody waits for those that ended.                   *)
Dies(a) ==
  LET unwaited == {p \in ended : host[proc[p]] = a}
  IN  /\ Gone({PidOf(a)} \cup unwaited)
      /\ held' = [held EXCEPT ![a] = [s \in Scopes |-> Nobody]]
      /\ host' = [r \in Runs |-> IF host[r] = a THEN Nobody ELSE host[r]]
      /\ phase' = [r \in Runs |-> IF host[r] = a THEN "over" ELSE phase[r]]
      /\ UNCHANGED file

MayDie(a) ==
  \A r \in Runs : host[r] = a /\ Live(r) =>
    /\ r \in Workflows => "step" \in Faults
    /\ phase[r] = "spawned" => "spawn" \in Faults

AppDies(a) ==
  /\ Up(a) /\ MayDie(a)
  /\ Dies(a) /\ stopped' = [stopped EXCEPT ![a] = {}]

(* A child exits, or is killed by its console: it is gone once waited for. *)
Exit(p) ==
  IF host[proc[p]] = Nobody
  THEN Gone({p})
  ELSE ended' = ended \cup {p} /\ UNCHANGED <<proc, born>>

ChildExits(p) ==
  /\ proc[p] \in Runs /\ p \notin ended /\ Exit(p)
  /\ UNCHANGED <<locks, work, stopped>>

-----------------------------------------------------------------------------
(* Taking and giving back a lock.                                          *)

(* The stale locks are removed and the file of the scope is written under  *)
(* the mutex of the directory; a conflict raises instead.                  *)
Acquire(a, r) ==
  LET s == ScopeOf(r)
  IN  /\ Up(a) /\ phase[r] = "idle"
      /\ \A t \in Scopes : IsActive(a, t) => ~Conflicts(s, t)
      /\ file' = [Purged(a) EXCEPT ![s] = [run |-> r, pid |-> PidOf(a), born |-> born[PidOf(a)]]]
      /\ held' = [held EXCEPT ![a][s] = r]
      /\ phase' = [phase EXCEPT ![r] = "acquired"]
      /\ host' = [host EXCEPT ![r] = a]
      /\ UNCHANGED <<os, stopped>>

Busy(a, r) ==
  /\ Up(a) /\ phase[r] = "idle"
  /\ \E t \in Scopes : IsActive(a, t) /\ Conflicts(ScopeOf(r), t)
  /\ phase' = [phase EXCEPT ![r] = "over"]
  /\ UNCHANGED <<os, locks, host, stopped>>

(* Only the file that still names the run is removed.                      *)
Unlinked_Any(r) == [file EXCEPT ![ScopeOf(r)] = Free]
Unlinked(r) == [s \in Scopes |-> IF file[s].run = r THEN Free ELSE file[s]]

Unlock(a, r) ==
  /\ held' = [held EXCEPT ![a] = [s \in Scopes |-> IF @[s] = r THEN Nobody ELSE @[s]]]
  /\ \/ file' = Unlinked(r)
     \/ "unlink" \in Faults /\ UNCHANGED file

(* The caller gives its lock back and forgets the run.                     *)
Release(a, r) ==
  /\ host[r] = a /\ Unlock(a, r)
  /\ Gone(Children(r) \cap ended)
  /\ phase' = [phase EXCEPT ![r] = "over"]
  /\ host' = [host EXCEPT ![r] = Nobody]
  /\ UNCHANGED stopped

List(a) ==
  /\ Up(a) /\ file' = Purged(a)
  /\ UNCHANGED <<os, held, work, stopped>>

-----------------------------------------------------------------------------
(* A workflow: its thread runs one child after the other under the lock.   *)

StepStarts(r, p) ==
  /\ r \in Workflows /\ phase[r] = "acquired" /\ Children(r) = {}
  /\ Start(p, r) /\ UNCHANGED <<locks, work, stopped>>

StepWaited(r, p) ==
  /\ r \in Workflows /\ phase[r] = "acquired" /\ proc[p] = r /\ p \in ended
  /\ Gone({p}) /\ UNCHANGED <<locks, work, stopped>>

(* The last step ended, or an error of the loop (a record that cannot be   *)
(* written) ends the thread under a live child.                            *)
WorkflowEnds(a, r) ==
  /\ r \in Workflows /\ phase[r] = "acquired"
  /\ Children(r) = {} \/ "thread" \in Faults
  /\ Release(a, r)

-----------------------------------------------------------------------------
(* A backtest: a child that the lock is rebound to.                        *)

Popen(r, p) ==
  /\ r \in Backtests /\ phase[r] = "acquired"
  /\ Start(p, r)
  /\ phase' = [phase EXCEPT ![r] = "spawned"]
  /\ UNCHANGED <<locks, host, stopped>>

Rebound_Birthless(r, p) == [run |-> r, pid |-> p, born |-> 0]
Rebound(r, p) == [run |-> r, pid |-> p, born |-> born[p]]

Rebind(a, r, p) ==
  LET s == ScopeOf(r)
  IN  /\ phase[r] = "spawned" /\ host[r] = a /\ proc[p] = r /\ file[s].run = r
      /\ file' = [file EXCEPT ![s] = Rebound(r, p)]
      /\ held' = IF held[a][s] = r THEN [held EXCEPT ![a][s] = Nobody] ELSE held
      /\ phase' = [phase EXCEPT ![r] = "bound"]
      /\ UNCHANGED <<os, host, stopped>>

(* The child cannot be started; or its lock is gone, or cannot be read or   *)
(* written: the launcher releases it, and nobody follows the child if any. *)
LaunchFails(r) ==
  /\ \/ r \in Backtests /\ phase[r] = "acquired"
     \/ phase[r] = "spawned" /\ (file[ScopeOf(r)].run = r => "rebind" \in Faults)
  /\ phase' = [phase EXCEPT ![r] = "releasing"]
  /\ UNCHANGED <<os, locks, host, stopped>>

(* A poll finds that the child ended.                                      *)
Poll(a, r, p) ==
  /\ phase[r] = "bound" /\ host[r] = a /\ proc[p] = r /\ p \in ended
  /\ Gone({p})
  /\ phase' = [phase EXCEPT ![r] = "releasing"]
  /\ UNCHANGED <<locks, host, stopped>>

GivesBack(a, r) == phase[r] = "releasing" /\ Release(a, r)

(* A backtest that console a does not follow is listed from its lock; to   *)
(* stop it is to kill the process the lock names, then to release it.      *)
StopRecovered(a, r) ==
  LET l == file[ScopeOf(r)]
  IN  /\ Up(a) /\ r \in Backtests /\ (host[r] # a \/ phase[r] # "bound")
      /\ l.run = r /\ IsActive(a, ScopeOf(r))
      /\ IF proc[l.pid] \in Apps
         THEN /\ "prelock" \in Faults /\ Dies(proc[l.pid])
              /\ stopped' = [b \in Apps |-> IF b = proc[l.pid] THEN {} ELSE
                               IF b = a THEN stopped[b] \cup {r} ELSE stopped[b]]
         ELSE /\ IF proc[l.pid] \in Runs /\ l.pid \notin ended
                 THEN Exit(l.pid) ELSE UNCHANGED os
              /\ stopped' = [stopped EXCEPT ![a] = @ \cup {r}]
              /\ UNCHANGED <<locks, work>>

StopReleases(a, r) ==
  /\ r \in stopped[a] /\ Unlock(a, r)
  /\ stopped' = [stopped EXCEPT ![a] = @ \ {r}]
  /\ UNCHANGED <<os, work>>

-----------------------------------------------------------------------------
Next ==
  \/ \E a \in Apps : AppDies(a) \/ List(a)
  \/ \E a \in Apps, p \in Pids : AppStarts(a, p)
  \/ \E p \in Pids : ForeignStarts(p) \/ ForeignEnds(p) \/ ChildExits(p)
  \/ \E a \in Apps, r \in Runs :
       \/ Acquire(a, r) \/ Busy(a, r) \/ WorkflowEnds(a, r)
       \/ GivesBack(a, r) \/ StopRecovered(a, r) \/ StopReleases(a, r)
  \/ \E r \in Runs : LaunchFails(r)
  \/ \E r \in Runs, p \in Pids : StepStarts(r, p) \/ StepWaited(r, p) \/ Popen(r, p)
  \/ \E a \in Apps, r \in Runs, p \in Pids : Rebind(a, r, p) \/ Poll(a, r, p)

Spec == Init /\ [][Next]_vars

-----------------------------------------------------------------------------
(* The values of the variables.                                            *)
TypeOK ==
  /\ proc \in [Pids -> Apps \cup Runs \cup {Nobody, Foreign}]
  /\ born \in [Pids -> 0 .. Births]
  /\ ended \subseteq Pids
  /\ file \in [Scopes -> Lock \cup {Free}]
  /\ held \in [Apps -> [Scopes -> Runs \cup {Nobody}]]
  /\ phase \in [Runs -> Phases] /\ host \in [Runs -> Apps \cup {Nobody}]
  /\ stopped \in [Apps -> SUBSET Runs]

(* Two runs never have live children together, whichever consoles started  *)
(* them, died and restarted and whatever process numbers were reused,      *)
(* except an isolated backtest beside a run of another scope.              *)
Compatible(r, q) == ScopeOf(r) # ScopeOf(q) /\ {r, q} \cap Readers # {}

Exclusive == \A r, q \in Runs : r # q /\ Live(r) /\ Live(q) => Compatible(r, q)

(* A lock that the console named in its file, or any console when the file *)
(* names none, takes for a live one belongs to a run whose caller is still *)
(* between acquisition and release or whose child was not waited for: no   *)
(* reused process number and no file that could not be removed keeps a     *)
(* scope shut.                                                             *)
Working(r) ==
  \/ host[r] # Nobody /\ phase[r] \in {"acquired", "spawned", "releasing"}
  \/ Children(r) # {}

NoGhost ==
  \A a \in Apps, s \in Scopes :
    /\ Up(a) /\ IsActive(a, s)
    /\ proc[file[s].pid] \in Apps => proc[file[s].pid] = a
    => Working(file[s].run)

(* While the child of a run lives, no step of another run or console takes *)
(* away the file that names it: not a release that comes late, not a purge *)
(* by a console that did not start it.                                     *)
LiveKept ==
  [][\A r \in Runs :
       file[ScopeOf(r)].run = r /\ Live(r) /\ Live(r)' => file'[ScopeOf(r)].run = r]_vars
=============================================================================
