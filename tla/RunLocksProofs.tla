---------------------------- MODULE RunLocksProofs ----------------------------
(***************************************************************************)
(* Two runs never work together (Exclusive) and the file of a live run     *)
(* stays (LiveKept), for any number of consoles, runs and process numbers, *)
(* when nothing else goes wrong than lock files that cannot be removed.    *)
(***************************************************************************)
EXTENDS RunLocks, TLAPS

\* No console dies under its own work, and every lock is rebound.
Careful == Faults \subseteq {"unlink"}

\* A run that its caller still prepares, or that has a live child.
Prepared(r) == phase[r] \in {"acquired", "spawned"}
Occupies(r) == Prepared(r) \/ Live(r)

\* The lock file of a run names it, and the process that stands for it: the
\* console of a run that is prepared, the child of one that was rebound.
Holds(r) ==
  LET s == ScopeOf(r)
      p == file[s].pid
  IN  /\ file[s].run = r /\ born[p] = file[s].born
      /\ Prepared(r) => host[r] \in Apps /\ proc[p] = host[r] /\ held[host[r]][s] = r
      /\ ~Prepared(r) => proc[p] = r

\* Each console and each run has one process, and a process has a birth.
ProcessInv ==
  /\ \A p, q \in Pids : proc[p] = proc[q] /\ proc[p] \in Apps \cup Runs => p = q
  /\ \A p \in Pids : proc[p] # Nobody => born[p] \in 1 .. Births
  /\ \A p \in ended : proc[p] \in Runs

\* A lock file is of the scope of its run, which has left its first state.
FileInv ==
  \A s \in Scopes : file[s] # Free => s = ScopeOf(file[s].run) /\ phase[file[s].run] # "idle"

\* When a run has no child at all, and when it has none that lives.
ChildInv ==
  /\ \A r \in Runs :
       /\ phase[r] = "idle" => Children(r) = {}
       /\ phase[r] = "acquired" /\ r \in Backtests => Children(r) = {}
       /\ phase[r] = "releasing" => ~Live(r)
  /\ \A a \in Apps : \A r \in stopped[a] :
       phase[r] \notin {"idle", "acquired", "spawned"} /\ ~Live(r)

HoldInv == \A r \in Runs : Occupies(r) => Holds(r)

ApartInv == \A r, q \in Runs : r # q /\ Occupies(r) /\ Occupies(q) => Compatible(r, q)

LockInv == TypeOK /\ ProcessInv /\ FileInv /\ ChildInv /\ HoldInv /\ ApartInv
-----------------------------------------------------------------------------
(* The operators of the module.                                            *)

\* The constants, as the proofs need them.
LEMMA ConstantFacts ==
  /\ Nobody \notin Apps /\ Nobody \notin Runs /\ Foreign \notin Apps /\ Foreign \notin Runs
  /\ Nobody # Foreign /\ \A a \in Apps : a \notin Runs
  /\ \A r \in Workflows : r \notin Backtests
  BY ConstantsAssumption

\* A run has one scope.
LEMMA ScopeOfRun == \A r \in Runs : ScopeOf(r) \in Scopes
  BY DEF ScopeOf, Scopes, Runs

\* A live run has a child that has not ended, before a step and after it.
LEMMA LiveMeans ==
  ASSUME NEW r \in Runs
  PROVE  /\ Live(r) <=> \E p \in Pids : proc[p] = r /\ p \notin ended
         /\ Live(r)' <=> \E p \in Pids : proc'[p] = r /\ p \notin ended'
  BY DEF Live, Children

\* A file that names a run is a lock.
LEMMA NamedIsLock ==
  ASSUME TypeOK, NEW s \in Scopes, file[s].run \in Runs
  PROVE  file[s] # Free /\ file[s] \in Lock /\ file[s].pid \in Pids
  BY ConstantFacts DEF TypeOK, Free, Lock

\* Every console takes the lock of an occupied scope for a live one.
LEMMA OccupiedIsActive ==
  ASSUME LockInv, NEW a \in Apps, NEW r \in Runs, Occupies(r)
  PROVE  IsActive(a, ScopeOf(r)) /\ file[ScopeOf(r)].run = r /\ file[ScopeOf(r)].pid \in Pids
<1>1. Holds(r)
  BY DEF LockInv, HoldInv
<1>2. file[ScopeOf(r)] # Free /\ file[ScopeOf(r)].pid \in Pids
  BY <1>1, ScopeOfRun, NamedIsLock DEF LockInv, Holds
<1> QED BY <1>1, <1>2, ConstantFacts DEF Holds, IsActive

\* So a purge leaves the lock of an occupied scope.
LEMMA PurgeKeeps ==
  ASSUME LockInv, NEW a \in Apps, NEW r \in Runs, Occupies(r)
  PROVE  Purged(a)[ScopeOf(r)] = file[ScopeOf(r)]
  BY OccupiedIsActive, ScopeOfRun DEF Purged

\* Three lock files leave one of four births.
LEMMA BirthLeft ==
  ASSUME TypeOK, NEW p \in Pids
  PROVE  \E n \in 1 .. Births : \A s \in Scopes : file[s].pid = p => file[s].born # n
<1>1. \E n \in {1, 2, 3, 4} :
        /\ n # file["pipeline"].born /\ n # file["backtesting"].born
        /\ n # file["backtesting_readonly"].born
  OBVIOUS
<1> QED BY <1>1 DEF Births, Scopes

\* A process that starts has a birth, and leaves the others as they were.
LEMMA StartGives ==
  ASSUME TypeOK, NEW p \in Pids, NEW who, Start(p, who)
  PROVE  /\ proc[p] = Nobody /\ ended' = ended
         /\ proc' = [proc EXCEPT ![p] = who]
         /\ \E n \in 1 .. Births : born' = [born EXCEPT ![p] = n]
  BY BirthLeft DEF Start

\* Starting what has no process keeps one process each.
LEMMA StartKeeps ==
  ASSUME TypeOK, ProcessInv, NEW p \in Pids, NEW who \in Apps \cup Runs \cup {Foreign},
         Start(p, who), who # Foreign => \A q \in Pids : proc[q] # who
  PROVE  /\ ProcessInv'
         /\ proc' \in [Pids -> Apps \cup Runs \cup {Nobody, Foreign}]
         /\ born' \in [Pids -> 0 .. Births] /\ ended' \subseteq Pids
         /\ \A q \in Pids : proc[q] # Nobody => proc'[q] = proc[q] /\ born'[q] = born[q]
<1>1. /\ proc[p] = Nobody /\ ended' = ended /\ proc' = [proc EXCEPT ![p] = who]
  BY StartGives
<1>2. PICK n \in 1 .. Births : born' = [born EXCEPT ![p] = n]
  BY StartGives
<1>3. n \in 0 .. Births
  BY DEF Births
<1> QED BY <1>1, <1>2, <1>3, ConstantFacts DEF TypeOK, ProcessInv

\* So does the end of any of them.
LEMMA GoneKeeps ==
  ASSUME TypeOK, ProcessInv, NEW ps \in SUBSET Pids, Gone(ps)
  PROVE  /\ ProcessInv'
         /\ proc' \in [Pids -> Apps \cup Runs \cup {Nobody, Foreign}]
         /\ born' \in [Pids -> 0 .. Births] /\ ended' \subseteq Pids
         /\ \A q \in Pids \ ps : proc'[q] = proc[q] /\ born'[q] = born[q]
         /\ \A q \in ps : proc'[q] = Nobody
         /\ ended' = ended \ ps
<1>1. /\ proc' = [p \in Pids |-> IF p \in ps THEN Nobody ELSE proc[p]]
      /\ born' = [p \in Pids |-> IF p \in ps THEN 0 ELSE born[p]]
      /\ ended' = ended \ ps
  BY DEF Gone
<1>2. 0 \in 0 .. Births
  BY DEF Births
<1> QED BY <1>1, <1>2, ConstantFacts DEF TypeOK, ProcessInv

\* And so does the exit of a child.
LEMMA ExitKeeps ==
  ASSUME TypeOK, ProcessInv, NEW p \in Pids, proc[p] \in Runs, Exit(p)
  PROVE  /\ ProcessInv'
         /\ proc' \in [Pids -> Apps \cup Runs \cup {Nobody, Foreign}]
         /\ born' \in [Pids -> 0 .. Births] /\ ended' \subseteq Pids
         /\ \A q \in Pids \ {p} : proc'[q] = proc[q] /\ born'[q] = born[q]
         /\ proc'[p] = Nobody \/ (proc'[p] = proc[p] /\ p \in ended')
         /\ \A q \in Pids \ {p} : q \in ended' <=> q \in ended
<1>1. CASE host[proc[p]] = Nobody
  BY <1>1, GoneKeeps DEF Exit
<1>2. CASE host[proc[p]] # Nobody
  BY <1>2 DEF Exit, TypeOK, ProcessInv
<1> QED BY <1>1, <1>2
-----------------------------------------------------------------------------
(* Steps that start no process.                                            *)

\* Processes end, and children that ended stay ended until waited for.
Shrinks ==
  \A q \in Pids : \/ proc'[q] = proc[q] /\ born'[q] = born[q] /\ (q \in ended => q \in ended')
                  \/ proc'[q] = Nobody

\* The process that the lock of an occupied scope names.
LEMMA OccupiedPid ==
  ASSUME LockInv, NEW r \in Runs, Occupies(r)
  PROVE  LET p == file[ScopeOf(r)].pid
         IN  /\ p \in Pids /\ file[ScopeOf(r)].run = r /\ born[p] = file[ScopeOf(r)].born
             /\ Prepared(r) => host[r] \in Apps /\ proc[p] = host[r]
                               /\ held[host[r]][ScopeOf(r)] = r
             /\ ~Prepared(r) => /\ proc[p] = r /\ p \notin ended
                                /\ \A q \in Pids : proc[q] = r => q = p
<1>1. Holds(r) /\ file[ScopeOf(r)].pid \in Pids
  BY ScopeOfRun, NamedIsLock DEF LockInv, HoldInv, Holds
<1>2. ~Prepared(r) => \E q \in Pids : proc[q] = r /\ q \notin ended
  BY LiveMeans DEF Occupies
<1> QED BY <1>1, <1>2 DEF Holds, LockInv, ProcessInv

\* No run becomes live when processes only end.
LEMMA ShrinkLive ==
  ASSUME Shrinks, NEW r \in Runs
  PROVE  /\ Live(r)' => Live(r)
         /\ Children(r) = {} => Children(r)' = {}
  BY LiveMeans, ConstantFacts DEF Shrinks, Children

\* When processes only end, no lock is taken, and the lock of what stays
\* occupied is left alone with its console, occupied scopes stay held.
LEMMA ShrinkHolds ==
  ASSUME LockInv, Shrinks,
         \A r \in Runs : Prepared(r)' =>
           /\ Prepared(r) /\ host'[r] = host[r]
           /\ held'[host[r]][ScopeOf(r)] = held[host[r]][ScopeOf(r)]
           /\ \A q \in Pids : proc[q] = host[r] => proc'[q] = proc[q] /\ born'[q] = born[q],
         \A r \in Runs : Occupies(r)' =>
           /\ file'[ScopeOf(r)] = file[ScopeOf(r)]
           /\ Prepared(r) => Prepared(r)'
  PROVE  HoldInv' /\ ApartInv'
<1>1. ASSUME NEW r \in Runs, Occupies(r)' PROVE Occupies(r) /\ Holds(r)'
  <2>1. Occupies(r)
    BY <1>1, ShrinkLive DEF Occupies
  <2> DEFINE p == file[ScopeOf(r)].pid
  <2>2. /\ p \in Pids /\ file[ScopeOf(r)].run = r /\ born[p] = file[ScopeOf(r)].born
        /\ Prepared(r) => host[r] \in Apps /\ proc[p] = host[r]
                          /\ held[host[r]][ScopeOf(r)] = r
        /\ ~Prepared(r) => proc[p] = r /\ \A q \in Pids : proc[q] = r => q = p
    BY <2>1, OccupiedPid
  <2>3. file'[ScopeOf(r)] = file[ScopeOf(r)] /\ (Prepared(r)' <=> Prepared(r))
    BY <1>1
  <2>4. CASE Prepared(r)
    BY <1>1, <2>1, <2>2, <2>3, <2>4 DEF Holds
  <2>5. CASE ~Prepared(r)
    <3>1. PICK q \in Pids : proc'[q] = r /\ q \notin ended'
      BY <1>1, <2>3, <2>5, LiveMeans DEF Occupies
    <3>2. q = p /\ proc'[q] = proc[q] /\ born'[q] = born[q]
      BY <2>2, <2>5, <3>1, ConstantFacts DEF Shrinks
    <3> QED BY <2>1, <2>2, <2>3, <2>5, <3>1, <3>2 DEF Holds
  <2> QED BY <2>4, <2>5
<1> QED BY <1>1 DEF HoldInv, ApartInv, LockInv, Compatible, ScopeOf

\* A run does not go back to its first states, and what is released or
\* stopped has no live child.
LEMMA ShrinkChildren ==
  ASSUME LockInv, Shrinks,
         \A r \in Runs : /\ phase'[r] = "idle" => phase[r] = "idle"
                         /\ phase'[r] = "acquired" => phase[r] \in {"idle", "acquired"}
                         /\ phase'[r] = "spawned" => phase[r] = "spawned"
                         /\ phase'[r] = "releasing" => phase[r] = "releasing" \/ ~Live(r)',
         \A a \in Apps : \A r \in stopped'[a] :
           \/ r \in stopped[a]
           \/ r \in Runs /\ phase'[r] \notin {"idle", "acquired", "spawned"} /\ ~Live(r)'
  PROVE  ChildInv'
<1>1. \A a \in Apps : \A r \in stopped[a] : r \in Runs
  BY DEF LockInv, TypeOK
<1> QED BY <1>1, ShrinkLive DEF LockInv, ChildInv

\* Removing lock files keeps what the others say.
LEMMA RemovedFiles ==
  ASSUME LockInv, \A s \in Scopes : file'[s] \in {file[s], Free},
         file' = [s \in Scopes |-> file'[s]],
         \A r \in Runs : phase'[r] = "idle" => phase[r] = "idle"
  PROVE  FileInv' /\ file' \in [Scopes -> Lock \cup {Free}]
  BY ConstantFacts DEF LockInv, FileInv, TypeOK, Lock, ScopeOf
-----------------------------------------------------------------------------
(* Steps that start a process.                                             *)

\* When a process starts for what had none, and no other scope becomes
\* occupied, occupied scopes stay held.
LEMMA StartHolds ==
  ASSUME LockInv, NEW p \in Pids, NEW who \in Apps \cup Runs \cup {Foreign}, Start(p, who),
         who # Foreign => \A q \in Pids : proc[q] # who,
         UNCHANGED <<file, held, host>>,
         \A r \in Runs : /\ Prepared(r)' <=> Prepared(r)
                         /\ who = r => Prepared(r)
  PROVE  HoldInv' /\ ApartInv'
<1>1. \A q \in Pids : proc[q] # Nobody => proc'[q] = proc[q] /\ born'[q] = born[q]
  BY StartKeeps DEF LockInv
<1>2. proc' = [proc EXCEPT ![p] = who] /\ ended' = ended /\ proc[p] = Nobody
  BY StartGives DEF LockInv
<1>3. ASSUME NEW r \in Runs, Occupies(r)' PROVE Occupies(r)
  <2>1. CASE Prepared(r)
    BY <2>1 DEF Occupies
  <2>2. CASE ~Prepared(r)
    <3>1. PICK q \in Pids : proc'[q] = r /\ q \notin ended'
      BY <1>3, <2>2, LiveMeans DEF Occupies
    <3>2. proc[q] = r /\ q \notin ended
      BY <1>2, <2>2, <3>1 DEF LockInv, TypeOK
    <3> QED BY <3>2, LiveMeans DEF Occupies
  <2> QED BY <2>1, <2>2
<1>4. ASSUME NEW r \in Runs, Occupies(r)' PROVE Holds(r)'
  <2> DEFINE i == file[ScopeOf(r)].pid
  <2>1. Occupies(r) /\ (Prepared(r)' <=> Prepared(r))
    BY <1>3, <1>4
  <2>2. /\ i \in Pids /\ file[ScopeOf(r)].run = r /\ born[i] = file[ScopeOf(r)].born
        /\ Prepared(r) => host[r] \in Apps /\ proc[i] = host[r]
                          /\ held[host[r]][ScopeOf(r)] = r
        /\ ~Prepared(r) => proc[i] = r
    BY <2>1, OccupiedPid
  <2>3. proc'[i] = proc[i] /\ born'[i] = born[i]
    BY <1>1, <2>2, ConstantFacts
  <2> QED BY <2>1, <2>2, <2>3 DEF Holds
<1> QED BY <1>3, <1>4 DEF HoldInv, ApartInv, LockInv, Compatible, ScopeOf

\* The other parts of the invariant after a console, another program or a
\* step of a workflow starts.
LEMMA StartChildren ==
  ASSUME LockInv, NEW p \in Pids, NEW who \in Apps \cup Runs \cup {Foreign}, Start(p, who),
         UNCHANGED stopped,
         \A r \in Runs : IF who = r THEN phase[r] = "acquired" /\ (r \in Workflows \/ phase'[r] = "spawned")
                                         /\ phase'[r] \in {"acquired", "spawned"}
                                    ELSE phase'[r] = phase[r]
  PROVE  ChildInv'
<1>1. proc' = [proc EXCEPT ![p] = who] /\ ended' = ended /\ proc[p] = Nobody
  BY StartGives DEF LockInv
<1>2. ASSUME NEW r \in Runs, who # r
      PROVE  (Children(r) = {} => Children(r)' = {}) /\ (~Live(r) => ~Live(r)')
  BY <1>1, <1>2, LiveMeans DEF Children, LockInv, TypeOK
<1>3. \A a \in Apps : \A r \in stopped[a] : r \in Runs
  BY DEF LockInv, TypeOK
<1> QED BY <1>2, <1>3, ConstantFacts DEF LockInv, ChildInv

\* A console or another program starts.
LEMMA ProgramStarts ==
  ASSUME LockInv, NEW p \in Pids, NEW who \in Apps \cup {Foreign}, Start(p, who),
         who # Foreign => ~Up(who), UNCHANGED <<locks, work, stopped>>
  PROVE  LockInv'
<1> USE ConstantFacts DEF locks, work
<1>1. who # Foreign => \A q \in Pids : proc[q] # who
  BY DEF Up
<1>2. ProcessInv' /\ TypeOK'
  BY <1>1, StartKeeps DEF LockInv, TypeOK
<1>3. HoldInv' /\ ApartInv'
  BY <1>1, StartHolds DEF Prepared
<1>4. ChildInv'
  BY StartChildren
<1> QED BY <1>2, <1>3, <1>4 DEF LockInv, FileInv

\* A child starts: a step of a workflow, or a backtest.
LEMMA ChildStarts ==
  ASSUME LockInv, NEW r \in Runs, NEW p \in Pids, StepStarts(r, p) \/ Popen(r, p)
  PROVE  LockInv'
<1> USE ConstantFacts DEF locks, work
<1>1. /\ Start(p, r) /\ phase[r] = "acquired" /\ UNCHANGED <<file, held, host, stopped>>
      /\ \/ r \in Workflows /\ phase' = phase
         \/ phase' = [phase EXCEPT ![r] = "spawned"]
  BY DEF StepStarts, Popen
<1>2. \A q \in Pids : proc[q] # r
  BY <1>1 DEF StepStarts, Popen, LockInv, ChildInv, Children
<1>3. ProcessInv' /\ TypeOK'
  BY <1>1, <1>2, StartKeeps DEF LockInv, TypeOK, Phases
<1>4. HoldInv' /\ ApartInv'
  BY <1>1, <1>2, StartHolds DEF Prepared, LockInv, TypeOK
<1>5. ChildInv'
  BY <1>1, StartChildren DEF LockInv, TypeOK
<1>6. FileInv'
  BY <1>1 DEF LockInv, FileInv, TypeOK, Lock
<1> QED BY <1>3, <1>4, <1>5, <1>6 DEF LockInv
-----------------------------------------------------------------------------
(* Steps in which processes end.                                           *)

\* What a prepared run relies on when the consoles stay.
ConsolesStay == \A q \in Pids : proc[q] \in Apps => proc'[q] = proc[q] /\ born'[q] = born[q]

\* The processes of programs and children end, the locks and callers as before.
LEMMA EndsKeep ==
  ASSUME LockInv, Shrinks, ConsolesStay, UNCHANGED <<locks, work, stopped>>,
         ProcessInv',
         proc' \in [Pids -> Apps \cup Runs \cup {Nobody, Foreign}],
         born' \in [Pids -> 0 .. Births], ended' \subseteq Pids
  PROVE  LockInv'
<1> USE DEF locks, work
<1>1. TypeOK' /\ FileInv'
  BY DEF LockInv, TypeOK, FileInv
<1>2. HoldInv' /\ ApartInv'
  <2>1. \A r \in Runs : Prepared(r) => host[r] \in Apps
    BY OccupiedPid DEF Occupies
  <2> QED BY <2>1, ShrinkHolds DEF ConsolesStay, Prepared
<1>3. ChildInv'
  BY ShrinkChildren
<1> QED BY <1>1, <1>2, <1>3 DEF LockInv

\* Another program ends, a child exits, or the thread of a workflow waits for it.
LEMMA ProcessEnds ==
  ASSUME LockInv, NEW p \in Pids,
         ForeignEnds(p) \/ ChildExits(p) \/ \E r \in Runs : StepWaited(r, p)
  PROVE  LockInv'
<1>1. CASE ForeignEnds(p) \/ \E r \in Runs : StepWaited(r, p)
  <2>1. /\ proc[p] \in Runs \cup {Foreign} /\ Gone({p})
        /\ UNCHANGED <<locks, work, stopped>>
    BY <1>1 DEF ForeignEnds, StepWaited
  <2>2. {p} \in SUBSET Pids
    OBVIOUS
  <2>3. Shrinks /\ ConsolesStay
    BY <2>1, <2>2, GoneKeeps, ConstantFacts DEF LockInv, Shrinks, ConsolesStay
  <2> QED BY <2>1, <2>2, <2>3, GoneKeeps, EndsKeep DEF LockInv
<1>2. CASE ChildExits(p)
  <2>1. proc[p] \in Runs /\ Exit(p) /\ UNCHANGED <<locks, work, stopped>>
    BY <1>2 DEF ChildExits
  <2>2. Shrinks /\ ConsolesStay
    BY <2>1, ExitKeeps, ConstantFacts DEF LockInv, Shrinks, ConsolesStay, Exit, Gone
  <2> QED BY <2>1, <2>2, ExitKeeps, EndsKeep DEF LockInv
<1> QED BY <1>1, <1>2

\* A console dies, which has no live child but those of the locks it rebound.
LEMMA AppDiesKeeps ==
  ASSUME LockInv, Careful, NEW a \in Apps, AppDies(a)
  PROVE  LockInv'
<1> DEFINE unwaited == {p \in ended : host[proc[p]] = a}
           ps == {PidOf(a)} \cup unwaited
<1> USE ConstantFacts
<1>1. /\ Gone(ps) /\ file' = file
      /\ held' = [held EXCEPT ![a] = [s \in Scopes |-> Nobody]]
      /\ host' = [r \in Runs |-> IF host[r] = a THEN Nobody ELSE host[r]]
      /\ phase' = [r \in Runs |-> IF host[r] = a THEN "over" ELSE phase[r]]
      /\ stopped' = [stopped EXCEPT ![a] = {}]
  BY DEF AppDies, Dies
<1>2. PidOf(a) \in Pids /\ proc[PidOf(a)] = a
  BY DEF AppDies, Up, PidOf
<1>3. ps \in SUBSET Pids /\ \A q \in ps : proc[q] \in Apps => proc[q] = a
  BY <1>2 DEF LockInv, TypeOK, ProcessInv
<1> HIDE DEF ps
<1>4. Shrinks /\ \A q \in Pids : proc[q] \in Apps \ {a} => proc'[q] = proc[q] /\ born'[q] = born[q]
  BY <1>1, <1>3, GoneKeeps DEF LockInv, Shrinks
<1>5. TypeOK' /\ ProcessInv'
  <2>1. /\ held' \in [Apps -> [Scopes -> Runs \cup {Nobody}]]
        /\ host' \in [Runs -> Apps \cup {Nobody}] /\ phase' \in [Runs -> Phases]
        /\ stopped' \in [Apps -> SUBSET Runs]
    BY <1>1 DEF LockInv, TypeOK, Phases
  <2> QED BY <1>1, <1>3, <2>1, GoneKeeps DEF LockInv, TypeOK
<1>6. FileInv'
  BY <1>1 DEF LockInv, FileInv, TypeOK, Lock
<1>7. ASSUME NEW r \in Runs, host[r] = a, Prepared(r) PROVE ~Live(r)
  <2>1. Live(r) => r \notin Workflows /\ phase[r] # "spawned"
    BY <1>7 DEF AppDies, MayDie, Careful
  <2>2. Live(r) => phase[r] # "acquired"
    BY <2>1, LiveMeans DEF LockInv, ChildInv, Children, Runs, Backtests
  <2> QED BY <1>7, <2>1, <2>2 DEF Prepared
<1>8. HoldInv' /\ ApartInv'
  <2>1. \A r \in Runs : Prepared(r) => host[r] \in Apps
    BY OccupiedPid DEF Occupies
  <2>2. \A r \in Runs : Prepared(r)' => Prepared(r) /\ host[r] # a /\ host'[r] = host[r]
    BY <1>1 DEF Prepared, LockInv, TypeOK
  <2>3. \A r \in Runs : Occupies(r)' /\ Prepared(r) => Prepared(r)'
    BY <1>1, <1>4, <1>7, ShrinkLive DEF Occupies, Prepared
  <2>4. \A b \in Apps \ {a} : held'[b] = held[b]
    BY <1>1 DEF LockInv, TypeOK
  <2> QED BY <1>1, <1>4, <2>1, <2>2, <2>3, <2>4, ShrinkHolds
<1>9. ChildInv'
  <2>1. \A b \in Apps : \A r \in stopped'[b] : r \in stopped[b]
    BY <1>1 DEF LockInv, TypeOK
  <2> QED BY <1>1, <1>4, <2>1, ShrinkChildren
<1> QED BY <1>5, <1>6, <1>8, <1>9 DEF LockInv
-----------------------------------------------------------------------------
(* Steps that take, rebind and give back a lock.                           *)

\* Processes that stay as they are shrink.
LEMMA SameShrinks == UNCHANGED os => Shrinks
  BY DEF os, Shrinks

\* A console takes the lock of a run: it purges no occupied scope, and the
\* occupied ones do not conflict with the run's.
LEMMA AcquireKeeps ==
  ASSUME LockInv, NEW a \in Apps, NEW r \in Runs, Acquire(a, r)
  PROVE  LockInv'
<1> DEFINE s == ScopeOf(r)
           p == PidOf(a)
<1> USE ConstantFacts
<1>1. /\ phase[r] = "idle" /\ UNCHANGED <<proc, born, ended, stopped>>
      /\ \A t \in Scopes : IsActive(a, t) => ~Conflicts(s, t)
      /\ file' = [Purged(a) EXCEPT ![s] = [run |-> r, pid |-> p, born |-> born[p]]]
      /\ held' = [held EXCEPT ![a][s] = r]
      /\ phase' = [phase EXCEPT ![r] = "acquired"]
      /\ host' = [host EXCEPT ![r] = a]
  BY DEF Acquire, os
<1>2. p \in Pids /\ proc[p] = a /\ born[p] \in 1 .. Births
  BY DEF Acquire, Up, PidOf, LockInv, ProcessInv
<1>3. s \in Scopes /\ s = ScopeOf(r)
  BY ScopeOfRun
<1> HIDE DEF s, p
<1>4. \A t \in Scopes : file'[t] = IF t = s THEN [run |-> r, pid |-> p, born |-> born[p]]
                                            ELSE Purged(a)[t]
  BY <1>1, <1>3 DEF Purged
<1>5. TypeOK'
  <2>1. file' \in [Scopes -> Lock \cup {Free}]
    BY <1>1, <1>2, <1>3 DEF Purged, Lock, LockInv, TypeOK
  <2>2. /\ held' \in [Apps -> [Scopes -> Runs \cup {Nobody}]]
        /\ phase' \in [Runs -> Phases] /\ host' \in [Runs -> Apps \cup {Nobody}]
    BY <1>1, <1>3 DEF LockInv, TypeOK, Phases
  <2> QED BY <1>1, <2>1, <2>2 DEF LockInv, TypeOK
<1>6. ProcessInv'
  BY <1>1 DEF LockInv, ProcessInv
<1>7. FileInv'
  <2> SUFFICES ASSUME NEW t \in Scopes, file'[t] # Free
               PROVE  t = ScopeOf(file'[t].run) /\ phase'[file'[t].run] # "idle"
    BY DEF FileInv
  <2>1. CASE t = s
    BY <1>1, <1>3, <1>4, <2>1 DEF LockInv, TypeOK
  <2>2. CASE t # s
    BY <1>1, <1>4, <2>2 DEF Purged, LockInv, FileInv, TypeOK
  <2> QED BY <2>1, <2>2
<1>8. ChildInv'
  <2>1. Shrinks
    BY <1>1, SameShrinks DEF os
  <2>2. \A q \in Runs : IF q = r THEN phase'[q] = "acquired" ELSE phase'[q] = phase[q]
    BY <1>1 DEF LockInv, TypeOK
  <2>3. \A b \in Apps : \A q \in stopped[b] : q \in Runs
    BY DEF LockInv, TypeOK
  <2> QED BY <1>1, <2>1, <2>2, <2>3, ShrinkChildren
<1>9. ASSUME NEW q \in Runs, q # r, Occupies(q)'
      PROVE  /\ Occupies(q) /\ IsActive(a, ScopeOf(q))
             /\ ScopeOf(q) # s /\ Holds(q)'
  <2>1. phase'[q] = phase[q] /\ host'[q] = host[q]
    BY <1>1, <1>9 DEF LockInv, TypeOK
  <2>2. Occupies(q)
    BY <1>1, <1>9, <2>1, LiveMeans DEF Occupies, Prepared
  <2>3. IsActive(a, ScopeOf(q)) /\ ScopeOf(q) \in Scopes /\ ScopeOf(q) # s
    BY <1>1, <1>3, <2>2, OccupiedIsActive, ScopeOfRun DEF Conflicts
  <2>4. file'[ScopeOf(q)] = file[ScopeOf(q)]
    BY <1>4, <2>2, <2>3, PurgeKeeps
  <2>5. \A b \in Apps : held'[b][ScopeOf(q)] = held[b][ScopeOf(q)]
    BY <1>1, <1>3, <2>3 DEF LockInv, TypeOK
  <2>6. Holds(q)
    BY <2>2 DEF LockInv, HoldInv
  <2>7. Holds(q)'
    BY <1>1, <2>1, <2>4, <2>5, <2>6 DEF Holds, Prepared
  <2> QED BY <2>2, <2>3, <2>7
<1>10. Holds(r)'
  <2>1. phase'[r] = "acquired" /\ host'[r] = a /\ held'[a][s] = r
    BY <1>1, <1>3 DEF LockInv, TypeOK
  <2> QED BY <1>1, <1>2, <1>3, <1>4, <2>1 DEF Holds, Prepared
<1>11. HoldInv'
  BY <1>9, <1>10 DEF HoldInv
<1>12. \A q \in Runs : q # r /\ Occupies(q)' => Compatible(q, r) /\ Compatible(r, q)
  <2> SUFFICES ASSUME NEW q \in Runs, q # r, Occupies(q)'
               PROVE  Compatible(q, r) /\ Compatible(r, q)
    OBVIOUS
  <2>1. ScopeOf(q) # s /\ ~Conflicts(s, ScopeOf(q))
    BY <1>1, <1>9, ScopeOfRun
  <2> QED BY <1>3, <2>1 DEF Conflicts, Compatible, ScopeOf, Runs, Backtests
<1>13. ApartInv'
  <2> SUFFICES ASSUME NEW x \in Runs, NEW y \in Runs, x # y, Occupies(x)', Occupies(y)'
               PROVE  Compatible(x, y)
    BY DEF ApartInv, Compatible, ScopeOf
  <2>1. CASE x = r \/ y = r
    BY <1>12, <2>1
  <2>2. CASE x # r /\ y # r
    BY <1>9, <2>2 DEF LockInv, ApartInv
  <2> QED BY <2>1, <2>2
<1> QED BY <1>5, <1>6, <1>7, <1>8, <1>11, <1>13 DEF LockInv
\* A start that is refused, and a listing, which only purges.
LEMMA BusyOrListKeeps ==
  ASSUME LockInv, NEW a \in Apps, List(a) \/ \E r \in Runs : Busy(a, r)
  PROVE  LockInv'
<1> USE ConstantFacts
<1>1. /\ UNCHANGED <<proc, born, ended, held, host, stopped>> /\ file' \in {file, Purged(a)}
      /\ phase' = phase \/ \E r \in Runs : phase[r] = "idle" /\ phase' = [phase EXCEPT ![r] = "over"]
  BY DEF List, Busy, os, locks, work
<1>2. Shrinks
  BY <1>1, SameShrinks DEF os
<1>3. \A r \in Runs : phase'[r] = phase[r] \/ (phase[r] = "idle" /\ phase'[r] = "over")
  BY <1>1 DEF LockInv, TypeOK
<1>4. FileInv' /\ file' \in [Scopes -> Lock \cup {Free}]
  <2>1. file' = [s \in Scopes |-> file'[s]] /\ \A s \in Scopes : file'[s] \in {file[s], Free}
    BY <1>1 DEF Purged, LockInv, TypeOK
  <2>2. \A r \in Runs : phase'[r] = "idle" => phase[r] = "idle"
    BY <1>3
  <2> QED BY <2>1, <2>2, RemovedFiles
<1>5. TypeOK' /\ ProcessInv'
  BY <1>1, <1>4 DEF LockInv, TypeOK, ProcessInv, Phases
<1>6. HoldInv' /\ ApartInv'
  <2>1. ASSUME NEW r \in Runs, Occupies(r)'
        PROVE  file'[ScopeOf(r)] = file[ScopeOf(r)] /\ (Prepared(r)' <=> Prepared(r))
    <3>1. Prepared(r)' <=> Prepared(r)
      BY <1>3 DEF Prepared
    <3>2. Occupies(r)
      BY <1>2, <2>1, <3>1, ShrinkLive DEF Occupies
    <3> QED BY <1>1, <3>1, <3>2, PurgeKeeps
  <2>2. \A r \in Runs : Prepared(r)' => Prepared(r)
    BY <1>3 DEF Prepared
  <2> QED BY <1>1, <1>2, <2>1, <2>2, ShrinkHolds
<1>7. ChildInv'
  BY <1>1, <1>2, <1>3, ShrinkChildren
<1> QED BY <1>4, <1>5, <1>6, <1>7 DEF LockInv

\* Giving a lock back removes at most the file of its run, and no console
\* forgets a scope it holds for another one.
LEMMA UnlockGives ==
  ASSUME LockInv, NEW a \in Apps, NEW r \in Runs, Unlock(a, r)
  PROVE  /\ file' = [s \in Scopes |-> file'[s]]
         /\ \A s \in Scopes : file'[s] \in {file[s], Free}
         /\ held' \in [Apps -> [Scopes -> Runs \cup {Nobody}]]
         /\ \A q \in Runs \ {r} : Occupies(q) =>
              /\ file'[ScopeOf(q)] = file[ScopeOf(q)]
              /\ Prepared(q) => held'[host[q]][ScopeOf(q)] = held[host[q]][ScopeOf(q)]
<1>1. held' = [held EXCEPT ![a] = [s \in Scopes |-> IF @[s] = r THEN Nobody ELSE @[s]]]
      /\ (file' = [s \in Scopes |-> IF file[s].run = r THEN Free ELSE file[s]] \/ file' = file)
  BY DEF Unlock, Unlinked
<1>2. ASSUME NEW q \in Runs \ {r}, Occupies(q)
      PROVE  /\ file'[ScopeOf(q)] = file[ScopeOf(q)]
             /\ Prepared(q) => held'[host[q]][ScopeOf(q)] = held[host[q]][ScopeOf(q)]
  BY <1>1, <1>2, OccupiedPid, ScopeOfRun DEF LockInv, TypeOK
<1> QED BY <1>1, <1>2 DEF LockInv, TypeOK

\* The lock of a run that has no live child is given back.
LEMMA ReleaseKeeps ==
  ASSUME LockInv, NEW a \in Apps, NEW r \in Runs, Release(a, r), ~Live(r)
  PROVE  LockInv'
<1> USE ConstantFacts
<1>1. /\ Unlock(a, r) /\ Gone(Children(r) \cap ended) /\ stopped' = stopped
      /\ phase' = [phase EXCEPT ![r] = "over"] /\ host' = [host EXCEPT ![r] = Nobody]
  BY DEF Release
<1>2. Children(r) \cap ended \in SUBSET Pids /\ \A q \in Children(r) \cap ended : proc[q] = r
  BY DEF Children
<1>3. Shrinks /\ ConsolesStay
  BY <1>1, <1>2, GoneKeeps DEF LockInv, Shrinks, ConsolesStay
<1>4. \A q \in Runs : IF q = r THEN phase'[q] = "over"
                               ELSE phase'[q] = phase[q] /\ host'[q] = host[q]
  BY <1>1 DEF LockInv, TypeOK
<1>5. FileInv' /\ file' \in [Scopes -> Lock \cup {Free}]
  BY <1>1, <1>4, UnlockGives, RemovedFiles
<1>6. TypeOK' /\ ProcessInv'
  <2>1. phase' \in [Runs -> Phases] /\ host' \in [Runs -> Apps \cup {Nobody}]
    BY <1>1 DEF LockInv, TypeOK, Phases
  <2> QED BY <1>1, <1>2, <1>5, <2>1, UnlockGives, GoneKeeps DEF LockInv, TypeOK
<1>7. HoldInv' /\ ApartInv'
  <2>1. \A q \in Runs : Prepared(q) => Occupies(q) /\ host[q] \in Apps
    BY OccupiedPid DEF Occupies
  <2>2. \A q \in Runs : Prepared(q)' => Prepared(q) /\ q # r
    BY <1>4 DEF Prepared
  <2>3. \A q \in Runs : Occupies(q)' => Occupies(q) /\ q # r /\ (Prepared(q) => Prepared(q)')
    BY <1>3, <1>4, ShrinkLive DEF Occupies, Prepared
  <2> QED BY <1>1, <1>3, <1>4, <2>1, <2>2, <2>3, UnlockGives, ShrinkHolds DEF ConsolesStay
<1>8. ChildInv'
  BY <1>1, <1>3, <1>4, ShrinkChildren
<1> QED BY <1>5, <1>6, <1>7, <1>8 DEF LockInv

\* A workflow ends without a child, and a launch or a poll gives back the lock
\* of a backtest once its child has ended.
LEMMA EndKeeps ==
  ASSUME LockInv, Careful, NEW a \in Apps, NEW r \in Runs,
         WorkflowEnds(a, r) \/ GivesBack(a, r)
  PROVE  LockInv'
<1>1. CASE WorkflowEnds(a, r)
  <2>1. Children(r) = {} /\ Release(a, r)
    BY <1>1 DEF WorkflowEnds, Careful
  <2> QED BY <2>1, ReleaseKeeps DEF Live
<1>2. CASE GivesBack(a, r)
  BY <1>2, ReleaseKeeps DEF GivesBack, LockInv, ChildInv
<1> QED BY <1>1, <1>2

\* A backtest that could not be launched, or that a poll finds ended, is left
\* to be released: it has no live child.
LEMMA LeftKeeps ==
  ASSUME LockInv, NEW r \in Runs, ~Live(r),
         NEW ps \in SUBSET Pids, \A q \in ps : proc[q] = r,
         Gone(ps), phase' = [phase EXCEPT ![r] = "releasing"],
         phase[r] # "idle",
         UNCHANGED <<locks, host, stopped>>
  PROVE  LockInv'
<1> USE ConstantFacts DEF locks
<1>1. Shrinks /\ ConsolesStay
  BY GoneKeeps DEF LockInv, Shrinks, ConsolesStay
<1>2. \A q \in Runs : IF q = r THEN phase'[q] = "releasing" ELSE phase'[q] = phase[q]
  BY DEF LockInv, TypeOK
<1>3. TypeOK' /\ ProcessInv'
  BY GoneKeeps DEF LockInv, TypeOK, Phases
<1>4. FileInv'
  BY DEF LockInv, FileInv, TypeOK, Lock
<1>5. HoldInv' /\ ApartInv'
  <2>1. \A q \in Runs : Prepared(q) => host[q] \in Apps
    BY OccupiedPid DEF Occupies
  <2>2. \A q \in Runs : Occupies(q)' => q # r
    BY <1>1, <1>2, ShrinkLive DEF Occupies, Prepared
  <2>3. \A q \in Runs : q # r => (Prepared(q)' <=> Prepared(q))
    BY <1>2 DEF Prepared
  <2>4. ~Prepared(r)'
    BY <1>2 DEF Prepared
  <2> QED BY <1>1, <2>1, <2>2, <2>3, <2>4, ShrinkHolds DEF ConsolesStay
<1>6. ChildInv'
  BY <1>1, <1>2, ShrinkLive, ShrinkChildren
<1> QED BY <1>3, <1>4, <1>5, <1>6 DEF LockInv
\* A launch that fails, which cannot be for a lock that cannot be rebound, and
\* a poll that finds the child ended.
LEMMA LeaveKeeps ==
  ASSUME LockInv, Careful, NEW r \in Runs,
         LaunchFails(r) \/ \E a \in Apps, p \in Pids : Poll(a, r, p)
  PROVE  LockInv'
<1>1. CASE LaunchFails(r)
  <2>1. /\ phase' = [phase EXCEPT ![r] = "releasing"]
        /\ UNCHANGED <<proc, born, ended, locks, host, stopped>>
        /\ \/ r \in Backtests /\ phase[r] = "acquired"
           \/ phase[r] = "spawned" /\ file[ScopeOf(r)].run # r
    BY <1>1 DEF LaunchFails, Careful, os
  <2>2. phase[r] = "acquired" /\ Children(r) = {}
    BY <2>1, OccupiedPid DEF Occupies, Prepared, LockInv, ChildInv
  <2>3. ~Live(r)
    BY <2>2 DEF Live
  <2>4. Gone({})
    BY <2>1 DEF Gone, LockInv, TypeOK
  <2> QED BY <2>1, <2>2, <2>3, <2>4, LeftKeeps
<1>2. ASSUME NEW a \in Apps, NEW p \in Pids, Poll(a, r, p) PROVE LockInv'
  <2>1. /\ phase[r] = "bound" /\ proc[p] = r /\ p \in ended /\ Gone({p})
        /\ phase' = [phase EXCEPT ![r] = "releasing"]
        /\ UNCHANGED <<locks, host, stopped>>
    BY <1>2 DEF Poll
  <2>2. ~Live(r)
    BY <2>1, LiveMeans DEF LockInv, ProcessInv
  <2>3. {p} \in SUBSET Pids /\ \A q \in {p} : proc[q] = r
    BY <2>1
  <2> QED BY <2>1, <2>2, <2>3, LeftKeeps
<1> QED BY <1>1, <1>2

\* The lock of a backtest is rebound to its child.
LEMMA RebindKeeps ==
  ASSUME LockInv, NEW a \in Apps, NEW r \in Runs, NEW p \in Pids, Rebind(a, r, p)
  PROVE  LockInv'
<1> DEFINE s == ScopeOf(r)
<1> USE ConstantFacts
<1>1. /\ phase[r] = "spawned" /\ proc[p] = r /\ file[s].run = r
      /\ UNCHANGED <<proc, born, ended, host, stopped>>
      /\ file' = [file EXCEPT ![s] = [run |-> r, pid |-> p, born |-> born[p]]]
      /\ held' = held \/ (held[a][s] = r /\ held' = [held EXCEPT ![a][s] = Nobody])
      /\ phase' = [phase EXCEPT ![r] = "bound"]
  BY DEF Rebind, Rebound, os
<1>2. s \in Scopes /\ s = ScopeOf(r) /\ born[p] \in 1 .. Births
  BY <1>1, ScopeOfRun DEF LockInv, ProcessInv
<1> HIDE DEF s
<1>3. \A q \in Runs : IF q = r THEN phase'[q] = "bound" ELSE phase'[q] = phase[q]
  BY <1>1 DEF LockInv, TypeOK
<1>4. TypeOK' /\ ProcessInv'
  <2>1. file' \in [Scopes -> Lock \cup {Free}]
    BY <1>1, <1>2 DEF LockInv, TypeOK, Lock
  <2>2. held' \in [Apps -> [Scopes -> Runs \cup {Nobody}]]
    <3>1. held \in [Apps -> [Scopes -> Runs \cup {Nobody}]]
      BY DEF LockInv, TypeOK
    <3>2. CASE held' = [held EXCEPT ![a][s] = Nobody]
      BY <1>2, <3>1, <3>2
    <3> QED BY <1>1, <3>1, <3>2
  <2>3. phase' \in [Runs -> Phases]
    BY <1>1 DEF LockInv, TypeOK, Phases
  <2> QED BY <1>1, <2>1, <2>2, <2>3 DEF LockInv, TypeOK, ProcessInv
<1>5. FileInv'
  <2> SUFFICES ASSUME NEW t \in Scopes, file'[t] # Free
               PROVE  t = ScopeOf(file'[t].run) /\ phase'[file'[t].run] # "idle"
    BY DEF FileInv
  <2>1. CASE t = s
    BY <1>1, <1>2, <1>3, <2>1 DEF LockInv, TypeOK
  <2>2. CASE t # s
    BY <1>1, <2>2 DEF LockInv, FileInv, TypeOK
  <2> QED BY <2>1, <2>2
<1>6. Shrinks
  BY <1>1, SameShrinks DEF os
<1>7. ChildInv'
  BY <1>1, <1>3, <1>6, ShrinkChildren
<1>8. ASSUME NEW q \in Runs, Occupies(q)' PROVE Occupies(q) /\ Holds(q)'
  <2>1. Occupies(q)
    BY <1>3, <1>6, <1>8, ShrinkLive DEF Occupies, Prepared
  <2>2. CASE q = r
    <3>1. file'[s] = [run |-> r, pid |-> p, born |-> born[p]] /\ phase'[r] = "bound"
      BY <1>1, <1>2 DEF LockInv, TypeOK
    <3> QED BY <1>1, <1>2, <2>1, <2>2, <3>1 DEF Holds, Prepared
  <2>3. CASE q # r
    <3>1. Holds(q)
      BY <2>1 DEF LockInv, HoldInv
    <3>2. ScopeOf(q) # s /\ ScopeOf(q) \in Scopes
      BY <1>1, <2>3, <3>1, ScopeOfRun DEF Holds
    <3>3. file'[ScopeOf(q)] = file[ScopeOf(q)]
          /\ \A b \in Apps : held'[b][ScopeOf(q)] = held[b][ScopeOf(q)]
      BY <1>1, <3>2 DEF LockInv, TypeOK
    <3> QED BY <1>1, <1>3, <2>1, <2>3, <3>1, <3>3 DEF Holds, Prepared
  <2> QED BY <2>2, <2>3
<1>9. HoldInv' /\ ApartInv'
  BY <1>8 DEF HoldInv, ApartInv, LockInv, Compatible, ScopeOf
<1> QED BY <1>4, <1>5, <1>7, <1>9 DEF LockInv

\* A backtest found by its lock is stopped: not one that is prepared, whose
\* lock names a console, and nothing of it is alive when it is released.
LEMMA StopKeeps ==
  ASSUME LockInv, Careful, NEW a \in Apps, NEW r \in Runs, StopRecovered(a, r)
  PROVE  LockInv'
<1> DEFINE p == file[ScopeOf(r)].pid
<1> USE ConstantFacts
<1>1. /\ file[ScopeOf(r)].run = r /\ proc[p] \notin Apps
      /\ IF proc[p] \in Runs /\ p \notin ended THEN Exit(p) ELSE UNCHANGED os
      /\ stopped' = [stopped EXCEPT ![a] = @ \cup {r}] /\ UNCHANGED <<locks, work>>
  BY DEF StopRecovered, Careful
<1>2. p \in Pids /\ phase[r] \notin {"idle", "acquired", "spawned"}
  BY <1>1, ScopeOfRun, NamedIsLock, OccupiedPid DEF LockInv, FileInv, Occupies, Prepared
<1>3. Live(r) => proc[p] = r /\ p \notin ended /\ \A q \in Pids : proc[q] = r => q = p
  BY <1>2, OccupiedPid DEF Occupies, Prepared
<1> HIDE DEF p
<1>4. /\ ProcessInv' /\ Shrinks /\ ConsolesStay /\ ~Live(r)'
      /\ proc' \in [Pids -> Apps \cup Runs \cup {Nobody, Foreign}]
      /\ born' \in [Pids -> 0 .. Births] /\ ended' \subseteq Pids
  <2>1. CASE proc[p] \in Runs /\ p \notin ended
    <3>1. Exit(p)
      BY <1>1, <2>1
    <3>2. Shrinks /\ ConsolesStay
      BY <1>2, <2>1, <3>1, ExitKeeps DEF LockInv, Shrinks, ConsolesStay, Exit, Gone
    <3>3. ~Live(r)'
      BY <1>2, <1>3, <2>1, <3>1, <3>2, ExitKeeps, LiveMeans, ShrinkLive DEF LockInv
    <3> QED BY <1>2, <2>1, <3>1, <3>2, <3>3, ExitKeeps DEF LockInv
  <2>2. CASE ~(proc[p] \in Runs /\ p \notin ended)
    <3>1. UNCHANGED <<proc, born, ended>>
      BY <1>1, <2>2 DEF os
    <3>2. ~Live(r)'
      BY <1>3, <2>2, <3>1, LiveMeans
    <3> QED BY <3>1, <3>2 DEF LockInv, TypeOK, ProcessInv, Shrinks, ConsolesStay
  <2> QED BY <2>1, <2>2
<1>5. TypeOK' /\ FileInv'
  BY <1>1, <1>4 DEF LockInv, TypeOK, FileInv, locks, work
<1>6. HoldInv' /\ ApartInv'
  <2>1. \A q \in Runs : Prepared(q) => host[q] \in Apps
    BY OccupiedPid DEF Occupies
  <2> QED BY <1>1, <1>4, <2>1, ShrinkHolds DEF ConsolesStay, Prepared, locks, work
<1>7. ChildInv'
  <2>1. \A b \in Apps : \A q \in stopped'[b] : q \in stopped[b] \/ q = r
    BY <1>1 DEF LockInv, TypeOK
  <2> QED BY <1>1, <1>2, <1>4, <2>1, ShrinkChildren DEF work
<1> QED BY <1>4, <1>5, <1>6, <1>7 DEF LockInv

\* What was stopped is released, and has no live child.
LEMMA StopReleasesKeeps ==
  ASSUME LockInv, NEW a \in Apps, NEW r \in Runs, StopReleases(a, r)
  PROVE  LockInv'
<1>1. /\ r \in stopped[a] /\ Unlock(a, r) /\ UNCHANGED <<proc, born, ended, phase, host>>
      /\ stopped' = [stopped EXCEPT ![a] = @ \ {r}]
  BY DEF StopReleases, os, work
<1>2. ~Occupies(r)
  BY <1>1 DEF LockInv, ChildInv, Occupies, Prepared
<1>3. Shrinks
  BY <1>1, SameShrinks DEF os
<1>4. FileInv' /\ file' \in [Scopes -> Lock \cup {Free}]
  BY <1>1, UnlockGives, RemovedFiles
<1>5. TypeOK' /\ ProcessInv'
  BY <1>1, <1>4, UnlockGives DEF LockInv, TypeOK, ProcessInv
<1>6. HoldInv' /\ ApartInv'
  <2>1. \A q \in Runs : /\ Prepared(q)' <=> Prepared(q)
                        /\ Prepared(q) => Occupies(q)
                        /\ Occupies(q)' => Occupies(q) /\ q # r
    BY <1>1, <1>2, <1>3, ShrinkLive DEF Occupies, Prepared
  <2>2. \A q \in Runs : Occupies(q)' => file'[ScopeOf(q)] = file[ScopeOf(q)]
    BY <1>1, <2>1, UnlockGives
  <2>3. \A q \in Runs : Prepared(q)' =>
          held'[host[q]][ScopeOf(q)] = held[host[q]][ScopeOf(q)] /\ q # r
    BY <1>1, <1>2, <2>1, UnlockGives
  <2> QED BY <1>1, <1>3, <2>1, <2>2, <2>3, ShrinkHolds
<1>7. ChildInv'
  <2>1. \A b \in Apps : \A q \in stopped'[b] : q \in stopped[b]
    BY <1>1 DEF LockInv, TypeOK
  <2> QED BY <1>1, <1>3, <2>1, ShrinkChildren
<1> QED BY <1>4, <1>5, <1>6, <1>7 DEF LockInv
-----------------------------------------------------------------------------
(* The invariant and what follows from it.                                 *)

\* The invariant holds initially.
LEMMA LockInit == Init => LockInv
<1> SUFFICES ASSUME Init PROVE LockInv
  OBVIOUS
<1> USE ConstantFacts DEF Init
<1>1. TypeOK
  BY DEF TypeOK, Births, Phases, Free
<1>2. ProcessInv /\ FileInv
  BY DEF ProcessInv, FileInv
<1>3. \A r \in Runs : Children(r) = {} /\ ~Live(r) /\ ~Occupies(r)
  BY DEF Children, Live, Occupies, Prepared
<1>4. ChildInv /\ HoldInv /\ ApartInv
  BY <1>3 DEF ChildInv, HoldInv, ApartInv
<1> QED BY <1>1, <1>2, <1>4 DEF LockInv

\* Every step of a console, a run or the system keeps the invariant.
LEMMA LockStep ==
  ASSUME LockInv, Careful, [Next]_vars
  PROVE  LockInv'
<1>1. CASE UNCHANGED vars
  <2>1. UNCHANGED <<locks, work, stopped, proc, born, ended>>
    BY <1>1 DEF vars, os
  <2>2. Shrinks /\ ConsolesStay /\ ProcessInv'
    BY <2>1 DEF Shrinks, ConsolesStay, LockInv, ProcessInv
  <2> QED BY <2>1, <2>2, EndsKeep DEF LockInv, TypeOK
<1>2. ASSUME NEW a \in Apps, AppDies(a) \/ List(a) PROVE LockInv'
  BY <1>2, AppDiesKeeps, BusyOrListKeeps
<1>3. ASSUME NEW a \in Apps, NEW p \in Pids, AppStarts(a, p) PROVE LockInv'
  BY <1>3, ProgramStarts, ConstantFacts DEF AppStarts
<1>4. ASSUME NEW p \in Pids, ForeignStarts(p) \/ ForeignEnds(p) \/ ChildExits(p)
      PROVE  LockInv'
  BY <1>4, ProgramStarts, ProcessEnds DEF ForeignStarts
<1>5. ASSUME NEW a \in Apps, NEW r \in Runs,
             \/ Acquire(a, r) \/ Busy(a, r) \/ WorkflowEnds(a, r)
             \/ GivesBack(a, r) \/ StopRecovered(a, r) \/ StopReleases(a, r)
      PROVE  LockInv'
  BY <1>5, AcquireKeeps, BusyOrListKeeps, EndKeeps, StopKeeps, StopReleasesKeeps
<1>6. ASSUME NEW r \in Runs, LaunchFails(r) PROVE LockInv'
  BY <1>6, LeaveKeeps
<1>7. ASSUME NEW r \in Runs, NEW p \in Pids, StepStarts(r, p) \/ StepWaited(r, p) \/ Popen(r, p)
      PROVE  LockInv'
  BY <1>7, ChildStarts, ProcessEnds
<1>8. ASSUME NEW a \in Apps, NEW r \in Runs, NEW p \in Pids, Rebind(a, r, p) \/ Poll(a, r, p)
      PROVE  LockInv'
  BY <1>8, RebindKeeps, LeaveKeeps
<1> QED BY <1>1, <1>2, <1>3, <1>4, <1>5, <1>6, <1>7, <1>8 DEF Next

(* Every value has its type (TypeOK), for any consoles, runs and process   *)
(* numbers: a process number without a process or a lock file that names   *)
(* no process of the system would break it.                                *)
THEOREM LockTypes ==
  ASSUME Careful
  PROVE  Spec => []TypeOK
<1>1. LockInv => TypeOK
  BY DEF LockInv
<1>2. LockInv /\ [Next]_vars => LockInv'
  BY LockStep
<1> QED BY <1>1, <1>2, LockInit, PTL DEF Spec

(* Two runs never have live children together (Exclusive), except an       *)
(* isolated backtest beside a run of another scope, for any number of      *)
(* consoles that die and restart, of runs and of reused process numbers.   *)
THEOREM ExclusiveAlways ==
  ASSUME Careful
  PROVE  Spec => []Exclusive
<1>1. LockInv => Exclusive
  BY DEF LockInv, ApartInv, Exclusive, Occupies
<1>2. LockInv /\ [Next]_vars => LockInv'
  BY LockStep
<1> QED BY <1>1, <1>2, LockInit, PTL DEF Spec

(* While the child of a run lives, its lock file stays (LiveKept), whoever *)
(* purges, stops or releases around it.                                    *)
THEOREM LiveKeptAlways ==
  ASSUME Careful
  PROVE  Spec => LiveKept
<1>1. LockInv' => \A r \in Runs : Live(r)' => file'[ScopeOf(r)].run = r
  BY DEF LockInv, HoldInv, Occupies, Holds
<1>2. LockInv /\ [Next]_vars => LockInv'
  BY LockStep
<1>3. LockInv' => [\A r \in Runs : file[ScopeOf(r)].run = r /\ Live(r) /\ Live(r)'
                                     => file'[ScopeOf(r)].run = r]_vars
  BY <1>1
<1> QED BY <1>2, <1>3, LockInit, PTL DEF Spec, LiveKept
-----------------------------------------------------------------------------
(* No lock is taken for a live one without work behind it.                 *)

\* A console holds a scope for a run it still launches, follows as a workflow
\* or has yet to release.
HeldInv ==
  \A a \in Apps, s \in Scopes :
    held[a][s] # Nobody =>
      LET r == held[a][s]
      IN  s = ScopeOf(r) /\ host[r] = a /\ phase[r] \in {"acquired", "spawned", "releasing"}

\* A process that started when a lock file says is a console or the child of
\* the run of that file, never one that got its number later.
BirthInv ==
  \A s \in Scopes :
    LET p == file[s].pid
    IN  file[s] # Free /\ proc[p] # Nobody /\ born[p] = file[s].born
          => proc[p] \in Apps \cup {file[s].run}

\* A process starts at a time that no lock file holds for its number.
LEMMA NewBirth ==
  ASSUME TypeOK, NEW p \in Pids, NEW who, Start(p, who)
  PROVE  \A s \in Scopes : file[s].pid = p => file[s].born # born'[p]
<1> DEFINE n == CHOOSE n \in 1 .. Births : \A s \in Scopes : file[s].pid = p => file[s].born # n
<1>1. \A s \in Scopes : file[s].pid = p => file[s].born # n
  BY BirthLeft
<1> HIDE DEF n
<1>2. born' = [born EXCEPT ![p] = n]
  BY DEF Start, n
<1> QED BY <1>1, <1>2 DEF TypeOK

\* Births after a step that starts a process.
LEMMA StartBirths ==
  ASSUME LockInv, BirthInv, NEW p \in Pids, NEW who, Start(p, who), file' = file
  PROVE  BirthInv'
<1> SUFFICES ASSUME NEW s \in Scopes, file[s] # Free, proc'[file[s].pid] # Nobody,
                    born'[file[s].pid] = file[s].born
             PROVE  proc'[file[s].pid] \in Apps \cup {file[s].run}
  BY DEF BirthInv
<1>1. file[s].pid # p
  BY NewBirth DEF LockInv
<1>2. proc' = [proc EXCEPT ![p] = who] /\ \E n \in 1 .. Births : born' = [born EXCEPT ![p] = n]
  BY StartGives DEF LockInv
<1>3. proc'[file[s].pid] = proc[file[s].pid] /\ born'[file[s].pid] = born[file[s].pid]
  BY <1>1, <1>2 DEF LockInv, TypeOK, Lock
<1> QED BY <1>3 DEF BirthInv

\* Births after a step in which processes end and files are removed.
LEMMA ShrinkBirths ==
  ASSUME LockInv, BirthInv, Shrinks, \A s \in Scopes : file'[s] \in {file[s], Free}
  PROVE  BirthInv'
<1> SUFFICES ASSUME NEW s \in Scopes, file'[s] # Free, proc'[file'[s].pid] # Nobody,
                    born'[file'[s].pid] = file'[s].born
             PROVE  proc'[file'[s].pid] \in Apps \cup {file'[s].run}
  BY DEF BirthInv
<1>1. file'[s] = file[s] /\ file[s].pid \in Pids
  BY DEF LockInv, TypeOK, Lock
<1>2. proc'[file[s].pid] = proc[file[s].pid] /\ born'[file[s].pid] = born[file[s].pid]
  BY <1>1 DEF Shrinks
<1> QED BY <1>1, <1>2 DEF BirthInv

\* What was held stays held by a console that still works on its run.
LEMMA HeldLess ==
  ASSUME LockInv, HeldInv,
         \A a \in Apps, s \in Scopes : held'[a][s] = held[a][s] \/ held'[a][s] = Nobody,
         \A a \in Apps, s \in Scopes : held'[a][s] # Nobody =>
           LET r == held[a][s]
           IN  host'[r] = host[r] /\ (phase'[r] = phase[r] \/ phase'[r] \in {"spawned", "releasing"})
  PROVE  HeldInv'
  BY DEF HeldInv

\* The locks are taken for live ones by right after every step.
LEMMA GhostStep ==
  ASSUME LockInv, HeldInv, BirthInv, Careful, Next
  PROVE  HeldInv' /\ BirthInv'
<1> USE ConstantFacts
<1>0. \A a \in Apps, s \in Scopes : held[a][s] # Nobody => held[a][s] \in Runs
  BY DEF LockInv, TypeOK
<1>1. ASSUME NEW a \in Apps, AppDies(a) PROVE HeldInv' /\ BirthInv'
  <2> DEFINE ps == {PidOf(a)} \cup {p \in ended : host[proc[p]] = a}
  <2>1. /\ Gone(ps) /\ file' = file
        /\ held' = [held EXCEPT ![a] = [s \in Scopes |-> Nobody]]
        /\ host' = [r \in Runs |-> IF host[r] = a THEN Nobody ELSE host[r]]
        /\ phase' = [r \in Runs |-> IF host[r] = a THEN "over" ELSE phase[r]]
    BY <1>1 DEF AppDies, Dies
  <2>2. ps \in SUBSET Pids
    BY <1>1 DEF AppDies, Up, PidOf, LockInv, TypeOK
  <2> HIDE DEF ps
  <2>3. Shrinks
    BY <2>1, <2>2, GoneKeeps DEF LockInv, Shrinks
  <2>4. \A b \in Apps, s \in Scopes : IF b = a THEN held'[b][s] = Nobody
                                                ELSE held'[b][s] = held[b][s]
    BY <2>1 DEF LockInv, TypeOK
  <2>5. HeldInv'
    BY <1>0, <2>1, <2>4, HeldLess DEF HeldInv
  <2> QED BY <2>1, <2>3, <2>5, ShrinkBirths
<1>2. ASSUME NEW p \in Pids, NEW who, Start(p, who), UNCHANGED <<locks, host, stopped>>,
             phase' = phase \/ \E r \in Runs : phase' = [phase EXCEPT ![r] = "spawned"]
      PROVE  HeldInv' /\ BirthInv'
  <2>1. BirthInv'
    BY <1>2, StartBirths DEF locks
  <2>2. \A r \in Runs : phase'[r] = phase[r] \/ phase'[r] = "spawned"
    BY <1>2 DEF LockInv, TypeOK
  <2>3. HeldInv'
    BY <1>0, <1>2, <2>2, HeldLess DEF locks
  <2> QED BY <2>1, <2>3
<1>3. ASSUME NEW p \in Pids,
             \/ ForeignStarts(p)
             \/ \E a \in Apps : AppStarts(a, p)
             \/ \E r \in Runs : StepStarts(r, p) \/ Popen(r, p)
      PROVE  HeldInv' /\ BirthInv'
  BY <1>2, <1>3 DEF ForeignStarts, AppStarts, StepStarts, Popen, work
<1>4. ASSUME NEW p \in Pids,
             ForeignEnds(p) \/ ChildExits(p) \/ \E r \in Runs : StepWaited(r, p)
      PROVE  HeldInv' /\ BirthInv'
  <2>1. UNCHANGED <<locks, work>>
    BY <1>4 DEF ForeignEnds, ChildExits, StepWaited
  <2>2. Shrinks
    BY <1>4, GoneKeeps, ExitKeeps DEF ForeignEnds, ChildExits, StepWaited, LockInv, Shrinks,
       Exit, Gone
  <2> QED BY <2>1, <2>2, ShrinkBirths DEF locks, work, HeldInv
<1>5. ASSUME NEW a \in Apps, List(a) \/ \E r \in Runs : Busy(a, r)
      PROVE  HeldInv' /\ BirthInv'
  <2>1. /\ UNCHANGED <<os, held, host>> /\ file' \in {file, Purged(a)}
        /\ phase' = phase \/ \E r \in Runs : phase[r] = "idle" /\ phase' = [phase EXCEPT ![r] = "over"]
    BY <1>5 DEF List, Busy, locks, work
  <2>2. \A r \in Runs : phase'[r] = phase[r] \/ phase[r] = "idle"
    BY <2>1 DEF LockInv, TypeOK
  <2>3. HeldInv'
    BY <1>0, <2>1, <2>2 DEF HeldInv
  <2>4. \A s \in Scopes : file'[s] \in {file[s], Free}
    BY <2>1 DEF Purged
  <2> QED BY <2>1, <2>3, <2>4, SameShrinks, ShrinkBirths
<1>6. ASSUME NEW a \in Apps, NEW r \in Runs, Acquire(a, r) PROVE HeldInv' /\ BirthInv'
  <2> DEFINE s == ScopeOf(r)
             p == PidOf(a)
  <2>1. /\ phase[r] = "idle" /\ UNCHANGED <<proc, born, ended>>
        /\ file' = [Purged(a) EXCEPT ![s] = [run |-> r, pid |-> p, born |-> born[p]]]
        /\ held' = [held EXCEPT ![a][s] = r]
        /\ phase' = [phase EXCEPT ![r] = "acquired"] /\ host' = [host EXCEPT ![r] = a]
    BY <1>6 DEF Acquire, os
  <2>2. p \in Pids /\ proc[p] = a /\ s \in Scopes /\ s = ScopeOf(r)
    BY <1>6, ScopeOfRun DEF Acquire, Up, PidOf
  <2> HIDE DEF s, p
  <2>3. \A t \in Scopes : file'[t] = IF t = s THEN [run |-> r, pid |-> p, born |-> born[p]]
                                              ELSE Purged(a)[t]
    BY <2>1, <2>2 DEF Purged
  <2>4. BirthInv'
    <3> SUFFICES ASSUME NEW t \in Scopes, file'[t] # Free, proc[file'[t].pid] # Nobody,
                        born[file'[t].pid] = file'[t].born
                 PROVE  proc[file'[t].pid] \in Apps \cup {file'[t].run}
      BY <2>1 DEF BirthInv
    <3>1. CASE t = s
      BY <2>2, <2>3, <3>1
    <3>2. CASE t # s
      BY <2>3, <3>2 DEF Purged, BirthInv
    <3> QED BY <3>1, <3>2
  <2>5. HeldInv'
    <3> SUFFICES ASSUME NEW b \in Apps, NEW t \in Scopes, held'[b][t] # Nobody
                 PROVE  /\ t = ScopeOf(held'[b][t]) /\ host'[held'[b][t]] = b
                        /\ phase'[held'[b][t]] \in {"acquired", "spawned", "releasing"}
      BY DEF HeldInv
    <3>1. CASE b = a /\ t = s
      BY <2>1, <2>2, <3>1 DEF LockInv, TypeOK
    <3>2. CASE ~(b = a /\ t = s)
      <4>1. held'[b][t] = held[b][t]
        BY <2>1, <2>2, <3>2 DEF LockInv, TypeOK
      <4>2. held[b][t] \in Runs \ {r}
        BY <1>0, <2>1, <4>1 DEF HeldInv
      <4> QED BY <2>1, <4>1, <4>2 DEF HeldInv, LockInv, TypeOK
    <3> QED BY <3>1, <3>2
  <2> QED BY <2>4, <2>5
<1>7. ASSUME NEW a \in Apps, NEW r \in Runs, Unlock(a, r), Shrinks,
             \/ phase' = [phase EXCEPT ![r] = "over"] /\ host[r] = a
                  /\ host' = [host EXCEPT ![r] = Nobody]
             \/ UNCHANGED <<phase, host>>
      PROVE  HeldInv' /\ BirthInv'
  <2>1. \A s \in Scopes : file'[s] \in {file[s], Free}
    BY <1>7, UnlockGives
  <2>2. \A b \in Apps, s \in Scopes :
          held'[b][s] = IF b = a /\ held[b][s] = r THEN Nobody ELSE held[b][s]
    BY <1>7 DEF Unlock, LockInv, TypeOK
  <2>3. \A q \in Runs : q # r \/ host[q] # a => phase'[q] = phase[q] /\ host'[q] = host[q]
    BY <1>7 DEF LockInv, TypeOK
  <2>4. HeldInv'
    BY <1>0, <2>2, <2>3, HeldLess DEF HeldInv
  <2> QED BY <1>7, <2>1, <2>4, ShrinkBirths
<1>8. ASSUME NEW a \in Apps, NEW r \in Runs,
             WorkflowEnds(a, r) \/ GivesBack(a, r) \/ StopReleases(a, r)
      PROVE  HeldInv' /\ BirthInv'
  <2>1. CASE WorkflowEnds(a, r) \/ GivesBack(a, r)
    <3>1. Release(a, r)
      BY <2>1 DEF WorkflowEnds, GivesBack
    <3>2. Children(r) \cap ended \in SUBSET Pids
      BY DEF Children
    <3>3. Shrinks
      BY <3>1, <3>2, GoneKeeps DEF Release, LockInv, Shrinks
    <3> QED BY <1>7, <3>1, <3>3 DEF Release
  <2>2. CASE StopReleases(a, r)
    BY <1>7, <2>2, SameShrinks DEF StopReleases, work
  <2> QED BY <1>8, <2>1, <2>2
<1>9. ASSUME NEW r \in Runs, LaunchFails(r) PROVE HeldInv' /\ BirthInv'
  <2>1. UNCHANGED <<os, locks, host>> /\ phase' = [phase EXCEPT ![r] = "releasing"]
    BY <1>9 DEF LaunchFails
  <2>2. \A q \in Runs : phase'[q] = phase[q] \/ phase'[q] = "releasing"
    BY <2>1 DEF LockInv, TypeOK
  <2>3. HeldInv'
    BY <1>0, <2>1, <2>2, HeldLess DEF locks
  <2> QED BY <2>1, <2>3, SameShrinks, ShrinkBirths DEF locks
<1>10. ASSUME NEW a \in Apps, NEW r \in Runs, NEW p \in Pids, Poll(a, r, p)
       PROVE  HeldInv' /\ BirthInv'
  <2>1. UNCHANGED <<locks, host>> /\ phase' = [phase EXCEPT ![r] = "releasing"] /\ Gone({p})
    BY <1>10 DEF Poll
  <2>2. \A q \in Runs : phase'[q] = phase[q] \/ phase'[q] = "releasing"
    BY <2>1 DEF LockInv, TypeOK
  <2>3. HeldInv'
    BY <1>0, <2>1, <2>2, HeldLess DEF locks
  <2>4. Shrinks
    BY <2>1, GoneKeeps DEF LockInv, Shrinks
  <2> QED BY <2>1, <2>3, <2>4, ShrinkBirths DEF locks
<1>11. ASSUME NEW a \in Apps, NEW r \in Runs, NEW p \in Pids, Rebind(a, r, p)
       PROVE  HeldInv' /\ BirthInv'
  <2> DEFINE s == ScopeOf(r)
  <2>1. /\ phase[r] = "spawned" /\ host[r] = a /\ proc[p] = r
        /\ UNCHANGED <<proc, born, ended, host>>
        /\ file' = [file EXCEPT ![s] = [run |-> r, pid |-> p, born |-> born[p]]]
        /\ held' = IF held[a][s] = r THEN [held EXCEPT ![a][s] = Nobody] ELSE held
        /\ phase' = [phase EXCEPT ![r] = "bound"]
    BY <1>11 DEF Rebind, Rebound, os
  <2>2. s \in Scopes /\ s = ScopeOf(r)
    BY ScopeOfRun
  <2> HIDE DEF s
  <2>3. BirthInv'
    <3> SUFFICES ASSUME NEW t \in Scopes, file'[t] # Free, proc[file'[t].pid] # Nobody,
                        born[file'[t].pid] = file'[t].born
                 PROVE  proc[file'[t].pid] \in Apps \cup {file'[t].run}
      BY <2>1 DEF BirthInv
    <3>1. CASE t = s
      BY <2>1, <2>2, <3>1 DEF LockInv, TypeOK
    <3>2. CASE t # s
      BY <2>1, <3>2 DEF BirthInv, LockInv, TypeOK
    <3> QED BY <3>1, <3>2
  <2>4. \A b \in Apps, t \in Scopes :
          held'[b][t] = IF b = a /\ t = s /\ held[b][t] = r THEN Nobody ELSE held[b][t]
    BY <2>1, <2>2 DEF LockInv, TypeOK
  <2>5. \A b \in Apps, t \in Scopes : held'[b][t] # Nobody => held[b][t] \in Runs \ {r}
    BY <1>0, <2>1, <2>2, <2>4 DEF HeldInv
  <2>6. HeldInv'
    BY <2>1, <2>4, <2>5, HeldLess DEF LockInv, TypeOK
  <2> QED BY <2>3, <2>6
<1>12. ASSUME NEW a \in Apps, NEW r \in Runs, StopRecovered(a, r)
       PROVE  HeldInv' /\ BirthInv'
  <2> DEFINE p == file[ScopeOf(r)].pid
  <2>1. /\ file[ScopeOf(r)].run = r /\ UNCHANGED <<locks, work>>
        /\ IF proc[p] \in Runs /\ p \notin ended THEN Exit(p) ELSE UNCHANGED os
    BY <1>12 DEF StopRecovered, Careful
  <2>2. p \in Pids
    BY <2>1, ScopeOfRun, NamedIsLock DEF LockInv
  <2> HIDE DEF p
  <2>3. Shrinks
    BY <2>1, <2>2, ExitKeeps, SameShrinks DEF LockInv, Shrinks, Exit, Gone
  <2> QED BY <2>1, <2>3, ShrinkBirths DEF locks, work, HeldInv
<1> QED BY <1>1, <1>3, <1>4, <1>5, <1>6, <1>8, <1>9, <1>10, <1>11, <1>12 DEF Next

(* A lock taken for a live one has work behind it (NoGhost): no reused     *)
(* number and no file that could not be removed keeps a scope shut, for    *)
(* any number of consoles, runs and process numbers.                       *)
THEOREM NoGhostAlways ==
  ASSUME Careful
  PROVE  Spec => []NoGhost
<1> DEFINE Inv == LockInv /\ HeldInv /\ BirthInv
<1>1. Init => Inv
  BY LockInit, ConstantFacts DEF Init, HeldInv, BirthInv
<1>2. Inv /\ [Next]_vars => Inv'
  <2>1. Inv /\ Next => Inv'
    BY LockStep, GhostStep
  <2>2. Inv /\ UNCHANGED vars => Inv'
    BY LockStep DEF vars, os, locks, work, HeldInv, BirthInv
  <2> QED BY <2>1, <2>2
<1>3. Inv => NoGhost
  <2> SUFFICES ASSUME Inv, NEW a \in Apps, NEW s \in Scopes, Up(a), IsActive(a, s),
                      proc[file[s].pid] \in Apps => proc[file[s].pid] = a
               PROVE  Working(file[s].run)
    BY DEF NoGhost
  <2>1. file[s] # Free /\ file[s].pid \in Pids /\ file[s].run \in Runs
    BY DEF IsActive, LockInv, TypeOK, Lock
  <2>2. CASE proc[file[s].pid] = a
    <3>1. held[a][s] = file[s].run
      BY <2>2 DEF IsActive
    <3> QED BY <2>1, <3>1, ConstantFacts DEF HeldInv, Working
  <2>3. CASE proc[file[s].pid] \notin Apps
    <3>1. proc[file[s].pid] = file[s].run
      BY <2>1, <2>3 DEF IsActive, BirthInv
    <3> QED BY <2>1, <3>1 DEF Working, Children
  <2> QED BY <2>2, <2>3
<1> QED BY <1>1, <1>2, <1>3, PTL DEF Spec
=============================================================================
