--------------------------- MODULE SidecarsProofs ---------------------------
(***************************************************************************)
(* ActiveRunsKeepSidecars is not inductive: a sweep that holds a stale     *)
(* listing breaks it in a step or two from states the system never         *)
(* reaches.  IInv adds what rules them out: how old a starting run's       *)
(* resources can be, how old they can be for a sweep that has not seen     *)
(* their owner, and that a prune has only marked resources of runs that    *)
(* are over.                                                               *)
(*                                                                         *)
(* EndInv adds where a run is when it holds what.  With both, what ended   *)
(* runs leave, the refinement of SidecarOwnership and what takes a tool    *)
(* away follow step by step.                                               *)
(***************************************************************************)
EXTENDS Sidecars, TLAPS

BeforeStart(r) == pc[r] \in {"idle"} \cup SweepingPC
Over(r)        == ~Protected(r) /\ ~BeforeStart(r)

\* A run has nothing before its own startup, and no label of it is written.
NothingBeforeStart ==
  \A r \in Runs : BeforeStart(r) =>
    \A k \in Kinds : <<k, r>> \notin exists /\ age[<<k, r>>] = 0

\* A starting run's labels are at most as old as its network's, and that is within StartupMax.
YoungWhileStarting ==
  \A r \in Runs : pc[r] \in StartingPC /\ ~Published(r) =>
    /\ age[<<"net", r>>] <= StartupMax
    /\ \A k \in Kinds : age[<<k, r>>] <= age[<<"net", r>>]

\* If a sweep's listing misses the owner of a run that counts on its sidecars, they were
\* young when it was taken.
YoungWhenUnseen ==
  \A p \in Procs : pc[p] \in {"rmContainers", "rmNetworks", "list"} =>
    \A r \in Runs : ~Published(r) /\ Protected(r) /\ r \notin seen[p] =>
      \A k \in Kinds : age[<<k, r>>] <= StartupMax + held[p]

\* The same for a run dir and the listing of the dind sidecars.
DirYoungWhenUnseen ==
  \A p \in Procs : pc[p] = "rmDirs" =>
    \A r \in Runs : "dind" \in spec[r] /\ Protected(r) /\ r \notin seen[p] =>
      age[<<"dir", r>>] <= StartupMax + held[p]

\* Once a prune has marked a resource, its run is over for good.
MarkedRunsAreOver ==
  \A c \in Prunes : pc[c] = "rm" =>
    \A n \in todo[c] : KindOf(n) # "tool" => Over(RunOf(n))

\* A tool container exists only for a run on Docker that got as far as starting it.
ToolOnlyOnceAttached ==
  \A r \in Runs : ToolExists(r) => ~Published(r) /\ pc[r] \in {"running", "rmTool", "dead"}

OnlyDirsInDirSweep ==
  \A p \in Procs : pc[p] \in {"psDirs", "rmDirs"} => \A n \in todo[p] : KindOf(n) = "dir"

IInv ==
  /\ TypeOK
  /\ NothingBeforeStart
  /\ YoungWhileStarting
  /\ YoungWhenUnseen
  /\ DirYoungWhenUnseen
  /\ MarkedRunsAreOver
  /\ ToolOnlyOnceAttached
  /\ OnlyDirsInDirSweep
  /\ ActiveRunsKeepSidecars
-----------------------------------------------------------------------------
(* Types.                                                                  *)

LEMMA NaturalBounds ==
  /\ StartupMax \in Nat /\ SweepMax \in Nat /\ Grace \in Nat /\ DirGrace \in Nat
  /\ MaxAge \in Nat /\ Grace <= MaxAge /\ DirGrace <= MaxAge
  BY ConstantsAssumption DEF MaxAge

LEMMA RemoveTyped ==
  ASSUME TypeOK, NEW n \in Names, Remove(n)
  PROVE  /\ exists' \subseteq Names
         /\ active' \subseteq exists'
         /\ age' \in [Names -> 0..MaxAge]
  BY NaturalBounds DEF TypeOK, Remove

LEMMA TryRemoveTyped ==
  ASSUME TypeOK, NEW n \in Names, TryRemove(n)
  PROVE  /\ exists' \subseteq Names
         /\ active' \subseteq exists'
         /\ age' \in [Names -> 0..MaxAge]
  BY RemoveTyped DEF TypeOK, TryRemove

LEMMA CreateTyped ==
  ASSUME TypeOK, NEW r \in Runs, NEW k \in Kinds, NEW up \in SUBSET {<<k, r>>}, Create(<<k, r>>, up)
  PROVE  /\ exists' \subseteq Names
         /\ active' \subseteq exists'
         /\ age' \in [Names -> 0..MaxAge]
  BY DEF TypeOK, Create, Names

LEMMA PointsTyped ==
  ASSUME TypeOK, NEW r \in Runs
  PROVE  {AfterSweep(r), AfterNet(r), AfterProxy(r), StopNet(r), StopProxy(r), StopAll(r)} \subseteq RunPC
  BY DEF AfterSweep, AfterNet, AfterProxy, StopNet, StopProxy, StopAll, RunPC, StartingPC, StoppingPC

LEMMA GotoRun ==
  ASSUME TypeOK, NEW r \in Runs, NEW point \in RunPC, Goto(r, point)
  PROVE  /\ pc' \in [Procs -> RunPC \cup PrunePC]
         /\ \A s \in Runs : pc'[s] \in RunPC
         /\ \A c \in Prunes : pc'[c] \in PrunePC
         /\ pc'[r] = point
         /\ \A p \in Procs \ {r} : pc'[p] = pc[p]
  BY ConstantsAssumption DEF TypeOK, Goto, Procs

LEMMA GotoPrune ==
  ASSUME TypeOK, NEW c \in Prunes, NEW point \in PrunePC, Goto(c, point)
  PROVE  /\ pc' \in [Procs -> RunPC \cup PrunePC]
         /\ \A s \in Runs : pc'[s] \in RunPC
         /\ \A d \in Prunes : pc'[d] \in PrunePC
         /\ pc'[c] = point
         /\ \A p \in Procs \ {c} : pc'[p] = pc[p]
  BY ConstantsAssumption DEF TypeOK, Goto, Procs

LEMMA InitTyped == Init => TypeOK
  BY NaturalBounds DEF Init, TypeOK, RunPC, PrunePC, Procs

LEMMA SweepTyped ==
  ASSUME TypeOK, NEW r \in Runs, Sweep(r)
  PROVE  TypeOK'
<1> USE DEF Procs
<1>1. CASE ListContainers(r)
  <2>1. pc'[r] = "rmContainers" /\ "rmContainers" \in RunPC BY <1>1 DEF ListContainers, Goto, TypeOK, RunPC, SweepingPC
  <2> QED BY <1>1, <2>1, NaturalBounds, GotoRun DEF ListContainers, TypeOK, pruneVars
<1>2. CASE RemoveOrphanedContainer(r) \/ RemoveOrphanedNetwork(r)
  <2>1. PICK n \in todo[r] :
          /\ TryRemove(n) \/ UNCHANGED <<exists, active, age>>
          /\ Handled(r, n)
          /\ UNCHANGED <<spec, pc, seen, held, pruneVars>>
    BY <1>2 DEF RemoveOrphanedContainer, RemoveOrphanedNetwork, RemoveIfOrphan
  <2>2. n \in Names BY <2>1 DEF TypeOK
  <2> QED BY <2>1, <2>2, TryRemoveTyped DEF TypeOK, Handled, pruneVars
<1>3. CASE ListNetworks(r)
  <2>1. "rmNetworks" \in RunPC BY DEF RunPC, SweepingPC
  <2> QED BY <1>3, <2>1, GotoRun DEF ListNetworks, TypeOK, pruneVars
<1>4. CASE ReadDirs(r)
  <2>1. "psDirs" \in RunPC BY DEF RunPC, SweepingPC
  <2> QED BY <1>4, <2>1, GotoRun DEF ReadDirs, TypeOK, pruneVars
<1>5. CASE ListDindSidecars(r)
  <2>1. "rmDirs" \in RunPC BY DEF RunPC, SweepingPC
  <2> QED BY <1>5, <2>1, GotoRun, NaturalBounds DEF ListDindSidecars, TypeOK, pruneVars
<1>6. CASE RemoveStaleDir(r)
  <2>1. PICK n \in todo[r] :
          /\ Remove(n) \/ UNCHANGED <<exists, active, age>>
          /\ Handled(r, n)
          /\ UNCHANGED <<spec, pc, seen, held, pruneVars>>
    BY <1>6 DEF RemoveStaleDir
  <2>2. n \in Names BY <2>1 DEF TypeOK
  <2> QED BY <2>1, <2>2, RemoveTyped DEF TypeOK, Handled, pruneVars
<1>7. CASE EndSweep(r)
  BY <1>7, PointsTyped, GotoRun, NaturalBounds DEF EndSweep, TypeOK, pruneVars
<1> QED BY <1>1, <1>2, <1>3, <1>4, <1>5, <1>6, <1>7 DEF Sweep

LEMMA StartupTyped ==
  ASSUME TypeOK, NEW r \in Runs, Startup(r)
  PROVE  TypeOK'
<1> DEFINE ThreeTyped == /\ exists' \subseteq Names
                         /\ active' \subseteq exists'
                         /\ age' \in [Names -> 0..MaxAge]
           MovesTo(point) == point \in RunPC /\ Goto(r, point)
<1>a. {"startProxy", "stopProxy", "settleProxy", "runDind", "waitDind", "stopDind", "attach", "running", "done"} \subseteq RunPC
  BY DEF RunPC, StartingPC, StoppingPC
<1>b. UNCHANGED <<exists, active, age>> => ThreeTyped
  BY DEF TypeOK
<1>c. "net" \in Kinds /\ "proxy" \in Kinds /\ "dind" \in Kinds /\ "dir" \in Kinds /\ "tool" \in Kinds
  BY DEF Kinds
<1>d. ASSUME RunStep(r), ThreeTyped, NEW point \in RunPC, Goto(r, point)
      PROVE  TypeOK'
  BY <1>d, GotoRun DEF RunStep, TypeOK, sweepVars, pruneVars
<1> HIDE DEF ThreeTyped
<1>e. ASSUME NEW k \in Kinds, NEW up \in SUBSET {<<k, r>>}, Create(<<k, r>>, up)
      PROVE  ThreeTyped
  BY <1>e, CreateTyped DEF ThreeTyped
<1>1. CASE CreateRunNetwork(r)
  BY <1>1, <1>a, <1>b, <1>c, <1>d, <1>e, PointsTyped DEF CreateRunNetwork
<1>2. CASE CreateProxy(r)
  BY <1>2, <1>a, <1>b, <1>c, <1>d, <1>e, PointsTyped DEF CreateProxy
<1>3. CASE StartProxy(r)
  BY <1>3, <1>a, <1>b, <1>c, <1>d, <1>e, PointsTyped DEF StartProxy
<1>4. CASE SettleProxy(r)
  BY <1>4, <1>a, <1>b, <1>c, <1>d, <1>e, PointsTyped DEF SettleProxy
<1>5. CASE CreateDindDir(r)
  BY <1>5, <1>a, <1>b, <1>c, <1>d, <1>e, PointsTyped DEF CreateDindDir
<1>6. CASE RunDind(r)
  BY <1>6, <1>a, <1>b, <1>c, <1>d, <1>e, PointsTyped DEF RunDind
<1>7. CASE WaitDind(r)
  BY <1>7, <1>a, <1>b, <1>c, <1>d, <1>e, PointsTyped DEF WaitDind
<1>8. CASE Attach(r)
  BY <1>8, <1>a, <1>b, <1>c, <1>d, <1>e, PointsTyped DEF Attach
<1>9. CASE RefuseMounts(r)
  BY <1>9, <1>a, <1>b, <1>c, <1>d, <1>e, PointsTyped DEF RefuseMounts
<1> QED BY <1>1, <1>2, <1>3, <1>4, <1>5, <1>6, <1>7, <1>8, <1>9 DEF Startup

LEMMA CleanupTyped ==
  ASSUME TypeOK, NEW r \in Runs,
         ToolExits(r) \/ ToolReturns(r) \/ Cleanup(r) \/ Crash(r) \/ BeginRun(r)
  PROVE  TypeOK'
<1> USE DEF Procs
<1>a. {"rmTool", "stopDir", "done", "dead", "listContainers"} \subseteq RunPC
  BY DEF RunPC, StoppingPC, SweepingPC
<1>b. \A k \in Kinds : <<k, r>> \in Names
  BY DEF Names
<1>c. "net" \in Kinds /\ "proxy" \in Kinds /\ "dind" \in Kinds /\ "dir" \in Kinds /\ "tool" \in Kinds
  BY DEF Kinds
<1>1. CASE ToolExits(r)
  BY <1>1, <1>b, <1>c, RemoveTyped DEF ToolExits, TypeOK, sweepVars, pruneVars
<1>2. CASE ToolReturns(r)
  BY <1>2, <1>a, GotoRun, PointsTyped DEF ToolReturns, RunStep, TypeOK, sweepVars, pruneVars
<1>3. CASE RemoveToolContainer(r)
  BY <1>3, <1>b, <1>c, RemoveTyped, GotoRun, PointsTyped DEF RemoveToolContainer, RunStep, TypeOK, sweepVars, pruneVars
<1>4. CASE StopDind(r)
  BY <1>4, <1>a, <1>b, <1>c, TryRemoveTyped, GotoRun DEF StopDind, RunStep, TypeOK, sweepVars, pruneVars
<1>5. CASE RemoveDindDir(r)
  BY <1>5, <1>b, <1>c, TryRemoveTyped, GotoRun, PointsTyped DEF RemoveDindDir, RunStep, TypeOK, sweepVars, pruneVars
<1>6. CASE RemoveProxy(r)
  BY <1>6, <1>b, <1>c, TryRemoveTyped, GotoRun, PointsTyped DEF RemoveProxy, RunStep, TypeOK, sweepVars, pruneVars
<1>7. CASE RemoveRunNetwork(r)
  BY <1>7, <1>a, <1>b, <1>c, TryRemoveTyped, GotoRun DEF RemoveRunNetwork, RunStep, TypeOK, sweepVars, pruneVars
<1>8. CASE Crash(r)
  BY <1>8, <1>a, GotoRun, NaturalBounds DEF Crash, TypeOK, pruneVars
<1>9. CASE BeginRun(r)
  BY <1>9, <1>a, GotoRun DEF BeginRun, TypeOK, sweepVars, pruneVars
<1> QED BY <1>1, <1>2, <1>3, <1>4, <1>5, <1>6, <1>7, <1>8, <1>9 DEF Cleanup

LEMMA PruneTyped ==
  ASSUME TypeOK, NEW c \in Prunes, BeginPrune(c) \/ PruneStep(c) \/ AbortPrune(c)
  PROVE  TypeOK'
<1> USE DEF Procs
<1>a. {"idle", "names", "list", "rm", "readDirs", "psDirs", "rmDirs"} \subseteq PrunePC
  BY DEF PrunePC
<1>1. CASE BeginPrune(c)
  BY <1>1, <1>a, GotoPrune DEF BeginPrune, TypeOK, sweepVars
<1>2. CASE ContainerNames(c)
  BY <1>2, <1>a, GotoPrune, NaturalBounds DEF ContainerNames, TypeOK, pruneVars
<1>3. CASE ListUnused(c)
  BY <1>3, <1>a, GotoPrune DEF ListUnused, Listed, TypeOK, pruneVars
<1>4. CASE RemoveUnused(c)
  <2>1. PICK n \in todo[c] :
          /\ Remove(n) \/ UNCHANGED <<exists, active, age>>
          /\ failed' = failed \/ failed' = [failed EXCEPT ![c] = TRUE]
          /\ Handled(c, n)
          /\ UNCHANGED <<spec, pc, seen, held, target>>
    BY <1>4 DEF RemoveUnused
  <2>2. n \in Names BY <2>1 DEF TypeOK
  <2> QED BY <2>1, <2>2, RemoveTyped DEF TypeOK, Handled
<1>5. CASE ReadDirs(c)
  BY <1>5, <1>a, GotoPrune DEF ReadDirs, TypeOK, pruneVars
<1>6. CASE ListDindSidecars(c)
  BY <1>6, <1>a, GotoPrune, NaturalBounds DEF ListDindSidecars, TypeOK, pruneVars
<1>7. CASE RemoveStaleDir(c)
  <2>1. PICK n \in todo[c] :
          /\ Remove(n) \/ UNCHANGED <<exists, active, age>>
          /\ Handled(c, n)
          /\ UNCHANGED <<spec, pc, seen, held, pruneVars>>
    BY <1>7 DEF RemoveStaleDir
  <2>2. n \in Names BY <2>1 DEF TypeOK
  <2> QED BY <2>1, <2>2, RemoveTyped DEF TypeOK, Handled, pruneVars
<1>8. CASE NextTarget(c)
  BY <1>8, <1>a, GotoPrune DEF NextTarget, TypeOK, sweepVars
<1>9. CASE AbortPrune(c)
  BY <1>9, <1>a, GotoPrune, NaturalBounds DEF AbortPrune, TypeOK, pruneVars
<1> QED BY <1>1, <1>2, <1>3, <1>4, <1>5, <1>6, <1>7, <1>8, <1>9 DEF PruneStep

LEMMA TickTyped ==
  ASSUME TypeOK, Tick
  PROVE  TypeOK'
<1>1. age' \in [Names -> 0..MaxAge]
  BY NaturalBounds DEF Tick, TypeOK, Older
<1>2. held' \in [Procs -> 0..SweepMax]
  BY NaturalBounds DEF Tick, TypeOK
<1> QED BY <1>1, <1>2 DEF Tick, TypeOK, pruneVars

LEMMA TypeInductive == TypeOK /\ [Next]_vars => TypeOK'
<1> SUFFICES ASSUME TypeOK, [Next]_vars PROVE TypeOK'
  OBVIOUS
<1>1. CASE UNCHANGED vars
  BY <1>1 DEF TypeOK, vars
<1>2. CASE \E n \in Names : SidecarExits(n)
  BY <1>2 DEF SidecarExits, TypeOK, sweepVars, pruneVars
<1> QED BY <1>1, <1>2, SweepTyped, StartupTyped, CleanupTyped, PruneTyped, TickTyped DEF Next

\* Every variable of the sidecar model keeps its type, for any number of runs and prunes.
THEOREM SidecarsTypeCorrect == Spec => []TypeOK
  BY InitTyped, TypeInductive, PTL DEF Spec
-----------------------------------------------------------------------------
(* What a step other than Tick does, as far as IInv can tell.              *)

ListingPC == {"rmContainers", "rmNetworks", "list"}
UsingPC   == ListingPC \cup {"rm", "psDirs", "rmDirs"}

\* What a step does for run r.  It counts on its sidecars after the step only if it did
\* before, or it just ended its sweep; only a run past its sweep creates anything.
RunFacts(r) ==
  /\ Protected(r)' => (Protected(r) \/ (BeforeStart(r) /\ pc'[r] = AfterSweep(r)))
  /\ Over(r) => Over(r)'
  /\ Protected(r) => \A k \in SidecarKinds(r) :
       (pc[r] \in NotYet(k) /\ pc'[r] \notin NotYet(k) /\ Protected(r)') => <<k, r>> \in exists'
  /\ BeforeStart(r)' => (BeforeStart(r) /\ \A k \in Kinds : <<k, r>> \in exists' => <<k, r>> \in exists)
  /\ pc'[r] \in StartingPC => (pc[r] \in StartingPC \/ (BeforeStart(r) /\ pc'[r] = AfterSweep(r)))
  /\ ToolExists(r)' => (~Published(r) /\ pc'[r] \in {"running", "rmTool", "dead"})

NothingGetsOlder == \A n \in Names : age'[n] = age[n] \/ age'[n] = 0

\* The listing process p decides from is the one of before, or one just taken.
ListingKept(p) ==
  /\ pc'[p] \in ListingPC =>
       \/ pc[p] \in ListingPC /\ seen'[p] = seen[p] /\ held'[p] = held[p]
       \/ held'[p] = 0 /\ \A o \in Runs : ToolExists(o)' => o \in seen'[p]
  /\ pc'[p] = "rmDirs" =>
       \/ pc[p] = "rmDirs" /\ seen'[p] = seen[p] /\ held'[p] = held[p]
       \/ held'[p] = 0 /\ \A o \in Runs : <<"dind", o>> \in exists' => o \in seen'[p]

\* A prune adds to its marks only what no run counts on, and a sweep of run dirs nothing else.
MarksKept(p) ==
  /\ (p \in Prunes /\ pc'[p] = "rm") => \A n \in todo'[p] :
       \/ pc[p] = "rm" /\ n \in todo[p]
       \/ KindOf(n) = "tool"
       \/ Over(RunOf(n))
  /\ pc'[p] \in {"psDirs", "rmDirs"} => \A n \in todo'[p] : KindOf(n) = "dir"

\* What disappears is a tool, or belongs to a run that does not count on it.
OnlyUnprotectedRemoved ==
  \A n \in Names : (n \in exists \ exists' \/ age'[n] # age[n]) =>
    KindOf(n) = "tool" \/ ~Protected(RunOf(n)) \/ (KindOf(n) = "dir" /\ "dind" \notin spec[RunOf(n)])

StepFacts ==
  /\ spec' = spec
  /\ \A r \in Runs : RunFacts(r)
  /\ NothingGetsOlder
  /\ \A p \in Procs : ListingKept(p) /\ MarksKept(p)
  /\ OnlyUnprotectedRemoved

\* No owner a sweep takes for gone belongs to a run that counts on its sidecars.
LEMMA OrphansAreUnprotected ==
  ASSUME IInv, NEW p \in Procs, pc[p] \in ListingPC, NEW n \in Names, IsOrphan(n, seen[p])
  PROVE  ~Protected(RunOf(n))
<1> DEFINE r == RunOf(n)
<1>1. r \in Runs /\ KindOf(n) \in Kinds /\ n = <<KindOf(n), r>>
  BY DEF Names, RunOf, KindOf
<1>2. CASE Published(r)
  BY <1>2 DEF IsOrphan, OwnerRunning, ProcessRunning, Protected, StartingPC
<1>3. CASE ~Published(r)
  <2> SUFFICES ASSUME Protected(r) PROVE FALSE
    OBVIOUS
  <2>1. r \notin seen[p] /\ age[n] >= Grace
    BY <1>3 DEF IsOrphan, OwnerRunning
  <2>2. age[n] <= StartupMax + held[p]
    BY <1>1, <1>3, <2>1 DEF IInv, YoungWhenUnseen, ListingPC
  <2>3. held[p] \in 0..SweepMax /\ age[n] \in Nat
    BY DEF IInv, TypeOK
  <2> QED BY <2>1, <2>2, <2>3, NaturalBounds, GraceAssumption
<1> QED BY <1>2, <1>3

LEMMA SidecarKindsTyped ==
  ASSUME TypeOK, NEW r \in Runs
  PROVE  SidecarKinds(r) \subseteq Kinds \ {"tool"} /\ spec[r] \subseteq Kinds \ {"dir"}
<1>1. spec[r] \in AllSpecs
  BY ConstantsAssumption DEF TypeOK
<1>2. spec[r] \subseteq Kinds \ {"dir"}
  BY <1>1 DEF AllSpecs, Kinds
<1> QED BY <1>2 DEF SidecarKinds, Kinds

LEMMA NotYetStarting ==
  ASSUME NEW k \in Kinds
  PROVE  NotYet(k) \subseteq StartingPC
  BY DEF Kinds, NotYet, StartingPC

\* A step that leaves run r where it is, or within its own sweep, and creates nothing of it.
LEMMA BystanderFacts ==
  ASSUME IInv, NEW r \in Runs, spec' = spec,
         pc'[r] = pc[r] \/ (BeforeStart(r) /\ pc'[r] \in {"idle"} \cup SweepingPC),
         \A k \in Kinds : <<k, r>> \in exists' => <<k, r>> \in exists
  PROVE  RunFacts(r)
<1>1. BeforeStart(r)' <=> BeforeStart(r)
  BY DEF BeforeStart
<1>2. pc[r] \in StartingPC => pc'[r] = pc[r]
  BY DEF BeforeStart, SweepingPC, StartingPC
<1>3. pc'[r] \in StartingPC \cup {"running", "rmTool", "dead"} => pc'[r] = pc[r]
  BY DEF SweepingPC, StartingPC
<1>4. ToolExists(r)' => ToolExists(r)
  BY DEF ToolExists, Kinds
<1>5. ToolExists(r) => ~Published(r) /\ pc[r] \in {"running", "rmTool", "dead"}
  BY DEF IInv, ToolOnlyOnceAttached
<1>6. (Published(r)' <=> Published(r)) /\ SidecarKinds(r)' = SidecarKinds(r)
  BY DEF Published, SidecarKinds
<1>7. Protected(r)' => Protected(r)
  BY <1>3, <1>4, <1>6 DEF Protected
<1>8. \A k \in SidecarKinds(r) : pc[r] \in NotYet(k) => pc'[r] = pc[r]
  BY <1>2, NotYetStarting, SidecarKindsTyped DEF IInv
<1>9. pc[r] \in {"running", "rmTool", "dead"} => pc'[r] = pc[r]
  BY DEF BeforeStart, SweepingPC
<1> QED
  BY <1>1, <1>3, <1>4, <1>5, <1>7, <1>8, <1>9 DEF RunFacts, Over

\* The own step of a starting run.
LEMMA StartingFacts ==
  ASSUME IInv, NEW r \in Runs, spec' = spec, pc[r] \in StartingPC,
         pc'[r] \in StartingPC \cup StoppingPC \cup {"running", "done"},
         ToolExists(r)' => (ToolExists(r) \/ (~Published(r) /\ pc'[r] = "running")),
         \A k \in SidecarKinds(r) :
           (pc[r] \in NotYet(k) /\ pc'[r] \notin NotYet(k) /\ pc'[r] \in StartingPC \cup {"running"})
             => <<k, r>> \in exists'
  PROVE  RunFacts(r)
<1>1. Protected(r) /\ ~Over(r)
  BY DEF Protected, Over
<1>2. ~BeforeStart(r)'
  BY DEF BeforeStart, SweepingPC, StartingPC, StoppingPC
<1>3. ~ToolExists(r)
  BY DEF IInv, ToolOnlyOnceAttached, StartingPC
<1>4. Protected(r)' => pc'[r] \in StartingPC \cup {"running"}
  BY <1>3 DEF Protected, Published
<1> QED BY <1>1, <1>2, <1>3, <1>4 DEF RunFacts

\* The own step of a run that stops.
LEMMA StoppingFacts ==
  ASSUME IInv, NEW r \in Runs, spec' = spec, ~BeforeStart(r), pc[r] \notin StartingPC \cup {"idle"},
         pc'[r] \in StoppingPC \cup {"done", "dead"},
         ToolExists(r)' => (ToolExists(r) /\ pc'[r] \in {"rmTool", "dead"})
  PROVE  RunFacts(r)
<1>1. ~BeforeStart(r)' /\ pc'[r] \notin StartingPC \cup {"running"}
  BY DEF BeforeStart, SweepingPC, StartingPC, StoppingPC
<1>2. ToolExists(r) => ~Published(r)
  BY DEF IInv, ToolOnlyOnceAttached
<1>3. Protected(r)' => Protected(r)
  BY <1>1, <1>2 DEF Protected, Published
<1>4. \A k \in SidecarKinds(r) : pc[r] \notin NotYet(k)
  BY NotYetStarting, SidecarKindsTyped DEF IInv
<1> QED BY <1>1, <1>2, <1>3, <1>4 DEF RunFacts, Over

\* A step that does not touch process p's listing, or ends with p not using one.
LEMMA NoListingTouched ==
  ASSUME IInv, NEW p \in Procs,
         \/ pc'[p] \notin UsingPC
         \/ pc'[p] = pc[p] /\ seen'[p] = seen[p] /\ todo'[p] = todo[p] /\ held'[p] = held[p]
  PROVE  ListingKept(p) /\ MarksKept(p)
  BY DEF ListingKept, MarksKept, UsingPC, ListingPC, OnlyDirsInDirSweep, IInv

\* What a removal or a creation may change.
Removes(n) ==
  /\ NothingGetsOlder
  /\ exists' \subseteq exists /\ exists \ exists' \subseteq {n}
  /\ \A m \in Names : m # n => age'[m] = age[m]

Adds(n) == age' = age /\ exists \subseteq exists' /\ exists' \ exists \subseteq {n}

LEMMA ResourceChanges ==
  ASSUME TypeOK, NEW n \in Names
  PROVE  /\ Remove(n) => Removes(n)
         /\ TryRemove(n) => Removes(n)
         /\ UNCHANGED <<exists, active, age>> => Removes(n) /\ Adds(n)
         /\ \A up : Create(n, up) => Adds(n)
<1>1. ASSUME Remove(n) PROVE Removes(n)
  BY <1>1 DEF Remove, Removes, NothingGetsOlder, TypeOK
<1>2. UNCHANGED <<exists, active, age>> => Removes(n) /\ Adds(n)
  BY DEF Removes, Adds, NothingGetsOlder
<1>3. \A up : Create(n, up) => Adds(n)
  BY DEF Create, Adds, NothingGetsOlder
<1> QED BY <1>1, <1>2, <1>3 DEF TryRemove

\* A run's own step: it disturbs no listing, and no resource of another run.
LEMMA OwnStep ==
  ASSUME IInv, NEW r \in Runs, NEW k \in Kinds, spec' = spec, RunFacts(r),
         \A p \in Procs : p # r => /\ pc'[p] = pc[p] /\ seen'[p] = seen[p]
                                   /\ todo'[p] = todo[p] /\ held'[p] = held[p],
         pc'[r] \notin UsingPC \/ (pc'[r] = pc[r] /\ UNCHANGED sweepVars),
         Adds(<<k, r>>) \/ (Removes(<<k, r>>) /\ (k = "tool" \/ ~Protected(r)))
  PROVE  StepFacts
<1>1. ASSUME NEW s \in Runs PROVE RunFacts(s)
  <2>1. CASE s = r
    BY <2>1
  <2>2. CASE s # r
    <3>1. \A j \in Kinds : <<j, s>> \in exists' => <<j, s>> \in exists
      BY <2>2 DEF Adds, Removes
    <3> QED BY <2>2, <3>1, BystanderFacts DEF Procs
  <2> QED BY <2>1, <2>2
<1>2. \A p \in Procs : ListingKept(p) /\ MarksKept(p)
  BY NoListingTouched DEF sweepVars
<1>3. NothingGetsOlder
  BY DEF Adds, Removes, NothingGetsOlder
<1>4. OnlyUnprotectedRemoved
  BY DEF OnlyUnprotectedRemoved, Adds, Removes, KindOf, RunOf
<1> QED BY <1>1, <1>2, <1>3, <1>4 DEF StepFacts

LEMMA CreatingPoints ==
  /\ NotYet("net") = {"createNet"}
  /\ NotYet("proxy") = {"createNet", "createProxy"}
  /\ NotYet("dir") = {"createNet", "createProxy", "startProxy", "settleProxy", "createDir"}
  /\ NotYet("dind") = {"createNet", "createProxy", "startProxy", "settleProxy", "createDir", "runDind"}
  BY DEF NotYet

LEMMA StartupStep ==
  ASSUME IInv, NEW r \in Runs, Startup(r)
  PROVE  StepFacts
<1> DEFINE Passed(point) ==
      \A k \in SidecarKinds(r) :
        (pc[r] \in NotYet(k) /\ point \notin NotYet(k) /\ point \in StartingPC \cup {"running"})
          => <<k, r>> \in exists'
<1>1. TypeOK /\ SidecarKinds(r) \subseteq {"net", "proxy", "dind", "dir"} /\ "dir" \notin spec[r]
  BY SidecarKindsTyped DEF IInv, Kinds
<1>2. ASSUME NEW k \in Kinds, NEW point \in StartingPC \cup StoppingPC \cup {"running", "done"},
             pc[r] \in StartingPC, RunStep(r), Goto(r, point), Adds(<<k, r>>), Passed(point),
             k = "tool" => (exists' = exists \/ (~Published(r) /\ point = "running"))
      PROVE  StepFacts
  <2>1. pc'[r] = point /\ \A p \in Procs : p # r => pc'[p] = pc[p]
    BY <1>1, <1>2 DEF Goto, TypeOK, Procs
  <2>2. ToolExists(r)' => (ToolExists(r) \/ (~Published(r) /\ pc'[r] = "running"))
    BY <1>2, <2>1 DEF ToolExists, Adds
  <2>3. RunFacts(r)
    BY <1>2, <2>1, <2>2, StartingFacts DEF RunStep
  <2>4. pc'[r] \notin UsingPC
    BY <2>1 DEF UsingPC, ListingPC, StartingPC, StoppingPC
  <2> QED BY <1>2, <2>1, <2>3, <2>4, OwnStep DEF RunStep, sweepVars
<1>3. ASSUME pc[r] \in StartingPC, RunStep(r), UNCHANGED <<exists, active, age>>,
             NEW point \in StartingPC \cup StoppingPC \cup {"running", "done"}, Goto(r, point), Passed(point)
      PROVE  StepFacts
  <2>1. Adds(<<"net", r>>) /\ "net" \in Kinds
    BY <1>3 DEF Adds, NothingGetsOlder, Kinds
  <2> QED BY <1>2, <1>3, <2>1
<1>4. \A point \in StoppingPC \cup {"done"} : Passed(point)
  BY DEF StoppingPC, StartingPC
<1>5. ASSUME NEW k \in Kinds, NEW up, Create(<<k, r>>, up)
      PROVE  Adds(<<k, r>>) /\ <<k, r>> \in exists'
  BY <1>1, <1>5, ResourceChanges DEF Create, Names
<1>6. /\ {"createNet", "createProxy", "startProxy", "settleProxy", "createDir", "runDind", "waitDind", "attach"} = StartingPC
      /\ {"rmTool", "stopDind", "stopDir", "stopProxy", "stopNet"} = StoppingPC
      /\ {StopNet(r), StopProxy(r), StopAll(r)} \subseteq StoppingPC \cup {"done"}
      /\ {"net", "proxy", "dind", "dir", "tool"} = Kinds
  BY DEF StartingPC, StoppingPC, StopNet, StopProxy, StopAll, Kinds
<1>7. /\ "dind" \notin spec[r] => SidecarKinds(r) \subseteq {"net", "proxy"}
      /\ "proxy" \notin spec[r] => "proxy" \notin SidecarKinds(r)
  BY <1>1 DEF SidecarKinds
<1> HIDE DEF Passed
<1>10. CASE CreateRunNetwork(r)
  <2>1. <<"net", r>> \in exists' => Passed(AfterNet(r))
    BY <1>1, <1>7, <1>10, CreatingPoints DEF Passed, CreateRunNetwork, AfterNet, AfterProxy
  <2>2. AfterNet(r) \in StartingPC
    BY <1>6 DEF AfterNet, AfterProxy
  <2> QED BY <1>2, <1>3, <1>4, <1>5, <1>6, <1>10, <2>1, <2>2 DEF CreateRunNetwork
<1>11. CASE CreateProxy(r)
  <2>1. <<"proxy", r>> \in exists' => Passed("startProxy")
    BY <1>1, <1>11, CreatingPoints DEF Passed, CreateProxy
  <2> QED BY <1>2, <1>3, <1>4, <1>5, <1>6, <1>11, <2>1 DEF CreateProxy
<1>12. CASE StartProxy(r)
  <2>1. Passed("settleProxy")
    BY <1>1, <1>12, CreatingPoints DEF Passed, StartProxy
  <2> QED BY <1>2, <1>3, <1>4, <1>5, <1>6, <1>12, <2>1 DEF StartProxy
<1>13. CASE SettleProxy(r)
  <2>1. Passed(AfterProxy(r))
    BY <1>1, <1>7, <1>13, CreatingPoints DEF Passed, SettleProxy, AfterProxy
  <2>2. AfterProxy(r) \in StartingPC
    BY <1>6 DEF AfterProxy
  <2> QED BY <1>3, <1>4, <1>6, <1>13, <2>1, <2>2 DEF SettleProxy
<1>14. CASE CreateDindDir(r)
  <2>1. <<"dir", r>> \in exists' => Passed("runDind")
    BY <1>1, <1>14, CreatingPoints DEF Passed, CreateDindDir
  <2> QED BY <1>2, <1>3, <1>4, <1>5, <1>6, <1>14, <2>1 DEF CreateDindDir
<1>15. CASE RunDind(r)
  <2>1. <<"dind", r>> \in exists' => Passed("waitDind")
    BY <1>1, <1>15, CreatingPoints DEF Passed, RunDind
  <2> QED BY <1>2, <1>3, <1>4, <1>5, <1>6, <1>15, <2>1 DEF RunDind
<1>16. CASE WaitDind(r)
  <2>1. Passed("attach")
    BY <1>1, <1>16, CreatingPoints DEF Passed, WaitDind
  <2> QED BY <1>3, <1>4, <1>6, <1>16, <2>1 DEF WaitDind
<1>17. CASE Attach(r)
  <2>1. Passed("running")
    BY <1>1, <1>17, CreatingPoints DEF Passed, Attach
  <2> QED BY <1>2, <1>3, <1>5, <1>6, <1>17, <2>1 DEF Attach
<1>18. CASE RefuseMounts(r)
  BY <1>3, <1>4, <1>6, <1>18 DEF RefuseMounts
<1> QED
  BY <1>10, <1>11, <1>12, <1>13, <1>14, <1>15, <1>16, <1>17, <1>18 DEF Startup

\* The steps that end a run, and those of its containers.
LEMMA StoppingStep ==
  ASSUME IInv, NEW r \in Runs, ToolReturns(r) \/ Cleanup(r) \/ Crash(r) \/ ToolExits(r) \/ BeginRun(r)
  PROVE  StepFacts
<1>1. TypeOK /\ Kinds = {"net", "proxy", "dind", "dir", "tool"}
  BY DEF IInv, Kinds
<1>2. /\ StoppingPC = {"rmTool", "stopDind", "stopDir", "stopProxy", "stopNet"}
      /\ {StopNet(r), StopProxy(r), StopAll(r)} \subseteq StoppingPC \cup {"done"}
  BY DEF StoppingPC, StopNet, StopProxy, StopAll
<1>3. ToolExists(r) => ~Published(r) /\ pc[r] \in {"running", "rmTool", "dead"}
  BY DEF IInv, ToolOnlyOnceAttached
<1>4. \A k \in Kinds : <<k, r>> \in Names
  BY DEF Names
<1>5. ASSUME NEW k \in Kinds, NEW point \in StoppingPC \cup {"done"}, RunStep(r), Goto(r, point),
             pc[r] \in StoppingPC \cup {"running"}, Removes(<<k, r>>), ~ToolExists(r)' \/ (ToolExists(r) /\ point = "rmTool"),
             k = "tool" \/ pc[r] \in StoppingPC \ {"rmTool"} \/ UNCHANGED <<exists, age>>
      PROVE  StepFacts
  <2>1. pc'[r] = point /\ \A p \in Procs : p # r => pc'[p] = pc[p]
    BY <1>1, <1>5 DEF Goto, TypeOK, Procs
  <2>2. ~BeforeStart(r) /\ pc[r] \notin StartingPC \cup {"idle"}
    BY <1>2, <1>5 DEF BeforeStart, SweepingPC, StartingPC
  <2>3. RunFacts(r)
    BY <1>5, <2>1, <2>2, StoppingFacts DEF RunStep
  <2>4. pc'[r] \notin UsingPC
    BY <1>2, <2>1 DEF UsingPC, ListingPC
  <2>5. k = "tool" \/ ~Protected(r) \/ UNCHANGED <<exists, age>>
    BY <1>2, <1>3, <1>5, <2>2 DEF Protected
  <2>6. UNCHANGED <<exists, age>> => Adds(<<k, r>>)
    BY DEF Adds
  <2> QED BY <1>5, <2>1, <2>3, <2>4, <2>5, <2>6, OwnStep DEF RunStep, sweepVars
<1>6. \A k \in Kinds : /\ TryRemove(<<k, r>>) => Removes(<<k, r>>)
                       /\ Remove(<<k, r>>) => Removes(<<k, r>>)
                       /\ UNCHANGED <<exists, active, age>> => (Removes(<<k, r>>) /\ Adds(<<k, r>>))
  BY <1>1, <1>4, ResourceChanges
<1>7. \A k \in Kinds : Removes(<<k, r>>) => (ToolExists(r)' => ToolExists(r))
  BY DEF Removes, ToolExists
<1>8. ASSUME NEW k \in Kinds, NEW point \in {"stopDir", "done", StopNet(r), StopProxy(r)}, RunStep(r), Goto(r, point),
             pc[r] \in StoppingPC \ {"rmTool"}, TryRemove(<<k, r>>)
      PROVE  StepFacts
  <2>1. ~ToolExists(r)'
    BY <1>2, <1>3, <1>6, <1>7, <1>8
  <2> QED BY <1>2, <1>5, <1>6, <1>8, <2>1
<1>10. CASE ToolReturns(r)
  <2>1. UNCHANGED <<exists, age>> /\ (ToolExists(r)' <=> ToolExists(r))
    BY <1>10 DEF ToolReturns, ToolExists
  <2>2. Removes(<<"net", r>>)
    BY <1>1, <1>6, <1>10 DEF ToolReturns
  <2> QED BY <1>1, <1>2, <1>3, <1>5, <1>10, <2>1, <2>2 DEF ToolReturns
<1>11. CASE RemoveToolContainer(r)
  <2>1. ~ToolExists(r)'
    BY <1>11 DEF RemoveToolContainer, Remove, ToolExists
  <2> QED BY <1>1, <1>2, <1>5, <1>6, <1>11, <2>1 DEF RemoveToolContainer
<1>12. CASE StopDind(r)
  BY <1>1, <1>2, <1>8, <1>12 DEF StopDind
<1>13. CASE RemoveDindDir(r)
  BY <1>1, <1>2, <1>8, <1>13 DEF RemoveDindDir
<1>14. CASE RemoveProxy(r)
  BY <1>1, <1>2, <1>8, <1>14 DEF RemoveProxy
<1>15. CASE RemoveRunNetwork(r)
  BY <1>1, <1>2, <1>8, <1>15 DEF RemoveRunNetwork
<1>16. CASE Crash(r)
  <2>1. pc'[r] = "dead" /\ \A p \in Procs : p # r => pc'[p] = pc[p]
    BY <1>1, <1>16 DEF Crash, Goto, TypeOK, Procs
  <2>2. UNCHANGED <<spec, exists, active, age>> /\ Adds(<<"net", r>>) /\ "net" \in Kinds
    BY <1>1, <1>6, <1>16 DEF Crash
  <2>3. ToolExists(r)' <=> ToolExists(r)
    BY <2>2 DEF ToolExists
  <2>4. RunFacts(r)
    <3>1. ~BeforeStart(r)' /\ pc'[r] \notin StartingPC \cup {"running"}
      BY <2>1 DEF BeforeStart, SweepingPC, StartingPC
    <3>2. Protected(r)' => Protected(r)
      BY <2>2, <2>3, <3>1, <1>3 DEF Protected, Published
    <3>3. \A k \in SidecarKinds(r) : pc[r] \in NotYet(k) => pc[r] \in StartingPC
      BY <1>1, NotYetStarting, SidecarKindsTyped
    <3>4. \A k \in SidecarKinds(r) : Protected(r)' => ToolExists(r)
      BY <2>2, <2>3, <3>1 DEF Protected, Published
    <3>5. ToolExists(r) => pc[r] \notin StartingPC
      BY <1>3 DEF StartingPC
    <3> QED BY <1>3, <2>1, <2>3, <3>1, <3>2, <3>3, <3>4, <3>5 DEF RunFacts, Over
  <2>5. \A p \in Procs : p # r => seen'[p] = seen[p] /\ todo'[p] = todo[p] /\ held'[p] = held[p]
    BY <1>1, <1>16 DEF Crash, TypeOK, Procs
  <2>6. pc'[r] \notin UsingPC
    BY <2>1 DEF UsingPC, ListingPC
  <2> QED BY <2>1, <2>2, <2>4, <2>5, <2>6, OwnStep
<1>17. CASE ToolExits(r)
  <2>1. Removes(<<"tool", r>>) /\ "tool" \in Kinds
    BY <1>1, <1>6, <1>17 DEF ToolExits
  <2>2. UNCHANGED <<spec, pc, seen, todo, held>>
    BY <1>17 DEF ToolExits, sweepVars
  <2>3. \A k \in Kinds : <<k, r>> \in exists' => <<k, r>> \in exists
    BY <2>1 DEF Removes
  <2>4. RunFacts(r)
    BY <2>2, <2>3, BystanderFacts
  <2> QED BY <2>1, <2>2, <2>4, OwnStep DEF sweepVars
<1>18. CASE BeginRun(r)
  <2>1. pc[r] = "idle" /\ pc'[r] = "listContainers" /\ \A p \in Procs : p # r => pc'[p] = pc[p]
    BY <1>1, <1>18 DEF BeginRun, Goto, TypeOK, Procs
  <2>2. UNCHANGED <<spec, exists, active, age, seen, todo, held>> /\ Adds(<<"net", r>>) /\ "net" \in Kinds
    BY <1>1, <1>6, <1>18 DEF BeginRun, sweepVars
  <2>3. RunFacts(r)
    BY <2>1, <2>2, BystanderFacts DEF BeforeStart, SweepingPC
  <2>4. pc'[r] \notin UsingPC
    BY <2>1 DEF UsingPC, ListingPC
  <2> QED BY <2>1, <2>2, <2>3, <2>4, OwnStep DEF sweepVars
<1> QED BY <1>10, <1>11, <1>12, <1>13, <1>14, <1>15, <1>16, <1>17, <1>18 DEF Cleanup

\* A step of a sweep: the run that makes it has not started, and things only disappear.
LEMMA SweepStep ==
  ASSUME IInv, NEW p \in Procs, spec' = spec,
         p \in Prunes \/ (BeforeStart(p) /\ pc'[p] \in SweepingPC),
         \A q \in Procs : q # p => /\ pc'[q] = pc[q] /\ seen'[q] = seen[q]
                                   /\ todo'[q] = todo[q] /\ held'[q] = held[q],
         NothingGetsOlder, exists' \subseteq exists, OnlyUnprotectedRemoved,
         ListingKept(p) /\ MarksKept(p)
  PROVE  StepFacts
<1>1. \A s \in Runs : pc'[s] = pc[s] \/ (BeforeStart(s) /\ pc'[s] \in {"idle"} \cup SweepingPC)
  BY ConstantsAssumption DEF Procs
<1>2. \A s \in Runs : RunFacts(s)
  BY <1>1, BystanderFacts
<1>3. \A q \in Procs : ListingKept(q) /\ MarksKept(q)
  BY NoListingTouched
<1> QED BY <1>2, <1>3 DEF StepFacts

\* A step of a sweep that removes nothing.
LEMMA ListingStep ==
  ASSUME IInv, NEW p \in Procs, UNCHANGED <<spec, exists, active, age>>,
         NEW point, Goto(p, point),
         p \in Prunes \/ (BeforeStart(p) /\ point \in SweepingPC),
         \A q \in Procs : q # p => /\ seen'[q] = seen[q] /\ todo'[q] = todo[q] /\ held'[q] = held[q],
         pc'[p] = point => ListingKept(p) /\ MarksKept(p)
  PROVE  StepFacts
<1>1. pc'[p] = point /\ \A q \in Procs : q # p => pc'[q] = pc[q]
  BY DEF Goto, IInv, TypeOK, Procs
<1>2. NothingGetsOlder /\ OnlyUnprotectedRemoved
  BY DEF NothingGetsOlder, OnlyUnprotectedRemoved
<1> QED BY <1>1, <1>2, SweepStep

\* A step of a sweep that handles one of the resources it listed.
LEMMA RemovalStep ==
  ASSUME IInv, NEW p \in Procs, NEW n \in todo[p], UNCHANGED <<spec, pc, seen, held>>,
         p \in Prunes \/ pc[p] \in SweepingPC,
         Handled(p, n),
         Removes(n),
         \/ UNCHANGED <<exists, age>>
         \/ KindOf(n) = "tool"
         \/ ~Protected(RunOf(n))
         \/ KindOf(n) = "dir" /\ "dind" \notin spec[RunOf(n)]
  PROVE  StepFacts
<1>1. n \in Names
  BY DEF IInv, TypeOK
<1>2. NothingGetsOlder /\ exists' \subseteq exists /\ OnlyUnprotectedRemoved
  BY DEF Removes, OnlyUnprotectedRemoved
<1>3. todo'[p] \subseteq todo[p] /\ \A q \in Procs : q # p => todo'[q] = todo[q]
  BY DEF Handled, IInv, TypeOK
<1>4. ListingKept(p) /\ MarksKept(p)
  BY <1>3 DEF ListingKept, MarksKept, IInv, OnlyDirsInDirSweep
<1> QED BY <1>2, <1>3, <1>4, SweepStep DEF BeforeStart

LEMMA NothingRemoved ==
  ASSUME UNCHANGED <<exists, active, age>>, NEW n
  PROVE  Removes(n)
  BY DEF Removes, NothingGetsOlder

LEMMA RemoveStaleDirStep ==
  ASSUME IInv, NEW p \in Procs, RemoveStaleDir(p), p \in Runs \/ p \in Prunes
  PROVE  StepFacts
<1>1. PICK n \in todo[p] :
        /\ pc[p] = "rmDirs" /\ Handled(p, n) /\ UNCHANGED <<spec, pc, seen, held>>
        /\ \/ RunOf(n) \notin seen[p] /\ age[n] >= DirGrace /\ Remove(n)
           \/ UNCHANGED <<exists, active, age>>
  BY DEF RemoveStaleDir
<1>2. n \in Names /\ TypeOK /\ KindOf(n) = "dir"
  BY <1>1 DEF IInv, TypeOK, OnlyDirsInDirSweep
<1>3. n = <<"dir", RunOf(n)>> /\ RunOf(n) \in Runs
  BY <1>2 DEF Names, KindOf, RunOf
<1>4. Removes(n)
  BY <1>1, <1>2, ResourceChanges, NothingRemoved
<1>5. ASSUME RunOf(n) \notin seen[p], age[n] >= DirGrace, "dind" \in spec[RunOf(n)]
      PROVE  ~Protected(RunOf(n))
  <2> SUFFICES ASSUME Protected(RunOf(n)) PROVE FALSE
    OBVIOUS
  <2>1. age[n] <= StartupMax + held[p]
    BY <1>1, <1>3, <1>5 DEF IInv, DirYoungWhenUnseen
  <2>2. held[p] \in 0..SweepMax /\ age[n] \in Nat
    BY <1>2 DEF TypeOK
  <2> QED BY <1>5, <2>1, <2>2, NaturalBounds, GraceAssumption
<1>6. UNCHANGED <<exists, age>> \/ ~Protected(RunOf(n)) \/ "dind" \notin spec[RunOf(n)]
  BY <1>1, <1>5
<1> QED BY <1>1, <1>2, <1>4, <1>6, RemovalStep DEF SweepingPC

LEMMA ReadDirsStep ==
  ASSUME IInv, NEW p \in Procs, ReadDirs(p) \/ ListDindSidecars(p)
  PROVE  StepFacts
<1>1. p \in Prunes \/ (p \in Runs /\ pc[p] \in RunPC)
  BY DEF Procs, IInv, TypeOK
<1>2. p \in Prunes \/ BeforeStart(p)
  BY <1>1 DEF ReadDirs, ListDindSidecars, BeforeStart, SweepingPC, RunPC, StartingPC, StoppingPC
<1>3. TypeOK
  BY DEF IInv
<1>4. CASE ReadDirs(p)
  <2>1. Goto(p, "psDirs") /\ "psDirs" \in SweepingPC /\ UNCHANGED <<spec, exists, active, age, seen, held>>
    BY <1>4 DEF ReadDirs, SweepingPC
  <2>2. /\ todo'[p] = {n \in exists : KindOf(n) = "dir"}
        /\ \A q \in Procs : q # p => todo'[q] = todo[q]
    BY <1>3, <1>4 DEF ReadDirs, TypeOK
  <2>3. pc'[p] = "psDirs" => ListingKept(p) /\ MarksKept(p)
    BY <2>2 DEF ListingKept, MarksKept, ListingPC
  <2> QED BY <1>2, <2>1, <2>2, <2>3, ListingStep
<1>5. CASE ListDindSidecars(p)
  <2>1. Goto(p, "rmDirs") /\ "rmDirs" \in SweepingPC /\ UNCHANGED <<spec, exists, active, age, todo>> /\ pc[p] = "psDirs"
    BY <1>5 DEF ListDindSidecars, SweepingPC
  <2>2. /\ seen'[p] = {o \in Runs : <<"dind", o>> \in exists} /\ held'[p] = 0
        /\ \A q \in Procs : q # p => seen'[q] = seen[q] /\ held'[q] = held[q]
    BY <1>3, <1>5 DEF ListDindSidecars, TypeOK
  <2>3. pc'[p] = "rmDirs" => ListingKept(p) /\ MarksKept(p)
    BY <2>1, <2>2 DEF ListingKept, MarksKept, ListingPC, OnlyDirsInDirSweep, IInv
  <2> QED BY <1>2, <2>1, <2>2, <2>3, ListingStep
<1> QED BY <1>4, <1>5

LEMMA SweepingStep ==
  ASSUME IInv, NEW r \in Runs, Sweep(r)
  PROVE  StepFacts
<1> USE DEF Procs
<1>1. TypeOK
  BY DEF IInv
<1>2. CASE ListContainers(r)
  <2>1. Goto(r, "rmContainers") /\ "rmContainers" \in SweepingPC /\ BeforeStart(r) /\ UNCHANGED <<spec, exists, active, age>>
    BY <1>2 DEF ListContainers, SweepingPC, BeforeStart
  <2>2. /\ seen'[r] = {o \in Runs : ToolExists(o)} /\ held'[r] = 0
        /\ \A q \in Procs : q # r => seen'[q] = seen[q] /\ held'[q] = held[q] /\ todo'[q] = todo[q]
    BY <1>1, <1>2 DEF ListContainers, TypeOK
  <2>3. pc'[r] = "rmContainers" => ListingKept(r) /\ MarksKept(r)
    BY <2>1, <2>2, ConstantsAssumption DEF ListingKept, MarksKept, ListingPC, ToolExists
  <2> QED BY <2>1, <2>2, <2>3, ListingStep
<1>3. CASE ListNetworks(r)
  <2>1. Goto(r, "rmNetworks") /\ "rmNetworks" \in SweepingPC /\ BeforeStart(r) /\ UNCHANGED <<spec, exists, active, age, seen, held>>
    BY <1>3 DEF ListNetworks, SweepingPC, BeforeStart
  <2>2. pc[r] = "rmContainers" /\ \A q \in Procs : q # r => todo'[q] = todo[q]
    BY <1>1, <1>3 DEF ListNetworks, TypeOK
  <2>3. pc'[r] = "rmNetworks" => ListingKept(r) /\ MarksKept(r)
    BY <2>1, <2>2 DEF ListingKept, MarksKept, ListingPC
  <2> QED BY <2>1, <2>2, <2>3, ListingStep
<1>4. CASE RemoveOrphanedContainer(r) \/ RemoveOrphanedNetwork(r)
  <2>1. PICK n \in todo[r] :
          /\ pc[r] \in {"rmContainers", "rmNetworks"} /\ Handled(r, n) /\ UNCHANGED <<spec, pc, seen, held>>
          /\ \/ IsOrphan(n, seen[r]) /\ TryRemove(n)
             \/ UNCHANGED <<exists, active, age>>
    BY <1>4 DEF RemoveOrphanedContainer, RemoveOrphanedNetwork, RemoveIfOrphan
  <2>2. n \in Names
    BY <1>1, <2>1 DEF TypeOK
  <2>3. Removes(n)
    BY <1>1, <2>1, <2>2, ResourceChanges
  <2>4. UNCHANGED <<exists, age>> \/ ~Protected(RunOf(n))
    BY <2>1, <2>2, OrphansAreUnprotected DEF ListingPC
  <2> QED BY <2>1, <2>3, <2>4, RemovalStep DEF SweepingPC
<1>5. CASE EndSweep(r)
  <2>1. BeforeStart(r) /\ pc[r] \notin StartingPC \cup {"running", "rmTool", "dead"}
    BY <1>5 DEF EndSweep, BeforeStart, SweepingPC, StartingPC
  <2>2. pc'[r] = AfterSweep(r) /\ \A q \in Procs : q # r => pc'[q] = pc[q]
    BY <1>1, <1>5 DEF EndSweep, Goto, TypeOK
  <2>3. /\ \A q \in Procs : q # r => seen'[q] = seen[q] /\ held'[q] = held[q] /\ todo'[q] = todo[q]
        /\ UNCHANGED <<spec, exists, active, age>>
    BY <1>1, <1>5 DEF EndSweep, TypeOK
  <2>4. AfterSweep(r) \in {"createNet", "createProxy"}
    BY DEF AfterSweep
  <2>5. ~BeforeStart(r)' /\ pc'[r] \notin UsingPC
    BY <2>2, <2>4 DEF BeforeStart, SweepingPC, UsingPC, ListingPC
  <2>6. ~ToolExists(r) /\ ~ToolExists(r)'
    BY <2>1, <2>3 DEF IInv, ToolOnlyOnceAttached, ToolExists
  <2>7. \A k \in SidecarKinds(r) : pc[r] \notin NotYet(k)
    BY <1>1, <2>1, NotYetStarting, SidecarKindsTyped
  <2>8. RunFacts(r)
    BY <2>1, <2>2, <2>5, <2>6, <2>7 DEF RunFacts, Over
  <2>9. Adds(<<"net", r>>) /\ "net" \in Kinds
    BY <2>3 DEF Adds, NothingGetsOlder, Kinds
  <2> QED BY <2>2, <2>3, <2>5, <2>8, <2>9, OwnStep
<1> QED BY <1>2, <1>3, <1>4, <1>5, ReadDirsStep, RemoveStaleDirStep DEF Sweep

LEMMA PruningStep ==
  ASSUME IInv, NEW c \in Prunes, BeginPrune(c) \/ PruneStep(c) \/ AbortPrune(c)
  PROVE  StepFacts
<1> USE DEF Procs
<1>1. TypeOK
  BY DEF IInv
<1>2. ASSUME NEW point, Goto(c, point), point \notin UsingPC, UNCHANGED <<spec, exists, active, age>>,
             \A q \in Procs : q # c => seen'[q] = seen[q] /\ held'[q] = held[q] /\ todo'[q] = todo[q]
      PROVE  StepFacts
  BY <1>2, NoListingTouched, ListingStep
<1>3. CASE BeginPrune(c) \/ AbortPrune(c) \/ NextTarget(c)
  <2>1. \E point \in {"names", "idle", "readDirs"} : Goto(c, point)
    BY <1>3 DEF BeginPrune, AbortPrune, NextTarget
  <2>2. UNCHANGED <<spec, exists, active, age>> /\
        \A q \in Procs : q # c => seen'[q] = seen[q] /\ held'[q] = held[q] /\ todo'[q] = todo[q]
    BY <1>1, <1>3 DEF BeginPrune, AbortPrune, NextTarget, sweepVars, TypeOK
  <2> QED BY <1>2, <2>1, <2>2 DEF UsingPC, ListingPC
<1>4. CASE ContainerNames(c)
  <2>1. Goto(c, "list") /\ UNCHANGED <<spec, exists, active, age, todo>>
    BY <1>4 DEF ContainerNames
  <2>2. /\ seen'[c] = {o \in Runs : ToolExists(o)} /\ held'[c] = 0
        /\ \A q \in Procs : q # c => seen'[q] = seen[q] /\ held'[q] = held[q]
    BY <1>1, <1>4 DEF ContainerNames, TypeOK
  <2>3. pc'[c] = "list" => ListingKept(c) /\ MarksKept(c)
    BY <2>1, <2>2 DEF ListingKept, MarksKept, ListingPC, ToolExists
  <2> QED BY <2>1, <2>2, <2>3, ListingStep
<1>5. CASE ListUnused(c)
  <2>1. Goto(c, "rm") /\ UNCHANGED <<spec, exists, active, age, seen, held>> /\ pc[c] \in ListingPC
    BY <1>5 DEF ListUnused, ListingPC
  <2>2. /\ todo'[c] = {n \in Listed(target[c]) : ~InUse(n, seen[c])}
        /\ \A q \in Procs : q # c => todo'[q] = todo[q]
    BY <1>1, <1>5 DEF ListUnused, TypeOK
  <2>3. ASSUME NEW n \in todo'[c], KindOf(n) # "tool"
        PROVE  Over(RunOf(n))
    <3>1. n \in exists /\ IsOrphan(n, seen[c])
      BY <2>2, <2>3 DEF Listed, InUse, HasOwner
    <3>2. n \in Names
      BY <1>1, <3>1 DEF TypeOK
    <3>3. ~Protected(RunOf(n))
      BY <2>1, <3>1, <3>2, OrphansAreUnprotected
    <3>4. n = <<KindOf(n), RunOf(n)>> /\ KindOf(n) \in Kinds /\ RunOf(n) \in Runs
      BY <3>2 DEF Names, KindOf, RunOf
    <3>5. ~BeforeStart(RunOf(n))
      BY <3>1, <3>4 DEF IInv, NothingBeforeStart
    <3> QED BY <3>3, <3>5 DEF Over
  <2>4. pc'[c] = "rm" => ListingKept(c) /\ MarksKept(c)
    BY <2>3 DEF ListingKept, MarksKept, ListingPC
  <2> QED BY <2>1, <2>2, <2>4, ListingStep
<1>6. CASE RemoveUnused(c)
  <2>1. PICK n \in todo[c] :
          /\ pc[c] = "rm" /\ Handled(c, n) /\ UNCHANGED <<spec, pc, seen, held>>
          /\ Remove(n) \/ UNCHANGED <<exists, active, age>>
    BY <1>6 DEF RemoveUnused
  <2>2. Removes(n)
    BY <1>1, <2>1, ResourceChanges, NothingRemoved DEF TypeOK
  <2>3. KindOf(n) = "tool" \/ ~Protected(RunOf(n))
    BY <2>1 DEF IInv, MarkedRunsAreOver, Over
  <2> QED BY <2>1, <2>2, <2>3, RemovalStep
<1> QED BY <1>3, <1>4, <1>5, <1>6, ReadDirsStep, RemoveStaleDirStep DEF PruneStep

LEMMA SidecarExitsStep ==
  ASSUME IInv, NEW n \in Names, SidecarExits(n)
  PROVE  StepFacts
<1>1. UNCHANGED <<spec, pc, exists, age, seen, todo, held>>
  BY DEF SidecarExits, sweepVars
<1> QED
  BY <1>1, BystanderFacts, NoListingTouched DEF StepFacts, NothingGetsOlder, OnlyUnprotectedRemoved
-----------------------------------------------------------------------------
(* The invariant is inductive.                                             *)

LEMMA PublishedRuns ==
  ASSUME TypeOK, NEW r \in Runs
  PROVE  /\ Published(r) => SidecarKinds(r) \subseteq {"proxy"}
         /\ "dind" \in spec[r] => ~Published(r)
<1>1. spec[r] \in AllSpecs
  BY ConstantsAssumption DEF TypeOK
<1>2. "net" \in spec[r] \/ spec[r] = {"proxy"}
  BY <1>1 DEF AllSpecs
<1> QED BY <1>2 DEF Published, SidecarKinds

LEMMA InvariantInitially == Init => IInv
<1> SUFFICES ASSUME Init PROVE IInv
  OBVIOUS
<1>1. TypeOK
  BY InitTyped
<1>2. \A p \in Procs : pc[p] = "idle" /\ todo[p] = {}
  BY DEF Init
<1>3. NothingBeforeStart
  BY DEF Init, NothingBeforeStart, Names
<1>4. \A r \in Runs : ~Protected(r) /\ pc[r] = "idle"
  BY <1>2 DEF Init, Protected, ToolExists, StartingPC, Procs
<1>5. YoungWhileStarting /\ YoungWhenUnseen /\ DirYoungWhenUnseen /\ ActiveRunsKeepSidecars
  BY <1>2, <1>4 DEF YoungWhileStarting, YoungWhenUnseen, DirYoungWhenUnseen, ActiveRunsKeepSidecars, StartingPC
<1>6. MarkedRunsAreOver /\ ToolOnlyOnceAttached /\ OnlyDirsInDirSweep
  BY <1>2 DEF Init, MarkedRunsAreOver, ToolOnlyOnceAttached, ToolExists, OnlyDirsInDirSweep, Procs
<1> QED BY <1>1, <1>3, <1>5, <1>6 DEF IInv

LEMMA InvariantKept ==
  ASSUME IInv, StepFacts, TypeOK'
  PROVE  IInv'
<1>1. TypeOK /\ spec' = spec /\ \A r \in Runs : RunFacts(r)
  BY DEF IInv, StepFacts
<1>2. \A n \in Names : age[n] \in Nat /\ age'[n] \in Nat /\ age'[n] <= age[n]
  BY <1>1, NaturalBounds DEF StepFacts, NothingGetsOlder, TypeOK
<1>3. \A r \in Runs, k \in Kinds : <<k, r>> \in Names
  BY DEF Names
<1>4. {"net", "proxy", "dind", "dir", "tool"} = Kinds
  BY DEF Kinds
<1>5. \A r \in Runs : /\ Published(r)' <=> Published(r)
                      /\ SidecarKinds(r)' = SidecarKinds(r) /\ SidecarKinds(r) \subseteq Kinds \ {"tool"}
  BY <1>1, SidecarKindsTyped DEF Published, SidecarKinds
<1>6. \A r \in Runs : BeforeStart(r) => \A k \in Kinds : age[<<k, r>>] = 0 /\ age'[<<k, r>>] = 0
  BY <1>2, <1>3 DEF IInv, NothingBeforeStart
<1>10. NothingBeforeStart'
  BY <1>1, <1>6 DEF RunFacts, IInv, NothingBeforeStart
<1>11. YoungWhileStarting'
  <2> SUFFICES ASSUME NEW r \in Runs, pc'[r] \in StartingPC, ~Published(r)
               PROVE  /\ age'[<<"net", r>>] <= StartupMax
                      /\ \A k \in Kinds : age'[<<k, r>>] <= age'[<<"net", r>>]
    BY <1>5 DEF YoungWhileStarting
  <2>1. CASE BeforeStart(r)
    BY <1>4, <1>6, <2>1, NaturalBounds
  <2>2. CASE pc[r] \in StartingPC
    <3>1. age[<<"net", r>>] <= StartupMax /\ \A k \in Kinds : age[<<k, r>>] <= age[<<"net", r>>]
      BY <2>2 DEF IInv, YoungWhileStarting
    <3>2. age'[<<"net", r>>] = age[<<"net", r>>]
      BY <1>3, <1>4, <2>2 DEF StepFacts, OnlyUnprotectedRemoved, KindOf, RunOf, Protected
    <3> QED BY <1>2, <1>3, <1>4, <3>1, <3>2, NaturalBounds
  <2> QED BY <1>1, <2>1, <2>2 DEF RunFacts
<1>12. \A r \in Runs : Protected(r)' => (Protected(r) \/ (BeforeStart(r) /\ pc'[r] = AfterSweep(r)))
  BY <1>1 DEF RunFacts
<1>13. YoungWhenUnseen'
  <2> SUFFICES ASSUME NEW p \in Procs, pc'[p] \in ListingPC,
                      NEW r \in Runs, ~Published(r), Protected(r)', r \notin seen'[p],
                      NEW k \in Kinds
               PROVE  age'[<<k, r>>] <= StartupMax + held'[p]
    BY <1>5 DEF YoungWhenUnseen, ListingPC
  <2>1. held'[p] \in Nat
    BY NaturalBounds DEF TypeOK
  <2>2. CASE pc[p] \in ListingPC /\ seen'[p] = seen[p] /\ held'[p] = held[p]
    <3>1. CASE Protected(r)
      <4>1. age[<<k, r>>] <= StartupMax + held[p]
        BY <2>2, <3>1 DEF IInv, YoungWhenUnseen, ListingPC
      <4> QED BY <1>2, <1>3, <2>1, <2>2, <4>1, NaturalBounds
    <3>2. CASE BeforeStart(r)
      BY <1>6, <2>1, <3>2, NaturalBounds
    <3> QED BY <1>12, <3>1, <3>2
  <2>3. CASE held'[p] = 0 /\ \A o \in Runs : ToolExists(o)' => o \in seen'[p]
    <3>1. pc'[r] \in StartingPC
      BY <1>5, <2>3 DEF Protected
    <3>2. age'[<<k, r>>] <= age'[<<"net", r>>] /\ age'[<<"net", r>>] <= StartupMax
      BY <1>5, <1>11, <3>1 DEF YoungWhileStarting
    <3> QED BY <1>2, <1>3, <1>4, <2>3, <3>2, NaturalBounds
  <2> QED BY <2>2, <2>3 DEF StepFacts, ListingKept
<1>14. ActiveRunsKeepSidecars'
  <2> SUFFICES ASSUME NEW r \in Runs, Protected(r)', NEW k \in SidecarKinds(r), pc'[r] \notin NotYet(k)
               PROVE  <<k, r>> \in exists'
    BY <1>5 DEF ActiveRunsKeepSidecars, NotYet
  <2>1. CASE Protected(r) /\ pc[r] \in NotYet(k)
    BY <1>1, <2>1 DEF RunFacts
  <2>2. CASE Protected(r) /\ pc[r] \notin NotYet(k)
    <3>1. <<k, r>> \in exists /\ <<k, r>> \in Names
      BY <1>3, <1>5, <2>2 DEF IInv, ActiveRunsKeepSidecars
    <3>2. k # "tool" /\ (k = "dir" => "dind" \in spec[r])
      BY <1>1, <1>5, SidecarKindsTyped DEF SidecarKinds
    <3> QED BY <2>2, <3>1, <3>2 DEF StepFacts, OnlyUnprotectedRemoved, KindOf, RunOf
  <2>3. CASE BeforeStart(r) /\ pc'[r] = AfterSweep(r)
    <3>1. Published(r) => SidecarKinds(r) \subseteq {"proxy"}
      BY <1>1, PublishedRuns
    <3> QED BY <1>4, <1>5, <2>3, <3>1, CreatingPoints DEF AfterSweep
  <2> QED BY <1>12, <2>1, <2>2, <2>3
<1>15. DirYoungWhenUnseen'
  <2> SUFFICES ASSUME NEW p \in Procs, pc'[p] = "rmDirs",
                      NEW r \in Runs, "dind" \in spec[r], Protected(r)', r \notin seen'[p]
               PROVE  age'[<<"dir", r>>] <= StartupMax + held'[p]
    BY <1>1 DEF DirYoungWhenUnseen
  <2>1. held'[p] \in Nat
    BY NaturalBounds DEF TypeOK
  <2>2. CASE pc[p] = "rmDirs" /\ seen'[p] = seen[p] /\ held'[p] = held[p]
    <3>1. CASE Protected(r)
      <4>1. age[<<"dir", r>>] <= StartupMax + held[p]
        BY <2>2, <3>1 DEF IInv, DirYoungWhenUnseen
      <4> QED BY <1>2, <1>3, <1>4, <2>1, <2>2, <4>1, NaturalBounds
    <3>2. CASE BeforeStart(r)
      BY <1>4, <1>6, <2>1, <3>2, NaturalBounds
    <3> QED BY <1>12, <3>1, <3>2
  <2>3. CASE held'[p] = 0 /\ \A o \in Runs : <<"dind", o>> \in exists' => o \in seen'[p]
    <3>1. ~Published(r) /\ "dind" \in SidecarKinds(r)
      BY <1>1, PublishedRuns DEF SidecarKinds
    <3>2. pc'[r] \in NotYet("dind")
      BY <1>5, <1>14, <2>3, <3>1 DEF ActiveRunsKeepSidecars, NotYet
    <3>3. pc'[r] \in StartingPC
      BY <1>4, <3>2, NotYetStarting
    <3>4. age'[<<"dir", r>>] <= age'[<<"net", r>>] /\ age'[<<"net", r>>] <= StartupMax
      BY <1>4, <1>5, <1>11, <3>1, <3>3 DEF YoungWhileStarting
    <3> QED BY <1>2, <1>3, <1>4, <2>3, <3>4, NaturalBounds
  <2> QED BY <2>2, <2>3 DEF StepFacts, ListingKept
<1>16. MarkedRunsAreOver'
  <2> SUFFICES ASSUME NEW c \in Prunes, pc'[c] = "rm", NEW n \in todo'[c], KindOf(n) # "tool"
               PROVE  Over(RunOf(n))'
    BY DEF MarkedRunsAreOver, KindOf, RunOf
  <2>1. Over(RunOf(n))
    BY DEF StepFacts, MarksKept, Procs, IInv, MarkedRunsAreOver
  <2>2. RunOf(n) \in Runs
    BY DEF TypeOK, Procs, Names, RunOf
  <2> QED BY <1>1, <2>1, <2>2 DEF RunFacts
<1>17. ToolOnlyOnceAttached'
  BY <1>1, <1>5 DEF RunFacts, ToolOnlyOnceAttached
<1>18. OnlyDirsInDirSweep'
  BY DEF StepFacts, MarksKept, OnlyDirsInDirSweep, KindOf
<1> QED BY <1>10, <1>11, <1>13, <1>14, <1>15, <1>16, <1>17, <1>18 DEF IInv

\* Time: a run starting ages its network with everything else, and a sweep ages with its listing.
LEMMA TickKeeps ==
  ASSUME IInv, Tick
  PROVE  IInv'
<1>1. TypeOK /\ TypeOK' /\ UNCHANGED <<spec, pc, exists, active, seen, todo>>
  BY TickTyped DEF IInv, Tick
<1>2. \A n \in Names : /\ age[n] \in Nat /\ age[n] <= MaxAge /\ age'[n] \in Nat
                       /\ age'[n] <= age[n] + 1
                       /\ ~Ageing(n) => age'[n] = age[n]
                       /\ (Ageing(n) /\ age[n] < MaxAge) => age'[n] = age[n] + 1
  BY <1>1, NaturalBounds DEF Tick, Older, TypeOK
<1>3. \A r \in Runs, k \in Kinds : <<k, r>> \in Names
  BY DEF Names
<1>4. Kinds = {"net", "proxy", "dind", "dir", "tool"}
  BY DEF Kinds
<1>5. \A p \in Procs : pc[p] \in ListingPC \cup {"rmDirs"} => held'[p] = held[p] + 1 /\ held[p] \in Nat
  BY <1>1, NaturalBounds DEF Tick, HoldsListing, ListingPC, TypeOK
<1>6. \A r \in Runs : /\ Published(r)' <=> Published(r)
                      /\ Protected(r)' <=> Protected(r)
                      /\ BeforeStart(r)' <=> BeforeStart(r)
                      /\ ToolExists(r)' <=> ToolExists(r)
                      /\ SidecarKinds(r)' = SidecarKinds(r)
  BY <1>1 DEF Published, Protected, BeforeStart, ToolExists, SidecarKinds
<1>10. NothingBeforeStart'
  <2> SUFFICES ASSUME NEW r \in Runs, BeforeStart(r), NEW k \in Kinds
               PROVE  <<k, r>> \notin exists' /\ age'[<<k, r>>] = 0
    BY <1>6 DEF NothingBeforeStart
  <2>1. <<k, r>> \notin exists /\ age[<<k, r>>] = 0
    BY DEF IInv, NothingBeforeStart
  <2>2. Creating(k) \subseteq StartingPC
    BY DEF Creating, StartingPC
  <2>3. pc[r] \notin Creating(k)
    BY <2>2 DEF BeforeStart, SweepingPC, StartingPC
  <2>4. ~Ageing(<<k, r>>)
    BY <2>1, <2>3 DEF Ageing, RunOf, KindOf
  <2> QED BY <1>1, <1>2, <1>3, <2>1, <2>4
<1>11. YoungWhileStarting'
  <2> SUFFICES ASSUME NEW r \in Runs, pc[r] \in StartingPC, ~Published(r)
               PROVE  /\ age'[<<"net", r>>] <= StartupMax
                      /\ \A k \in Kinds : age'[<<k, r>>] <= age'[<<"net", r>>]
    BY <1>1, <1>6 DEF YoungWhileStarting
  <2>1. age[<<"net", r>>] < StartupMax /\ \A k \in Kinds : age[<<k, r>>] <= age[<<"net", r>>]
    BY DEF Tick, IInv, YoungWhileStarting
  <2>2. age[<<"net", r>>] < MaxAge
    BY <1>2, <1>3, <1>4, <2>1, NaturalBounds, GraceAssumption
  <2>3. <<"net", r>> \in exists \/ pc[r] = "createNet"
    <3>1. "net" \in SidecarKinds(r)
      BY DEF Published, SidecarKinds
    <3> QED BY <3>1, CreatingPoints DEF IInv, ActiveRunsKeepSidecars, Protected
  <2>4. Creating("net") = {"createNet"}
    BY DEF Creating
  <2>5. Ageing(<<"net", r>>)
    BY <2>3, <2>4 DEF Ageing, HasOwner, KindOf, RunOf
  <2>6. age'[<<"net", r>>] = age[<<"net", r>>] + 1
    BY <1>2, <1>3, <1>4, <2>2, <2>5
  <2>7. \A k \in Kinds : age'[<<k, r>>] <= age[<<k, r>>] + 1
    BY <1>2, <1>3
  <2> QED BY <1>2, <1>3, <1>4, <2>1, <2>6, <2>7, NaturalBounds
<1>12. YoungWhenUnseen'
  <2> SUFFICES ASSUME NEW p \in Procs, pc[p] \in ListingPC,
                      NEW r \in Runs, ~Published(r), Protected(r), r \notin seen[p],
                      NEW k \in Kinds
               PROVE  age'[<<k, r>>] <= StartupMax + held'[p]
    BY <1>1, <1>6 DEF YoungWhenUnseen, ListingPC
  <2>1. age[<<k, r>>] <= StartupMax + held[p]
    BY DEF IInv, YoungWhenUnseen, ListingPC
  <2> QED BY <1>2, <1>3, <1>5, <2>1, NaturalBounds
<1>13. DirYoungWhenUnseen'
  <2> SUFFICES ASSUME NEW p \in Procs, pc[p] = "rmDirs",
                      NEW r \in Runs, "dind" \in spec[r], Protected(r), r \notin seen[p]
               PROVE  age'[<<"dir", r>>] <= StartupMax + held'[p]
    BY <1>1, <1>6 DEF DirYoungWhenUnseen
  <2>1. age[<<"dir", r>>] <= StartupMax + held[p]
    BY DEF IInv, DirYoungWhenUnseen
  <2>2. held'[p] = held[p] + 1 /\ held[p] \in Nat
    BY <1>5
  <2>3. age'[<<"dir", r>>] <= age[<<"dir", r>>] + 1 /\ age[<<"dir", r>>] \in Nat /\ age'[<<"dir", r>>] \in Nat
    BY <1>2, <1>3, <1>4
  <2> QED BY <2>1, <2>2, <2>3, NaturalBounds
<1>14. MarkedRunsAreOver' /\ ToolOnlyOnceAttached' /\ OnlyDirsInDirSweep' /\ ActiveRunsKeepSidecars'
  <2>1. MarkedRunsAreOver'
    BY <1>1 DEF IInv, MarkedRunsAreOver, Over, Protected, Published, BeforeStart, ToolExists, RunOf, KindOf
  <2>2. ToolOnlyOnceAttached'
    BY <1>1, <1>6 DEF IInv, ToolOnlyOnceAttached
  <2>3. OnlyDirsInDirSweep'
    BY <1>1 DEF IInv, OnlyDirsInDirSweep, KindOf
  <2>4. ActiveRunsKeepSidecars'
    BY <1>1, <1>6 DEF IInv, ActiveRunsKeepSidecars, NotYet
  <2> QED BY <2>1, <2>2, <2>3, <2>4
<1> QED BY <1>1, <1>10, <1>11, <1>12, <1>13, <1>14 DEF IInv

LEMMA InvariantInductive == IInv /\ [Next]_vars => IInv'
<1> SUFFICES ASSUME IInv, [Next]_vars PROVE IInv'
  OBVIOUS
<1>1. TypeOK'
  BY TypeInductive DEF IInv
<1>2. CASE UNCHANGED vars
  <2>1. UNCHANGED <<spec, pc, exists, active, age, seen, todo, held, target, failed>>
    BY <1>2 DEF vars
  <2>2. StepFacts
    BY <2>1, BystanderFacts, NoListingTouched DEF StepFacts, NothingGetsOlder, OnlyUnprotectedRemoved
  <2> QED BY <1>1, <2>2, InvariantKept
<1>3. CASE Next
  BY <1>1, <1>3, SweepingStep, StartupStep, StoppingStep, PruningStep, SidecarExitsStep,
     InvariantKept, TickKeeps DEF Next
<1> QED BY <1>2, <1>3

\* For any number of runs and prunes, whatever the resources a run asks for, as long as a
\* startup and a listing together stay within the grace periods: no sweep takes a network,
\* sidecar or run dir of a run that counts on it.
THEOREM RunsKeepTheirSidecars == Spec => []ActiveRunsKeepSidecars
<1>1. IInv => ActiveRunsKeepSidecars
  BY DEF IInv
<1> QED BY <1>1, InvariantInitially, InvariantInductive, PTL DEF Spec
-----------------------------------------------------------------------------
(* What a run holds, by where it is.                                       *)

\* A run is at a point only for what it asked for, and holds nothing else.
OnlyWhatWasAsked(r) ==
  /\ pc[r] \in {"createNet", "stopNet"} => "net" \in spec[r]
  /\ pc[r] \in {"createProxy", "startProxy", "settleProxy", "stopProxy"} => "proxy" \in spec[r]
  /\ pc[r] \in {"createDir", "runDind", "waitDind", "stopDind", "stopDir"} => "dind" \in spec[r]
  /\ <<"net", r>> \in exists => "net" \in spec[r]
  /\ <<"proxy", r>> \in exists => "proxy" \in spec[r]
  /\ <<"dind", r>> \in exists \/ <<"dir", r>> \in exists => "dind" \in spec[r]

\* If no removal fails, what the startup has not created or the cleanup is past is not there.
StoppedInOrder(r) ==
  RemovalsFail \/
    /\ <<"net", r>> \in exists => pc[r] \notin {"createNet", "done"}
    /\ <<"proxy", r>> \in exists => pc[r] \notin {"createNet", "createProxy", "stopNet", "done"}
    /\ <<"dir", r>> \in exists =>
         pc[r] \notin {"createNet", "createProxy", "startProxy", "settleProxy", "createDir",
                       "stopProxy", "stopNet", "done"}
    /\ <<"dind", r>> \in exists =>
         pc[r] \notin {"createNet", "createProxy", "startProxy", "settleProxy", "createDir", "runDind",
                       "stopDir", "stopProxy", "stopNet", "done"}

RunInv(r) == OnlyWhatWasAsked(r) /\ StoppedInOrder(r)

OnlyContainersRun == \A n \in active : KindOf(n) \in {"tool", "proxy", "dind"}

\* Without a lookalike no prune marks a tool container.
ToolsAreNotMarked ==
  Lookalike = {} => \A c \in Prunes : pc[c] = "rm" => \A n \in todo[c] : KindOf(n) # "tool"

EndInv ==
  /\ \A r \in Runs : RunInv(r)
  /\ OnlyContainersRun
  /\ ToolsAreNotMarked

\* A step for run r, which creates its resource of kind k, removes it or leaves it alone.
Touches(r, k) ==
  /\ \A p \in Procs \ {r} : pc'[p] = pc[p]
  /\ \/ exists' = exists
     \/ exists' = exists \ {<<k, r>>}
     \/ exists' = exists \cup {<<k, r>>} /\ pc[r] \in StartingPC

OneAtATime ==
  \/ exists' = exists /\ \A s \in Runs : pc'[s] = pc[s]
  \/ \E r \in Runs, k \in Kinds : Touches(r, k)

\* A step of another process: run r stays where it is, and gets nothing.
LEMMA BystanderKeeps ==
  ASSUME NEW r \in Runs, RunInv(r), spec' = spec, pc'[r] = pc[r],
         \A k \in Kinds : <<k, r>> \in exists' => <<k, r>> \in exists
  PROVE  RunInv(r)'
<1>1. \A k \in {"net", "proxy", "dind", "dir"} : <<k, r>> \in exists' => <<k, r>> \in exists
  BY DEF Kinds
<1> QED BY <1>1 DEF RunInv, OnlyWhatWasAsked, StoppedInOrder

\* Nothing of a run that has not started is there, and no point of the sweep is in RunInv.
LEMMA SweepingKeeps ==
  ASSUME IInv, NEW r \in Runs, RunInv(r), spec' = spec, BeforeStart(r),
         pc'[r] \in SweepingPC \cup {"dead", AfterSweep(r)},
         \A k \in Kinds : <<k, r>> \in exists' => <<k, r>> \in exists
  PROVE  RunInv(r)'
<1>1. \A k \in {"net", "proxy", "dind", "dir"} : <<k, r>> \notin exists'
  BY DEF Kinds, IInv, NothingBeforeStart
<1>2. spec[r] \in AllSpecs
  BY ConstantsAssumption DEF IInv, TypeOK
<1>3. "net" \in spec[r] \/ "proxy" \in spec[r]
  BY <1>2 DEF AllSpecs
<1> QED BY <1>1, <1>3 DEF RunInv, OnlyWhatWasAsked, StoppedInOrder, SweepingPC, AfterSweep, Published

LEMMA StartupKeeps ==
  ASSUME IInv, NEW r \in Runs, RunInv(r), Startup(r)
  PROVE  /\ RunInv(r)'
         /\ UNCHANGED <<spec, todo>>
         /\ \E k \in Kinds : Touches(r, k)
         /\ exists \subseteq exists'
         /\ \E k \in {"tool", "proxy", "dind"} : active' \subseteq active \cup {<<k, r>>}
<1> USE DEF Touches, Create, RunStep, sweepVars, pruneVars
<1>0. {"createNet", "createProxy", "startProxy", "settleProxy", "createDir", "runDind", "waitDind", "attach"} = StartingPC
  BY DEF StartingPC
<1>1. pc \in [Procs -> RunPC \cup PrunePC] /\ r \in Procs
  BY DEF IInv, TypeOK, Procs
<1>2. \A point : Goto(r, point) => pc'[r] = point /\ \A p \in Procs \ {r} : pc'[p] = pc[p]
  BY <1>1 DEF Goto
<1>3. Kinds = {"net", "proxy", "dind", "dir", "tool"}
  BY DEF Kinds
<1>4. "net" \in spec[r] \/ spec[r] = {"proxy"}
  <2>1. spec[r] \in AllSpecs
    BY ConstantsAssumption DEF IInv, TypeOK
  <2> QED BY <2>1 DEF AllSpecs
<1> USE DEF RunInv, OnlyWhatWasAsked, StoppedInOrder, Published
<1>10. CASE CreateRunNetwork(r)
  BY <1>0, <1>2, <1>3, <1>10 DEF CreateRunNetwork, AfterNet, AfterProxy
<1>11. CASE CreateProxy(r)
  BY <1>0, <1>2, <1>3, <1>11 DEF CreateProxy, StopNet
<1>12. CASE StartProxy(r)
  BY <1>0, <1>2, <1>3, <1>12 DEF StartProxy
<1>13. CASE SettleProxy(r)
  BY <1>0, <1>2, <1>3, <1>13 DEF SettleProxy, AfterProxy
<1>14. CASE CreateDindDir(r)
  BY <1>0, <1>2, <1>3, <1>4, <1>14 DEF CreateDindDir, StopProxy, StopNet
<1>15. CASE RunDind(r)
  BY <1>0, <1>2, <1>3, <1>15 DEF RunDind
<1>16. CASE WaitDind(r)
  BY <1>0, <1>2, <1>3, <1>16 DEF WaitDind
<1>17. CASE Attach(r)
  BY <1>0, <1>2, <1>3, <1>17 DEF Attach
<1>18. CASE RefuseMounts(r)
  BY <1>0, <1>2, <1>3, <1>4, <1>18 DEF RefuseMounts, StopAll, StopProxy, StopNet
<1> QED
  BY <1>10, <1>11, <1>12, <1>13, <1>14, <1>15, <1>16, <1>17, <1>18 DEF Startup

\* The other steps of a run that is past its sweep.
LEMMA CleanupKeeps ==
  ASSUME IInv, NEW r \in Runs, RunInv(r), OnlyContainersRun, ToolReturns(r) \/ Cleanup(r)
  PROVE  /\ RunInv(r)'
         /\ UNCHANGED <<spec, todo>>
         /\ \E k \in Kinds : Touches(r, k) /\ exists' \subseteq exists /\ active' \subseteq active
<1> USE DEF Touches, RunStep, sweepVars, pruneVars
<1>1. pc \in [Procs -> RunPC \cup PrunePC] /\ r \in Procs /\ active \subseteq exists /\ exists \subseteq Names
  BY DEF IInv, TypeOK, Procs
<1>2. \A point : Goto(r, point) => pc'[r] = point /\ \A p \in Procs \ {r} : pc'[p] = pc[p]
  BY <1>1 DEF Goto
<1>3. Kinds = {"net", "proxy", "dind", "dir", "tool"}
  BY DEF Kinds
<1>4. "net" \in spec[r] \/ spec[r] = {"proxy"}
  <2>1. spec[r] \in AllSpecs
    BY ConstantsAssumption DEF IInv, TypeOK
  <2> QED BY <2>1 DEF AllSpecs
<1>5. ASSUME NEW k \in Kinds, TryRemove(<<k, r>>) \/ Remove(<<k, r>>)
      PROVE  /\ exists' \subseteq exists /\ active' \subseteq active
             /\ exists' = exists \/ exists' = exists \ {<<k, r>>}
  BY <1>5 DEF TryRemove, Remove
<1>6. ASSUME NEW k \in Kinds \ {"net"}, TryRemove(<<k, r>>)
      PROVE  RemovalsFail \/ <<k, r>> \notin exists'
  BY <1>6 DEF TryRemove, Remove, Removable, KindOf
<1>7. ASSUME pc[r] = "stopNet", TryRemove(<<"net", r>>)
      PROVE  RemovalsFail \/ <<"net", r>> \notin exists'
  <2> SUFFICES ASSUME RemovalsFail = FALSE PROVE <<"net", r>> \notin exists'
    BY ConstantsAssumption
  <2>1. ASSUME NEW c \in active, RunOf(c) = r PROVE FALSE
    <3>1. c = <<KindOf(c), r>> /\ KindOf(c) \in {"tool", "proxy", "dind"} /\ c \in exists
      BY <1>1, <2>1 DEF OnlyContainersRun, Names, KindOf, RunOf
    <3>2. KindOf(c) # "tool"
      BY <1>7, <3>1 DEF IInv, ToolOnlyOnceAttached, ToolExists
    <3> QED BY <1>7, <3>1, <3>2 DEF RunInv, StoppedInOrder
  <2>2. ~Attached(<<"net", r>>)
    BY <2>1 DEF Attached, RunOf
  <2> QED BY <1>7, <2>2 DEF TryRemove, Remove, Removable
<1> USE DEF RunInv, OnlyWhatWasAsked, StoppedInOrder, Published
<1>10. CASE ToolReturns(r)
  BY <1>2, <1>3, <1>4, <1>10 DEF ToolReturns, StopAll, StopProxy, StopNet
<1>11. CASE RemoveToolContainer(r)
  BY <1>2, <1>3, <1>4, <1>5, <1>11 DEF RemoveToolContainer, StopAll, StopProxy, StopNet
<1>12. CASE StopDind(r)
  BY <1>2, <1>3, <1>5, <1>6, <1>12 DEF StopDind
<1>13. CASE RemoveDindDir(r)
  BY <1>2, <1>3, <1>4, <1>5, <1>6, <1>13 DEF RemoveDindDir, StopProxy, StopNet
<1>14. CASE RemoveProxy(r)
  BY <1>2, <1>3, <1>4, <1>5, <1>6, <1>14 DEF RemoveProxy, StopNet
<1>15. CASE RemoveRunNetwork(r)
  BY <1>2, <1>3, <1>5, <1>7, <1>15 DEF RemoveRunNetwork
<1> QED BY <1>10, <1>11, <1>12, <1>13, <1>14, <1>15 DEF Cleanup

\* The sweep of a run, and the other steps before its startup and after its end.
LEMMA SweepKeeps ==
  ASSUME IInv, NEW r \in Runs, RunInv(r), BeginRun(r) \/ Sweep(r) \/ Crash(r) \/ ToolExits(r)
  PROVE  /\ UNCHANGED spec
         /\ exists' \subseteq exists /\ active' \subseteq active
         /\ \A c \in Prunes : pc'[c] = pc[c] /\ todo'[c] = todo[c]
         /\ \A s \in Runs \ {r} : RunInv(s) => RunInv(s)'
         /\ RunInv(r)'
         /\ OneAtATime
<1> USE DEF Procs
<1>1. TypeOK /\ pc \in [Procs -> RunPC \cup PrunePC] /\ todo \in [Procs -> SUBSET Names]
  BY DEF IInv, TypeOK
<1>2. \A point : Goto(r, point) => pc'[r] = point /\ \A p \in Procs \ {r} : pc'[p] = pc[p]
  BY <1>1 DEF Goto
<1>3. Kinds = {"net", "proxy", "dind", "dir", "tool"}
  BY DEF Kinds
<1>4. ASSUME UNCHANGED <<spec, exists>>, \A p \in Procs \ {r} : pc'[p] = pc[p],
             pc'[r] = pc[r] \/ (BeforeStart(r) /\ pc'[r] \in SweepingPC \cup {"dead", AfterSweep(r)})
      PROVE  /\ \A s \in Runs : RunInv(s) => RunInv(s)'
             /\ OneAtATime
  BY <1>3, <1>4, BystanderKeeps, SweepingKeeps DEF OneAtATime, Touches
<1>5. ASSUME NEW n \in Names, UNCHANGED <<spec, pc>>,
             exists' = exists \/ exists' = exists \ {n}
      PROVE  /\ \A s \in Runs : RunInv(s) => RunInv(s)'
             /\ OneAtATime
  <2>1. \A s \in Runs : RunInv(s) => RunInv(s)'
    BY <1>5, BystanderKeeps
  <2>2. PICK k \in Kinds, s \in Runs : n = <<k, s>>
    BY DEF Names
  <2>3. Touches(s, k)
    BY <1>5, <2>2 DEF Touches
  <2> QED BY <2>1, <2>3 DEF OneAtATime
<1>6. \A n \in Names : TryRemove(n) \/ Remove(n) =>
        (exists' = exists \/ exists' = exists \ {n}) /\ active' \subseteq active
  BY DEF TryRemove, Remove
<1>7. \A c \in Prunes : c \in Procs \ {r}
  BY ConstantsAssumption
<1>10. CASE BeginRun(r)
  BY <1>2, <1>4, <1>7, <1>10 DEF BeginRun, BeforeStart, SweepingPC, sweepVars
<1>11. CASE ListContainers(r) \/ ListNetworks(r) \/ ReadDirs(r) \/ ListDindSidecars(r) \/ EndSweep(r)
  <2>1. UNCHANGED <<spec, exists, active>> /\ \A c \in Prunes : todo'[c] = todo[c]
    BY <1>1, <1>11, ConstantsAssumption
       DEF ListContainers, ListNetworks, ReadDirs, ListDindSidecars, EndSweep
  <2>2. \E point \in SweepingPC \cup {AfterSweep(r)} : Goto(r, point)
    BY <1>11 DEF ListContainers, ListNetworks, ReadDirs, ListDindSidecars, EndSweep, SweepingPC
  <2>3. pc[r] \in RunPC /\ pc[r] # "readDirs"
    BY <1>1 DEF TypeOK, RunPC, SweepingPC, StartingPC, StoppingPC
  <2>4. BeforeStart(r)
    BY <1>11, <2>3 DEF ListContainers, ListNetworks, ReadDirs, ListDindSidecars, EndSweep, BeforeStart, SweepingPC
  <2> QED BY <1>2, <1>4, <1>7, <2>1, <2>2, <2>4
<1>12. CASE RemoveOrphanedContainer(r) \/ RemoveOrphanedNetwork(r) \/ RemoveStaleDir(r)
  <2>1. PICK n \in todo[r] : /\ TryRemove(n) \/ Remove(n) \/ UNCHANGED <<exists, active, age>>
                             /\ Handled(r, n) /\ UNCHANGED <<spec, pc>>
    BY <1>12 DEF RemoveOrphanedContainer, RemoveOrphanedNetwork, RemoveIfOrphan, RemoveStaleDir
  <2>2. n \in Names /\ \A c \in Prunes : todo'[c] = todo[c]
    BY <1>1, <2>1, ConstantsAssumption DEF Handled
  <2> QED BY <1>5, <1>6, <2>1, <2>2
<1>13. CASE Crash(r)
  <2>1. UNCHANGED <<spec, exists, active>> /\ \A c \in Prunes : todo'[c] = todo[c]
    BY <1>1, <1>13, ConstantsAssumption DEF Crash
  <2>2. pc'[r] = "dead" /\ \A p \in Procs \ {r} : pc'[p] = pc[p]
    BY <1>2, <1>13 DEF Crash
  <2>3. RunInv(r)'
    BY <2>1, <2>2 DEF RunInv, OnlyWhatWasAsked, StoppedInOrder
  <2>4. \A s \in Runs \ {r} : RunInv(s) => RunInv(s)'
    BY <2>1, <2>2, BystanderKeeps
  <2>5. OneAtATime
    BY <1>3, <2>1, <2>2 DEF OneAtATime, Touches
  <2> QED BY <1>7, <2>1, <2>2, <2>3, <2>4, <2>5
<1>14. CASE ToolExits(r)
  <2>1. <<"tool", r>> \in Names /\ Remove(<<"tool", r>>) /\ UNCHANGED <<spec, pc, todo>>
    BY <1>3, <1>14 DEF ToolExits, Names, sweepVars
  <2> QED BY <1>5, <1>6, <2>1
<1> QED BY <1>10, <1>11, <1>12, <1>13, <1>14 DEF Sweep

LEMMA PruneKeeps ==
  ASSUME IInv, NEW c \in Prunes, BeginPrune(c) \/ PruneStep(c) \/ AbortPrune(c), ToolsAreNotMarked
  PROVE  /\ UNCHANGED spec
         /\ exists' \subseteq exists /\ active' \subseteq active
         /\ \A s \in Runs : RunInv(s) => RunInv(s)'
         /\ ToolsAreNotMarked'
         /\ OneAtATime
<1> USE DEF Procs
<1>1. TypeOK /\ pc \in [Procs -> RunPC \cup PrunePC] /\ todo \in [Procs -> SUBSET Names]
  BY DEF IInv, TypeOK
<1>2. \A point : Goto(c, point) =>
        pc'[c] = point /\ \A p \in Procs \ {c} : pc'[p] = pc[p]
  BY <1>1 DEF Goto
<1>3. ASSUME UNCHANGED <<spec, exists>>, NEW point, Goto(c, point)
      PROVE  /\ \A s \in Runs : RunInv(s) => RunInv(s)'
             /\ OneAtATime
  <2>1. \A s \in Runs : pc'[s] = pc[s]
    BY <1>2, <1>3, ConstantsAssumption
  <2> QED BY <1>3, <2>1, BystanderKeeps DEF OneAtATime
<1>4. ASSUME NEW n \in todo[c], UNCHANGED <<spec, pc>>, Handled(c, n), Remove(n) \/ UNCHANGED <<exists, active, age>>
      PROVE  /\ exists' \subseteq exists /\ active' \subseteq active
             /\ \A s \in Runs : RunInv(s) => RunInv(s)'
             /\ ToolsAreNotMarked'
             /\ OneAtATime
  <2>1. exists' \subseteq exists /\ active' \subseteq active /\ (exists' = exists \/ exists' = exists \ {n})
    BY <1>4 DEF Remove
  <2>2. \A s \in Runs : RunInv(s) => RunInv(s)'
    BY <1>4, <2>1, BystanderKeeps
  <2>3. PICK k \in Kinds, s \in Runs : n = <<k, s>>
    BY <1>1 DEF Names
  <2>4. Touches(s, k)
    BY <1>4, <2>1, <2>3 DEF Touches
  <2>5. \A d \in Prunes : todo'[d] \subseteq todo[d]
    BY <1>1, <1>4 DEF Handled
  <2>6. ToolsAreNotMarked'
    BY <1>4, <2>5 DEF ToolsAreNotMarked, KindOf
  <2> QED BY <2>1, <2>2, <2>4, <2>6 DEF OneAtATime
<1>5. ASSUME NEW point, point # "rm", Goto(c, point), \A d \in Prunes \ {c} : todo'[d] = todo[d]
      PROVE  ToolsAreNotMarked'
  BY <1>2, <1>5 DEF ToolsAreNotMarked, KindOf
<1>10. CASE BeginPrune(c) \/ AbortPrune(c) \/ ContainerNames(c) \/ ReadDirs(c) \/ ListDindSidecars(c) \/ NextTarget(c)
  <2>1. PICK point \in {"idle", "names", "list", "readDirs", "psDirs", "rmDirs"} : Goto(c, point)
    BY <1>10 DEF BeginPrune, AbortPrune, ContainerNames, ReadDirs, ListDindSidecars, NextTarget
  <2>2. UNCHANGED <<spec, exists, active>> /\ \A d \in Prunes \ {c} : todo'[d] = todo[d]
    BY <1>1, <1>10 DEF BeginPrune, AbortPrune, ContainerNames, ReadDirs, ListDindSidecars, NextTarget, sweepVars
  <2> QED BY <1>3, <1>5, <2>1, <2>2
<1>11. CASE ListUnused(c)
  <2>1. Goto(c, "rm") /\ UNCHANGED <<spec, exists, active>>
    BY <1>11 DEF ListUnused
  <2>2. Lookalike = {} => \A n \in todo'[c] : KindOf(n) # "tool"
    BY <1>1, <1>11 DEF ListUnused, Listed, TypeOK
  <2>3. \A d \in Prunes \ {c} : todo'[d] = todo[d]
    BY <1>1, <1>11 DEF ListUnused
  <2>4. ToolsAreNotMarked'
    BY <1>2, <2>1, <2>2, <2>3 DEF ToolsAreNotMarked, KindOf
  <2> QED BY <1>3, <2>1, <2>4
<1>12. CASE RemoveUnused(c) \/ RemoveStaleDir(c)
  <2>1. PICK n \in todo[c] : /\ UNCHANGED <<spec, pc>> /\ Handled(c, n)
                             /\ Remove(n) \/ UNCHANGED <<exists, active, age>>
    BY <1>12 DEF RemoveUnused, RemoveStaleDir
  <2> QED BY <1>4, <2>1
<1> QED BY <1>10, <1>11, <1>12 DEF PruneStep

LEMMA EndInvInitially == Init => EndInv
<1> SUFFICES ASSUME Init PROVE EndInv
  OBVIOUS
<1>1. \A p \in Procs : pc[p] = "idle"
  BY DEF Init
<1>2. \A r \in Runs : RunInv(r)
  BY <1>1 DEF Init, Procs, RunInv, OnlyWhatWasAsked, StoppedInOrder
<1> QED BY <1>1, <1>2 DEF Init, Procs, EndInv, OnlyContainersRun, ToolsAreNotMarked

\* What every step does: the invariant holds after it, and it touches one run's resource at most.
LEMMA EndInvInductive ==
  ASSUME IInv, EndInv, [Next]_vars
  PROVE  EndInv' /\ UNCHANGED spec /\ OneAtATime
<1>1. TypeOK /\ todo \in [Procs -> SUBSET Names]
  BY DEF IInv, TypeOK
<1>2. ASSUME active' \subseteq active PROVE OnlyContainersRun'
  BY <1>2 DEF EndInv, OnlyContainersRun, KindOf
<1>3. ASSUME \A c \in Prunes : pc'[c] = pc[c] /\ todo'[c] = todo[c] PROVE ToolsAreNotMarked'
  BY <1>3 DEF EndInv, ToolsAreNotMarked, KindOf
<1>4. ASSUME UNCHANGED <<spec, pc, exists, todo>>, active' \subseteq active
      PROVE  EndInv' /\ OneAtATime
  <2>1. \A r \in Runs : RunInv(r)'
    BY <1>4, BystanderKeeps DEF EndInv
  <2> QED BY <1>2, <1>3, <1>4, <2>1 DEF EndInv, OneAtATime
<1>5. CASE UNCHANGED vars
  BY <1>4, <1>5 DEF vars
<1>6. CASE Tick
  BY <1>4, <1>6 DEF Tick
<1>7. CASE \E n \in Names : SidecarExits(n)
  BY <1>4, <1>7 DEF SidecarExits, sweepVars
<1>8. ASSUME NEW r \in Runs, Startup(r) \/ ToolReturns(r) \/ Cleanup(r)
      PROVE  EndInv' /\ UNCHANGED spec /\ OneAtATime
  <2>1. RunInv(r) /\ OnlyContainersRun
    BY DEF EndInv
  <2>2. /\ RunInv(r)'
        /\ UNCHANGED <<spec, todo>>
        /\ \E k \in Kinds : Touches(r, k)
        /\ \/ active' \subseteq active
           \/ \E k \in {"tool", "proxy", "dind"} : active' \subseteq active \cup {<<k, r>>}
    BY <1>8, <2>1, StartupKeeps, CleanupKeeps
  <2>3. \A s \in Runs \ {r} : RunInv(s)'
    BY <2>2, BystanderKeeps DEF EndInv, Touches, Procs
  <2>4. OnlyContainersRun'
    BY <2>1, <2>2 DEF OnlyContainersRun, KindOf
  <2>5. ToolsAreNotMarked'
    BY <1>3, <2>2, ConstantsAssumption DEF Touches, Procs
  <2> QED BY <2>2, <2>3, <2>4, <2>5 DEF EndInv, OneAtATime
<1>9. ASSUME NEW r \in Runs, BeginRun(r) \/ Sweep(r) \/ Crash(r) \/ ToolExits(r)
      PROVE  EndInv' /\ UNCHANGED spec /\ OneAtATime
  <2>1. /\ UNCHANGED spec /\ active' \subseteq active /\ OneAtATime
        /\ \A c \in Prunes : pc'[c] = pc[c] /\ todo'[c] = todo[c]
        /\ \A s \in Runs : RunInv(s)'
    BY <1>9, SweepKeeps DEF EndInv
  <2> QED BY <1>2, <1>3, <2>1 DEF EndInv
<1>10. ASSUME NEW c \in Prunes, BeginPrune(c) \/ PruneStep(c) \/ AbortPrune(c)
       PROVE  EndInv' /\ UNCHANGED spec /\ OneAtATime
  BY <1>2, <1>10, PruneKeeps DEF EndInv
<1> QED BY <1>4, <1>5, <1>6, <1>7, <1>8, <1>9, <1>10 DEF Next, vars, Tick, SidecarExits

\* If no removal fails, a run that ended by itself, wherever its startup failed and whatever
\* sweeps ran beside it, leaves no container, network or run dir behind.
THEOREM NothingIsLeftBehind == ~RemovalsFail => (Spec => []EndedRunsLeaveNothing)
<1> SUFFICES ASSUME ~RemovalsFail PROVE Spec => []EndedRunsLeaveNothing
  OBVIOUS
<1>1. IInv /\ EndInv => EndedRunsLeaveNothing
  <2> SUFFICES ASSUME IInv, EndInv, NEW r \in Runs, pc[r] = "done", NEW k \in Kinds
               PROVE  <<k, r>> \notin exists
    BY DEF EndedRunsLeaveNothing
  <2>1. <<"tool", r>> \notin exists
    BY DEF IInv, ToolOnlyOnceAttached, ToolExists
  <2> QED BY <2>1 DEF EndInv, RunInv, StoppedInOrder, Kinds
<1>2. IInv /\ EndInv /\ [Next]_vars => EndInv'
  BY EndInvInductive
<1> QED BY <1>1, <1>2, InvariantInitially, InvariantInductive, EndInvInitially, PTL DEF Spec

-----------------------------------------------------------------------------
(* Sidecars implements SidecarOwnership, under the map that its INSTANCE   *)
(* names.                                                                  *)

phaseBar == [r \in Runs |-> Phase(r)]
heldBar  == {n \in exists : KindOf(n) # "tool"}

\* A run's phase goes from new to active to over, whose step it may be.
LEMMA PhasesGoOn ==
  ASSUME IInv, UNCHANGED spec, NEW r \in Runs, RunFacts(r)
  PROVE  /\ Phase(r) \in {"new", "active", "over"} /\ Phase(r)' \in {"new", "active", "over"}
         /\ Phase(r)' = "new" => Phase(r) = "new"
         /\ Phase(r) = "over" => Phase(r)' = "over"
<1>1. Protected(r) => ~BeforeStart(r)
  BY DEF Protected, BeforeStart, SweepingPC, StartingPC, IInv, ToolOnlyOnceAttached
<1>2. Phase(r) = "new" <=> BeforeStart(r)
  BY <1>1 DEF Phase, BeforeStart
<1>3. Phase(r)' = "new" => BeforeStart(r)'
  BY DEF Phase, BeforeStart
<1>4. Phase(r) = "over" <=> Over(r)
  BY DEF Phase, Over, BeforeStart
<1>5. Over(r)' => Phase(r)' = "over"
  BY DEF Phase, Over, BeforeStart
<1> QED BY <1>2, <1>3, <1>4, <1>5 DEF RunFacts, Phase

\* A step that leaves run r alone leaves its phase.
LEMMA PhaseKept ==
  ASSUME UNCHANGED spec, NEW r \in Runs, pc'[r] = pc[r], ToolExists(r)' <=> ToolExists(r)
  PROVE  Phase(r)' = Phase(r)
  BY DEF Phase, Protected, Published

\* What a run that can create something, or one whose resource can go, has for its phase.
LEMMA TouchedRuns ==
  ASSUME IInv, EndInv, StepFacts, NEW r \in Runs, NEW k \in Kinds \ {"tool"}
  PROVE  /\ pc[r] \in StartingPC => Phase(r) = "active"
         /\ <<k, r>> \in exists \ exists' => Phase(r) = "over"
<1>1. pc[r] \in StartingPC => Phase(r) = "active"
  BY DEF Phase, Protected
<1>2. ASSUME <<k, r>> \in exists \ exists' PROVE Phase(r) = "over"
  <2>1. <<k, r>> \in Names /\ KindOf(<<k, r>>) = k /\ RunOf(<<k, r>>) = r
    BY DEF Names, KindOf, RunOf
  <2>2. k = "dir" => "dind" \in spec[r]
    BY <1>2 DEF EndInv, RunInv, OnlyWhatWasAsked
  <2>3. ~Protected(r)
    BY <1>2, <2>1, <2>2 DEF StepFacts, OnlyUnprotectedRemoved
  <2>4. ~BeforeStart(r)
    BY <1>2 DEF IInv, NothingBeforeStart
  <2> QED BY <2>3, <2>4 DEF Phase, BeforeStart
<1> QED BY <1>1, <1>2

LEMMA StepRefines ==
  ASSUME IInv, EndInv, StepFacts, OneAtATime
  PROVE  Ownership!Next \/ UNCHANGED <<phaseBar, heldBar>>
<1>1. UNCHANGED spec /\ \A r \in Runs : RunFacts(r)
  BY DEF StepFacts
<1>2. CASE exists' = exists /\ \A s \in Runs : pc'[s] = pc[s]
  <2>1. \A s \in Runs : Phase(s)' = Phase(s)
    BY <1>1, <1>2, PhaseKept DEF ToolExists
  <2> QED BY <1>2, <2>1 DEF phaseBar, heldBar, KindOf
<1>3. ASSUME NEW r \in Runs, NEW k \in Kinds, Touches(r, k)
      PROVE  Ownership!Next \/ UNCHANGED <<phaseBar, heldBar>>
  <2>1. \A s \in Runs \ {r} : pc'[s] = pc[s] /\ (ToolExists(s)' <=> ToolExists(s))
    BY <1>3, ConstantsAssumption DEF Touches, ToolExists, Procs
  <2>2. \A s \in Runs \ {r} : Phase(s)' = Phase(s)
    BY <1>1, <2>1, PhaseKept
  <2>3. /\ phaseBar' = [phaseBar EXCEPT ![r] = Phase(r)']
        /\ phaseBar[r] = Phase(r)
        /\ Phase(r)' = Phase(r) => phaseBar' = phaseBar
    BY <2>2 DEF phaseBar
  <2>4. /\ Phase(r) \in {"new", "active", "over"} /\ Phase(r)' \in {"new", "active", "over"}
        /\ Phase(r)' = "new" => Phase(r) = "new"
        /\ Phase(r) = "over" => Phase(r)' = "over"
    BY <1>1, PhasesGoOn
  <2>5. \/ heldBar' = heldBar
        \/ k # "tool" /\ heldBar' = heldBar \ {<<k, r>>} /\ Phase(r) = "over"
        \/ k # "tool" /\ heldBar' = heldBar \cup {<<k, r>>} /\ Phase(r) = "active"
    <3>1. CASE k = "tool"
      BY <1>3, <3>1 DEF Touches, heldBar, KindOf
    <3>2. CASE k # "tool" /\ exists' = exists \ {<<k, r>>}
      <4>1. CASE <<k, r>> \in exists
        BY <3>2, <4>1, TouchedRuns DEF heldBar, KindOf
      <4>2. CASE <<k, r>> \notin exists
        BY <3>2, <4>2 DEF heldBar, KindOf
      <4> QED BY <4>1, <4>2
    <3>3. CASE k # "tool" /\ exists' = exists \cup {<<k, r>>} /\ pc[r] \in StartingPC
      <4>1. heldBar' = heldBar \cup {<<k, r>>}
        BY <3>3 DEF heldBar, KindOf
      <4> QED BY <3>3, <4>1, TouchedRuns
    <3>4. CASE exists' = exists
      BY <3>4 DEF heldBar, KindOf
    <3> QED BY <1>3, <3>1, <3>2, <3>3, <3>4 DEF Touches
  <2>6. CASE heldBar' = heldBar
    <3>1. Phase(r)' = Phase(r) \/ (Phase(r) = "new" /\ Phase(r)' = "active")
            \/ (Phase(r) \in {"new", "active"} /\ Phase(r)' = "over")
      BY <2>4
    <3>2. CASE Phase(r) = "new" /\ Phase(r)' = "active"
      <4>1. Ownership!Enter(r)
        BY <2>3, <2>6, <3>2 DEF Ownership!Enter, phaseBar, heldBar
      <4> QED BY <4>1 DEF Ownership!Next
    <3>3. CASE Phase(r) \in {"new", "active"} /\ Phase(r)' = "over"
      <4>1. Ownership!Leave(r)
        BY <2>3, <2>6, <3>3 DEF Ownership!Leave, phaseBar, heldBar
      <4> QED BY <4>1 DEF Ownership!Next
    <3> QED BY <2>3, <2>6, <3>1, <3>2, <3>3
  <2>7. CASE k # "tool" /\ heldBar' = heldBar \ {<<k, r>>} /\ Phase(r) = "over"
    <3>1. Ownership!Collect(r)
      BY <2>3, <2>4, <2>7 DEF Ownership!Collect, phaseBar, heldBar
    <3> QED BY <3>1 DEF Ownership!Next
  <2>8. CASE k # "tool" /\ heldBar' = heldBar \cup {<<k, r>>} /\ Phase(r) = "active"
    <3>1. CASE Phase(r)' = "active"
      <4>1. Ownership!Acquire(r)
        BY <2>3, <2>8, <3>1 DEF Ownership!Acquire, phaseBar, heldBar
      <4> QED BY <4>1 DEF Ownership!Next
    <3>2. CASE Phase(r)' = "over"
      <4>1. Ownership!Leave(r)
        BY <2>3, <2>8, <3>2 DEF Ownership!Leave, phaseBar, heldBar
      <4> QED BY <4>1 DEF Ownership!Next
    <3> QED BY <2>4, <2>8, <3>1, <3>2
  <2> QED BY <2>5, <2>6, <2>7, <2>8
<1> QED BY <1>2, <1>3 DEF OneAtATime

LEMMA NextRefines ==
  ASSUME IInv, EndInv, [Next]_vars
  PROVE  [Ownership!Next]_<<phaseBar, heldBar>>
<1>1. CASE Next /\ ~Tick
  <2>1. StepFacts
    BY <1>1, SweepingStep, StartupStep, StoppingStep, PruningStep, SidecarExitsStep DEF Next
  <2> QED BY <2>1, EndInvInductive, StepRefines
<1>2. CASE Tick \/ UNCHANGED vars
  <2>1. UNCHANGED <<spec, pc, exists>>
    BY <1>2 DEF Tick, vars
  <2>2. \A r \in Runs : Phase(r)' = Phase(r)
    BY <2>1, PhaseKept DEF ToolExists
  <2> QED BY <2>1, <2>2 DEF phaseBar, heldBar, KindOf
<1> QED BY <1>1, <1>2

LEMMA InitRefines == Init => Ownership!Init
<1> SUFFICES ASSUME Init PROVE Ownership!Init
  OBVIOUS
<1>1. \A r \in Runs : pc[r] = "idle" /\ ~ToolExists(r)
  BY DEF Init, Procs, ToolExists
<1>2. \A r \in Runs : Phase(r) = "new"
  BY <1>1 DEF Phase, Protected, StartingPC
<1> QED BY <1>2 DEF Init, Ownership!Init

\* Every behaviour of the sidecars, their sweeps and crashes is one of SidecarOwnership: a
\* resource a run got is taken away in no step but one after the run is over, for any number
\* of runs and prunes and even when a lookalike's tool is swept.
THEOREM SweepsRespectOwnership == Spec => ImplementsOwnership
<1>1. IInv /\ EndInv /\ [Next]_vars => [Ownership!Next]_<<phaseBar, heldBar>>
  BY NextRefines
<1>2. IInv /\ EndInv /\ [Next]_vars => EndInv'
  BY EndInvInductive
<1> QED
  BY <1>1, <1>2, InitRefines, InvariantInitially, InvariantInductive, EndInvInitially, PTL
     DEF Spec, ImplementsOwnership, Ownership!Spec, phaseBar, heldBar
-----------------------------------------------------------------------------
(* What takes a tool container away.                                       *)

LEMMA OnlyToolsEnd ==
  ASSUME IInv, EndInv, Lookalike = {}, [Next]_vars,
         NEW r \in Runs, ToolExists(r), ~ToolExists(r)'
  PROVE  ToolExits(r) \/ RemoveToolContainer(r)
<1>1. todo \in [Procs -> SUBSET Names] /\ <<"tool", r>> \in exists /\ <<"tool", r>> \notin exists'
  BY DEF IInv, TypeOK, ToolExists
<1>2. \A n \in Names : TryRemove(n) \/ Remove(n) => n = <<"tool", r>> \/ UNCHANGED exists
  BY <1>1 DEF TryRemove, Remove
<1>3. \A s \in Runs, k \in Kinds : /\ <<k, s>> \in Names
                                   /\ <<k, s>> = <<"tool", r>> => s = r /\ k = "tool"
  BY DEF Names
<1>4. Kinds = {"net", "proxy", "dind", "dir", "tool"}
  BY DEF Kinds
<1>5. ~UNCHANGED exists
  BY <1>1
<1>6. ASSUME NEW s \in Runs, Startup(s) PROVE FALSE
  BY <1>1, <1>6, StartupKeeps DEF EndInv
<1>7. ASSUME NEW s \in Runs, ToolReturns(s) \/ BeginRun(s) \/ Crash(s) \/ Cleanup(s) \/ ToolExits(s)
      PROVE  ToolExits(r) \/ RemoveToolContainer(r)
  BY <1>2, <1>3, <1>4, <1>5, <1>7
     DEF ToolReturns, BeginRun, Crash, Cleanup, ToolExits, RemoveToolContainer, StopDind, RemoveDindDir, RemoveProxy, RemoveRunNetwork
<1>8. ASSUME NEW p \in Procs, RemoveStaleDir(p) PROVE FALSE
  <2>1. PICK n \in todo[p] : pc[p] = "rmDirs" /\ (Remove(n) \/ UNCHANGED exists)
    BY <1>8 DEF RemoveStaleDir
  <2>2. n \in Names /\ KindOf(n) = "dir"
    BY <1>1, <2>1 DEF IInv, OnlyDirsInDirSweep
  <2> QED BY <1>2, <1>5, <2>1, <2>2 DEF KindOf
<1>9. ASSUME NEW s \in Runs, Sweep(s) PROVE FALSE
  <2>1. CASE RemoveOrphanedContainer(s) \/ RemoveOrphanedNetwork(s)
    <3>1. PICK n \in todo[s] : (IsOrphan(n, seen[s]) /\ TryRemove(n)) \/ UNCHANGED exists
      BY <2>1 DEF RemoveOrphanedContainer, RemoveOrphanedNetwork, RemoveIfOrphan
    <3>2. n \in Names
      BY <1>1, <3>1 DEF Procs
    <3> QED BY <1>2, <1>5, <3>1, <3>2 DEF IsOrphan, HasOwner, KindOf
  <2> QED BY <1>5, <1>8, <1>9, <2>1
       DEF Sweep, ListContainers, ListNetworks, ReadDirs, ListDindSidecars, EndSweep, Procs
<1>10. ASSUME NEW c \in Prunes, BeginPrune(c) \/ PruneStep(c) \/ AbortPrune(c) PROVE FALSE
  <2>1. CASE RemoveUnused(c)
    <3>1. PICK n \in todo[c] : pc[c] = "rm" /\ (Remove(n) \/ UNCHANGED exists)
      BY <2>1 DEF RemoveUnused
    <3>2. n \in Names /\ KindOf(n) # "tool"
      BY <1>1, <3>1 DEF EndInv, ToolsAreNotMarked, Procs
    <3> QED BY <1>2, <1>5, <3>1, <3>2 DEF KindOf
  <2> QED BY <1>5, <1>8, <1>10, <2>1
       DEF BeginPrune, PruneStep, AbortPrune, ContainerNames, ListUnused, ReadDirs, ListDindSidecars, NextTarget, Procs
<1> QED BY <1>5, <1>6, <1>7, <1>9, <1>10 DEF Next, vars, Tick, SidecarExits

\* As long as no tool container's name contains the prefix of a sidecar's, no sweep and no
\* prune takes a tool container: it goes when the tool exits or its own run removes it.
THEOREM ToolsSurviveSweeps == Lookalike = {} => (Spec => ToolsAreNotSwept)
<1> SUFFICES ASSUME Lookalike = {} PROVE Spec => ToolsAreNotSwept
  OBVIOUS
<1> DEFINE OnlyOwnersRemove ==
      \A r \in Runs : ToolExists(r) /\ ~ToolExists(r)' => ToolExits(r) \/ RemoveToolContainer(r)
<1>1. IInv /\ EndInv /\ [Next]_vars => OnlyOwnersRemove
  BY OnlyToolsEnd
<1>2. IInv /\ EndInv /\ [Next]_vars => EndInv'
  BY EndInvInductive
<1> QED
  BY <1>1, <1>2, InvariantInitially, InvariantInductive, EndInvInitially, PTL DEF Spec, ToolsAreNotSwept
=============================================================================
