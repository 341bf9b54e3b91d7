------------------------------ MODULE Sidecars ------------------------------
(***************************************************************************)
(* Concurrent `agentic run` processes, the Docker resources each of them   *)
(* owns, and the sweeps that collect what interrupted runs left behind.    *)
(*                                                                         *)
(* A run first sweeps orphans, then creates its network, its proxy, its    *)
(* dind run dir and sidecar, and its tool container, the owner named by    *)
(* the labels of the others.  `agentic prune` processes sweep as well.     *)
(* Every sweep works from a listing that is stale by the time it is used,  *)
(* and only the grace periods keep it off a run whose owner container is   *)
(* not there yet.                                                          *)
(*                                                                         *)
(* Time is in ticks.  A resource has an age, not a date, counted from the  *)
(* moment its label was written and capped at the largest grace period, so *)
(* the state space is finite without a bound on the clock.                 *)
(***************************************************************************)
EXTENDS Naturals, FiniteSets

CONSTANTS
  Runs,         \* the `agentic run` processes; names are random, so run r's are <<kind, r>>
  Prunes,       \* the `agentic prune` processes
  RunSpecs,     \* the kinds of resource a run may ask for: a subset of AllSpecs
  Lookalike,    \* runs whose tool container's name contains a sidecar's name prefix
  StartupMax,   \* ticks from a run network's label to its tool container's creation
  SweepMax,     \* ticks a sweep works from one listing
  Grace,        \* sidecarOrphanGrace
  DirGrace,     \* dindRunDirGrace
  RemovalsFail  \* whether Docker may fail a removal whose error the code ignores

\* A run on Docker has a network and a tool container, and optionally a proxy and dind;
\* a run on microsandbox has only a published proxy, owned by the CLI process itself.
AllSpecs == {{"tool", "net"} \cup extra : extra \in SUBSET {"proxy", "dind"}} \cup {{"proxy"}}

ASSUME ConstantsAssumption ==
  /\ Runs \cap Prunes = {}
  /\ RunSpecs \subseteq AllSpecs
  /\ Lookalike \subseteq Runs
  /\ {StartupMax, SweepMax, Grace, DirGrace} \subseteq Nat
  /\ RemovalsFail \in BOOLEAN

\* What the grace periods must outlast: a whole startup plus one stale listing.
ASSUME GraceAssumption ==
  /\ StartupMax + SweepMax < Grace
  /\ StartupMax + SweepMax < DirGrace

Procs == Runs \cup Prunes
Kinds == {"tool", "net", "proxy", "dind", "dir"}
Names == Kinds \X Runs

KindOf(n) == n[1]
RunOf(n)  == n[2]

MaxAge == IF Grace < DirGrace THEN DirGrace ELSE Grace

VARIABLES
  spec,    \* spec[r]: the kinds run r asks for
  pc,      \* where each process is
  exists,  \* the resources Docker (or the disk, for a run dir) holds
  active,  \* the containers that run, and so are attached to their network
  age,     \* ticks since a resource's label was written
  seen,    \* the owners a process's last `docker ps` listed
  todo,    \* the listed resources a process has still to handle
  held,    \* ticks since that `docker ps`
  target,  \* the kind a prune is removing
  failed   \* whether one of a prune's removals failed

vars == <<spec, pc, exists, active, age, seen, todo, held, target, failed>>
sweepVars == <<seen, todo, held>>
pruneVars == <<target, failed>>
-----------------------------------------------------------------------------
(* Program points.                                                         *)

SweepingPC == {"listContainers", "rmContainers", "rmNetworks", "psDirs", "rmDirs"}
StartingPC == {"createNet", "createProxy", "startProxy", "settleProxy",
               "createDir", "runDind", "waitDind", "attach"}
StoppingPC == {"rmTool", "stopDind", "stopDir", "stopProxy", "stopNet"}
RunPC   == {"idle", "running", "done", "dead"} \cup SweepingPC \cup StartingPC \cup StoppingPC
PrunePC == {"idle", "names", "list", "rm", "readDirs", "psDirs", "rmDirs"}

\* The points at which a process decides from an earlier `docker ps`.
HoldsListing(p) == pc[p] \in {"rmContainers", "rmNetworks", "rmDirs", "list"}

Published(r) == "net" \notin spec[r]

\* The points at which the next step of run r is to create the resource of kind k.
Creating(k) == CASE k = "net"   -> {"createNet"}
                 [] k = "proxy" -> {"createProxy"}
                 [] k = "dind"  -> {"runDind"}
                 [] OTHER       -> {}

\* The points at which run r does not have its resource of kind k yet.
NotYet(k) == CASE k = "net"   -> {"createNet"}
               [] k = "proxy" -> {"createNet", "createProxy"}
               [] k = "dir"   -> {"createNet", "createProxy", "startProxy", "settleProxy", "createDir"}
               [] k = "dind"  -> {"createNet", "createProxy", "startProxy", "settleProxy", "createDir", "runDind"}
               [] OTHER       -> StartingPC

\* Everything run r holds beside its tool container once it is up.
SidecarKinds(r) ==
  (spec[r] \ {"tool"}) \cup {k \in {"dir"} : "dind" \in spec[r]}

AfterProxy(r) == IF "dind" \in spec[r] THEN "createDir" ELSE "attach"
AfterNet(r)   == IF "proxy" \in spec[r] THEN "createProxy" ELSE AfterProxy(r)
AfterSweep(r) == IF Published(r) THEN "createProxy" ELSE "createNet"

\* cleanup's order: dind and its dir, the proxy, then the network they sit on.
StopNet(r)   == IF Published(r) THEN "done" ELSE "stopNet"
StopProxy(r) == IF "proxy" \in spec[r] THEN "stopProxy" ELSE StopNet(r)

StopAllButProxy(r) == IF "dind" \in spec[r] THEN "stopDind" ELSE StopNet(r)    \* mutant
StopAll(r)         == IF "dind" \in spec[r] THEN "stopDind" ELSE StopProxy(r)
-----------------------------------------------------------------------------
(* Ownership.                                                              *)

ToolExists(r) == <<"tool", r>> \in exists

\* platform.ProcessRunning of a pid owner; a pid is not reused here.
ProcessRunning(r) == pc[r] \notin {"idle", "done", "dead"}

PidOwnersIgnored(n, existing) == RunOf(n) \in existing    \* mutant
OwnerRunning(n, existing) ==
  IF Published(RunOf(n)) THEN ProcessRunning(RunOf(n)) ELSE RunOf(n) \in existing

\* Only tool containers carry no owner label.
HasOwner(n) == KindOf(n) # "tool"

NoGrace(n, existing)  == HasOwner(n) /\ ~OwnerRunning(n, existing)    \* mutant
IsOrphan(n, existing) == HasOwner(n) /\ ~OwnerRunning(n, existing) /\ age[n] >= Grace

InUse(n, existing) == HasOwner(n) /\ ~IsOrphan(n, existing)

\* A run network with a running container attached cannot be removed.
Attached(n) == \E c \in active : RunOf(c) = RunOf(n)

Removable(n) == n \in exists /\ (KindOf(n) = "net" => ~Attached(n))

RemoveKeepsActive(n) ==    \* mutant
  /\ exists' = exists \ {n}
  /\ age' = [age EXCEPT ![n] = 0]
  /\ UNCHANGED active

Remove(n) ==
  /\ exists' = exists \ {n}
  /\ active' = active \ {n}
  /\ age' = [age EXCEPT ![n] = 0]

\* A removal whose error is ignored: it happens if Docker allows it, and may fail anyway.
TryRemove(n) ==
  \/ Removable(n) /\ Remove(n)
  \/ (RemovalsFail \/ ~Removable(n)) /\ UNCHANGED <<exists, active, age>>

Create(n, up) ==
  /\ exists' = exists \cup {n}
  /\ active' = active \cup up
  /\ UNCHANGED age

Goto(p, point) == pc' = [pc EXCEPT ![p] = point]
-----------------------------------------------------------------------------
(* The sweep each run starts with, sweepOrphanedSidecars: one `docker ps`  *)
(* serves the containers and then the networks; the run dirs have their    *)
(* own.  Any failure of a listing only warns, and the run goes on.         *)

BeginRun(r) ==
  /\ pc[r] = "idle"
  /\ Goto(r, "listContainers")
  /\ UNCHANGED <<spec, exists, active, age, sweepVars, pruneVars>>

\* Every agentic container is listed; the tool containers among them are the owners that exist.
ListContainers(r) ==
  /\ pc[r] = "listContainers"
  /\ seen' = [seen EXCEPT ![r] = {o \in Runs : ToolExists(o)}]
  /\ todo' = [todo EXCEPT ![r] = {n \in exists : KindOf(n) \in {"tool", "proxy", "dind"}}]
  /\ held' = [held EXCEPT ![r] = 0]
  /\ Goto(r, "rmContainers")
  /\ UNCHANGED <<spec, exists, active, age, pruneVars>>

Handled(p, n) == todo' = [todo EXCEPT ![p] = @ \ {n}]

RemoveIfOrphan(r, point) ==
  \E n \in todo[r] :
    /\ pc[r] = point
    /\ IF IsOrphan(n, seen[r]) THEN TryRemove(n) ELSE UNCHANGED <<exists, active, age>>
    /\ Handled(r, n)
    /\ UNCHANGED <<spec, pc, seen, held, pruneVars>>

RemoveOrphanedContainer(r) == RemoveIfOrphan(r, "rmContainers")
RemoveOrphanedNetwork(r)   == RemoveIfOrphan(r, "rmNetworks")

ListNetworks(r) ==
  /\ pc[r] = "rmContainers" /\ todo[r] = {}
  /\ todo' = [todo EXCEPT ![r] = {n \in exists : KindOf(n) = "net"}]
  /\ Goto(r, "rmNetworks")
  /\ UNCHANGED <<spec, exists, active, age, seen, held, pruneVars>>

\* sweepDindRunDirs reads the directory first and asks Docker for the live sidecars after.
ReadDirs(p) ==
  /\ \/ pc[p] = "rmNetworks" /\ todo[p] = {}
     \/ pc[p] = "readDirs"
  /\ todo' = [todo EXCEPT ![p] = {n \in exists : KindOf(n) = "dir"}]
  /\ Goto(p, "psDirs")
  /\ UNCHANGED <<spec, exists, active, age, seen, held, pruneVars>>

ListDindSidecars(p) ==
  /\ pc[p] = "psDirs"
  /\ seen' = [seen EXCEPT ![p] = {o \in Runs : <<"dind", o>> \in exists}]
  /\ held' = [held EXCEPT ![p] = 0]
  /\ Goto(p, "rmDirs")
  /\ UNCHANGED <<spec, exists, active, age, todo, pruneVars>>

RemoveStaleDir(p) ==
  \E n \in todo[p] :
    /\ pc[p] = "rmDirs"
    /\ IF n \in exists /\ RunOf(n) \notin seen[p] /\ age[n] >= DirGrace
       THEN Remove(n)
       ELSE UNCHANGED <<exists, active, age>>
    /\ Handled(p, n)
    /\ UNCHANGED <<spec, pc, seen, held, pruneVars>>

\* The next step of the startup writes the label of what it creates: its age counts from here.
EndSweep(r) ==
  /\ \/ pc[r] \in {"listContainers", "psDirs", "rmDirs"}
     \/ pc[r] \in {"rmContainers", "rmNetworks"} /\ todo[r] = {}
  /\ seen' = [seen EXCEPT ![r] = {}]
  /\ todo' = [todo EXCEPT ![r] = {}]
  /\ held' = [held EXCEPT ![r] = 0]
  /\ Goto(r, AfterSweep(r))
  /\ UNCHANGED <<spec, exists, active, age, pruneVars>>
-----------------------------------------------------------------------------
(* The startup, setupSidecars and RunTool.  Each step may fail, and then   *)
(* undoes the ones before it.                                              *)

RunStep(r) == UNCHANGED <<spec, sweepVars, pruneVars>>

CreateRunNetwork(r) ==
  /\ pc[r] = "createNet"
  /\ \/ Create(<<"net", r>>, {}) /\ Goto(r, AfterNet(r))
     \/ UNCHANGED <<exists, active, age>> /\ Goto(r, "done")
  /\ RunStep(r)

\* docker create, on the run network; the container does not run yet.
CreateProxy(r) ==
  /\ pc[r] = "createProxy"
  /\ \/ /\ Published(r) \/ <<"net", r>> \in exists
        /\ Create(<<"proxy", r>>, {}) /\ Goto(r, "startProxy")
     \/ UNCHANGED <<exists, active, age>> /\ Goto(r, StopNet(r))
  /\ RunStep(r)

\* docker start, once the credentials are copied in.
StartProxy(r) ==
  /\ pc[r] = "startProxy"
  /\ \/ /\ <<"proxy", r>> \in exists
        /\ Published(r) \/ <<"net", r>> \in exists
        /\ Create(<<"proxy", r>>, {<<"proxy", r>>}) /\ Goto(r, "settleProxy")
     \/ UNCHANGED <<exists, active, age>> /\ Goto(r, "stopProxy")
  /\ RunStep(r)

\* checkStarted, the connection to agentic-net or the published port, and the pending interrupt.
SettleProxy(r) ==
  /\ pc[r] = "settleProxy"
  /\ \/ <<"proxy", r>> \in exists /\ Goto(r, AfterProxy(r))
     \/ Goto(r, "stopProxy")
  /\ UNCHANGED <<exists, active, age>>
  /\ RunStep(r)

\* The run dir and the files in it; without it there is nothing of dind to undo.
CreateDindDir(r) ==
  /\ pc[r] = "createDir"
  /\ \/ Create(<<"dir", r>>, {}) /\ Goto(r, "runDind")
     \/ UNCHANGED <<exists, active, age>> /\ Goto(r, StopProxy(r))
  /\ RunStep(r)

\* A docker run that fails may leave the container it created.
RunDind(r) ==
  /\ pc[r] = "runDind"
  /\ \/ /\ <<"net", r>> \in exists
        /\ Create(<<"dind", r>>, {<<"dind", r>>}) /\ Goto(r, "waitDind")
     \/ Create(<<"dind", r>>, {}) /\ Goto(r, "stopDind")
     \/ UNCHANGED <<exists, active, age>> /\ Goto(r, "stopDind")
  /\ RunStep(r)

\* dockerd answers, or the sidecar exited, the wait timed out or was interrupted.
WaitDind(r) ==
  /\ pc[r] = "waitDind"
  /\ \/ <<"dind", r>> \in active /\ Goto(r, "attach")
     \/ Goto(r, "stopDind")
  /\ UNCHANGED <<exists, active, age>>
  /\ RunStep(r)

\* The mounts are checked again, then docker run creates and starts the tool; a published proxy's sandbox is no container.
Attach(r) ==
  /\ pc[r] = "attach"
  /\ \/ IF Published(r)
        THEN UNCHANGED <<exists, active, age>>
        ELSE <<"net", r>> \in exists /\ Create(<<"tool", r>>, {<<"tool", r>>})
     \/ UNCHANGED <<exists, active, age>>
  /\ Goto(r, "running")
  /\ RunStep(r)

RefuseMounts(r) ==
  /\ pc[r] = "attach"
  /\ Goto(r, StopAll(r))
  /\ UNCHANGED <<exists, active, age>>
  /\ RunStep(r)
-----------------------------------------------------------------------------
(* The tool's end and the cleanup.                                         *)

\* --rm removes the tool container as it exits, whether or not its CLI still runs.
ToolExits(r) ==
  /\ ToolExists(r)
  /\ Remove(<<"tool", r>>)
  /\ UNCHANGED <<spec, pc, sweepVars, pruneVars>>

\* docker run returns: the tool is gone, or a closed terminal detached from it.
ToolReturns(r) ==
  /\ pc[r] = "running"
  /\ Goto(r, IF Published(r) THEN StopAll(r) ELSE "rmTool")
  /\ UNCHANGED <<exists, active, age>>
  /\ RunStep(r)

RemoveToolContainer(r) ==
  /\ pc[r] = "rmTool"
  /\ Remove(<<"tool", r>>)
  /\ Goto(r, StopAll(r))
  /\ RunStep(r)

StopDind(r) ==
  /\ pc[r] = "stopDind"
  /\ TryRemove(<<"dind", r>>)
  /\ Goto(r, "stopDir")
  /\ RunStep(r)

RemoveDindDir(r) ==
  /\ pc[r] = "stopDir"
  /\ TryRemove(<<"dir", r>>)
  /\ Goto(r, StopProxy(r))
  /\ RunStep(r)

RemoveProxy(r) ==
  /\ pc[r] = "stopProxy"
  /\ TryRemove(<<"proxy", r>>)
  /\ Goto(r, StopNet(r))
  /\ RunStep(r)

RemoveRunNetwork(r) ==
  /\ pc[r] = "stopNet"
  /\ TryRemove(<<"net", r>>)
  /\ Goto(r, "done")
  /\ RunStep(r)

\* SIGKILL, or a signal no guard catches; the containers live on.
Crash(r) ==
  /\ ProcessRunning(r)
  /\ Goto(r, "dead")
  /\ seen' = [seen EXCEPT ![r] = {}]
  /\ todo' = [todo EXCEPT ![r] = {}]
  /\ held' = [held EXCEPT ![r] = 0]
  /\ UNCHANGED <<spec, exists, active, age, pruneVars>>

\* A sidecar that stops by itself stays, as nothing runs with --rm but the tool.
SidecarExits(n) ==
  /\ n \in active /\ KindOf(n) # "tool"
  /\ active' = active \ {n}
  /\ UNCHANGED <<spec, pc, exists, age, sweepVars, pruneVars>>
-----------------------------------------------------------------------------
(* agentic prune: removeUnused for the dind sidecars (and then their run   *)
(* dirs), the proxies and the run networks, in this order; a refused       *)
(* removal ends it with an error.                                          *)

BeginPrune(c) ==
  /\ pc[c] = "idle"
  /\ target' = [target EXCEPT ![c] = "dind"]
  /\ failed' = [failed EXCEPT ![c] = FALSE]
  /\ Goto(c, "names")
  /\ UNCHANGED <<spec, exists, active, age, sweepVars>>

\* containerNames, taken before the resources are listed.
ContainerNames(c) ==
  /\ pc[c] = "names"
  /\ seen' = [seen EXCEPT ![c] = {o \in Runs : ToolExists(o)}]
  /\ held' = [held EXCEPT ![c] = 0]
  /\ Goto(c, "list")
  /\ UNCHANGED <<spec, exists, active, age, todo, pruneVars>>

NoNameFilter(kind) == {n \in exists : KindOf(n) = kind \/ (kind # "net" /\ KindOf(n) = "tool")}    \* mutant
WrongAlias(kind)   == {n \in exists : KindOf(n) = IF kind = "proxy" THEN "dind" ELSE kind}    \* mutant

\* Docker's name filter matches any part of a name, so a tool container can be listed as a sidecar.
Listed(kind) ==
  {n \in exists : \/ KindOf(n) = kind
                  \/ kind # "net" /\ KindOf(n) = "tool" /\ RunOf(n) \in Lookalike}

ListUnused(c) ==
  /\ pc[c] = "list"
  /\ todo' = [todo EXCEPT ![c] = {n \in Listed(target[c]) : ~InUse(n, seen[c])}]
  /\ Goto(c, "rm")
  /\ UNCHANGED <<spec, exists, active, age, seen, held, pruneVars>>

\* docker rm --force accepts a container that is gone; docker network rm does not.
Refused(n) == KindOf(n) = "net" /\ ~Removable(n)

RemoveUnused(c) ==
  \E n \in todo[c] :
    /\ pc[c] = "rm"
    /\ \/ ~Refused(n) /\ Remove(n) /\ UNCHANGED failed
       \/ /\ Refused(n) \/ RemovalsFail
          /\ failed' = [failed EXCEPT ![c] = TRUE]
          /\ UNCHANGED <<exists, active, age>>
    /\ Handled(c, n)
    /\ UNCHANGED <<spec, pc, seen, held, target>>

NextTarget(c) ==
  /\ todo[c] = {}
  /\ \/ pc[c] = "rm" /\ target[c] = "dind" /\ ~failed[c] /\ Goto(c, "readDirs") /\ UNCHANGED target
     \/ /\ pc[c] = "rmDirs"
        /\ target' = [target EXCEPT ![c] = "proxy"] /\ Goto(c, "names")
     \/ /\ pc[c] = "rm" /\ target[c] = "proxy" /\ ~failed[c]
        /\ target' = [target EXCEPT ![c] = "net"] /\ Goto(c, "names")
     \/ /\ pc[c] = "rm" /\ (target[c] = "net" \/ failed[c])
        /\ Goto(c, "idle") /\ UNCHANGED target
  /\ UNCHANGED <<spec, exists, active, age, sweepVars, failed>>

\* A listing or a run dir's removal fails, or the prune is killed.
AbortPrune(c) ==
  /\ pc[c] # "idle"
  /\ seen' = [seen EXCEPT ![c] = {}]
  /\ todo' = [todo EXCEPT ![c] = {}]
  /\ held' = [held EXCEPT ![c] = 0]
  /\ Goto(c, "idle")
  /\ UNCHANGED <<spec, exists, active, age, pruneVars>>
-----------------------------------------------------------------------------
(* Time.  StartupMax and SweepMax bound how long a startup and a listing   *)
(* last: the one assumption on speed the grace periods make.               *)

Ageing(n) == HasOwner(n) /\ (n \in exists \/ pc[RunOf(n)] \in Creating(KindOf(n)))

Older(n) == IF Ageing(n) /\ age[n] < MaxAge THEN age[n] + 1 ELSE age[n]

Tick ==
  /\ \A r \in Runs : pc[r] \in StartingPC /\ ~Published(r) => age[<<"net", r>>] < StartupMax
  /\ \A p \in Procs : HoldsListing(p) => held[p] < SweepMax
  /\ age' = [n \in Names |-> Older(n)]
  /\ held' = [p \in Procs |-> IF HoldsListing(p) THEN held[p] + 1 ELSE held[p]]
  /\ UNCHANGED <<spec, pc, exists, active, seen, todo, pruneVars>>
-----------------------------------------------------------------------------
Init ==
  /\ spec \in [Runs -> RunSpecs]
  /\ pc = [p \in Procs |-> "idle"]
  /\ exists = {}
  /\ active = {}
  /\ age = [n \in Names |-> 0]
  /\ seen = [p \in Procs |-> {}]
  /\ todo = [p \in Procs |-> {}]
  /\ held = [p \in Procs |-> 0]
  /\ target = [c \in Prunes |-> "dind"]
  /\ failed = [c \in Prunes |-> FALSE]

Sweep(r) ==
  \/ ListContainers(r) \/ RemoveOrphanedContainer(r)
  \/ ListNetworks(r) \/ RemoveOrphanedNetwork(r)
  \/ ReadDirs(r) \/ ListDindSidecars(r) \/ RemoveStaleDir(r)
  \/ EndSweep(r)

Startup(r) ==
  \/ CreateRunNetwork(r) \/ CreateProxy(r) \/ StartProxy(r) \/ SettleProxy(r)
  \/ CreateDindDir(r) \/ RunDind(r) \/ WaitDind(r) \/ Attach(r) \/ RefuseMounts(r)

Cleanup(r) ==
  \/ RemoveToolContainer(r) \/ StopDind(r) \/ RemoveDindDir(r)
  \/ RemoveProxy(r) \/ RemoveRunNetwork(r)

PruneStep(c) ==
  \/ ContainerNames(c) \/ ListUnused(c) \/ RemoveUnused(c)
  \/ ReadDirs(c) \/ ListDindSidecars(c) \/ RemoveStaleDir(c)
  \/ NextTarget(c)

Next ==
  \/ \E r \in Runs : \/ BeginRun(r) \/ Sweep(r) \/ Startup(r)
                     \/ ToolExits(r) \/ ToolReturns(r) \/ Cleanup(r) \/ Crash(r)
  \/ \E c \in Prunes : BeginPrune(c) \/ PruneStep(c) \/ AbortPrune(c)
  \/ \E n \in Names : SidecarExits(n)
  \/ Tick

Spec == Init /\ [][Next]_vars

\* A command of a live process returns, and time goes on.  Whether anyone runs the CLI,
\* kills it or ends a tool is up to its users: no fairness there.
Fairness ==
  /\ \A r \in Runs :
       /\ WF_vars(Sweep(r)) /\ WF_vars(Startup(r)) /\ WF_vars(Cleanup(r))
       /\ WF_vars(ToolReturns(r) /\ ~ToolExists(r))
  /\ \A c \in Prunes : WF_vars(PruneStep(c))
  /\ WF_vars(Tick)

FairSpec == Spec /\ Fairness
-----------------------------------------------------------------------------
(* Properties.                                                             *)

TypeOK ==
  /\ spec \in [Runs -> RunSpecs]
  /\ pc \in [Procs -> RunPC \cup PrunePC]
  /\ \A r \in Runs : pc[r] \in RunPC
  /\ \A c \in Prunes : pc[c] \in PrunePC
  /\ exists \subseteq Names
  /\ active \subseteq exists
  /\ age \in [Names -> 0..MaxAge]
  /\ seen \in [Procs -> SUBSET Runs]
  /\ todo \in [Procs -> SUBSET Names]
  /\ held \in [Procs -> 0..SweepMax]
  /\ target \in [Prunes -> {"dind", "proxy", "net"}]
  /\ failed \in [Prunes -> BOOLEAN]

\* A run counts on its sidecars while it starts and as long as its tool exists, even
\* when its CLI was killed; a published proxy's run, while its CLI is not stopping it.
Protected(r) ==
  IF Published(r) THEN pc[r] \in StartingPC \cup {"running"}
                  ELSE pc[r] \in StartingPC \/ ToolExists(r)

\* No sweep, of a run or a prune, ever takes a network, sidecar or run dir of a run that
\* counts on it (docs/usage.md: prune "keeps what active runs use"; the owner labels and
\* the grace periods of sidecar.go).
ActiveRunsKeepSidecars ==
  \A r \in Runs : Protected(r) =>
    \A k \in SidecarKinds(r) : pc[r] \notin NotYet(k) => <<k, r>> \in exists

\* Step by step: a network, sidecar or run dir disappears only once its run is over.
Phase(r) == IF Protected(r) THEN "active"
            ELSE IF pc[r] \in {"idle"} \cup SweepingPC THEN "new" ELSE "over"

Ownership == INSTANCE SidecarOwnership
  WITH Kinds <- Kinds \ {"tool"},
       phase <- [r \in Runs |-> Phase(r)],
       held  <- {n \in exists : KindOf(n) # "tool"}

ImplementsOwnership == Ownership!Spec

\* A run that ends by itself, however its startup failed, leaves nothing behind
\* (the cleanups setupSidecars, startProxy and startDind return or run).
EndedRunsLeaveNothing ==
  \A r \in Runs : pc[r] = "done" => \A k \in Kinds : <<k, r>> \notin exists

\* The tool container goes away only because the tool exited or its own run removed it.
ToolsAreNotSwept ==
  [][\A r \in Runs : ToolExists(r) /\ ~ToolExists(r)' =>
       ToolExits(r) \/ RemoveToolContainer(r)]_vars

\* What a killed run held is collected once its tool is gone, provided someone goes on
\* running prunes that get to their end without a failed removal (docs/egress-proxy.md:
\* "After a crash, the next `agentic` run or `agentic clean --all` removes them").
PrunesGoOn ==
  \E c \in Prunes : []<>(pc[c] = "rm" /\ target[c] = "net" /\ todo[c] = {} /\ ~failed[c])

OrphansAreCollected ==
  PrunesGoOn =>
    \A r \in Runs : (pc[r] = "dead" /\ ~ToolExists(r)) ~> (\A k \in Kinds : <<k, r>> \notin exists)
=============================================================================
