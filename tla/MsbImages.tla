----------------------------- MODULE MsbImages -----------------------------
(***************************************************************************)
(* The image a microsandbox run starts: the tool image in Docker, the      *)
(* dockerd image built on top of it for --dind, and the copies msb holds.  *)
(*                                                                         *)
(* Runs prepare their image at the same time, while `agentic update'       *)
(* rebuilds the tool image and `agentic clean' removes images.  An image   *)
(* is the number of the rebuild its content comes from.                    *)
(***************************************************************************)
EXTENDS Naturals

CONSTANTS
  Vms,           \* runs on microsandbox
  MaxRebuilds,   \* bound: rebuilds of the tool image
  MaxDockerds    \* bound: builds of the dockerd image

VARIABLES
  tool,     \* the tool image, 0 when there is none
  dockerd,  \* the dockerd image: its number, content and DockerdParent label
  count,    \* the rebuilds and dockerd builds so far
  refs,     \* msb's images: repository, tag and content
  vm        \* run -> what it has looked up, and its VM

msbVars == <<tool, dockerd, count, refs, vm>>

NoDockerd == [id |-> 0, content |-> 0, parent |-> 0]
NoVm      == [pc |-> "off"]

\* The image a run of either kind starts, by name.
Repo(r)       == IF vm[r].dind THEN "dockerd" ELSE "tool"
ImageId(repo) == IF repo = "tool" THEN tool ELSE dockerd.id
Content(repo) == IF repo = "tool" THEN tool ELSE dockerd.content
Ref(r)        == <<Repo(r), vm[r].id>>
Name(ref)     == <<ref.repo, ref.tag>>
InUse(ref)    == \E r \in Vms : vm[r].pc = "running" /\ Ref(r) = Name(ref)

Advance(r, pc) == vm' = [vm EXCEPT ![r].pc = pc]
GiveUp(r)      == vm' = [vm EXCEPT ![r] = NoVm]
-----------------------------------------------------------------------------
\* since: the tool image when the run looked first; raced: another run built the dockerd image since.
Begin(r) ==
  /\ vm[r].pc = "off"
  /\ \E dind \in BOOLEAN :
       vm' = [vm EXCEPT ![r] = [pc |-> IF dind THEN "parent" ELSE "ref", dind |-> dind, since |-> tool,
                                parent |-> 0, job |-> 0, building |-> 0, raced |-> FALSE, id |-> 0, have |-> {},
                                content |-> 0]]
  /\ UNCHANGED <<tool, dockerd, count, refs>>

\* ensureDockerdImage: first the tool image, then the dockerd image.
InspectParent(r) ==
  /\ vm[r].pc = "parent"
  /\ IF tool = 0 THEN GiveUp(r) ELSE vm' = [vm EXCEPT ![r].pc = "dockerd", ![r].parent = tool]
  /\ UNCHANGED <<tool, dockerd, count, refs>>

AnyDockerd(parent) == dockerd # NoDockerd    \* mutant
IsCurrent(parent)  == dockerd # NoDockerd /\ dockerd.parent = parent

InspectDockerd(r) ==
  /\ vm[r].pc = "dockerd"
  /\ vm' = IF IsCurrent(vm[r].parent) THEN [vm EXCEPT ![r].pc = "ref", ![r].parent = 0]
           ELSE [vm EXCEPT ![r].pc = "build"]
  /\ UNCHANGED <<tool, dockerd, count, refs>>

\* docker build takes its parent by name when it starts and tags the result when it is done.
StartBuild(r) ==
  /\ vm[r].pc = "build" /\ count.dockerds < MaxDockerds
  /\ IF tool = 0 THEN GiveUp(r) ELSE vm' = [vm EXCEPT ![r].pc = "building", ![r].building = tool,
                                                      ![r].job = count.dockerds + 1]
  /\ count' = [count EXCEPT !.dockerds = @ + 1]
  /\ UNCHANGED <<tool, dockerd, refs>>

BuildDockerdImage(r) ==
  /\ vm[r].pc = "building"
  /\ dockerd' = [id |-> vm[r].job, content |-> vm[r].building, parent |-> vm[r].parent]
  /\ vm' = [q \in Vms |-> IF q = r THEN [vm[r] EXCEPT !.pc = "ref", !.parent = 0, !.job = 0, !.building = 0]
                          ELSE IF vm[q].pc # "off" /\ vm[q].dind THEN [vm[q] EXCEPT !.raced = TRUE]
                          ELSE vm[q]]
  /\ UNCHANGED <<tool, count, refs>>

MicrosandboxRef(r) ==
  /\ vm[r].pc = "ref"
  /\ IF ImageId(Repo(r)) = 0 THEN GiveUp(r)
     ELSE vm' = [vm EXCEPT ![r].pc = "list", ![r].id = ImageId(Repo(r))]
  /\ UNCHANGED <<tool, dockerd, count, refs>>

ImageRefs(r) ==
  /\ vm[r].pc = "list"
  /\ vm' = [vm EXCEPT ![r].pc = IF Ref(r) \in {Name(h) : h \in refs} THEN "start" ELSE "load",
                      ![r].have = IF Ref(r) \in {Name(h) : h \in refs} THEN {} ELSE {Name(h) : h \in refs}]
  /\ UNCHANGED <<tool, dockerd, count, refs>>

\* docker save reads whatever the image's name stands for by now.
LoadIntoMicrosandbox(r) ==
  /\ vm[r].pc = "load"
  /\ IF Content(Repo(r)) = 0 THEN GiveUp(r) /\ UNCHANGED refs
     ELSE /\ refs' = {h \in refs : Name(h) # Ref(r)}
                       \cup {[repo |-> Repo(r), tag |-> vm[r].id, content |-> Content(Repo(r))]}
          /\ Advance(r, "stale")
  /\ UNCHANGED <<tool, dockerd, count>>

\* Those of the list taken before the load; msb refuses what a VM uses, and may fail.
RemoveStaleRefs(r) ==
  /\ vm[r].pc = "stale"
  /\ LET stale == {h \in refs : /\ Name(h) \in vm[r].have /\ h.repo = Repo(r)
                                /\ Name(h) # Ref(r) /\ ~InUse(h)}
     IN  \E removed \in SUBSET stale : refs' = refs \ removed
  /\ vm' = [vm EXCEPT ![r].pc = "start", ![r].have = {}]
  /\ UNCHANGED <<tool, dockerd, count>>

StartVm(r) ==
  /\ vm[r].pc = "start"
  /\ IF \E h \in refs : Name(h) = Ref(r)
     THEN vm' = [vm EXCEPT ![r].pc = "running",
                           ![r].content = (CHOOSE h \in refs : Name(h) = Ref(r)).content]
     ELSE GiveUp(r)
  /\ UNCHANGED <<tool, dockerd, count, refs>>

\* The tool ends, a command fails, or the run is killed.
EndVm(r) ==
  /\ vm[r].pc # "off"
  /\ GiveUp(r)
  /\ UNCHANGED <<tool, dockerd, count, refs>>

Rebuild ==
  /\ count.tools < MaxRebuilds
  /\ tool'  = count.tools + 1
  /\ count' = [count EXCEPT !.tools = @ + 1]
  /\ UNCHANGED <<dockerd, refs, vm>>

\* clean's removeImage: from Docker, then what msb lets go of.
RemoveImage(repo) ==
  /\ ImageId(repo) # 0
  /\ IF repo = "tool" THEN tool' = 0 /\ UNCHANGED dockerd ELSE dockerd' = NoDockerd /\ UNCHANGED tool
  /\ \E removed \in SUBSET {h \in refs : h.repo = repo /\ ~InUse(h)} : refs' = refs \ removed
  /\ UNCHANGED <<count, vm>>

MsbInit ==
  /\ tool = 1 /\ dockerd \in {NoDockerd, [id |-> 1, content |-> 1, parent |-> 1]}
  /\ count = [tools |-> 1, dockerds |-> 1]
  /\ refs = {} /\ vm = [r \in Vms |-> NoVm]

MsbNext ==
  \/ \E r \in Vms : \/ Begin(r) \/ InspectParent(r) \/ InspectDockerd(r) \/ StartBuild(r)
                    \/ BuildDockerdImage(r) \/ MicrosandboxRef(r) \/ ImageRefs(r)
                    \/ LoadIntoMicrosandbox(r) \/ RemoveStaleRefs(r) \/ StartVm(r) \/ EndVm(r)
  \/ Rebuild
  \/ \E repo \in {"tool", "dockerd"} : RemoveImage(repo)

MsbSpec == MsbInit /\ [][MsbNext]_msbVars
-----------------------------------------------------------------------------
\* A VM runs the tool image its run found in Docker or a later one, whatever copies msb held and whatever
\* was rebuilt meanwhile, unless another run built the dockerd image at the same time (microsandbox.go).
VmsAreNotStale ==
  \A r \in Vms : (vm[r].pc = "running" /\ ~(vm[r].dind /\ vm[r].raced)) => vm[r].content >= vm[r].since
=============================================================================
