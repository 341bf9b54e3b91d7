------------------------------- MODULE Images -------------------------------
(***************************************************************************)
(* One tool image and what decides how it is built again: the options of   *)
(* `agentic build' and `agentic update', the labels stamped on the image   *)
(* after it is built, the stored custom installs, Docker's layer cache,    *)
(* and the update a run offers.                                            *)
(*                                                                         *)
(* One command at a time, which may fail or be killed between its steps.   *)
(* Meanwhile the tool's maker releases versions, somebody edits the        *)
(* project's configuration, and what was fresh grows old.                  *)
(***************************************************************************)
EXTENDS Naturals

CONSTANTS
  DefaultLayer,   \* a layer's version when nobody asks for one
  Configs,        \* what the project's [build] can say
  BuildFlags,     \* the flags a build or an update can have
  MaxRelease,     \* bound: the tool's latest version
  MaxCommands     \* bound: commands started, also the clock of the cache busts

VARIABLES
  project,   \* the project's [build] configuration
  image,     \* the tool image: what is in it and its labels
  store,     \* stored custom installs: "whole" or "torn"
  layers,    \* Docker's layer cache: a tool layer's key -> the tool version in it
  latest,    \* the tool's latest version
  checked,   \* when a run last asked for it: "never", "fresh" or "old"
  cmd        \* the command under way, and what it has done

imageVars == <<project, image, store, layers, latest, checked, cmd>>

NoImage == [tool |-> 0]
NoLabels == [version |-> 0, bases |-> {}, versions |-> << >>, apt |-> {}, installs |-> {}, hash |-> {},
             bust |-> 0]
NoBust == 0
Built == image # NoImage

NamesOf(installs) == {i.name : i \in installs}
Over(f, g) == [x \in DOMAIN f \cup DOMAIN g |-> IF x \in DOMAIN g THEN g[x] ELSE f[x]]
-----------------------------------------------------------------------------
(* The options.                                                            *)

\* bases and apt of flags are sets; an exact one counts even when empty.
BuildOptions(f) ==
  [bases     |-> IF f.baseExact THEN f.bases ELSE project.bases \cup f.bases,
   baseExact |-> f.baseExact,
   apt       |-> IF f.aptExact THEN f.apt ELSE project.apt \cup f.apt,
   aptExact  |-> f.aptExact,
   versions  |-> Over(project.versions, f.versions),
   installs  |-> project.installs,
   noCache   |-> f.noCache,
   pull      |-> f.pull = "yes",
   bust      |-> NoBust]

UpdateOptions(f) ==
  LET opts == BuildOptions(f)
  IN  [opts EXCEPT !.bases    = IF f.bases # {} \/ f.baseExact THEN @ ELSE {},
                   !.apt      = IF f.apt # {} \/ f.aptExact THEN @ ELSE {},
                   !.versions = f.versions,
                   !.pull     = f.pull # "no"]

\* `agentic run' updates with nothing but the project's custom installs.
RunOptions == [bases |-> {}, baseExact |-> FALSE, apt |-> {}, aptExact |-> FALSE, versions |-> << >>,
               installs |-> project.installs, noCache |-> FALSE, pull |-> FALSE, bust |-> NoBust]

RecoveredBaseOverride(info, opts) ==
  IF ~opts.baseExact /\ opts.bases = {} THEN info.labels.bases ELSE opts.bases

EitherApt(info, opts) ==    \* mutant
  IF opts.aptExact \/ opts.apt # {} THEN opts.apt ELSE info.labels.apt
RecoveredAptPackages(info, opts) ==
  IF opts.aptExact THEN opts.apt ELSE info.labels.apt \cup opts.apt

LoadCustomInstalls(hash) == hash \in DOMAIN store /\ store[hash] = "whole"

\* From the store, else by name from the configuration.
RecoverCustomInstalls(info, configInstalls) ==
  IF LoadCustomInstalls(info.labels.hash) THEN info.labels.hash
  ELSE {i \in configInstalls : i.name \in info.labels.installs}
Missing(info, configInstalls) ==
  IF LoadCustomInstalls(info.labels.hash) THEN {}
  ELSE info.labels.installs \ NamesOf(configInstalls)

RecoverOpts(info, opts) ==
  [opts EXCEPT !.bases    = RecoveredBaseOverride(info, opts),
               !.apt      = RecoveredAptPackages(info, opts),
               !.installs = RecoverCustomInstalls(info, opts.installs)]

ApplyPullThrottle(info, opts, pullExplicit) ==
  [opts EXCEPT !.pull = @ /\ (pullExplicit \/ info.pulled # "fresh")]

\* A new value for every command; an image whose tool is current keeps its own.
SameBust(info, opts, upToDate) ==    \* mutant
  IF ~opts.noCache THEN info.labels.bust ELSE cmd.clock
CacheBust(info, opts, upToDate) ==
  IF ~opts.noCache /\ upToDate THEN info.labels.bust ELSE cmd.clock

\* rebuild's options for an image that exists.
RebuildOptions(info, opts, upToDate) ==
  [opts EXCEPT !.bases    = RecoveredBaseOverride(info, opts),
               !.versions = Over(info.labels.versions, opts.versions),
               !.apt      = RecoveredAptPackages(info, opts),
               !.bust     = CacheBust(info, opts, upToDate)]
-----------------------------------------------------------------------------
(* What a build makes.                                                     *)

BaseLayer           == "debian"
BuildLayers(extras) == {BaseLayer} \cup extras

LayerVersion(opts, layer) ==
  IF layer \in DOMAIN opts.versions THEN opts.versions[layer] ELSE DefaultLayer
LayerVersions(opts) == [l \in BuildLayers(opts.bases) |-> LayerVersion(opts, l)]

\* The tool's layer follows the others and CACHEBUST, which --no-cache leaves out.
BustArg(opts)  == IF opts.noCache THEN NoBust ELSE opts.bust
LayerKey(opts) == <<opts.apt, LayerVersions(opts), opts.installs, BustArg(opts)>>

\* The tool versions a build can end up with: a pull may change the layers below.
ToolVersions(opts) ==
  IF opts.noCache \/ LayerKey(opts) \notin DOMAIN layers THEN {latest}
  ELSE {layers[LayerKey(opts)]} \cup (IF opts.pull THEN {latest} ELSE {})

ImageOf(opts, tool) ==
  [tool |-> tool, apt |-> opts.apt, versions |-> LayerVersions(opts), installs |-> opts.installs,
   pulled |-> IF opts.noCache \/ opts.pull THEN "fresh" ELSE "never", labels |-> NoLabels, stamped |-> FALSE]

LabelsOf(opts, version) ==
  [version |-> version, bases |-> opts.bases, versions |-> LayerVersions(opts), apt |-> opts.apt,
   installs |-> NamesOf(opts.installs), hash |-> opts.installs, bust |-> opts.bust]
-----------------------------------------------------------------------------
(* The commands.                                                           *)

Idle(clock) == [op |-> "none", pc |-> "idle", clock |-> clock]

\* was: the image it started from; missing: the custom installs warned of; saw: the version looked
\* up, 0 for none; blind: Docker failed to tell of an image that exists.
Start(op, f, opts, missing, blind) ==
  /\ cmd.pc \in {"idle", "ended"} /\ cmd.clock < MaxCommands
  /\ cmd' = [op |-> op, pc |-> IF op = "build" THEN "save" ELSE "apply", clock |-> cmd.clock + 1, flags |-> f,
             opts |-> opts, was |-> image, missing |-> missing, saw |-> 0, current |-> FALSE, blind |-> blind]

NoFlags == [bases |-> {}, baseExact |-> FALSE, apt |-> {}, aptExact |-> FALSE, versions |-> << >>,
            noCache |-> FALSE, pull |-> "default"]

Build ==
  /\ \E f \in BuildFlags : Start("build", f, BuildOptions(f), {}, FALSE)
  /\ UNCHANGED <<project, image, store, layers, latest, checked>>

\* Resolve.
Update ==
  /\ \E f \in BuildFlags :
       LET opts == UpdateOptions(f)
       IN  IF Built
           THEN Start("update", f, ApplyPullThrottle(image, RecoverOpts(image, opts), f.pull = "yes"),
                      Missing(image, project.installs), FALSE)
           ELSE Start("update", f, opts, {}, FALSE)
  /\ UNCHANGED <<project, image, store, layers, latest, checked>>

\* A run asks upstream when it is due, and the user may agree to a newer version.
OfferUpdate ==
  /\ Built /\ checked # "fresh" /\ image.labels.version # 0
  /\ checked' = "fresh"
  /\ \/ cmd.pc \in {"idle", "ended"} /\ cmd' = Idle(cmd.clock)
     \/ /\ image.labels.version # latest
        /\ \/ Start("run", NoFlags, RecoverOpts(image, RunOptions), Missing(image, project.installs), FALSE)
           \/ Start("run", NoFlags, RunOptions, {}, TRUE)
  /\ UNCHANGED <<project, image, store, layers, latest>>

\* What upstream answers: 0 when that is inconclusive, which counts as a newer version.
LatestToolVersion == {0, latest}

\* Apply, and rebuild up to its save; an image Docker fails to tell of counts as missing.
ApplyUpdate ==
  /\ cmd.pc = "apply"
  /\ \E found \in {Built, FALSE}, saw \in LatestToolVersion :
       /\ saw # 0 => found /\ image.labels.version # 0
       /\ LET current == saw # 0 /\ saw = image.labels.version
              restamp == current /\ ~cmd.opts.noCache /\ ~cmd.opts.pull
              opts    == IF found THEN RebuildOptions(image, cmd.opts, current)
                         ELSE [cmd.opts EXCEPT !.bust = cmd.clock]
          IN  cmd' = [cmd EXCEPT !.saw = saw, !.current = current, !.blind = @ \/ (Built /\ ~found),
                        !.opts = IF restamp THEN @ ELSE opts,
                        !.pc   = IF restamp THEN "mark" ELSE "save"]
  /\ UNCHANGED <<project, image, store, layers, latest, checked>>

\* Nothing to store, or a file of that name exists, whole or not.
SaveCustomInstalls ==
  /\ cmd.pc = "save"
  /\ store' = IF cmd.opts.installs \in DOMAIN store \cup {{}} THEN store
              ELSE Over(store, [h \in {cmd.opts.installs} |-> "whole"])
  /\ cmd' = [cmd EXCEPT !.pc = "build"]
  /\ UNCHANGED <<project, image, layers, latest, checked>>

\* BuildTool up to docker build.
BuildTool ==
  /\ cmd.pc = "build"
  /\ \E tool \in ToolVersions(cmd.opts) :
       /\ image'  = ImageOf(cmd.opts, tool)
       /\ layers' = Over(layers, [k \in {LayerKey(cmd.opts)} |-> tool])
  /\ cmd' = [cmd EXCEPT !.pc = "stamp"]
  /\ UNCHANGED <<project, store, latest, checked>>

\* Best effort: the version may not be found, and a failure leaves the image as built.
StampImageLabels ==
  /\ cmd.pc = "stamp"
  /\ image' \in {image} \cup {[image EXCEPT !.stamped = TRUE, !.labels = LabelsOf(cmd.opts, v)] :
                                v \in {0, image.tool}}
  /\ cmd' = [cmd EXCEPT !.pc = "mark"]
  /\ UNCHANGED <<project, store, layers, latest, checked>>

\* An update from a run leaves the time of its own check.
MarkChecked ==
  /\ cmd.pc = "mark"
  /\ checked' = IF cmd.op = "run" THEN checked ELSE "fresh"
  /\ cmd' = [cmd EXCEPT !.pc = "ended"]
  /\ UNCHANGED <<project, image, store, layers, latest>>

\* apt verification, docker build or the store fails, or the command is killed.
Fail ==
  /\ cmd.pc \notin {"idle", "ended"}
  /\ store' \in IF cmd.pc = "save" /\ cmd.opts.installs \notin DOMAIN store \cup {{}}
                THEN {store, Over(store, [h \in {cmd.opts.installs} |-> "torn"])} ELSE {store}
  /\ cmd' = Idle(cmd.clock)
  /\ UNCHANGED <<project, image, layers, latest, checked>>

Clean ==
  /\ cmd.pc \in {"idle", "ended"} /\ Built
  /\ image' = NoImage
  /\ store' = [h \in DOMAIN store \ {image.labels.hash} |-> store[h]]
  /\ cmd'   = Idle(cmd.clock)
  /\ UNCHANGED <<project, layers, latest, checked>>

Release ==
  /\ latest < MaxRelease /\ latest' = latest + 1
  /\ UNCHANGED <<project, image, store, layers, checked, cmd>>

EditConfig ==
  /\ cmd.pc \in {"idle", "ended"}
  /\ project' \in Configs /\ cmd' = Idle(cmd.clock)
  /\ UNCHANGED <<image, store, layers, latest, checked>>

\* 24 hours after the pull, 6 after the check.
Age ==
  /\ cmd.pc \in {"idle", "ended"}
  /\ \/ /\ Built /\ image.pulled = "fresh"
        /\ image' = [image EXCEPT !.pulled = "old"]
        /\ UNCHANGED checked
     \/ checked = "fresh" /\ checked' = "old" /\ UNCHANGED image
  /\ cmd' = Idle(cmd.clock)
  /\ UNCHANGED <<project, store, layers, latest>>

ImagesInit ==
  /\ project \in Configs /\ image = NoImage /\ store = << >> /\ layers = << >>
  /\ latest = 1 /\ checked = "never" /\ cmd = Idle(0)

ImagesNext ==
  \/ Build \/ Update \/ OfferUpdate \/ ApplyUpdate \/ SaveCustomInstalls \/ BuildTool
  \/ StampImageLabels \/ MarkChecked \/ Fail \/ Clean \/ Release \/ EditConfig \/ Age

ImagesSpec == ImagesInit /\ [][ImagesNext]_imageVars
-----------------------------------------------------------------------------
(* What has to hold.                                                       *)

EndedUpdate == cmd.pc = "ended" /\ cmd.op # "build"

\* An update of an image with its labels keeps the layers, their versions, the apt packages and the
\* custom installs the image was built with, as far as no flag says otherwise and no warning was
\* given, unless Docker failed to tell of the image (updatespec.go's recovery, through labels.go).
UpdatesForgetNothing ==
  (EndedUpdate /\ cmd.was # NoImage /\ ~cmd.blind) =>
    (cmd.was.stamped =>
      /\ (cmd.flags.bases = {} /\ ~cmd.flags.baseExact) =>
           DOMAIN cmd.was.versions \subseteq DOMAIN image.versions
      /\ \A l \in (DOMAIN cmd.was.versions \cap DOMAIN image.versions) \ DOMAIN cmd.flags.versions :
           image.versions[l] = cmd.was.versions[l]
      /\ ~cmd.flags.aptExact => cmd.was.apt \subseteq image.apt
      /\ NamesOf(cmd.was.installs) \subseteq NamesOf(image.installs) \cup cmd.missing)

\* An update that ends leaves the version it saw, or a later one, unless it saw that the tool is
\* current: Docker's cache never brings an older tool back then (updatespec.go's CacheBust).
NewVersionsArrive == (EndedUpdate /\ ~cmd.current) => image.tool >= cmd.saw

\* What the flags of an update ask for is in the image it leaves (docs/images.md).
FlagsChangeTheImage ==
  EndedUpdate =>
    /\ cmd.flags.bases \subseteq DOMAIN image.versions
    /\ cmd.flags.apt \subseteq image.apt
    /\ \A l \in DOMAIN cmd.flags.versions \cap DOMAIN image.versions :
         image.versions[l] = cmd.flags.versions[l]
=============================================================================
