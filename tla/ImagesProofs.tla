---------------------------- MODULE ImagesProofs ----------------------------
(***************************************************************************)
(* What holds of tool images for every configuration, every set of flags,  *)
(* every number of commands, rebuilds and runs: updates forget nothing and *)
(* bring the new version (Images), and a microsandbox run never starts an  *)
(* image older than the one it looked up (MsbImages).                      *)
(*                                                                         *)
(* A property speaks of a command that has ended, or of a VM that runs;    *)
(* its invariant says what the steps before it have in hand: ImagesInv the *)
(* options recovered so far and the layers no earlier command can have     *)
(* built, MsbInv the order of the images a preparation has looked up.      *)
(***************************************************************************)
EXTENDS Images, MsbImages, TLAPS

(***************************************************************************)
(* Images.                                                                 *)

OptFields   == {"bases", "baseExact", "apt", "aptExact", "versions", "installs", "noCache", "pull", "bust"}
ImageFields == {"tool", "apt", "versions", "installs", "pulled", "labels", "stamped"}
CmdFields   == {"op", "pc", "clock", "flags", "opts", "was", "missing", "saw", "current", "blind"}
Before      == {"apply", "save", "build"}
After       == {"stamp", "mark", "ended"}

\* The labels of a stamped image say what is in it.
LabelsAgree(i) ==
  /\ BuildLayers(i.labels.bases) = DOMAIN i.versions /\ i.labels.versions = i.versions /\ i.labels.apt = i.apt
  /\ i.labels.installs = NamesOf(i.installs) /\ i.labels.hash = i.installs

ImageFits ==
  Built => /\ DOMAIN image = ImageFields
           /\ image.labels.bust \in 0..cmd.clock
           /\ image.stamped => LabelsAgree(image)

\* No layer was built with this command's cache bust before its build.
LayersFit ==
  \A k \in DOMAIN layers : /\ k[4] \in 0..cmd.clock
                           /\ cmd.pc \in Before => k[4] < cmd.clock

CmdFits ==
  /\ cmd.clock \in Nat /\ cmd.pc \in Before \cup After \cup {"idle"}
  /\ cmd.pc # "idle" =>
       /\ DOMAIN cmd = CmdFields /\ DOMAIN cmd.opts = OptFields
       /\ cmd.opts.bust \in 0..cmd.clock /\ cmd.saw \in 0..latest
       /\ cmd.pc \in Before => image = cmd.was
       /\ cmd.pc = "stamp" => /\ Built /\ image.apt = cmd.opts.apt /\ image.installs = cmd.opts.installs
                              /\ image.versions = LayerVersions(cmd.opts)

\* The part of the recovery that a command under way has behind it.
Remembered ==
  LET was == cmd.was IN
  cmd.pc \notin {"idle"} /\ cmd.op # "build" /\ ~cmd.blind /\ was # NoImage => (was.stamped =>
    /\ cmd.pc \in Before =>
         /\ (cmd.flags.bases = {} /\ ~cmd.flags.baseExact) =>
              BuildLayers(cmd.opts.bases) = DOMAIN was.versions /\ ~cmd.opts.baseExact
         /\ ~cmd.flags.aptExact => was.apt \subseteq cmd.opts.apt /\ ~cmd.opts.aptExact
         /\ NamesOf(was.installs) \subseteq NamesOf(cmd.opts.installs) \cup cmd.missing
    /\ cmd.pc = "apply" => cmd.opts.versions = cmd.flags.versions
    /\ cmd.pc \in Before \ {"apply"} =>
         \A l \in DOMAIN was.versions \ DOMAIN cmd.flags.versions :
           l \in DOMAIN cmd.opts.versions /\ cmd.opts.versions[l] = was.versions[l]
    /\ cmd.pc \in After =>
         /\ (cmd.flags.bases = {} /\ ~cmd.flags.baseExact) => DOMAIN was.versions \subseteq DOMAIN image.versions
         /\ \A l \in (DOMAIN was.versions \cap DOMAIN image.versions) \ DOMAIN cmd.flags.versions :
              image.versions[l] = was.versions[l]
         /\ ~cmd.flags.aptExact => was.apt \subseteq image.apt
         /\ NamesOf(was.installs) \subseteq NamesOf(image.installs) \cup cmd.missing)

\* A command that does not know its tool to be current builds it again.
Renewed ==
  cmd.pc \notin {"idle", "apply"} /\ cmd.op # "build" /\ ~cmd.current =>
    /\ cmd.pc \in Before => cmd.opts.noCache \/ cmd.opts.bust = cmd.clock
    /\ cmd.pc \in After => image.tool \in Nat /\ cmd.saw <= image.tool

ImagesInv == latest \in Nat /\ ImageFits /\ LayersFit /\ CmdFits /\ Remembered /\ Renewed

\* Over: the second function's values, then the first's.
LEMMA OverFields ==
  ASSUME NEW f, NEW g
  PROVE  /\ DOMAIN Over(f, g) = DOMAIN f \cup DOMAIN g
         /\ \A x \in DOMAIN f \cup DOMAIN g : Over(f, g)[x] = IF x \in DOMAIN g THEN g[x] ELSE f[x]
  BY DEF Over

LEMMA OptionFields ==
  ASSUME NEW f
  PROVE  /\ DOMAIN UpdateOptions(f) = OptFields /\ DOMAIN RunOptions = OptFields
         /\ DOMAIN BuildOptions(f) = OptFields
         /\ BuildOptions(f).bust = NoBust /\ UpdateOptions(f).bust = NoBust /\ RunOptions.bust = NoBust
         /\ UpdateOptions(f).baseExact = f.baseExact /\ UpdateOptions(f).aptExact = f.aptExact
         /\ UpdateOptions(f).bases = {} \/ f.bases # {} \/ f.baseExact
         /\ UpdateOptions(f).versions = f.versions /\ UpdateOptions(f).installs = project.installs
         /\ RunOptions.bases = {} /\ ~RunOptions.baseExact /\ ~RunOptions.aptExact
         /\ RunOptions.versions = << >> /\ RunOptions.installs = project.installs
<1>1. /\ DOMAIN BuildOptions(f) = OptFields /\ BuildOptions(f).bust = NoBust
      /\ BuildOptions(f).baseExact = f.baseExact /\ BuildOptions(f).aptExact = f.aptExact
      /\ BuildOptions(f).installs = project.installs
  BY DEF BuildOptions, OptFields
<1>2. /\ DOMAIN RunOptions = OptFields /\ RunOptions.bust = NoBust
      /\ RunOptions.bases = {} /\ ~RunOptions.baseExact /\ ~RunOptions.aptExact
      /\ RunOptions.versions = << >> /\ RunOptions.installs = project.installs
  BY DEF RunOptions, OptFields
<1>3. /\ DOMAIN UpdateOptions(f) = OptFields /\ UpdateOptions(f).bust = NoBust
      /\ UpdateOptions(f).baseExact = f.baseExact /\ UpdateOptions(f).aptExact = f.aptExact
      /\ UpdateOptions(f).bases = {} \/ f.bases # {} \/ f.baseExact
      /\ UpdateOptions(f).versions = f.versions /\ UpdateOptions(f).installs = project.installs
  BY <1>1 DEF UpdateOptions, OptFields
<1> QED
  BY <1>1, <1>2, <1>3

LEMMA RecoverFields ==
  ASSUME NEW o, DOMAIN o = OptFields, NEW i
  PROVE  LET q == RecoverOpts(i, o)
         IN  /\ DOMAIN q = OptFields
             /\ q.bases = RecoveredBaseOverride(i, o) /\ q.apt = RecoveredAptPackages(i, o)
             /\ q.installs = RecoverCustomInstalls(i, o.installs)
             /\ q.baseExact = o.baseExact /\ q.aptExact = o.aptExact /\ q.versions = o.versions
             /\ q.bust = o.bust
  BY DEF RecoverOpts, OptFields

LEMMA ThrottleFields ==
  ASSUME NEW o, DOMAIN o = OptFields, NEW i, NEW explicit
  PROVE  LET q == ApplyPullThrottle(i, o, explicit)
         IN  /\ DOMAIN q = OptFields
             /\ \A x \in OptFields \ {"pull"} : q[x] = o[x]
  BY DEF ApplyPullThrottle, OptFields

LEMMA RebuildFields ==
  ASSUME NEW o, DOMAIN o = OptFields, NEW i, NEW current
  PROVE  LET q == RebuildOptions(i, o, current)
         IN  /\ DOMAIN q = OptFields
             /\ q.bases = RecoveredBaseOverride(i, o) /\ q.apt = RecoveredAptPackages(i, o)
             /\ q.versions = Over(i.labels.versions, o.versions) /\ q.bust = CacheBust(i, o, current)
             /\ q.installs = o.installs /\ q.baseExact = o.baseExact /\ q.aptExact = o.aptExact
             /\ q.noCache = o.noCache
  BY DEF RebuildOptions, OptFields

\* The options recovered from a stamped image, wherever they come from.
RecoveredFrom(i, flags, opts, missing) ==
  /\ (flags.bases = {} /\ ~flags.baseExact) => BuildLayers(opts.bases) = DOMAIN i.versions /\ ~opts.baseExact
  /\ ~flags.aptExact => i.apt \subseteq opts.apt /\ ~opts.aptExact
  /\ NamesOf(i.installs) \subseteq NamesOf(opts.installs) \cup missing
  /\ opts.versions = flags.versions

LEMMA RecoveryIsWhole ==
  ASSUME NEW i, LabelsAgree(i), NEW flags, NEW o, DOMAIN o = OptFields,
         o.baseExact = flags.baseExact, o.aptExact = flags.aptExact, o.versions = flags.versions,
         o.bases = {} \/ flags.bases # {} \/ flags.baseExact
  PROVE  RecoveredFrom(i, flags, RecoverOpts(i, o), Missing(i, o.installs))
<1> DEFINE q == RecoverOpts(i, o)
<1>1. /\ q.bases = RecoveredBaseOverride(i, o) /\ q.apt = RecoveredAptPackages(i, o)
      /\ q.installs = RecoverCustomInstalls(i, o.installs)
      /\ q.baseExact = o.baseExact /\ q.aptExact = o.aptExact /\ q.versions = o.versions
  BY RecoverFields
<1> HIDE DEF q
<1>2. (flags.bases = {} /\ ~flags.baseExact) => BuildLayers(q.bases) = DOMAIN i.versions /\ ~q.baseExact
  BY <1>1 DEF RecoveredBaseOverride, LabelsAgree
<1>3. ~flags.aptExact => i.apt \subseteq q.apt /\ ~q.aptExact
  BY <1>1 DEF RecoveredAptPackages, LabelsAgree
<1>4. NamesOf(i.installs) \subseteq NamesOf(q.installs) \cup Missing(i, o.installs)
  <2>1. CASE LoadCustomInstalls(i.labels.hash)
    BY <1>1, <2>1 DEF RecoverCustomInstalls, LabelsAgree
  <2>2. CASE ~LoadCustomInstalls(i.labels.hash)
    <3>1. q.installs = {j \in o.installs : j.name \in NamesOf(i.installs)}
      BY <1>1, <2>2 DEF RecoverCustomInstalls, LabelsAgree
    <3>2. Missing(i, o.installs) = NamesOf(i.installs) \ NamesOf(o.installs)
      BY <2>2 DEF Missing, LabelsAgree
    <3> QED
      BY <3>1, <3>2 DEF NamesOf
  <2> QED
    BY <2>1, <2>2
<1> QED
  BY <1>1, <1>2, <1>3, <1>4 DEF RecoveredFrom, q

-----------------------------------------------------------------------------
(* One lemma for each kind of step.                                        *)

LEMMA ImagesStart == ImagesInit => ImagesInv
<1> SUFFICES ASSUME ImagesInit PROVE ImagesInv
  OBVIOUS
<1>1. /\ cmd.pc = "idle" /\ cmd.clock = 0 /\ latest = 1 /\ ~Built /\ DOMAIN layers = {}
  BY DEF ImagesInit, Idle, Built, NoImage
<1> QED
  BY <1>1 DEF ImagesInv, ImageFits, LayersFit, CmdFits, Remembered, Renewed, Before, After

\* A command that ends, or fails, leaves nothing to remember.
LEMMA BackToIdle ==
  ASSUME ImagesInv, cmd' = Idle(cmd.clock), ImageFits', UNCHANGED <<layers, latest>>
  PROVE  ImagesInv'
<1>1. cmd'.pc = "idle" /\ cmd'.clock = cmd.clock
  BY DEF Idle
<1>2. LayersFit'
  BY <1>1 DEF ImagesInv, LayersFit, Before
<1>3. CmdFits'
  BY <1>1 DEF ImagesInv, CmdFits, Before
<1>4. Remembered'
  BY <1>1 DEF Remembered
<1>5. Renewed'
  BY <1>1 DEF Renewed
<1> QED
  BY <1>2, <1>3, <1>4, <1>5 DEF ImagesInv

LEMMA ImageStays ==
  ASSUME ImagesInv, image' = image, cmd'.clock \in Nat, cmd.clock <= cmd'.clock
  PROVE  ImageFits'
<1> DEFINE c == cmd'.clock
<1>1. cmd.clock \in Nat /\ c \in Nat /\ cmd.clock <= c
  BY DEF ImagesInv, CmdFits
<1> HIDE DEF c
<1>2. \A b \in 0..cmd.clock : b \in 0..c
  BY <1>1
<1>3. \A i : LabelsAgree(i)' <=> LabelsAgree(i)
  OBVIOUS
<1> QED
  BY <1>2 DEF ImagesInv, ImageFits, Built, c, LabelsAgree, NamesOf, NoImage

\* A command starts with the options that recover the image, a new clock and the image as it was.
LEMMA StartKeeps ==
  ASSUME ImagesInv, NEW op, NEW f, NEW opts, NEW missing, NEW blind,
         Start(op, f, opts, missing, blind), UNCHANGED <<image, layers, latest>>,
         DOMAIN opts = OptFields, opts.bust = NoBust,
         op # "build" /\ ~blind /\ Built /\ image.stamped => RecoveredFrom(image, f, opts, missing)
  PROVE  ImagesInv'
<1>1. /\ cmd'.op = op /\ cmd'.pc = (IF op = "build" THEN "save" ELSE "apply")
      /\ cmd'.clock = cmd.clock + 1 /\ cmd'.flags = f /\ cmd'.opts = opts /\ cmd'.was = image
      /\ cmd'.missing = missing /\ cmd'.saw = 0 /\ cmd'.blind = blind /\ DOMAIN cmd' = CmdFields
  BY DEF Start, CmdFields
<1>2. cmd.clock \in Nat /\ latest \in Nat
  BY DEF ImagesInv, CmdFits
<1>3. ImageFits'
  BY <1>1, <1>2, ImageStays
<1>4. LayersFit'
  BY <1>1, <1>2 DEF ImagesInv, LayersFit
<1>5. CmdFits'
  BY <1>1, <1>2 DEF CmdFits, Before, After, NoBust
<1>6. Remembered'
  BY <1>1 DEF Remembered, RecoveredFrom, Before, After, Built
<1>7. Renewed'
  BY <1>1 DEF Renewed
<1> QED
  BY <1>2, <1>3, <1>4, <1>5, <1>6, <1>7 DEF ImagesInv

LEMMA BuildKeeps == ImagesInv /\ Build => ImagesInv'
<1> SUFFICES ASSUME ImagesInv, Build PROVE ImagesInv'
  OBVIOUS
<1>1. PICK f \in BuildFlags : Start("build", f, BuildOptions(f), {}, FALSE)
  BY DEF Build
<1>2. UNCHANGED <<image, layers, latest>>
  BY DEF Build
<1> DEFINE o == BuildOptions(f)
<1>3. DOMAIN o = OptFields /\ o.bust = NoBust
  BY OptionFields
<1> HIDE DEF o
<1>4. Start("build", f, o, {}, FALSE)
  BY <1>1 DEF o
<1> QED
  BY <1>2, <1>3, <1>4, StartKeeps

LEMMA UpdateKeeps == ImagesInv /\ Update => ImagesInv'
<1> SUFFICES ASSUME ImagesInv, Update PROVE ImagesInv'
  OBVIOUS
<1>1. PICK f \in BuildFlags :
        IF Built
        THEN Start("update", f, ApplyPullThrottle(image, RecoverOpts(image, UpdateOptions(f)), f.pull = "yes"),
                   Missing(image, project.installs), FALSE)
        ELSE Start("update", f, UpdateOptions(f), {}, FALSE)
  BY DEF Update
<1>2. UNCHANGED <<image, layers, latest>>
  BY DEF Update
<1> DEFINE o == UpdateOptions(f)
<1>3. /\ DOMAIN o = OptFields /\ o.bust = NoBust /\ o.baseExact = f.baseExact /\ o.aptExact = f.aptExact
      /\ o.bases = {} \/ f.bases # {} \/ f.baseExact
      /\ o.versions = f.versions /\ o.installs = project.installs
  BY OptionFields
<1> HIDE DEF o
<1>4. CASE ~Built
  <2>1. Start("update", f, o, {}, FALSE)
    BY <1>1, <1>4 DEF o
  <2> QED
    BY <2>1, <1>2, <1>3, <1>4, StartKeeps
<1>5. CASE Built
  <2> DEFINE r == RecoverOpts(image, o)
             q == ApplyPullThrottle(image, r, f.pull = "yes")
             m == Missing(image, o.installs)
  <2>1. Start("update", f, q, m, FALSE)
    BY <1>1, <1>3, <1>5 DEF o
  <2>2. DOMAIN r = OptFields /\ r.bust = NoBust
    BY <1>3, RecoverFields
  <2>3. image.stamped => RecoveredFrom(image, f, r, m)
    BY <1>3, <1>5, RecoveryIsWhole DEF ImagesInv, ImageFits
  <2> HIDE DEF r, m
  <2>4. DOMAIN q = OptFields /\ \A x \in OptFields \ {"pull"} : q[x] = r[x]
    BY <2>2, ThrottleFields
  <2> HIDE DEF q
  <2>5. /\ q.bust = NoBust /\ q.bases = r.bases /\ q.baseExact = r.baseExact /\ q.apt = r.apt
        /\ q.aptExact = r.aptExact /\ q.installs = r.installs /\ q.versions = r.versions
    BY <2>2, <2>4 DEF OptFields
  <2>6. image.stamped => RecoveredFrom(image, f, q, m)
    BY <2>3, <2>5 DEF RecoveredFrom
  <2> QED
    BY <2>1, <2>4, <2>5, <2>6, <1>2, StartKeeps
<1> QED
  BY <1>4, <1>5

LEMMA OfferKeeps == ImagesInv /\ OfferUpdate => ImagesInv'
<1> SUFFICES ASSUME ImagesInv, OfferUpdate PROVE ImagesInv'
  OBVIOUS
<1>1. Built /\ UNCHANGED <<image, layers, latest>>
  BY DEF OfferUpdate
<1> DEFINE o == RunOptions
           r == RecoverOpts(image, o)
           m == Missing(image, o.installs)
<1>2. /\ DOMAIN o = OptFields /\ o.bust = NoBust /\ o.bases = {} /\ ~o.baseExact /\ ~o.aptExact
      /\ o.versions = << >> /\ o.installs = project.installs
  BY OptionFields
<1>3. NoFlags.baseExact = FALSE /\ NoFlags.aptExact = FALSE /\ NoFlags.versions = << >>
  BY DEF NoFlags
<1>4. o.baseExact = FALSE /\ o.aptExact = FALSE
  BY DEF RunOptions
<1>5. \/ cmd' = Idle(cmd.clock)
      \/ Start("run", NoFlags, r, m, FALSE)
      \/ Start("run", NoFlags, o, {}, TRUE)
  BY <1>2 DEF OfferUpdate
<1> HIDE DEF o
<1>6. DOMAIN r = OptFields /\ r.bust = NoBust
  BY <1>2, RecoverFields
<1>7. image.stamped => RecoveredFrom(image, NoFlags, r, m)
  BY <1>1, <1>2, <1>3, <1>4, RecoveryIsWhole DEF ImagesInv, ImageFits
<1> HIDE DEF r, m
<1>8. CASE cmd' = Idle(cmd.clock)
  <2>1. cmd'.clock = cmd.clock /\ cmd.clock \in Nat
    BY <1>8 DEF Idle, ImagesInv, CmdFits
  <2>2. ImageFits'
    BY <2>1, <1>1, ImageStays
  <2> QED
    BY <1>8, <1>1, <2>2, BackToIdle
<1>9. CASE Start("run", NoFlags, r, m, FALSE)
  BY <1>1, <1>6, <1>7, <1>9, StartKeeps
<1>10. CASE Start("run", NoFlags, o, {}, TRUE)
  BY <1>1, <1>2, <1>10, StartKeeps
<1> QED
  BY <1>5, <1>8, <1>9, <1>10

\* Apply: what the update does about the image it found.
LEMMA ApplyKeeps == ImagesInv /\ ApplyUpdate => ImagesInv'
<1> SUFFICES ASSUME ImagesInv, ApplyUpdate PROVE ImagesInv'
  OBVIOUS
<1>1. PICK found \in {Built, FALSE}, saw \in LatestToolVersion :
        /\ saw # 0 => found /\ image.labels.version # 0
        /\ LET current == saw # 0 /\ saw = image.labels.version
               restamp == current /\ ~cmd.opts.noCache /\ ~cmd.opts.pull
               opts    == IF found THEN RebuildOptions(image, cmd.opts, current)
                          ELSE [cmd.opts EXCEPT !.bust = cmd.clock]
           IN  cmd' = [cmd EXCEPT !.saw = saw, !.current = current, !.blind = @ \/ (Built /\ ~found),
                         !.opts = IF restamp THEN @ ELSE opts,
                         !.pc   = IF restamp THEN "mark" ELSE "save"]
  BY DEF ApplyUpdate
<1> DEFINE current == saw # 0 /\ saw = image.labels.version
           restamp == current /\ ~cmd.opts.noCache /\ ~cmd.opts.pull
           rebuilt == RebuildOptions(image, cmd.opts, current)
           missed  == [cmd.opts EXCEPT !.bust = cmd.clock]
           o       == IF restamp THEN cmd.opts ELSE IF found THEN rebuilt ELSE missed
<1>2. cmd.pc = "apply" /\ UNCHANGED <<image, layers, latest>>
  BY DEF ApplyUpdate
<1>3. /\ DOMAIN cmd = CmdFields /\ DOMAIN cmd.opts = OptFields /\ cmd.opts.bust \in 0..cmd.clock
      /\ image = cmd.was /\ cmd.clock \in Nat /\ latest \in Nat
  BY <1>2 DEF ImagesInv, CmdFits, Before
<1>4. /\ cmd'.saw = saw /\ cmd'.current = current /\ cmd'.blind = (cmd.blind \/ (Built /\ ~found))
      /\ cmd'.opts = o /\ cmd'.pc = (IF restamp THEN "mark" ELSE "save")
      /\ cmd'.op = cmd.op /\ cmd'.clock = cmd.clock /\ cmd'.flags = cmd.flags /\ cmd'.was = cmd.was
      /\ cmd'.missing = cmd.missing /\ DOMAIN cmd' = CmdFields
  BY <1>1, <1>3 DEF CmdFields
<1>5. saw \in 0..latest /\ (restamp => found) /\ (found => Built)
  <2>1. found => Built
    BY <1>1, Zenon
  <2>2. restamp => found
    BY <1>1, Zenon
  <2>3. saw \in 0..latest
    BY <1>1, <1>3 DEF LatestToolVersion
  <2> QED
    BY <2>1, <2>2, <2>3
<1>6. /\ DOMAIN rebuilt = OptFields
      /\ rebuilt.bases = RecoveredBaseOverride(image, cmd.opts)
      /\ rebuilt.apt = RecoveredAptPackages(image, cmd.opts)
      /\ rebuilt.versions = Over(image.labels.versions, cmd.opts.versions)
      /\ rebuilt.bust = CacheBust(image, cmd.opts, current) /\ rebuilt.installs = cmd.opts.installs
      /\ rebuilt.baseExact = cmd.opts.baseExact /\ rebuilt.aptExact = cmd.opts.aptExact
      /\ rebuilt.noCache = cmd.opts.noCache
  BY <1>3, RebuildFields
<1>7. DOMAIN missed = OptFields /\ missed.bust = cmd.clock
  BY <1>3 DEF OptFields
<1>8. found => rebuilt.bust \in 0..cmd.clock
  BY <1>3, <1>5, <1>6 DEF CacheBust, ImagesInv, ImageFits
<1>9. ~current /\ found => rebuilt.bust = cmd.clock
  BY <1>6 DEF CacheBust
<1> HIDE DEF rebuilt, missed
<1>10. DOMAIN o = OptFields /\ o.bust \in 0..cmd.clock
  BY <1>3, <1>6, <1>7, <1>8
<1>11. ~current => o.bust = cmd.clock
  BY <1>7, <1>9
<1>12. ImageFits'
  BY <1>2, <1>3, <1>4, ImageStays
<1>13. LayersFit'
  BY <1>2, <1>4 DEF ImagesInv, LayersFit, Before
<1>14. CmdFits'
  BY <1>2, <1>3, <1>4, <1>5, <1>10 DEF CmdFits, Before, After
<1>15. Renewed'
  BY <1>4, <1>11 DEF Renewed, Before, After
<1>16. Remembered'
  <2> SUFFICES ASSUME cmd.op # "build", ~cmd.blind, ~(Built /\ ~found), image # NoImage, image.stamped
               PROVE  Remembered'
    BY <1>3, <1>4 DEF Remembered
  <2>1. found /\ LabelsAgree(image)
    BY <1>5 DEF Built, ImagesInv, ImageFits
  <2>2. RecoveredFrom(image, cmd.flags, cmd.opts, cmd.missing)
    BY <1>2, <1>3 DEF ImagesInv, Remembered, RecoveredFrom, Before
  <2>3. CASE restamp
    <3>1. /\ DOMAIN image.versions \subseteq DOMAIN image.versions
          /\ NamesOf(image.installs) \subseteq NamesOf(image.installs) \cup cmd.missing
      OBVIOUS
    <3> QED
      BY <1>2, <1>3, <1>4, <2>3, <3>1 DEF Remembered, Before, After
  <2>4. CASE ~restamp
    <3>1. o = rebuilt /\ cmd'.opts = o /\ cmd'.pc = "save"
      BY <1>4, <2>1, <2>4
    <3> HIDE DEF restamp, o
    <3>2. (cmd.flags.bases = {} /\ ~cmd.flags.baseExact) => BuildLayers(o.bases) = DOMAIN image.versions /\ ~o.baseExact
      BY <1>6, <2>1, <2>2, <3>1 DEF RecoveredFrom, RecoveredBaseOverride, LabelsAgree
    <3>3. ~cmd.flags.aptExact => image.apt \subseteq o.apt /\ ~o.aptExact
      BY <1>6, <2>1, <2>2, <3>1 DEF RecoveredFrom, RecoveredAptPackages, LabelsAgree
    <3>4. NamesOf(image.installs) \subseteq NamesOf(o.installs) \cup cmd.missing
      BY <1>6, <2>2, <3>1 DEF RecoveredFrom
    <3>5. o.versions = Over(image.versions, cmd.flags.versions)
      BY <1>6, <2>1, <2>2, <3>1 DEF RecoveredFrom, LabelsAgree
    <3>6. \A l \in DOMAIN image.versions \ DOMAIN cmd.flags.versions :
            l \in DOMAIN o.versions /\ o.versions[l] = image.versions[l]
      <4> DEFINE f == image.versions
                 g == cmd.flags.versions
                 h == o.versions
      <4>1. h = Over(f, g)
        BY <3>5
      <4> HIDE DEF f, g, h
      <4>2. DOMAIN h = DOMAIN f \cup DOMAIN g /\ \A x \in DOMAIN f \ DOMAIN g : h[x] = f[x]
        BY <4>1 DEF Over
      <4>3. \A l \in DOMAIN f \ DOMAIN g : l \in DOMAIN h /\ h[l] = f[l]
        BY <4>2
      <4> QED
        BY <4>3 DEF f, g, h
    <3> QED
      BY <1>2, <1>3, <1>4, <3>1, <3>2, <3>3, <3>4, <3>6 DEF Remembered, Before, After, NamesOf
  <2> QED
    BY <2>3, <2>4
<1> QED
  BY <1>2, <1>3, <1>12, <1>13, <1>14, <1>15, <1>16 DEF ImagesInv

\* A step that moves the command on, or only time, and leaves the image, the layers and the options.
LEMMA MovesOn ==
  ASSUME ImagesInv, NEW pc, UNCHANGED <<image, layers, latest>>, cmd' = [cmd EXCEPT !.pc = pc],
         \/ cmd.pc = "save" /\ pc = "build"
         \/ cmd.pc = "mark" /\ pc = "ended"
         \/ cmd.pc = "stamp" /\ pc = "mark"
  PROVE  ImagesInv'
<1>1. DOMAIN cmd = CmdFields /\ cmd.clock \in Nat
  BY DEF ImagesInv, CmdFits
<1>2. /\ cmd'.pc = pc /\ DOMAIN cmd' = CmdFields /\ cmd'.op = cmd.op /\ cmd'.clock = cmd.clock
      /\ cmd'.flags = cmd.flags /\ cmd'.opts = cmd.opts /\ cmd'.was = cmd.was
      /\ cmd'.missing = cmd.missing /\ cmd'.saw = cmd.saw /\ cmd'.current = cmd.current
      /\ cmd'.blind = cmd.blind
  BY <1>1 DEF CmdFields
<1>3. ImageFits'
  BY <1>1, <1>2, ImageStays
<1>4. LayersFit'
  BY <1>2 DEF ImagesInv, LayersFit, Before
<1>5. CmdFits'
  BY <1>1, <1>2 DEF ImagesInv, CmdFits, Before, After
<1>6. Remembered'
  BY <1>2 DEF ImagesInv, Remembered, Before, After, NamesOf
<1>7. Renewed'
  BY <1>2 DEF ImagesInv, Renewed, Before, After
<1> QED
  BY <1>3, <1>4, <1>5, <1>6, <1>7 DEF ImagesInv

\* The image a build makes: its tool is the latest one unless the build may use the cache.
LEMMA BuildToolKeeps == ImagesInv /\ BuildTool => ImagesInv'
<1> SUFFICES ASSUME ImagesInv, BuildTool PROVE ImagesInv'
  OBVIOUS
<1> DEFINE o == cmd.opts
<1>1. PICK made \in ToolVersions(o) :
        image' = ImageOf(o, made) /\ layers' = Over(layers, [k \in {LayerKey(o)} |-> made])
  BY DEF BuildTool
<1>2. cmd.pc = "build" /\ cmd' = [cmd EXCEPT !.pc = "stamp"] /\ latest' = latest
  BY DEF BuildTool
<1>3. /\ DOMAIN cmd = CmdFields /\ DOMAIN o = OptFields /\ o.bust \in 0..cmd.clock
      /\ cmd.clock \in Nat /\ latest \in Nat /\ cmd.saw \in 0..latest
  BY <1>2 DEF ImagesInv, CmdFits
<1>4. /\ cmd'.pc = "stamp" /\ DOMAIN cmd' = CmdFields /\ cmd'.op = cmd.op /\ cmd'.clock = cmd.clock
      /\ cmd'.flags = cmd.flags /\ cmd'.opts = cmd.opts /\ cmd'.was = cmd.was
      /\ cmd'.missing = cmd.missing /\ cmd'.saw = cmd.saw /\ cmd'.current = cmd.current
      /\ cmd'.blind = cmd.blind
  BY <1>2, <1>3 DEF CmdFields
<1>5. /\ DOMAIN image' = ImageFields /\ image'.tool = made /\ image'.apt = o.apt
      /\ image'.versions = LayerVersions(o) /\ image'.installs = o.installs
      /\ image'.labels = NoLabels /\ image'.stamped = FALSE
  BY <1>1 DEF ImageOf, ImageFields
<1>6. image'.labels.bust = 0
  BY <1>5 DEF NoLabels
<1>7. Built'
  <2>1. "apt" \in DOMAIN image' /\ "apt" \notin DOMAIN NoImage
    BY <1>5 DEF ImageFields, NoImage
  <2>2. image' # NoImage
    BY <2>1
  <2> QED
    BY <2>2 DEF Built, NoImage
<1>8. ImageFits'
  BY <1>3, <1>4, <1>5, <1>6 DEF ImageFits
<1>9. LayersFit'
  <2>1. LayerKey(o)[4] \in 0..cmd.clock
    BY <1>3 DEF LayerKey, BustArg, NoBust
  <2>2. DOMAIN layers' = DOMAIN layers \cup {LayerKey(o)}
    <3> DEFINE built == [k \in {LayerKey(o)} |-> made]
    <3>1. DOMAIN built = {LayerKey(o)} /\ layers' = Over(layers, built)
      BY <1>1
    <3> HIDE DEF built
    <3> QED
      BY <3>1, OverFields
  <2>3. cmd'.clock = cmd.clock /\ cmd'.pc \notin Before
    BY <1>4 DEF Before
  <2>4. \A k \in DOMAIN layers' : k[4] \in 0..cmd.clock
    BY <2>1, <2>2 DEF ImagesInv, LayersFit
  <2> QED
    BY <2>3, <2>4 DEF LayersFit
<1>10. CmdFits'
  BY <1>2, <1>3, <1>4, <1>5, <1>7 DEF CmdFits, Before, After, LayerVersions, LayerVersion
<1>11. Renewed'
  <2> SUFFICES ASSUME cmd.op # "build", ~cmd.current
               PROVE  made \in Nat /\ cmd.saw <= made
    BY <1>4, <1>5 DEF Renewed, Before, After
  <2>1. o.noCache \/ o.bust = cmd.clock
    BY <1>2 DEF ImagesInv, Renewed, Before
  <2>2. o.noCache \/ LayerKey(o) \notin DOMAIN layers
    <3> SUFFICES ASSUME ~o.noCache, LayerKey(o) \in DOMAIN layers PROVE FALSE
      OBVIOUS
    <3>1. LayerKey(o)[4] = cmd.clock
      BY <2>1 DEF LayerKey, BustArg
    <3>2. LayerKey(o)[4] < cmd.clock
      BY <1>2 DEF ImagesInv, LayersFit, Before
    <3> QED
      BY <1>3, <3>1, <3>2
  <2>3. made = latest
    BY <2>2 DEF ToolVersions
  <2> QED
    BY <1>3, <2>3
<1>12. Remembered'
  <2> DEFINE was == cmd.was
  <2> SUFFICES ASSUME cmd.op # "build", ~cmd.blind, was # NoImage, was.stamped
               PROVE  /\ (cmd.flags.bases = {} /\ ~cmd.flags.baseExact) =>
                           DOMAIN was.versions \subseteq DOMAIN image'.versions
                      /\ \A l \in (DOMAIN was.versions \cap DOMAIN image'.versions) \ DOMAIN cmd.flags.versions :
                           image'.versions[l] = was.versions[l]
                      /\ ~cmd.flags.aptExact => was.apt \subseteq image'.apt
                      /\ NamesOf(was.installs) \subseteq NamesOf(image'.installs) \cup cmd.missing
    <3>1. \A s : NamesOf(s)' = NamesOf(s)
      BY DEF NamesOf
    <3> QED
      BY <1>4, <3>1 DEF Remembered, Before, After
  <2>1. /\ (cmd.flags.bases = {} /\ ~cmd.flags.baseExact) => BuildLayers(o.bases) = DOMAIN was.versions
        /\ ~cmd.flags.aptExact => was.apt \subseteq o.apt
        /\ NamesOf(was.installs) \subseteq NamesOf(o.installs) \cup cmd.missing
        /\ \A l \in DOMAIN was.versions \ DOMAIN cmd.flags.versions :
             l \in DOMAIN o.versions /\ o.versions[l] = was.versions[l]
    BY <1>2 DEF ImagesInv, Remembered, Before
  <2>2. /\ DOMAIN image'.versions = BuildLayers(o.bases)
        /\ \A l \in BuildLayers(o.bases) : l \in DOMAIN o.versions => image'.versions[l] = o.versions[l]
    BY <1>5 DEF LayerVersions, LayerVersion
  <2> QED
    BY <1>5, <2>1, <2>2
<1> QED
  BY <1>2, <1>3, <1>8, <1>9, <1>10, <1>11, <1>12 DEF ImagesInv

LEMMA StampKeeps == ImagesInv /\ StampImageLabels => ImagesInv'
<1> SUFFICES ASSUME ImagesInv, StampImageLabels PROVE ImagesInv'
  OBVIOUS
<1>1. /\ cmd.pc = "stamp" /\ cmd' = [cmd EXCEPT !.pc = "mark"] /\ UNCHANGED <<layers, latest>>
      /\ \/ image' = image
         \/ \E v \in {0, image.tool} : image' = [image EXCEPT !.stamped = TRUE, !.labels = LabelsOf(cmd.opts, v)]
  BY DEF StampImageLabels
<1>2. CASE image' = image
  BY <1>1, <1>2, MovesOn
<1>3. ASSUME NEW v, image' = [image EXCEPT !.stamped = TRUE, !.labels = LabelsOf(cmd.opts, v)]
      PROVE  ImagesInv'
  <2> DEFINE o == cmd.opts
  <2>1. /\ DOMAIN cmd = CmdFields /\ DOMAIN o = OptFields /\ o.bust \in 0..cmd.clock
        /\ cmd.clock \in Nat /\ latest \in Nat /\ cmd.saw \in 0..latest
        /\ Built /\ image.apt = o.apt /\ image.installs = o.installs /\ image.versions = LayerVersions(o)
        /\ DOMAIN image = ImageFields
    BY <1>1 DEF ImagesInv, CmdFits, ImageFits
  <2>2. /\ cmd'.pc = "mark" /\ DOMAIN cmd' = CmdFields /\ cmd'.op = cmd.op /\ cmd'.clock = cmd.clock
        /\ cmd'.flags = cmd.flags /\ cmd'.opts = cmd.opts /\ cmd'.was = cmd.was
        /\ cmd'.missing = cmd.missing /\ cmd'.saw = cmd.saw /\ cmd'.current = cmd.current
        /\ cmd'.blind = cmd.blind
    BY <1>1, <2>1 DEF CmdFields
  <2>3. /\ DOMAIN image' = ImageFields /\ image'.tool = image.tool /\ image'.apt = image.apt
        /\ image'.versions = image.versions /\ image'.installs = image.installs
        /\ image'.labels = LabelsOf(o, v)
    BY <1>3, <2>1 DEF ImageFields
  <2>4. DOMAIN image.versions = BuildLayers(o.bases)
    BY <2>1 DEF LayerVersions
  <2>5. image'.labels.bust = o.bust
    BY <2>3 DEF LabelsOf
  <2>6. LabelsAgree(image')
    BY <2>1, <2>3, <2>4 DEF LabelsAgree, LabelsOf
  <2>7. ImageFits'
    BY <2>1, <2>2, <2>3, <2>5, <2>6 DEF ImageFits, LabelsAgree, NamesOf
  <2>8. LayersFit'
    BY <1>1, <2>2 DEF ImagesInv, LayersFit, Before
  <2>9. CmdFits'
    BY <1>1, <2>1, <2>2 DEF CmdFits, Before, After
  <2>10. Renewed'
    BY <1>1, <2>2, <2>3 DEF ImagesInv, Renewed, Before, After
  <2>11. Remembered'
    BY <1>1, <2>2, <2>3 DEF ImagesInv, Remembered, Before, After, NamesOf
  <2> QED
    BY <1>1, <2>1, <2>7, <2>8, <2>9, <2>10, <2>11 DEF ImagesInv
<1> QED
  BY <1>1, <1>2, <1>3

\* Steps of the surroundings, and commands that leave the invariant's state alone or empty.
LEMMA OthersKeep ==
  ImagesInv /\ (SaveCustomInstalls \/ MarkChecked \/ Fail \/ Clean \/ Release \/ EditConfig \/ Age
                \/ UNCHANGED imageVars) => ImagesInv'
<1> SUFFICES ASSUME ImagesInv PROVE
      (SaveCustomInstalls \/ MarkChecked \/ Fail \/ Clean \/ Release \/ EditConfig \/ Age
                \/ UNCHANGED imageVars) => ImagesInv'
  OBVIOUS
<1>0. cmd.clock \in Nat /\ latest \in Nat /\ Idle(cmd.clock).clock = cmd.clock
  BY DEF ImagesInv, CmdFits, Idle
<1>1. CASE SaveCustomInstalls
  BY <1>1, MovesOn DEF SaveCustomInstalls
<1>2. CASE MarkChecked
  BY <1>2, MovesOn DEF MarkChecked
<1>3. CASE Fail
  BY <1>0, <1>3, BackToIdle, ImageStays DEF Fail
<1>4. CASE Clean
  <2>1. ImageFits'
    BY <1>4 DEF Clean, ImageFits, Built, NoImage
  <2> QED
    BY <1>4, <2>1, BackToIdle DEF Clean
<1>5. CASE Release
  <2>1. UNCHANGED <<image, layers, cmd>> /\ latest' = latest + 1
    BY <1>5 DEF Release
  <2>2. ImageFits'
    BY <1>0, <2>1, ImageStays
  <2>3. LayersFit' /\ Remembered' /\ Renewed'
    BY <2>1 DEF ImagesInv, LayersFit, Remembered, Renewed, NamesOf
  <2>4. CmdFits'
    BY <1>0, <2>1 DEF ImagesInv, CmdFits, Built, LayerVersions, LayerVersion, NoImage
  <2> QED
    BY <1>0, <2>1, <2>2, <2>3, <2>4 DEF ImagesInv
<1>6. CASE EditConfig
  BY <1>0, <1>6, BackToIdle, ImageStays DEF EditConfig
<1>7. CASE Age
  <2>1. cmd' = Idle(cmd.clock) /\ UNCHANGED <<layers, latest>>
    BY <1>7 DEF Age
  <2>2. CASE image' = image
    BY <1>0, <2>1, <2>2, BackToIdle, ImageStays
  <2>3. CASE Built /\ image' = [image EXCEPT !.pulled = "old"]
    <3>1. DOMAIN image = ImageFields
      BY <2>3 DEF ImagesInv, ImageFits
    <3>2. /\ DOMAIN image' = ImageFields /\ image'.apt = image.apt /\ image'.versions = image.versions
          /\ image'.installs = image.installs /\ image'.labels = image.labels
          /\ image'.stamped = image.stamped
      BY <2>3, <3>1 DEF ImageFields
    <3>3. ImageFits'
      BY <1>0, <2>1, <2>3, <3>2 DEF ImagesInv, ImageFits, LabelsAgree, NamesOf
    <3> QED
      BY <2>1, <3>3, BackToIdle
  <2> QED
    BY <1>7, <2>2, <2>3 DEF Age
<1>8. CASE UNCHANGED imageVars
  BY <1>8 DEF imageVars, ImagesInv, ImageFits, LayersFit, CmdFits, Remembered, Renewed, Built, NoImage,
     LabelsAgree, NamesOf, LayerVersions, LayerVersion
<1> QED
  BY <1>1, <1>2, <1>3, <1>4, <1>5, <1>6, <1>7, <1>8

LEMMA ImagesInvHolds == ImagesSpec => []ImagesInv
<1>1. ImagesInv /\ [ImagesNext]_imageVars => ImagesInv'
  BY BuildKeeps, UpdateKeeps, OfferKeeps, ApplyKeeps, BuildToolKeeps, StampKeeps, OthersKeep DEF ImagesNext
<1> QED
  BY <1>1, ImagesStart, PTL DEF ImagesSpec

\* An update of a labelled image keeps what the image was built with: its layers and their versions,
\* its apt packages and its custom installs (updatespec.go, labels.go).
THEOREM UpdatesKeepWhatWasBuilt == ImagesSpec => []UpdatesForgetNothing
<1>1. ImagesInv => UpdatesForgetNothing
  BY DEF ImagesInv, Remembered, UpdatesForgetNothing, EndedUpdate, Before, After
<1> QED
  BY <1>1, ImagesInvHolds, PTL

\* An update that saw a newer version leaves that version, or a later one, in the image, whatever
\* Docker's layer cache holds (updatespec.go's CacheBust).
THEOREM UpdatesBringNewVersions == ImagesSpec => []NewVersionsArrive
<1>1. ImagesInv => NewVersionsArrive
  <2> SUFFICES ASSUME ImagesInv, EndedUpdate, ~cmd.current PROVE image.tool >= cmd.saw
    BY DEF NewVersionsArrive
  <2>1. image.tool \in Nat /\ cmd.saw <= image.tool /\ cmd.saw \in 0..latest /\ latest \in Nat
    BY DEF ImagesInv, Renewed, CmdFits, EndedUpdate, After, Before
  <2> QED
    BY <2>1
<1> QED
  BY <1>1, ImagesInvHolds, PTL
-----------------------------------------------------------------------------
(***************************************************************************)
(* MsbImages.                                                              *)

Repos  == {"tool", "dockerd"}
Asking == {"dockerd", "build", "building"}
Placed == {"list", "load", "stale", "start"}
Steps  == Asking \cup Placed \cup {"parent", "ref", "running"}
Lookup == [pc : Steps, dind : BOOLEAN, since : Nat, parent : Nat, job : Nat, building : Nat,
           raced : BOOLEAN, id : Nat, have : SUBSET (Repos \X Nat), content : Nat]

MsbTyped ==
  /\ tool \in Nat
  /\ dockerd \in [id : Nat, content : Nat, parent : Nat]
  /\ count \in [tools : Nat, dockerds : Nat]
  /\ refs \subseteq [repo : Repos, tag : Nat, content : Nat]
  /\ vm \in [Vms -> Lookup \cup {NoVm}]

ImagesFit ==
  /\ tool <= count.tools /\ dockerd.id <= count.dockerds
  /\ dockerd.parent <= dockerd.content
  /\ dockerd.id = 0 => dockerd = NoDockerd

\* docker save reads what the name stands for: the image of the tag or, of the tool, a later one.
RefFits(h) ==
  /\ h.repo = "tool" => h.tag <= h.content
  /\ h.repo = "dockerd" => /\ h.tag \in 1..count.dockerds
                           /\ h.tag = dockerd.id => h.content = dockerd.content

\* A number the tool image has had: what Docker has now is no older.
Early(n) == n <= count.tools /\ (tool # 0 => n <= tool)

\* No earlier image than the one the run found first gets in between; the id of a dockerd image
\* under way is new to Docker and to msb.
Fits(v) ==
  v.pc # "off" =>
    /\ Early(v.since)
    /\ v.pc \in Asking \cup {"parent"} => v.dind
    /\ v.pc \in Asking => v.since <= v.parent /\ Early(v.parent)
    /\ v.pc = "building" => /\ v.parent <= v.building
                            /\ v.job \in 1..count.dockerds /\ v.job # dockerd.id
                            /\ \A h \in refs : h.repo = "dockerd" => h.tag # v.job
    /\ v.pc \in Placed /\ ~v.dind => v.since <= v.id /\ Early(v.id)
    /\ v.pc \in Placed /\ v.dind => v.id \in 1..count.dockerds
    /\ v.pc \in Placed /\ v.dind /\ ~v.raced =>
         /\ dockerd.id # 0 => dockerd.id = v.id
         /\ \A h \in refs : h.repo = "dockerd" /\ h.tag = v.id => v.since <= h.content
    /\ v.pc \in Placed \cup {"ref"} /\ v.dind /\ ~v.raced => (dockerd.id # 0 => v.since <= dockerd.content)
    /\ v.pc = "running" /\ ~(v.dind /\ v.raced) => v.since <= v.content

Apart(v, w) ==
  v.pc = "building" => /\ w.pc = "building" => v.job # w.job
                       /\ w.pc \in Placed => (w.dind => v.job # w.id)

MsbInv ==
  /\ MsbTyped /\ ImagesFit
  /\ \A h \in refs : RefFits(h)
  /\ \A r \in Vms : Fits(vm[r])
  /\ \A p, q \in Vms : p # q => Apart(vm[p], vm[q])

\* A step of one run that leaves the images and msb's copies alone.
LEMMA OneRun ==
  ASSUME MsbInv, NEW r \in Vms, NEW v \in Lookup \cup {NoVm}, vm' = [vm EXCEPT ![r] = v],
         UNCHANGED <<tool, dockerd, count, refs>>,
         Fits(v), \A q \in Vms \ {r} : Apart(v, vm[q]) /\ Apart(vm[q], v)
  PROVE  MsbInv'
<1>1. MsbTyped' /\ ImagesFit' /\ \A h \in refs' : RefFits(h)'
  BY DEF MsbInv, MsbTyped, ImagesFit, RefFits
<1>2. vm'[r] = v /\ \A q \in Vms \ {r} : vm'[q] = vm[q]
  BY DEF MsbInv, MsbTyped
<1>3. ASSUME NEW q \in Vms PROVE Fits(vm[q])'
  <2>1. Fits(vm'[q])
    BY <1>2 DEF MsbInv
  <2> QED
    BY <2>1 DEF Fits, Early
<1>4. ASSUME NEW p \in Vms, NEW q \in Vms, p # q PROVE Apart(vm[p], vm[q])'
  <2>1. Apart(vm'[p], vm'[q])
    BY <1>2, <1>4 DEF MsbInv
  <2> QED
    BY <2>1 DEF Apart
<1> QED
  BY <1>1, <1>3, <1>4 DEF MsbInv

LEMMA Active ==
  ASSUME MsbInv, NEW r \in Vms, vm[r].pc # "off"
  PROVE  vm[r] \in Lookup
  BY DEF MsbInv, MsbTyped, NoVm

LEMMA GivesUp ==
  ASSUME MsbInv, NEW r \in Vms, GiveUp(r), UNCHANGED <<tool, dockerd, count, refs>>
  PROVE  MsbInv'
<1>1. Fits(NoVm) /\ \A w : Apart(NoVm, w) /\ Apart(w, NoVm)
  BY DEF Fits, Apart, NoVm, Placed
<1> QED
  BY <1>1, OneRun DEF GiveUp

LEMMA BeginKeeps == ASSUME MsbInv, NEW r \in Vms, Begin(r) PROVE MsbInv'
<1>1. PICK dind \in BOOLEAN :
        vm' = [vm EXCEPT ![r] = [pc |-> IF dind THEN "parent" ELSE "ref", dind |-> dind, since |-> tool,
                                 parent |-> 0, job |-> 0, building |-> 0, raced |-> FALSE, id |-> 0,
                                 have |-> {}, content |-> 0]]
  BY DEF Begin
<1> DEFINE v == [pc |-> IF dind THEN "parent" ELSE "ref", dind |-> dind, since |-> tool, parent |-> 0,
                 job |-> 0, building |-> 0, raced |-> FALSE, id |-> 0, have |-> {}, content |-> 0]
<1>2. v \in Lookup
  BY DEF Lookup, Steps, MsbInv, MsbTyped
<1>3. Fits(v)
  BY DEF Fits, Early, Asking, Placed, MsbInv, MsbTyped, ImagesFit
<1>4. \A w : Apart(v, w) /\ Apart(w, v)
  BY DEF Apart, Placed
<1> HIDE DEF v
<1>5. vm' = [vm EXCEPT ![r] = v]
  BY <1>1 DEF v
<1> QED
  BY <1>2, <1>3, <1>4, <1>5, OneRun DEF Begin

LEMMA InspectParentKeeps == ASSUME MsbInv, NEW r \in Vms, InspectParent(r) PROVE MsbInv'
<1>1. CASE tool = 0
  BY <1>1, GivesUp DEF InspectParent
<1>2. CASE tool # 0
  <2> DEFINE v == [vm[r] EXCEPT !.pc = "dockerd", !.parent = tool]
  <2>1. vm[r] \in Lookup
    BY Active DEF InspectParent
  <2>2. v \in Lookup
    BY <2>1 DEF Lookup, Steps, Asking, MsbInv, MsbTyped
  <2>3. v.pc = "dockerd" /\ v.parent = tool /\ v.since = vm[r].since /\ v.dind = vm[r].dind
    BY <2>1 DEF Lookup
  <2>4. vm' = [vm EXCEPT ![r] = v]
    BY <1>2 DEF InspectParent
  <2> HIDE DEF v
  <2>5. Fits(v)
    BY <1>2, <2>2, <2>3 DEF Fits, Early, Asking, Placed, MsbInv, MsbTyped, ImagesFit, InspectParent, Lookup
  <2>6. \A w : Apart(v, w) /\ Apart(w, v)
    BY <2>3 DEF Apart, Placed
  <2> QED
    BY <2>2, <2>4, <2>5, <2>6, OneRun DEF InspectParent
<1> QED
  BY <1>1, <1>2

LEMMA InspectDockerdKeeps == ASSUME MsbInv, NEW r \in Vms, InspectDockerd(r) PROVE MsbInv'
<1>1. vm[r] \in Lookup /\ vm[r].pc = "dockerd"
  BY Active DEF InspectDockerd
<1>2. Fits(vm[r])
  BY DEF MsbInv
<1>3. CASE IsCurrent(vm[r].parent)
  <2> DEFINE v == [vm[r] EXCEPT !.pc = "ref", !.parent = 0]
  <2>1. v \in Lookup
    BY <1>1 DEF Lookup, Steps
  <2>2. v.pc = "ref" /\ v.since = vm[r].since /\ v.dind = vm[r].dind
    BY <1>1 DEF Lookup
  <2>3. vm' = [vm EXCEPT ![r] = v]
    BY <1>3 DEF InspectDockerd
  <2> HIDE DEF v
  <2>4. vm[r].since <= dockerd.content
    BY <1>1, <1>2, <1>3 DEF Fits, Asking, IsCurrent, MsbInv, MsbTyped, ImagesFit, Lookup
  <2>5. Fits(v)
    BY <1>1, <1>2, <2>2, <2>4 DEF Fits, Asking, Placed
  <2>6. \A w : Apart(v, w) /\ Apart(w, v)
    BY <2>2 DEF Apart, Placed
  <2> QED
    BY <2>1, <2>3, <2>5, <2>6, OneRun DEF InspectDockerd
<1>4. CASE ~IsCurrent(vm[r].parent)
  <2> DEFINE v == [vm[r] EXCEPT !.pc = "build"]
  <2>1. v \in Lookup
    BY <1>1 DEF Lookup, Steps, Asking
  <2>2. v.pc = "build" /\ v.since = vm[r].since /\ v.dind = vm[r].dind /\ v.parent = vm[r].parent
    BY <1>1 DEF Lookup
  <2>3. vm' = [vm EXCEPT ![r] = v]
    BY <1>4 DEF InspectDockerd
  <2> HIDE DEF v
  <2>4. Fits(v)
    BY <1>1, <1>2, <2>2 DEF Fits, Asking, Placed
  <2>5. \A w : Apart(v, w) /\ Apart(w, v)
    BY <2>2 DEF Apart, Placed
  <2> QED
    BY <2>1, <2>3, <2>4, <2>5, OneRun DEF InspectDockerd
<1> QED
  BY <1>3, <1>4

LEMMA MicrosandboxRefKeeps == ASSUME MsbInv, NEW r \in Vms, MicrosandboxRef(r) PROVE MsbInv'
<1>1. CASE ImageId(Repo(r)) = 0
  BY <1>1, GivesUp DEF MicrosandboxRef
<1>2. CASE ImageId(Repo(r)) # 0
  <2> DEFINE v == [vm[r] EXCEPT !.pc = "list", !.id = ImageId(Repo(r))]
  <2>1. vm[r] \in Lookup /\ vm[r].pc = "ref" /\ Fits(vm[r])
    BY Active DEF MicrosandboxRef, MsbInv
  <2>2. ImageId(Repo(r)) = (IF vm[r].dind THEN dockerd.id ELSE tool) /\ ImageId(Repo(r)) \in Nat
    BY DEF ImageId, Repo, MsbInv, MsbTyped
  <2>3. v \in Lookup
    BY <2>1, <2>2 DEF Lookup, Steps, Placed
  <2>4. /\ v.pc = "list" /\ v.since = vm[r].since /\ v.dind = vm[r].dind /\ v.raced = vm[r].raced
        /\ v.id = IF vm[r].dind THEN dockerd.id ELSE tool
    BY <2>1, <2>2 DEF Lookup
  <2>5. vm' = [vm EXCEPT ![r] = v]
    BY <1>2 DEF MicrosandboxRef
  <2> HIDE DEF v
  <2>6. v.since \in Nat /\ v.dind \in BOOLEAN /\ v.raced \in BOOLEAN
    BY <2>3 DEF Lookup
  <2>7. /\ Early(v.since)
        /\ v.dind /\ ~v.raced => (dockerd.id # 0 => v.since <= dockerd.content)
    BY <2>1, <2>4 DEF Fits, Placed
  <2>8. v.dind => v.id \in 1..count.dockerds
    BY <1>2, <2>2, <2>4 DEF MsbInv, MsbTyped, ImagesFit
  <2>9. ~v.dind => v.since <= v.id /\ Early(v.id)
    BY <1>2, <2>2, <2>4, <2>7 DEF Early, MsbInv, MsbTyped, ImagesFit
  <2>10. ASSUME v.dind, ~v.raced
         PROVE  /\ dockerd.id = v.id
                /\ \A h \in refs : h.repo = "dockerd" /\ h.tag = v.id => v.since <= h.content
    BY <1>2, <2>2, <2>4, <2>7, <2>10 DEF MsbInv, RefFits
  <2>11. Fits(v)
    BY <2>4, <2>7, <2>8, <2>9, <2>10 DEF Fits, Asking
  <2>12. \A q \in Vms \ {r} : Apart(v, vm[q]) /\ Apart(vm[q], v)
    <3> SUFFICES ASSUME NEW q \in Vms \ {r}, vm[q].pc = "building", v.dind PROVE vm[q].job # v.id
      BY <2>4 DEF Apart
    <3>1. vm[q].job # dockerd.id
      BY DEF MsbInv, Fits
    <3> QED
      BY <2>4, <3>1
  <2> QED
    BY <2>3, <2>5, <2>11, <2>12, OneRun DEF MicrosandboxRef
<1> QED
  BY <1>1, <1>2

\* Fits and Apart of a run that goes on to another step of the same kind.
LEMMA PlacedOn ==
  ASSUME MsbInv, NEW r \in Vms, NEW v \in Lookup, vm[r].pc \in Placed, v.pc \in Placed, vm' = [vm EXCEPT ![r] = v],
         <<v.since, v.dind, v.raced, v.id>> = <<vm[r].since, vm[r].dind, vm[r].raced, vm[r].id>>,
         UNCHANGED <<tool, dockerd, count, refs>>
  PROVE  MsbInv'
<1>1. Fits(vm[r])
  BY DEF MsbInv
<1>2. v.pc \notin Asking \cup {"parent", "running", "off"} /\ vm[r].pc # "off"
  BY DEF Placed, Asking
<1>3. Fits(v)
  BY <1>1, <1>2 DEF Fits, Asking
<1>4. \A q \in Vms \ {r} : Apart(v, vm[q]) /\ Apart(vm[q], v)
  <2> SUFFICES ASSUME NEW q \in Vms \ {r} PROVE Apart(vm[q], v)
    BY <1>2 DEF Apart, Asking
  <2>1. Apart(vm[q], vm[r])
    BY DEF MsbInv
  <2> QED
    BY <2>1, <1>2 DEF Apart, Asking
<1> QED
  BY <1>3, <1>4, OneRun

LEMMA ImageRefsKeeps == ASSUME MsbInv, NEW r \in Vms, ImageRefs(r) PROVE MsbInv'
<1> DEFINE listed == Ref(r) \in {Name(h) : h \in refs}
           have   == IF listed THEN {} ELSE {Name(h) : h \in refs}
           v      == [vm[r] EXCEPT !.pc = IF listed THEN "start" ELSE "load", !.have = have]
<1>1. vm[r] \in Lookup /\ vm[r].pc = "list"
  BY Active DEF ImageRefs
<1>2. have \subseteq Repos \X Nat
  BY DEF Name, MsbInv, MsbTyped
<1>3. vm' = [vm EXCEPT ![r] = v]
  BY DEF ImageRefs
<1> HIDE DEF listed, have
<1>4. /\ v \in Lookup /\ v.pc \in Placed
      /\ <<v.since, v.dind, v.raced, v.id>> = <<vm[r].since, vm[r].dind, vm[r].raced, vm[r].id>>
  BY <1>1, <1>2 DEF Lookup, Steps, Placed
<1> HIDE DEF v
<1> QED
  BY <1>1, <1>3, <1>4, PlacedOn DEF ImageRefs, Placed

\* The tool image is rebuilt or removed, the dockerd image or copies of msb are removed.
ImagesGo ==
  /\ count.tools <= count'.tools /\ count.dockerds <= count'.dockerds
  /\ tool' \in {0, tool} \/ (tool' = count'.tools /\ count.tools < tool')
  /\ dockerd' \in {dockerd, NoDockerd}
  /\ refs' \subseteq refs

LEMMA GoneImages ==
  ASSUME MsbInv, count' \in [tools : Nat, dockerds : Nat], ImagesGo
  PROVE  /\ ImagesFit' /\ tool' \in Nat /\ dockerd' \in [id : Nat, content : Nat, parent : Nat]
         /\ refs' \subseteq [repo : Repos, tag : Nat, content : Nat]
         /\ \A h \in refs' : RefFits(h)'
         /\ \A v \in Lookup \cup {NoVm} : Fits(v) => Fits(v)'
<1>1. /\ tool' \in Nat /\ dockerd' \in [id : Nat, content : Nat, parent : Nat]
      /\ refs' \subseteq [repo : Repos, tag : Nat, content : Nat]
  BY DEF MsbInv, MsbTyped, ImagesGo, NoDockerd
<1>2. ImagesFit'
  BY <1>1 DEF MsbInv, MsbTyped, ImagesGo, ImagesFit, NoDockerd
<1>3. \A h \in refs' : RefFits(h)'
  <2> SUFFICES ASSUME NEW h \in refs' PROVE RefFits(h)'
    OBVIOUS
  <2>1. h \in refs /\ RefFits(h) /\ h.tag \in Nat
    BY DEF MsbInv, MsbTyped, ImagesGo
  <2> QED
    BY <2>1 DEF RefFits, ImagesGo, NoDockerd, MsbInv, MsbTyped
<1>4. ASSUME NEW n \in Nat, Early(n) PROVE Early(n)'
  BY <1>4 DEF Early, ImagesGo, MsbInv, MsbTyped
<1>5. ASSUME NEW v \in Lookup \cup {NoVm}, Fits(v) PROVE Fits(v)'
  <2> SUFFICES ASSUME v.pc # "off" PROVE Fits(v)'
    BY DEF Fits
  <2>1. v \in Lookup
    BY DEF NoVm
  <2>2. v.since \in Nat /\ v.parent \in Nat /\ v.id \in Nat /\ v.job \in Nat
    BY <2>1 DEF Lookup
  <2>3. /\ Early(v.since) => Early(v.since)'
        /\ Early(v.parent) => Early(v.parent)'
        /\ Early(v.id) => Early(v.id)'
    BY <1>4, <2>2
  <2>4. dockerd'.id # 0 => dockerd' = dockerd
    BY DEF ImagesGo, NoDockerd
  <2>5. \A n \in Nat : n \in 1..count.dockerds => n \in 1..count'.dockerds
    BY DEF ImagesGo, MsbInv, MsbTyped
  <2>6. v.pc = "building" => v.job # dockerd'.id
    BY <1>5, <2>4, <2>2 DEF Fits
  <2>7. v.pc = "building" => \A h \in refs' : h.repo = "dockerd" => h.tag # v.job
    BY <1>5 DEF Fits, ImagesGo
  <2>8. v.pc \in Placed /\ v.dind /\ ~v.raced =>
          \A h \in refs' : h.repo = "dockerd" /\ h.tag = v.id => v.since <= h.content
    BY <1>5, <2>1 DEF Fits, ImagesGo
  <2> QED
    BY <1>5, <2>2, <2>3, <2>4, <2>5, <2>6, <2>7, <2>8 DEF Fits
<1> QED
  BY <1>1, <1>2, <1>3, <1>5

LEMMA RebuildKeeps == ASSUME MsbInv, Rebuild PROVE MsbInv'
<1>1. count' \in [tools : Nat, dockerds : Nat] /\ ImagesGo
  BY DEF Rebuild, ImagesGo, MsbInv, MsbTyped
<1>2. \A r \in Vms : vm'[r] = vm[r] /\ vm[r] \in Lookup \cup {NoVm} /\ Fits(vm[r])
  BY DEF Rebuild, MsbInv, MsbTyped
<1>3. \A r \in Vms : Fits(vm[r])'
  BY <1>1, <1>2, GoneImages DEF Rebuild
<1>4. \A p, q \in Vms : p # q => Apart(vm[p], vm[q])'
  BY DEF Rebuild, MsbInv
<1> QED
  BY <1>1, <1>3, <1>4, GoneImages DEF Rebuild, MsbInv, MsbTyped

LEMMA RemoveImageKeeps == ASSUME MsbInv, NEW repo \in Repos, RemoveImage(repo) PROVE MsbInv'
<1>1. count' \in [tools : Nat, dockerds : Nat] /\ ImagesGo
  BY DEF RemoveImage, ImagesGo, MsbInv, MsbTyped
<1>2. \A r \in Vms : vm'[r] = vm[r] /\ vm[r] \in Lookup \cup {NoVm} /\ Fits(vm[r])
  BY DEF RemoveImage, MsbInv, MsbTyped
<1>3. \A r \in Vms : Fits(vm[r])'
  BY <1>1, <1>2, GoneImages DEF RemoveImage
<1>4. \A p, q \in Vms : p # q => Apart(vm[p], vm[q])'
  BY DEF RemoveImage, MsbInv
<1> QED
  BY <1>1, <1>3, <1>4, GoneImages DEF RemoveImage, MsbInv, MsbTyped

\* The same with a step of one run.
LEMMA OneRunGoesOn ==
  ASSUME MsbInv, count' \in [tools : Nat, dockerds : Nat], ImagesGo,
         NEW r \in Vms, NEW v \in Lookup \cup {NoVm}, vm' = [vm EXCEPT ![r] = v],
         Fits(v)', \A q \in Vms \ {r} : Apart(v, vm[q]) /\ Apart(vm[q], v)
  PROVE  MsbInv'
<1>1. /\ ImagesFit' /\ tool' \in Nat /\ dockerd' \in [id : Nat, content : Nat, parent : Nat]
      /\ refs' \subseteq [repo : Repos, tag : Nat, content : Nat]
      /\ \A h \in refs' : RefFits(h)'
      /\ \A w \in Lookup \cup {NoVm} : Fits(w) => Fits(w)'
  BY GoneImages
<1>2. /\ vm'[r] = v /\ \A q \in Vms \ {r} : vm'[q] = vm[q]
      /\ vm' \in [Vms -> Lookup \cup {NoVm}]
  BY DEF MsbInv, MsbTyped
<1>3. ASSUME NEW q \in Vms PROVE Fits(vm[q])'
  <2>1. CASE q = r
    BY <1>2, <2>1 DEF Fits, Early
  <2>2. CASE q # r
    <3>1. vm'[q] = vm[q] /\ vm[q] \in Lookup \cup {NoVm} /\ Fits(vm[q])
      BY <1>2, <2>2 DEF MsbInv, MsbTyped
    <3> QED
      BY <1>1, <3>1 DEF Fits, Early
  <2> QED
    BY <2>1, <2>2
<1>4. ASSUME NEW p \in Vms, NEW q \in Vms, p # q PROVE Apart(vm[p], vm[q])'
  <2>1. Apart(vm'[p], vm'[q])
    BY <1>2, <1>4 DEF MsbInv
  <2> QED
    BY <2>1 DEF Apart
<1> QED
  BY <1>1, <1>2, <1>3, <1>4 DEF MsbInv, MsbTyped

LEMMA StartBuildKeeps == ASSUME MsbInv, NEW r \in Vms, StartBuild(r) PROVE MsbInv'
<1>1. /\ count' \in [tools : Nat, dockerds : Nat] /\ ImagesGo
      /\ count'.dockerds = count.dockerds + 1 /\ count'.tools = count.tools
  BY DEF StartBuild, ImagesGo, MsbInv, MsbTyped
<1>2. vm[r] \in Lookup /\ vm[r].pc = "build" /\ Fits(vm[r])
  BY Active DEF StartBuild, MsbInv
<1>3. CASE tool = 0
  <2>1. Fits(NoVm)' /\ \A w : Apart(NoVm, w) /\ Apart(w, NoVm)
    BY DEF Fits, Apart, NoVm, Placed
  <2> QED
    BY <1>1, <1>3, <2>1, OneRunGoesOn DEF StartBuild, GiveUp
<1>4. CASE tool # 0
  <2>0. PICK v : v = [vm[r] EXCEPT !.pc = "building", !.building = tool, !.job = count.dockerds + 1]
    OBVIOUS
  <2>1. tool \in Nat /\ count.dockerds + 1 \in Nat
    BY DEF MsbInv, MsbTyped
  <2>2. v \in Lookup
    BY <1>2, <2>0, <2>1 DEF Lookup, Steps, Asking
  <2>3. /\ v.pc = "building" /\ v.building = tool /\ v.job = count.dockerds + 1
        /\ v.since = vm[r].since /\ v.parent = vm[r].parent /\ v.dind = vm[r].dind
    BY <1>2, <2>0 DEF Lookup
  <2>4. vm' = [vm EXCEPT ![r] = v]
    BY <1>4, <2>0 DEF StartBuild
  <2>5. /\ vm[r].dind /\ Early(vm[r].since) /\ Early(vm[r].parent)
        /\ vm[r].since <= vm[r].parent
    BY <1>2 DEF Fits, Asking
  <2>6. v.parent <= v.building
    BY <1>4, <2>3, <2>5 DEF Early
  <2>7. v.job \in 1..count'.dockerds /\ v.job # dockerd'.id
    BY <1>1, <2>3 DEF StartBuild, MsbInv, MsbTyped, ImagesFit
  <2>8. \A h \in refs' : h.repo = "dockerd" => h.tag # v.job
    BY <2>3 DEF StartBuild, MsbInv, MsbTyped, RefFits
  <2>9. Early(v.since)' /\ Early(v.parent)'
    BY <1>1, <2>3, <2>5 DEF Early, StartBuild
  <2>10. Fits(v)'
    BY <2>3, <2>5, <2>6, <2>7, <2>8, <2>9 DEF Fits, Placed, Asking
  <2>11. \A q \in Vms \ {r} : Apart(v, vm[q]) /\ Apart(vm[q], v)
    <3> SUFFICES ASSUME NEW q \in Vms \ {r}
                 PROVE  /\ vm[q].pc = "building" => vm[q].job # v.job
                        /\ vm[q].pc \in Placed => (vm[q].dind => vm[q].id # v.job)
      BY <2>3 DEF Apart, Placed
    <3>1. Fits(vm[q])
      BY DEF MsbInv
    <3> QED
      BY <2>1, <2>3, <3>1 DEF Fits, Placed, MsbInv, MsbTyped
  <2> QED
    BY <1>1, <2>2, <2>4, <2>10, <2>11, OneRunGoesOn
<1> QED
  BY <1>3, <1>4

LEMMA RemoveStaleRefsKeeps == ASSUME MsbInv, NEW r \in Vms, RemoveStaleRefs(r) PROVE MsbInv'
<1>0. PICK v : v = [vm[r] EXCEPT !.pc = "start", !.have = {}]
  OBVIOUS
<1>1. count' \in [tools : Nat, dockerds : Nat] /\ ImagesGo
  BY DEF RemoveStaleRefs, ImagesGo, MsbInv, MsbTyped
<1>2. vm[r] \in Lookup /\ vm[r].pc = "stale" /\ Fits(vm[r])
  BY Active DEF RemoveStaleRefs, MsbInv
<1>3. v \in Lookup
  BY <1>0, <1>2 DEF Lookup, Steps, Placed
<1>4. /\ v.pc = "start"
      /\ <<v.since, v.dind, v.raced, v.id>> = <<vm[r].since, vm[r].dind, vm[r].raced, vm[r].id>>
  BY <1>0, <1>2 DEF Lookup
<1>5. vm' = [vm EXCEPT ![r] = v]
  BY <1>0 DEF RemoveStaleRefs
<1>6. Fits(v)
  BY <1>2, <1>4 DEF Fits, Placed, Asking
<1>7. Fits(v)'
  BY <1>1, <1>3, <1>6, GoneImages
<1>8. \A q \in Vms \ {r} : Apart(v, vm[q]) /\ Apart(vm[q], v)
  <2> SUFFICES ASSUME NEW q \in Vms \ {r} PROVE Apart(vm[q], v)
    BY <1>4 DEF Apart
  <2>1. Apart(vm[q], vm[r])
    BY DEF MsbInv
  <2> QED
    BY <1>2, <1>4, <2>1 DEF Apart, Placed
<1> QED
  BY <1>1, <1>3, <1>5, <1>7, <1>8, OneRunGoesOn

LEMMA StartVmKeeps == ASSUME MsbInv, NEW r \in Vms, StartVm(r) PROVE MsbInv'
<1>1. vm[r] \in Lookup /\ vm[r].pc = "start" /\ Fits(vm[r])
  BY Active DEF StartVm, MsbInv
<1>2. CASE ~\E h \in refs : Name(h) = Ref(r)
  BY <1>2, GivesUp DEF StartVm
<1>3. CASE \E h \in refs : Name(h) = Ref(r)
  <2>1. PICK h \in refs : Name(h) = Ref(r) /\ h = CHOOSE g \in refs : Name(g) = Ref(r)
    BY <1>3
  <2>2. PICK v : v = [vm[r] EXCEPT !.pc = "running", !.content = h.content]
    OBVIOUS
  <2>3. vm' = [vm EXCEPT ![r] = v]
    BY <1>3, <2>1, <2>2 DEF StartVm
  <2>4. h.content \in Nat /\ h.tag \in Nat /\ RefFits(h)
    BY DEF MsbInv, MsbTyped
  <2>5. v \in Lookup
    BY <1>1, <2>2, <2>4 DEF Lookup, Steps
  <2>6. v.pc = "running" /\ <<v.since, v.dind, v.raced>> = <<vm[r].since, vm[r].dind, vm[r].raced>>
        /\ v.content = h.content
    BY <1>1, <2>2 DEF Lookup
  <2>7. h.repo = Repo(r) /\ h.tag = vm[r].id
    BY <2>1 DEF Name, Ref
  <2>8. /\ Early(vm[r].since) /\ vm[r].since \in Nat /\ vm[r].id \in Nat
        /\ ~vm[r].dind => vm[r].since <= vm[r].id
        /\ vm[r].dind /\ ~vm[r].raced => (h.repo = "dockerd" => vm[r].since <= h.content)
    BY <1>1, <2>7 DEF Fits, Placed, Lookup
  <2>9. ~(v.dind /\ v.raced) => v.since <= v.content
    BY <2>4, <2>6, <2>7, <2>8 DEF Repo, RefFits
  <2>10. Fits(v)
    BY <2>6, <2>8, <2>9 DEF Fits, Asking, Placed
  <2>11. \A w : Apart(v, w) /\ Apart(w, v)
    BY <2>6 DEF Apart, Placed
  <2> QED
    BY <2>3, <2>5, <2>10, <2>11, OneRun DEF StartVm
<1> QED
  BY <1>2, <1>3

LEMMA LoadIntoMicrosandboxKeeps == ASSUME MsbInv, NEW r \in Vms, LoadIntoMicrosandbox(r) PROVE MsbInv'
<1>1. vm[r] \in Lookup /\ vm[r].pc = "load" /\ Fits(vm[r])
  BY Active DEF LoadIntoMicrosandbox, MsbInv
<1>2. CASE Content(Repo(r)) = 0
  BY <1>2, GivesUp DEF LoadIntoMicrosandbox
<1>3. CASE Content(Repo(r)) # 0
  <2>1. PICK new : new = [repo |-> Repo(r), tag |-> vm[r].id, content |-> Content(Repo(r))]
    OBVIOUS
  <2>2. PICK v : v = [vm[r] EXCEPT !.pc = "stale"]
    OBVIOUS
  <2>3. /\ refs' = {h \in refs : Name(h) # Ref(r)} \cup {new}
        /\ vm' = [vm EXCEPT ![r] = v] /\ UNCHANGED <<tool, dockerd, count>>
    BY <1>3, <2>1, <2>2 DEF LoadIntoMicrosandbox, Advance
  <2>4. v \in Lookup
    BY <1>1, <2>2 DEF Lookup, Steps, Placed
  <2>5. /\ v.pc = "stale"
        /\ <<v.since, v.dind, v.raced, v.id>> = <<vm[r].since, vm[r].dind, vm[r].raced, vm[r].id>>
    BY <1>1, <2>2 DEF Lookup
  <2>6. /\ new.repo = IF vm[r].dind THEN "dockerd" ELSE "tool"
        /\ new.tag = vm[r].id /\ new.tag \in Nat
        /\ new.content = IF vm[r].dind THEN dockerd.content ELSE tool
        /\ new.content \in Nat \ {0}
    BY <1>1, <1>3, <2>1 DEF Repo, Content, MsbInv, MsbTyped, Lookup
  <2>7. new \in [repo : Repos, tag : Nat, content : Nat]
    BY <2>1, <2>6 DEF Repos
  <2>8. MsbTyped' /\ ImagesFit'
    BY <2>3, <2>4, <2>7 DEF MsbInv, MsbTyped, ImagesFit
  <2>9. /\ ~vm[r].dind => Early(vm[r].id)
        /\ vm[r].dind => vm[r].id \in 1..count.dockerds
    BY <1>1 DEF Fits, Placed
  <2>10. RefFits(new)
    BY <2>6, <2>9 DEF RefFits, Early
  <2>11. \A h \in refs' : RefFits(h)'
    <3> SUFFICES ASSUME NEW h \in refs' PROVE RefFits(h)'
      OBVIOUS
    <3>1. RefFits(h)
      BY <2>3, <2>10 DEF MsbInv
    <3> QED
      BY <2>3, <3>1 DEF RefFits
  <2>12. /\ vm'[r] = v /\ \A q \in Vms \ {r} : vm'[q] = vm[q]
    BY <2>3 DEF MsbInv, MsbTyped
  <2>13. \A p, q \in Vms : p # q => Apart(vm[p], vm[q])'
    <3> SUFFICES ASSUME NEW p \in Vms, NEW q \in Vms, p # q PROVE Apart(vm'[p], vm'[q])
      BY DEF Apart
    <3>1. Apart(vm[p], vm[q])
      BY DEF MsbInv
    <3> QED
      BY <1>1, <2>5, <2>12, <3>1 DEF Apart, Placed
  <2>14. Fits(v)
    BY <1>1, <2>5 DEF Fits, Placed, Asking
  <2>15. ASSUME NEW q \in Vms PROVE Fits(vm[q])'
    <3>1. PICK w : w = vm'[q]
      OBVIOUS
    <3>2. w \in Lookup \cup {NoVm} /\ Fits(w)
      BY <2>4, <2>12, <2>14, <3>1 DEF MsbInv, MsbTyped
    <3>3. w.pc = "building" => (vm[r].dind => w.job # vm[r].id)
      <4>1. w.pc = "building" => q # r /\ w = vm[q]
        BY <2>5, <2>12, <3>1
      <4>2. q # r => Apart(vm[q], vm[r])
        BY DEF MsbInv
      <4> QED
        BY <1>1, <4>1, <4>2 DEF Apart, Placed
    <3>4. new.repo = "dockerd" => dockerd.id # 0 /\ new.content = dockerd.content
      BY <2>6 DEF MsbInv, ImagesFit, NoDockerd
    <3> SUFFICES ASSUME w.pc # "off" PROVE Fits(w)'
      BY <3>1 DEF Fits, Early
    <3>5. w.pc = "building" => \A h \in refs' : h.repo = "dockerd" => h.tag # w.job
      BY <2>3, <2>6, <3>2, <3>3 DEF Fits
    <3>6. ASSUME w.pc \in Placed, w.dind, ~w.raced
          PROVE  \A h \in refs' : h.repo = "dockerd" /\ h.tag = w.id => w.since <= h.content
      <4>1. \A h \in refs : h.repo = "dockerd" /\ h.tag = w.id => w.since <= h.content
        BY <3>2, <3>6 DEF Fits
      <4>2. dockerd.id # 0 => w.since <= dockerd.content
        BY <3>2, <3>6 DEF Fits
      <4> QED
        BY <2>3, <3>4, <4>1, <4>2
    <3>7. \A n : Early(n) => Early(n)'
      BY <2>3 DEF Early
    <3> QED
      BY <2>3, <3>2, <3>5, <3>6, <3>7 DEF Fits
  <2> QED
    BY <2>8, <2>11, <2>13, <2>15 DEF MsbInv
<1> QED
  BY <1>2, <1>3

LEMMA BuildDockerdImageKeeps == ASSUME MsbInv, NEW r \in Vms, BuildDockerdImage(r) PROVE MsbInv'
<1>1. vm[r] \in Lookup /\ vm[r].pc = "building"
  BY Active DEF BuildDockerdImage
<1>2. /\ vm[r].dind /\ Early(vm[r].since) /\ vm[r].since <= vm[r].parent
      /\ vm[r].parent <= vm[r].building /\ vm[r].job \in 1..count.dockerds /\ vm[r].job # dockerd.id
      /\ \A h \in refs : h.repo = "dockerd" => h.tag # vm[r].job
  BY <1>1 DEF MsbInv, Fits, Asking
<1>3. /\ vm[r].since \in Nat /\ vm[r].parent \in Nat /\ vm[r].building \in Nat /\ vm[r].job \in Nat
  BY <1>1 DEF Lookup
<1>4. /\ dockerd' = [id |-> vm[r].job, content |-> vm[r].building, parent |-> vm[r].parent]
      /\ UNCHANGED <<tool, count, refs>>
  BY DEF BuildDockerdImage
<1>5. \A q \in Vms : vm'[q] = IF q = r
                             THEN [vm[r] EXCEPT !.pc = "ref", !.parent = 0, !.job = 0, !.building = 0]
                             ELSE IF vm[q].pc # "off" /\ vm[q].dind THEN [vm[q] EXCEPT !.raced = TRUE]
                             ELSE vm[q]
  BY DEF BuildDockerdImage
<1>6. [vm[r] EXCEPT !.pc = "ref", !.parent = 0, !.job = 0, !.building = 0] \in Lookup
  BY <1>1 DEF Lookup, Steps
<1>7. \A v \in Lookup : [v EXCEPT !.raced = TRUE] \in Lookup
  BY DEF Lookup
<1>8. MsbTyped' /\ ImagesFit'
  <2>1. \A q \in Vms : vm'[q] \in Lookup \cup {NoVm}
    <3> SUFFICES ASSUME NEW q \in Vms PROVE vm'[q] \in Lookup \cup {NoVm}
      OBVIOUS
    <3>1. vm[q] \in Lookup \cup {NoVm}
      BY DEF MsbInv, MsbTyped
    <3>2. vm[q].pc # "off" => vm[q] \in Lookup
      BY <3>1 DEF NoVm
    <3>3. CASE q = r
      BY <1>5, <1>6, <3>3
    <3>4. CASE q # r /\ vm[q].pc # "off" /\ vm[q].dind
      BY <1>5, <1>7, <3>2, <3>4
    <3>5. CASE q # r /\ ~(vm[q].pc # "off" /\ vm[q].dind)
      BY <1>5, <3>1, <3>5
    <3> QED BY <3>3, <3>4, <3>5
  <2>2. vm' \in [Vms -> Lookup \cup {NoVm}]
    BY <2>1 DEF BuildDockerdImage
  <2> QED
    BY <1>2, <1>3, <1>4, <2>2 DEF MsbInv, MsbTyped, ImagesFit
<1>9. \A h \in refs' : RefFits(h)'
  BY <1>2, <1>4 DEF MsbInv, RefFits
<1>10. /\ vm'[r].pc = "ref" /\ vm'[r].since = vm[r].since
       /\ \A q \in Vms \ {r} : /\ vm'[q].pc = vm[q].pc
                               /\ vm[q].pc # "off" =>
                                    /\ <<vm'[q].since, vm'[q].parent, vm'[q].building, vm'[q].job, vm'[q].id>>
                                         = <<vm[q].since, vm[q].parent, vm[q].building, vm[q].job, vm[q].id>>
                                    /\ vm'[q].dind = vm[q].dind /\ vm'[q].content = vm[q].content
                                    /\ IF vm[q].dind THEN vm'[q].raced ELSE vm'[q].raced = vm[q].raced
  <2>1. vm'[r].pc = "ref" /\ vm'[r].since = vm[r].since
    BY <1>1, <1>5 DEF Lookup
  <2> SUFFICES ASSUME NEW q \in Vms \ {r}
               PROVE  /\ vm'[q].pc = vm[q].pc
                      /\ vm[q].pc # "off" =>
                           /\ <<vm'[q].since, vm'[q].parent, vm'[q].building, vm'[q].job, vm'[q].id>>
                                = <<vm[q].since, vm[q].parent, vm[q].building, vm[q].job, vm[q].id>>
                           /\ vm'[q].dind = vm[q].dind /\ vm'[q].content = vm[q].content
                           /\ IF vm[q].dind THEN vm'[q].raced ELSE vm'[q].raced = vm[q].raced
    BY <2>1
  <2>2. CASE vm[q].pc # "off" /\ vm[q].dind
    <3>1. vm[q] \in Lookup /\ vm'[q] = [vm[q] EXCEPT !.raced = TRUE]
      BY <1>5, <2>2, Active
    <3>2. ASSUME NEW v \in Lookup, NEW w, w = [v EXCEPT !.raced = TRUE]
          PROVE  /\ w.pc = v.pc /\ w.since = v.since /\ w.parent = v.parent /\ w.building = v.building
                 /\ w.job = v.job /\ w.id = v.id /\ w.dind = v.dind /\ w.content = v.content /\ w.raced
      BY <3>2 DEF Lookup
    <3>3. /\ vm'[q].pc = vm[q].pc /\ vm'[q].since = vm[q].since /\ vm'[q].parent = vm[q].parent
          /\ vm'[q].building = vm[q].building /\ vm'[q].job = vm[q].job /\ vm'[q].id = vm[q].id
          /\ vm'[q].dind = vm[q].dind /\ vm'[q].content = vm[q].content /\ vm'[q].raced
      BY <3>1, <3>2
    <3> QED
      BY <2>2, <3>3
  <2>3. CASE ~(vm[q].pc # "off" /\ vm[q].dind)
    BY <1>5, <2>3
  <2> QED
    BY <2>2, <2>3
<1>11. \A p, q \in Vms : p # q => Apart(vm[p], vm[q])'
  <2> SUFFICES ASSUME NEW p \in Vms, NEW q \in Vms, p # q PROVE Apart(vm'[p], vm'[q])
    BY DEF Apart
  <2>1. Apart(vm[p], vm[q])
    BY DEF MsbInv
  <2> QED
    BY <1>10, <2>1 DEF Apart, Placed
<1>12. ASSUME NEW q \in Vms PROVE Fits(vm[q])'
  <2>1. \A n : Early(n) => Early(n)'
    BY <1>4 DEF Early
  <2>2. CASE q = r
    <3>1. PICK w : w = vm'[r]
      OBVIOUS
    <3>2. w.pc = "ref" /\ w.since <= dockerd'.content /\ Early(w.since)
      BY <1>2, <1>3, <1>4, <1>10, <3>1
    <3>3. Fits(w)'
      BY <2>1, <3>2 DEF Fits, Asking, Placed
    <3> QED
      BY <2>2, <3>1, <3>3 DEF Fits, Early
  <2>3. CASE q # r /\ vm[q].pc # "off"
    <3>1. Fits(vm[q]) /\ Apart(vm[r], vm[q])
      BY <2>3 DEF MsbInv
    <3>2. vm[q].pc = "building" => vm[q].job # dockerd'.id
      BY <1>1, <1>4, <3>1 DEF Apart
    <3> QED
      BY <1>4, <1>10, <2>1, <2>3, <3>1, <3>2 DEF Fits, Asking, Placed
  <2>4. CASE q # r /\ vm[q].pc = "off"
    BY <1>10, <2>4 DEF Fits
  <2> QED
    BY <2>2, <2>3, <2>4
<1> QED
  BY <1>8, <1>9, <1>11, <1>12 DEF MsbInv

LEMMA MsbStart == MsbInit => MsbInv
  BY DEF MsbInit, MsbInv, MsbTyped, ImagesFit, RefFits, Fits, Apart, NoVm, NoDockerd

LEMMA MsbStep == MsbInv /\ [MsbNext]_msbVars => MsbInv'
<1> SUFFICES ASSUME MsbInv, [MsbNext]_msbVars PROVE MsbInv'
  OBVIOUS
<1>1. ASSUME NEW r \in Vms, \/ Begin(r) \/ InspectParent(r) \/ InspectDockerd(r) \/ StartBuild(r)
                            \/ BuildDockerdImage(r) \/ MicrosandboxRef(r) \/ ImageRefs(r)
                            \/ LoadIntoMicrosandbox(r) \/ RemoveStaleRefs(r) \/ StartVm(r)
      PROVE  MsbInv'
  BY <1>1, BeginKeeps, InspectParentKeeps, InspectDockerdKeeps, StartBuildKeeps, BuildDockerdImageKeeps,
     MicrosandboxRefKeeps, ImageRefsKeeps, LoadIntoMicrosandboxKeeps, RemoveStaleRefsKeeps, StartVmKeeps
<1>2. ASSUME NEW r \in Vms, EndVm(r) PROVE MsbInv'
  BY <1>2, GivesUp DEF EndVm
<1>3. CASE Rebuild
  BY <1>3, RebuildKeeps
<1>4. CASE \E repo \in {"tool", "dockerd"} : RemoveImage(repo)
  BY <1>4, RemoveImageKeeps DEF Repos
<1>5. CASE UNCHANGED msbVars
  BY <1>5 DEF msbVars, MsbInv, MsbTyped, ImagesFit, RefFits, Fits, Early, Apart
<1> QED
  BY <1>1, <1>2, <1>3, <1>4, <1>5 DEF MsbNext

\* However many runs prepare their images at the same time, and whatever is rebuilt or removed
\* meanwhile, a VM runs no earlier tool image than the one its run found in Docker, unless another
\* run built the dockerd image at the same time (microsandbox.go).
THEOREM NoVmIsStale == MsbSpec => []VmsAreNotStale
<1>1. MsbInv => VmsAreNotStale
  <2> SUFFICES ASSUME MsbInv, NEW r \in Vms, vm[r].pc = "running", ~(vm[r].dind /\ vm[r].raced)
               PROVE  vm[r].content >= vm[r].since
    BY DEF VmsAreNotStale
  <2>1. vm[r] \in Lookup /\ Fits(vm[r])
    BY Active DEF MsbInv
  <2> QED
    BY <2>1 DEF Fits, Lookup
<1> QED
  BY <1>1, MsbStart, MsbStep, PTL DEF MsbSpec
=============================================================================
