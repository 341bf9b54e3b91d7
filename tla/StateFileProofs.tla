-------------------------- MODULE StateFileProofs --------------------------
(***************************************************************************)
(* What a run acts on, for any number of runs, directories and settings.   *)
(* A run compares what it read with a copy of state.json that may be stale *)
(* in every way but one: whatever it says was approved, the user approved  *)
(* at some time.  That, and which layers a run has still to check, is the  *)
(* invariant; what one run does leaves the others' part of it alone.       *)
(***************************************************************************)
EXTENDS StateFile, TLAPS

Genuine(state) == \A d \in Dirs : state.approved[d] \in given[d] /\ (d \in state.trusted => d \in trusts)

Trusted(r) == Above[work[r]] \cap trusts # {}

Checking(r) == pc[r] = "settings" \/ Saving(r, {"settings"})

UpgradeChecks(r) == pc[r] \in {"upgrade", "fetch", "upgraded"} \/ Saving(r, {"upgrade"})

\* Where a process is tells which checks it is in.
StageKnown(r) == /\ PastChecks(r) => stage[r] = "run"
                 /\ UpgradeChecks(r) \/ pc[r] = "idle" => stage[r] = "context"

\* The layers a process has checked hold what the user approved, the one it is saving an answer for too.
LayersChecked(r) ==
  /\ Checking(r) => \A d \in DOMAIN layers[r] \ left[r] : layers[r][d] \in given[d]
  /\ Saving(r, {"settings"}) => \A d \in Dirs : IsNext(r, d) => layers[r][d] \in given[d]

\* From the answer or the check on, the directory is trusted.
TrustChecked(r) ==
  /\ /\ pc[r] = "loadSettings" \/ Checking(r) \/ Saving(r, {"trust"})
     /\ stage[r] = "run" \/ OwnContext(r)
     => Trusted(r)
  /\ PastChecks(r) \/ (PastContext(r) /\ OwnContext(r)) => Trusted(r)

ApprovedLayers(r) == Acts(r) => \A d \in DOMAIN layers[r] : layers[r][d] \in given[d]

RunInv(r) == /\ Genuine(mem[r]) /\ StageKnown(r) /\ LayersChecked(r)
             /\ TrustChecked(r) /\ ApprovedLayers(r)

SharedInv == Genuine(disk) /\ \A d \in Dirs : {} \in given[d]

IInv == TypeOK /\ SharedInv /\ \A r \in Runs : RunInv(r)
-----------------------------------------------------------------------------
(* Types.                                                                  *)

LEMMA NoStateTyped == NoState \in States
  BY StateFileAssumption DEF NoState, States

LEMMA LayersTyped ==
  ASSUME NEW found \in SUBSET Dirs, NEW f \in [found -> Contents]
  PROVE  f \in Layers
  BY DEF Layers

LEMMA NoLayersTyped == <<>> \in Layers /\ DOMAIN <<>> = {}
<1>1. <<>> \in [{} -> Contents] /\ DOMAIN <<>> = {} OBVIOUS
<1> QED BY <1>1, LayersTyped

LEMMA LayersRead ==
  ASSUME TypeOK, NEW l \in Layers
  PROVE  /\ DOMAIN l \subseteq Dirs
         /\ \A d \in DOMAIN l : l[d] \in Contents
  BY DEF Layers

LEMMA FoundTyped ==
  ASSUME TypeOK, NEW w \in WorkDirs
  PROVE  FindLayers(w) \in Layers
<1> DEFINE Found == {d \in Above[w] \cap files : ~\E e \in Above[w] : HidesAbove(e, d)}
<1>1. Found \in SUBSET Dirs BY StateFileAssumption DEF TypeOK
<1>2. \A d \in Found : config[d] \in Contents BY <1>1 DEF TypeOK
<1>3. FindLayers(w) \in [Found -> Contents] BY <1>2 DEF FindLayers
<1> QED BY <1>1, <1>3, LayersTyped

LEMMA InitInv == Init => IInv
<1> SUFFICES ASSUME Init PROVE IInv OBVIOUS
<1>1. TypeOK BY StateFileAssumption, NoStateTyped, NoLayersTyped DEF Init, TypeOK, PC
<1>2. SharedInv BY DEF Init, SharedInv, Genuine, NoState
<1>3. ASSUME NEW r \in Runs PROVE RunInv(r)
  BY DEF Init, RunInv, Genuine, NoState, StageKnown, LayersChecked, TrustChecked, ApprovedLayers, Acts,
     PastChecks, PastContext, Checking, UpgradeChecks, Saving
<1> QED BY <1>1, <1>2, <1>3 DEF IInv

LEMMA QuitTyped ==
  ASSUME TypeOK, NEW r \in Runs, Quit(r)
  PROVE  /\ pc' \in [Runs -> PC] /\ stage' \in [Runs -> {"context", "run"}]
         /\ layers' \in [Runs -> Layers] /\ left' \in [Runs -> SUBSET Dirs]
         /\ mem' \in [Runs -> States]
         /\ asked' \in [Runs -> {"trust", "settings", "upgrade", "tool"}]
         /\ \A q \in Runs : left'[q] \subseteq DOMAIN layers'[q] /\ (pc'[q] = "idle" => left'[q] = {})
<1>1. mem' \in [Runs -> States] BY NoStateTyped DEF Quit, Forget, TypeOK
<1>2. layers' \in [Runs -> Layers] BY NoLayersTyped DEF Quit, TypeOK
<1>3. \A q \in Runs : left'[q] \subseteq DOMAIN layers'[q] /\ (pc'[q] = "idle" => left'[q] = {})
  BY DEF Quit, Goto, TypeOK
<1> QED BY <1>1, <1>2, <1>3 DEF Quit, Goto, TypeOK, PC

LEMMA AfterSaveTyped ==
  ASSUME TypeOK, NEW r \in Runs
  PROVE  AfterSave(r) \in PC \ {"idle"}
<1>1. asked[r] \in {"trust", "settings", "upgrade", "tool"} BY DEF TypeOK
<1> QED BY <1>1 DEF AfterSave, PC

LEMMA CheckStepTyped ==
  ASSUME TypeOK, NEW r \in Runs, CheckStep(r) \/ End(r)
  PROVE  TypeOK'
<1>1. CASE SkipContext(r) BY <1>1 DEF SkipContext, Goto, TypeOK, PC, configVars, diskVars, userVars
<1>2. CASE LoadTrust(r)
  <2>1. CASE Quit(r) BY <1>2, <2>1, QuitTyped DEF LoadTrust, Keep, TypeOK, configVars, diskVars, userVars
  <2>2. CASE ~Quit(r)
    BY <1>2, <2>2 DEF LoadTrust, Goto, Keep, TypeOK, PC, configVars, diskVars, userVars
  <2> QED BY <2>1, <2>2
<1>3. CASE AnswerTrust(r)
  <2>1. work[r] \in Dirs /\ mem[r] \in States BY StateFileAssumption DEF TypeOK
  <2>2. mem'[r] = [mem[r] EXCEPT !.trusted = @ \cup {work[r]}] BY <1>3 DEF AnswerTrust, TypeOK
  <2>3. mem'[r] \in States BY <2>1, <2>2 DEF States
  <2>4. mem' \in [Runs -> States] BY <1>3, <2>3 DEF AnswerTrust, TypeOK
  <2> QED BY <1>3, <2>1, <2>4 DEF AnswerTrust, Goto, TypeOK, PC, configVars, diskVars
<1>4. CASE LoadSettings(r)
  <2>1. CASE Quit(r) BY <1>4, <2>1, QuitTyped DEF LoadSettings, Keep, TypeOK, configVars, diskVars, userVars
  <2>2. CASE ~Quit(r)
    <3>1. DOMAIN layers[r] \subseteq Dirs BY LayersRead DEF TypeOK
    <3> QED BY <1>4, <2>2, <3>1 DEF LoadSettings, EveryFile, Goto, Keep, TypeOK, PC, configVars, diskVars, userVars
  <2> QED BY <2>1, <2>2
<1>5. CASE SkipLayer(r) BY <1>5 DEF SkipLayer, TypeOK, configVars, diskVars, userVars
<1>6. CASE AnswerSettings(r)
  <2> PICK d \in Dirs : AnswerSettings(r)!(d) BY <1>6 DEF AnswerSettings
  <2>1. d \in DOMAIN layers[r] BY DEF IsNext, TypeOK
  <2>2. layers[r][d] \in Contents BY <2>1, LayersRead DEF TypeOK
  <2>3. mem[r] \in States /\ mem'[r] = [mem[r] EXCEPT !.approved = [@ EXCEPT ![d] = layers[r][d]]]
    BY DEF TypeOK, Approved
  <2>4. [mem[r].approved EXCEPT ![d] = layers[r][d]] \in [Dirs -> Contents] BY <2>2, <2>3 DEF States
  <2>7. mem'[r] \in States BY <2>3, <2>4 DEF States
  <2>5. mem' \in [Runs -> States] BY <2>7 DEF TypeOK
  <2>6. given' \in [Dirs -> SUBSET Contents] BY <2>2 DEF TypeOK
  <2> QED BY <2>5, <2>6 DEF Goto, TypeOK, PC, configVars, diskVars
<1>7. CASE EndSettings(r)
  <2>1. mem' \in [Runs -> States] BY <1>7, NoStateTyped DEF EndSettings, Forget, TypeOK
  <2> QED BY <1>7, <2>1 DEF EndSettings, Goto, TypeOK, PC, configVars, diskVars, userVars
<1>8. CASE End(r) BY <1>8, QuitTyped DEF End, Keep, TypeOK, configVars, diskVars, userVars
<1> QED BY <1>1, <1>2, <1>3, <1>4, <1>5, <1>6, <1>7, <1>8 DEF CheckStep

LEMMA SaveStepTyped ==
  ASSUME TypeOK, NEW r \in Runs, SaveStep(r)
  PROVE  TypeOK'
<1>1. CASE Truncate(r)
  BY <1>1, NoStateTyped DEF Truncate, Goto, TypeOK, PC, configVars, userVars
<1>2. CASE Write(r)
  <2>1. mem[r] \in States BY DEF TypeOK
  <2>2. status' \in {"ok", "empty", "garbled"} /\ disk' \in States BY <1>2, <2>1, NoStateTyped DEF Write
  <2>3. mem' \in [Runs -> States] BY <1>2, NoStateTyped DEF Write, Forget, TypeOK
  <2>4. /\ left' \in [Runs -> SUBSET Dirs] /\ \A q \in Runs : left'[q] \subseteq DOMAIN layers'[q]
        /\ last' \in [Dirs -> Contents]
    <3>1. CASE UNCHANGED <<left, last>> BY <1>2, <3>1 DEF Write, TypeOK
    <3>2. CASE ~UNCHANGED <<left, last>>
      <4>1. PICK d \in Dirs : /\ IsNext(r, d)
                            /\ left' = [left EXCEPT ![r] = @ \ {d}]
                            /\ last' = [last EXCEPT ![d] = layers[r][d]]
        BY <1>2, <3>2 DEF Write
      <4>2. d \in DOMAIN layers[r] BY <4>1 DEF IsNext, TypeOK
      <4>3. layers[r][d] \in Contents BY <4>2, LayersRead DEF TypeOK
      <4> QED BY <1>2, <4>1, <4>3 DEF Write, TypeOK
    <3> QED BY <3>1, <3>2
  <2>5. pc' \in [Runs -> PC] /\ pc'[r] # "idle" BY <1>2, AfterSaveTyped DEF Write, Goto, TypeOK
  <2>6. \A q \in Runs : pc'[q] = "idle" => left'[q] = {}
    BY <1>2, <2>4, <2>5 DEF Write, Goto, TypeOK
  <2> QED BY <1>2, <2>2, <2>3, <2>4, <2>5, <2>6 DEF Write, TypeOK, configVars
<1>3. CASE SaveFails(r)
  <2>1. mem' \in [Runs -> States] BY <1>3, NoStateTyped DEF SaveFails, Forget, TypeOK
  <2>2. pc' \in [Runs -> PC] /\ pc'[r] # "idle" BY <1>3, AfterSaveTyped DEF SaveFails, Goto, TypeOK
  <2>3. \A q \in Runs : pc'[q] = "idle" => left'[q] = {} BY <1>3, <2>2 DEF SaveFails, Goto, TypeOK
  <2> QED BY <1>3, <2>1, <2>2, <2>3 DEF SaveFails, TypeOK, configVars, diskVars, userVars
<1> QED BY <1>1, <1>2, <1>3 DEF SaveStep

LEMMA UpdateStepTyped ==
  ASSUME TypeOK, NEW r \in Runs, UpdateStep(r)
  PROVE  TypeOK'
<1>1. CASE FetchRelease(r) BY <1>1 DEF FetchRelease, Goto, TypeOK, PC, configVars, diskVars, userVars
<1>2. CASE SaveUpgradeCheck(r) BY <1>2 DEF SaveUpgradeCheck, Goto, TypeOK, PC, configVars, diskVars, userVars
<1>3. CASE EndUpgradeCheck(r)
  <2>1. mem' \in [Runs -> States] BY <1>3, NoStateTyped DEF EndUpgradeCheck, Forget, TypeOK
  <2> QED BY <1>3, <2>1 DEF EndUpgradeCheck, Goto, TypeOK, PC, configVars, diskVars, userVars
<1>4. CASE CheckTool(r) BY <1>4 DEF CheckTool, Goto, TypeOK, PC, configVars, diskVars, userVars
<1>5. CASE MarkChecked(r) BY <1>5 DEF MarkChecked, Goto, TypeOK, PC, configVars, diskVars, userVars
<1> QED BY <1>1, <1>2, <1>3, <1>4, <1>5 DEF UpdateStep

LEMMA RunStepTyped ==
  ASSUME TypeOK, NEW r \in Runs, (\E w \in WorkDirs : Begin(r, w)) \/ ResolveCredentials(r)
  PROVE  TypeOK'
<1>1. CASE \E w \in WorkDirs : Begin(r, w)
  <2> PICK w \in WorkDirs : Begin(r, w) BY <1>1
  <2>1. FindLayers(w) \in Layers BY FoundTyped
  <2>2. layers' \in [Runs -> Layers] BY <2>1 DEF Begin, TypeOK
  <2>3. \A q \in Runs : left'[q] \subseteq DOMAIN layers'[q] BY DEF Begin, TypeOK
  <2> QED BY <2>2, <2>3 DEF Begin, Goto, TypeOK, PC, configVars, diskVars, userVars
<1>2. CASE ResolveCredentials(r)
  <2>1. CASE Quit(r) BY <1>2, <2>1, QuitTyped DEF ResolveCredentials, Keep, TypeOK, configVars, diskVars, userVars
  <2>2. CASE ~Quit(r)
    BY <1>2, <2>2 DEF ResolveCredentials, Goto, Keep, TypeOK, PC, configVars, diskVars, userVars
  <2> QED BY <2>1, <2>2
<1> QED BY <1>1, <1>2

LEMMA WorldTyped ==
  ASSUME TypeOK, \/ \E d \in Dirs : Edit(d) \/ DeleteFile(d) \/ RevokeApproval(d) \/ RevokeTrust(d)
                 \/ DeleteState
  PROVE  TypeOK'
<1>1. ASSUME NEW d \in Dirs, Edit(d) \/ DeleteFile(d) PROVE TypeOK'
  <2>1. PICK set \in Contents : config' = [config EXCEPT ![d] = set]
    BY <1>1, StateFileAssumption DEF Edit, DeleteFile
  <2>2. files' \subseteq Dirs /\ UNCHANGED <<diskVars, procVars, userVars>>
    BY <1>1 DEF Edit, DeleteFile, TypeOK
  <2> QED BY <2>1, <2>2 DEF TypeOK, diskVars, procVars, userVars
<1>2. ASSUME NEW d \in Dirs, RevokeApproval(d) \/ RevokeTrust(d) PROVE TypeOK'
  <2>1. disk' \in States
    <3>1. disk \in States BY DEF TypeOK
    <3>2. [disk.approved EXCEPT ![d] = {}] \in [Dirs -> Contents] BY <3>1, StateFileAssumption DEF States
    <3>3. CASE RevokeApproval(d)
      <4>1. disk' = [disk EXCEPT !.approved = [@ EXCEPT ![d] = {}]] BY <3>3 DEF RevokeApproval
      <4> QED BY <3>1, <3>2, <4>1 DEF States
    <3>4. CASE RevokeTrust(d) BY <3>1, <3>4 DEF RevokeTrust, States
    <3> QED BY <1>2, <3>3, <3>4
  <2>2. last' \in [Dirs -> Contents]
    <3>1. last' = [last EXCEPT ![d] = {}] \/ last' = last BY <1>2 DEF RevokeApproval, RevokeTrust, userVars
    <3>2. last \in [Dirs -> Contents] /\ {} \in Contents BY StateFileAssumption DEF TypeOK
    <3>3. [last EXCEPT ![d] = {}] \in [Dirs -> Contents] BY <3>2
    <3> QED BY <3>1, <3>2, <3>3
  <2> QED BY <1>2, <2>1, <2>2 DEF RevokeApproval, RevokeTrust, TypeOK, configVars, procVars, userVars
<1>3. CASE DeleteState
  BY <1>3, NoStateTyped, StateFileAssumption DEF DeleteState, TypeOK, configVars, procVars
<1> QED BY <1>1, <1>2, <1>3
-----------------------------------------------------------------------------
(* The invariant.                                                          *)

\* What the user said stays said.
Grows == trusts \subseteq trusts' /\ \A d \in Dirs : given[d] \subseteq given'[d]

Untouched(r) == /\ pc'[r] = pc[r] /\ stage'[r] = stage[r] /\ work'[r] = work[r]
                /\ layers'[r] = layers[r] /\ left'[r] = left[r]
                /\ mem'[r] = mem[r] /\ asked'[r] = asked[r]

\* A run that takes no step keeps its part of the invariant.
LEMMA UntouchedKeeps ==
  ASSUME TypeOK, Grows, NEW r \in Runs, Untouched(r), RunInv(r)
  PROVE  RunInv(r)'
<1>1. Genuine(mem[r])' BY DEF Grows, Genuine, Untouched, RunInv
<1>2. StageKnown(r)' BY DEF Untouched, RunInv, StageKnown, PastChecks, UpgradeChecks, Saving
<1>3. \A d \in DOMAIN layers[r] : given[d] \subseteq given'[d] BY LayersRead DEF Grows, TypeOK
<1>4. LayersChecked(r)'
  <2>1. Checking(r)' <=> Checking(r) BY DEF Untouched, Checking, Saving
  <2>2. Saving(r, {"settings"})' <=> Saving(r, {"settings"}) BY DEF Untouched, Saving
  <2>3. \A d \in Dirs : IsNext(r, d)' => IsNext(r, d) /\ d \in DOMAIN layers[r]
    BY DEF Untouched, IsNext, TypeOK
  <2> QED BY <1>3, <2>1, <2>2, <2>3 DEF Untouched, RunInv, LayersChecked
<1>5. TrustChecked(r)'
  BY DEF Grows, Untouched, RunInv, TrustChecked, Trusted, Checking, PastChecks, PastContext, OwnContext, Saving
<1>6. ApprovedLayers(r)'
  BY <1>3 DEF Untouched, RunInv, ApprovedLayers, Acts, PastChecks, PastContext, HasContext, Saving
<1> QED BY <1>1, <1>2, <1>4, <1>5, <1>6 DEF RunInv

\* A process that ends promises nothing.
LEMMA QuitKeeps ==
  ASSUME TypeOK, NEW r \in Runs, SharedInv, Quit(r), UNCHANGED userVars
  PROVE  RunInv(r)'
<1>1. pc'[r] = "idle" /\ stage'[r] = "context" /\ mem'[r] = NoState BY DEF Quit, Goto, Forget, TypeOK
<1>2. Genuine(mem[r])' BY <1>1 DEF SharedInv, Genuine, NoState, userVars
<1> QED BY <1>1, <1>2 DEF RunInv, StageKnown, LayersChecked, TrustChecked, ApprovedLayers, Acts,
       PastChecks, PastContext, Checking, UpgradeChecks, Saving

\* A process that goes on holding no state holds nothing false.
LEMMA ForgetKeeps ==
  ASSUME TypeOK, NEW r \in Runs, SharedInv, Forget(r), Grows
  PROVE  Genuine(mem[r])'
<1>1. mem'[r] = NoState BY DEF Forget, TypeOK
<1> QED BY <1>1 DEF SharedInv, Genuine, NoState, Grows

LEMMA SharedKeeps ==
  ASSUME SharedInv, Grows, disk' = disk
  PROVE  SharedInv'
  BY DEF SharedInv, Genuine, Grows

LEMMA BeginKeeps ==
  ASSUME IInv, NEW r \in Runs, NEW w \in WorkDirs, Begin(r, w)
  PROVE  SharedInv' /\ RunInv(r)'
<1>1. /\ pc[r] = "idle" /\ pc'[r] = "loadTrust" /\ mem' = mem /\ stage' = stage
      /\ given' = given /\ trusts' = trusts /\ disk' = disk
  BY DEF Begin, Goto, IInv, TypeOK, userVars, diskVars
<1>2. stage[r] = "context" /\ Genuine(mem[r]) BY <1>1 DEF IInv, RunInv, StageKnown
<1>3. SharedInv' BY <1>1 DEF IInv, SharedInv, Genuine
<1>4. RunInv(r)' BY <1>1, <1>2 DEF RunInv, Genuine, StageKnown, LayersChecked, TrustChecked, ApprovedLayers,
       Acts, PastChecks, PastContext, Checking, UpgradeChecks, Saving
<1> QED BY <1>3, <1>4

LEMMA SkipContextKeeps ==
  ASSUME IInv, NEW r \in Runs, SkipContext(r)
  PROVE  SharedInv' /\ RunInv(r)'
<1>1. /\ pc[r] = "loadTrust" /\ stage[r] = "context" /\ stage' = stage /\ mem' = mem
      /\ layers' = layers /\ work' = work /\ given' = given /\ trusts' = trusts /\ disk' = disk
      /\ \/ ~HasContext(r) /\ pc'[r] = "upgrade"
         \/ ~OwnContext(r) /\ pc'[r] = "loadSettings"
  BY DEF SkipContext, Goto, IInv, TypeOK, userVars, diskVars
<1>2. ~HasContext(r) => ~OwnContext(r) BY DEF HasContext, OwnContext
<1>3. SharedInv' BY <1>1 DEF IInv, SharedInv, Genuine
<1>4. Genuine(mem[r])' BY <1>1 DEF IInv, RunInv, Genuine
<1>5. StageKnown(r)' /\ LayersChecked(r)' /\ TrustChecked(r)'
  BY <1>1, <1>2 DEF StageKnown, LayersChecked, TrustChecked, PastChecks, PastContext, Checking, UpgradeChecks,
     Saving, OwnContext
<1>6. ApprovedLayers(r)'
  BY <1>1 DEF ApprovedLayers, Acts, PastChecks, PastContext, Saving, HasContext
<1> QED BY <1>3, <1>4, <1>5, <1>6 DEF RunInv

LEMMA LoadTrustKeeps ==
  ASSUME IInv, NEW r \in Runs, LoadTrust(r)
  PROVE  SharedInv' /\ RunInv(r)'
<1>1. SharedInv' BY DEF LoadTrust, IInv, SharedInv, Genuine, userVars, diskVars
<1>2. CASE Quit(r) BY <1>1, <1>2, QuitKeeps DEF LoadTrust, IInv
<1>3. CASE ~Quit(r)
  <2>1. /\ pc[r] = "loadTrust" /\ stage' = stage /\ layers' = layers /\ work' = work
        /\ given' = given /\ trusts' = trusts /\ asked' = asked
        /\ \/ pc'[r] = "loadSettings" /\ IsTrusted(disk, work[r]) /\ mem' = mem
           \/ pc'[r] = "askTrust" /\ mem'[r] = disk
    BY <1>3 DEF LoadTrust, Goto, Keep, IInv, TypeOK, userVars
  <2>2. pc'[r] = "loadSettings" => Trusted(r)
    <3>1. disk.trusted \cap Dirs \subseteq trusts BY DEF IInv, SharedInv, Genuine
    <3>2. Above[work[r]] \subseteq Dirs BY StateFileAssumption DEF IInv, TypeOK
    <3> QED BY <2>1, <3>1, <3>2 DEF IsTrusted, Trusted
  <2>3. Genuine(mem[r])' BY <2>1 DEF IInv, SharedInv, RunInv, Genuine
  <2>4. StageKnown(r)' /\ LayersChecked(r)'
    BY <2>1 DEF StageKnown, LayersChecked, PastChecks, Checking, UpgradeChecks, Saving
  <2>5. PastContext(r)' => PastContext(r) /\ stage[r] = "run"
    BY <2>1 DEF PastContext, PastChecks, Saving
  <2>6. TrustChecked(r)'
    BY <2>1, <2>2, <2>5 DEF IInv, RunInv, TrustChecked, Trusted, OwnContext, PastChecks, Checking, Saving
  <2>7. ApprovedLayers(r)'
    BY <2>1, <2>5 DEF IInv, RunInv, ApprovedLayers, Acts, HasContext, PastChecks, Saving
  <2> QED BY <1>1, <2>3, <2>4, <2>6, <2>7 DEF RunInv
<1> QED BY <1>2, <1>3

LEMMA AnswerTrustKeeps ==
  ASSUME IInv, NEW r \in Runs, AnswerTrust(r)
  PROVE  SharedInv' /\ RunInv(r)' /\ Grows
<1>1. /\ pc[r] = "askTrust" /\ pc'[r] = "truncate" /\ asked'[r] = "trust"
      /\ stage' = stage /\ layers' = layers /\ work' = work /\ given' = given
      /\ trusts' = trusts \cup {work[r]} /\ disk' = disk
      /\ mem'[r] = [mem[r] EXCEPT !.trusted = @ \cup {work[r]}]
  BY DEF AnswerTrust, Goto, IInv, TypeOK, diskVars
<1>2. Grows BY <1>1 DEF Grows
<1>3. SharedInv' BY <1>1, <1>2, SharedKeeps DEF IInv
<1>4. Genuine(mem[r])'
  <2>1. mem[r] \in States BY DEF IInv, TypeOK
  <2>2. mem'[r].approved = mem[r].approved /\ mem'[r].trusted = mem[r].trusted \cup {work[r]}
    BY <1>1, <2>1 DEF States
  <2> QED BY <1>1, <2>2 DEF IInv, RunInv, Genuine
<1>5. Trusted(r)'
  <2>1. work[r] \in Above[work[r]] BY StateFileAssumption DEF IInv, TypeOK
  <2> QED BY <1>1, <2>1 DEF Trusted
<1>6. StageKnown(r)' /\ LayersChecked(r)' /\ TrustChecked(r)'
  BY <1>1, <1>5 DEF StageKnown, LayersChecked, TrustChecked, PastChecks, PastContext, Checking, UpgradeChecks, Saving
<1>7. ApprovedLayers(r)'
  BY <1>1 DEF IInv, RunInv, ApprovedLayers, Acts, HasContext, PastChecks, PastContext, Saving
<1> QED BY <1>2, <1>3, <1>4, <1>6, <1>7 DEF RunInv

LEMMA LoadSettingsKeeps ==
  ASSUME IInv, NEW r \in Runs, LoadSettings(r)
  PROVE  SharedInv' /\ RunInv(r)'
<1>1. SharedInv' BY DEF LoadSettings, IInv, SharedInv, Genuine, userVars, diskVars
<1>2. CASE Quit(r) BY <1>1, <1>2, QuitKeeps DEF LoadSettings, IInv
<1>3. CASE ~Quit(r)
  <2>1. /\ pc[r] = "loadSettings" /\ pc'[r] = "settings" /\ stage' = stage /\ layers' = layers /\ work' = work
        /\ given' = given /\ trusts' = trusts /\ asked' = asked
        /\ mem'[r] = disk /\ left'[r] = DOMAIN layers[r]
    BY <1>3 DEF LoadSettings, EveryFile, Goto, Keep, IInv, TypeOK, userVars
  <2>2. Genuine(mem[r])' BY <2>1 DEF IInv, SharedInv, Genuine
  <2>3. StageKnown(r)' /\ LayersChecked(r)'
    BY <2>1 DEF StageKnown, LayersChecked, PastChecks, Checking, UpgradeChecks, Saving
  <2>4. TrustChecked(r)'
    BY <2>1 DEF IInv, RunInv, TrustChecked, Trusted, OwnContext, PastChecks, PastContext, Checking, Saving
  <2>5. ApprovedLayers(r)'
    BY <2>1 DEF IInv, RunInv, ApprovedLayers, Acts, HasContext, PastChecks, PastContext, Saving
  <2> QED BY <1>1, <2>2, <2>3, <2>4, <2>5 DEF RunInv
<1> QED BY <1>2, <1>3

\* A layer that agrees with a genuine copy of the state was approved.
LEMMA SkipLayerKeeps ==
  ASSUME IInv, NEW r \in Runs, SkipLayer(r)
  PROVE  SharedInv' /\ RunInv(r)'
<1> PICK d \in Dirs : SkipLayer(r)!(d) BY DEF SkipLayer
<1>1. /\ pc[r] = "settings" /\ pc' = pc /\ stage' = stage /\ layers' = layers /\ work' = work
      /\ given' = given /\ trusts' = trusts /\ asked' = asked /\ mem' = mem /\ disk' = disk
      /\ left'[r] = left[r] \ {d}
  BY DEF IInv, TypeOK, userVars, diskVars
<1>2. layers[r][d] \in given[d]
  <2>1. layers[r][d] = mem[r].approved[d] BY DEF Changed, ChangedSettings
  <2> QED BY <2>1 DEF IInv, RunInv, Genuine
<1>3. SharedInv' BY <1>1 DEF IInv, SharedInv, Genuine
<1>4. Genuine(mem[r])' /\ StageKnown(r)'
  BY <1>1 DEF IInv, RunInv, Genuine, StageKnown, PastChecks, UpgradeChecks, Saving
<1>5. LayersChecked(r)' BY <1>1, <1>2 DEF IInv, RunInv, LayersChecked, Checking, Saving
<1>6. TrustChecked(r)'
  BY <1>1 DEF IInv, RunInv, TrustChecked, Trusted, OwnContext, PastChecks, PastContext, Checking, Saving
<1>7. ApprovedLayers(r)'
  BY <1>1 DEF IInv, RunInv, ApprovedLayers, Acts, HasContext, PastChecks, PastContext, Saving
<1> QED BY <1>3, <1>4, <1>5, <1>6, <1>7 DEF RunInv

LEMMA NextIsUnique ==
  ASSUME IInv, NEW r \in Runs, NEW d \in Dirs, NEW e \in Dirs, IsNext(r, d), IsNext(r, e)
  PROVE  d = e
  BY StateFileAssumption DEF IsNext

LEMMA AnswerSettingsKeeps ==
  ASSUME IInv, NEW r \in Runs, AnswerSettings(r)
  PROVE  SharedInv' /\ RunInv(r)' /\ Grows
<1> PICK d \in Dirs : AnswerSettings(r)!(d) BY DEF AnswerSettings
<1>1. /\ pc[r] = "settings" /\ pc'[r] = "truncate" /\ asked'[r] = "settings"
      /\ stage' = stage /\ layers' = layers /\ work' = work /\ left' = left
      /\ given' = [given EXCEPT ![d] = @ \cup {layers[r][d]}] /\ trusts' = trusts /\ disk' = disk
      /\ mem'[r] = [mem[r] EXCEPT !.approved = [@ EXCEPT ![d] = layers[r][d]]]
  BY DEF Goto, IInv, TypeOK, diskVars, Approved
<1>2. Grows /\ layers[r][d] \in given'[d] BY <1>1 DEF Grows, IInv, TypeOK
<1>3. SharedInv' BY <1>1, <1>2, SharedKeeps DEF IInv
<1>4. Genuine(mem[r])'
  <2>1. mem[r] \in States BY DEF IInv, TypeOK
  <2>2. /\ mem'[r].approved = [mem[r].approved EXCEPT ![d] = layers[r][d]]
        /\ mem'[r].trusted = mem[r].trusted
    BY <1>1, <2>1 DEF States
  <2>3. \A e \in Dirs : mem'[r].approved[e] = IF e = d THEN layers[r][d] ELSE mem[r].approved[e]
    BY <2>1, <2>2 DEF States
  <2> QED BY <1>1, <1>2, <2>2, <2>3 DEF IInv, RunInv, Genuine, Grows
<1>5. LayersChecked(r)'
  <2>1. \A e \in Dirs : IsNext(r, e)' => e = d
    <3> SUFFICES ASSUME NEW e \in Dirs, IsNext(r, e)' PROVE e = d OBVIOUS
    <3>1. IsNext(r, e) BY <1>1 DEF IsNext
    <3> QED BY <3>1, NextIsUnique
  <2>2. \A e \in DOMAIN layers[r] \ left[r] : layers[r][e] \in given'[e]
    <3>1. \A e \in DOMAIN layers[r] : e \in Dirs BY LayersRead DEF IInv, TypeOK
    <3> QED BY <1>1, <1>2, <3>1 DEF IInv, RunInv, LayersChecked, Checking, Grows
  <2> QED BY <1>1, <1>2, <2>1, <2>2 DEF LayersChecked
<1>6. StageKnown(r)' BY <1>1 DEF StageKnown, PastChecks, UpgradeChecks, Saving
<1>7. TrustChecked(r)'
  BY <1>1 DEF IInv, RunInv, TrustChecked, Trusted, OwnContext, PastChecks, PastContext, Checking, Saving
<1>8. ApprovedLayers(r)'
  <2>1. Acts(r)' => Acts(r) BY <1>1 DEF Acts, HasContext, PastChecks, PastContext, Saving
  <2>2. \A e \in DOMAIN layers[r] : e \in Dirs BY LayersRead DEF IInv, TypeOK
  <2> QED BY <1>1, <1>2, <2>1, <2>2 DEF IInv, RunInv, ApprovedLayers, Grows
<1> QED BY <1>2, <1>3, <1>4, <1>5, <1>6, <1>7, <1>8 DEF RunInv

LEMMA EndSettingsKeeps ==
  ASSUME IInv, NEW r \in Runs, EndSettings(r)
  PROVE  SharedInv' /\ RunInv(r)'
<1>1. /\ pc[r] = "settings" /\ left[r] = {} /\ stage' = stage /\ layers' = layers /\ work' = work
      /\ given' = given /\ trusts' = trusts /\ disk' = disk /\ asked' = asked
      /\ pc'[r] = IF stage[r] = "context" THEN "upgrade" ELSE "tool"
  BY DEF EndSettings, Goto, IInv, TypeOK, userVars, diskVars
<1>2. stage[r] \in {"context", "run"} BY DEF IInv, TypeOK
<1>3. SharedInv' BY <1>1 DEF IInv, SharedInv, Genuine
<1>4. Genuine(mem[r])' BY <1>1, ForgetKeeps DEF EndSettings, IInv, Grows
<1>5. \A d \in DOMAIN layers[r] : layers[r][d] \in given[d]
  BY <1>1 DEF IInv, RunInv, LayersChecked, Checking
<1>6. StageKnown(r)' /\ LayersChecked(r)' /\ ApprovedLayers(r)'
  BY <1>1, <1>2, <1>5 DEF StageKnown, LayersChecked, ApprovedLayers, PastChecks, Checking, UpgradeChecks, Saving
<1>7. TrustChecked(r)'
  BY <1>1, <1>2 DEF IInv, RunInv, TrustChecked, Trusted, OwnContext, PastChecks, PastContext, Checking, Saving
<1> QED BY <1>3, <1>4, <1>6, <1>7 DEF RunInv

LEMMA EndKeeps ==
  ASSUME IInv, NEW r \in Runs, End(r)
  PROVE  SharedInv' /\ RunInv(r)'
<1>1. SharedInv' BY DEF End, IInv, SharedInv, Genuine, userVars, diskVars
<1> QED BY <1>1, QuitKeeps DEF End, IInv

LEMMA TruncateKeeps ==
  ASSUME IInv, NEW r \in Runs, Truncate(r)
  PROVE  SharedInv' /\ RunInv(r)'
<1>1. /\ pc[r] = "truncate" /\ pc'[r] = "write" /\ stage' = stage /\ layers' = layers /\ work' = work
      /\ left' = left /\ given' = given /\ trusts' = trusts /\ disk' = NoState /\ asked' = asked /\ mem' = mem
  BY DEF Truncate, Goto, IInv, TypeOK, userVars
<1>2. SharedInv' BY <1>1 DEF IInv, SharedInv, Genuine, NoState
<1>3. Genuine(mem[r])' /\ StageKnown(r)'
  BY <1>1 DEF IInv, RunInv, Genuine, StageKnown, PastChecks, UpgradeChecks, Saving
<1>4. LayersChecked(r)' BY <1>1 DEF IInv, RunInv, LayersChecked, Checking, Saving, IsNext
<1>5. TrustChecked(r)'
  BY <1>1 DEF IInv, RunInv, TrustChecked, Trusted, OwnContext, PastChecks, PastContext, Checking, Saving
<1>6. ApprovedLayers(r)'
  BY <1>1 DEF IInv, RunInv, ApprovedLayers, Acts, HasContext, PastChecks, PastContext, Saving
<1> QED BY <1>2, <1>3, <1>4, <1>5, <1>6 DEF RunInv

\* What a save writes, however late, is genuine.
LEMMA WriteKeeps ==
  ASSUME IInv, NEW r \in Runs, Write(r)
  PROVE  SharedInv' /\ RunInv(r)'
<1>1. /\ pc[r] = "write" /\ pc'[r] = AfterSave(r) /\ stage' = stage /\ layers' = layers /\ work' = work
      /\ given' = given /\ trusts' = trusts /\ asked' = asked
      /\ disk' = mem[r] \/ disk' = NoState
  BY DEF Write, Goto, IInv, TypeOK
<1>2. SharedInv'
  <2>1. CASE disk' = mem[r]
    <3>1. Genuine(mem[r]) /\ \A d \in Dirs : {} \in given[d] BY DEF IInv, RunInv, SharedInv
    <3> QED BY <1>1, <2>1, <3>1 DEF SharedInv, Genuine
  <2>2. CASE disk' = NoState BY <1>1, <2>2 DEF IInv, SharedInv, Genuine, NoState
  <2> QED BY <1>1, <2>1, <2>2
<1>3. asked[r] \in {"trust", "settings", "upgrade", "tool"} BY DEF IInv, TypeOK
<1>4. Genuine(mem[r])'
  <2>1. CASE asked[r] = "settings" BY <1>1, <2>1 DEF Write, IInv, RunInv, Genuine
  <2>2. CASE asked[r] # "settings" BY <1>1, <2>2, ForgetKeeps DEF Write, IInv, Grows
  <2> QED BY <2>1, <2>2
<1>5. LayersChecked(r)'
  <2>1. CASE asked[r] = "settings"
    <3>1. PICK d \in Dirs : IsNext(r, d) /\ left' = [left EXCEPT ![r] = @ \ {d}] BY <2>1 DEF Write
    <3>2. left'[r] = left[r] \ {d} BY <3>1 DEF IInv, TypeOK
    <3>3. layers[r][d] \in given[d] BY <1>1, <2>1, <3>1 DEF IInv, RunInv, LayersChecked, Saving
    <3>4. \A e \in DOMAIN layers[r] \ left[r] : layers[r][e] \in given[e]
      BY <1>1, <2>1 DEF IInv, RunInv, LayersChecked, Checking, Saving
    <3> QED BY <1>1, <2>1, <3>2, <3>3, <3>4 DEF LayersChecked, Saving, AfterSave
  <2>2. CASE asked[r] # "settings"
    BY <1>1, <1>3, <2>2 DEF LayersChecked, Checking, Saving, AfterSave
  <2> QED BY <2>1, <2>2
<1>6. StageKnown(r)'
  BY <1>1, <1>3 DEF IInv, RunInv, StageKnown, PastChecks, UpgradeChecks, Saving, AfterSave
<1>7. TrustChecked(r)'
  BY <1>1, <1>3 DEF IInv, RunInv, TrustChecked, Trusted, OwnContext, PastChecks, PastContext, Checking, Saving, AfterSave
<1>8. ApprovedLayers(r)'
  BY <1>1, <1>3 DEF IInv, RunInv, ApprovedLayers, Acts, HasContext, PastChecks, PastContext, Saving, AfterSave
<1> QED BY <1>2, <1>4, <1>5, <1>6, <1>7, <1>8 DEF RunInv

LEMMA SaveFailsKeeps ==
  ASSUME IInv, NEW r \in Runs, SaveFails(r)
  PROVE  SharedInv' /\ RunInv(r)'
<1>1. /\ pc[r] = "truncate" /\ pc'[r] = AfterSave(r) /\ stage' = stage /\ layers' = layers /\ work' = work
      /\ given' = given /\ trusts' = trusts /\ disk' = disk /\ asked' = asked
      /\ asked[r] \in {"upgrade", "tool"}
  BY DEF SaveFails, Goto, IInv, TypeOK, userVars, diskVars
<1>2. SharedInv' BY <1>1 DEF IInv, SharedInv, Genuine
<1>3. Genuine(mem[r])' BY <1>1, ForgetKeeps DEF SaveFails, IInv, Grows
<1>4. StageKnown(r)' /\ LayersChecked(r)'
  BY <1>1 DEF IInv, RunInv, StageKnown, LayersChecked, PastChecks, Checking, UpgradeChecks, Saving, AfterSave
<1>5. TrustChecked(r)'
  BY <1>1 DEF IInv, RunInv, TrustChecked, Trusted, OwnContext, PastChecks, PastContext, Checking, Saving, AfterSave
<1>6. ApprovedLayers(r)'
  BY <1>1 DEF IInv, RunInv, ApprovedLayers, Acts, HasContext, PastChecks, PastContext, Saving, AfterSave
<1> QED BY <1>2, <1>3, <1>4, <1>5, <1>6 DEF RunInv

\* The update checks change neither what was read nor what was said.
LEMMA UpdateStepKeeps ==
  ASSUME IInv, NEW r \in Runs, UpdateStep(r)
  PROVE  SharedInv' /\ RunInv(r)'
<1>1. /\ layers' = layers /\ work' = work /\ given' = given /\ trusts' = trusts /\ disk' = disk
      /\ mem'[r] = mem[r] \/ mem'[r] = disk \/ mem'[r] = NoState
  BY DEF UpdateStep, FetchRelease, SaveUpgradeCheck, EndUpgradeCheck, CheckTool, MarkChecked, Forget,
     IInv, TypeOK, userVars, diskVars
<1>2. \/ /\ UpgradeChecks(r) /\ UpgradeChecks(r)' /\ stage' = stage
         /\ pc'[r] \in {"fetch", "truncate"} /\ (pc'[r] = "truncate" => asked'[r] = "upgrade")
      \/ UpgradeChecks(r) /\ pc'[r] = "loadTrust" /\ stage'[r] = "run"
      \/ /\ PastChecks(r) /\ PastChecks(r)' /\ stage' = stage
         /\ pc'[r] \in {"loadTool", "truncate", "credentials"} /\ (pc'[r] = "truncate" => asked'[r] = "tool")
  BY DEF UpdateStep, FetchRelease, SaveUpgradeCheck, EndUpgradeCheck, CheckTool, MarkChecked, Goto,
     UpgradeChecks, PastChecks, Saving, IInv, TypeOK
<1>3. SharedInv' BY <1>1 DEF IInv, SharedInv, Genuine
<1>4. Genuine(mem[r])'
  <2>1. Genuine(mem[r]) /\ Genuine(disk) /\ \A d \in Dirs : {} \in given[d] BY DEF IInv, RunInv, SharedInv
  <2>2. CASE mem'[r] = mem[r] BY <1>1, <2>1, <2>2 DEF Genuine
  <2>3. CASE mem'[r] = disk BY <1>1, <2>1, <2>3 DEF Genuine
  <2>4. CASE mem'[r] = NoState BY <1>1, <2>1, <2>4 DEF Genuine, NoState
  <2> QED BY <1>1, <2>2, <2>3, <2>4
<1>5. StageKnown(r)' /\ LayersChecked(r)'
  BY <1>2 DEF IInv, RunInv, StageKnown, LayersChecked, PastChecks, Checking, UpgradeChecks, Saving
<1>6. PastContext(r)
  BY <1>2 DEF PastContext, UpgradeChecks, Saving
<1>7. PastChecks(r)' => PastChecks(r)
  BY <1>2 DEF PastChecks, Saving
<1>8. TrustChecked(r)'
  BY <1>1, <1>2, <1>6, <1>7 DEF IInv, RunInv, TrustChecked, Trusted, OwnContext, Checking, Saving
<1>9. ApprovedLayers(r)'
  BY <1>1, <1>6, <1>7 DEF IInv, RunInv, ApprovedLayers, Acts, HasContext
<1> QED BY <1>3, <1>4, <1>5, <1>8, <1>9 DEF RunInv

LEMMA ResolveCredentialsKeeps ==
  ASSUME IInv, NEW r \in Runs, ResolveCredentials(r)
  PROVE  SharedInv' /\ RunInv(r)'
<1>1. SharedInv' BY DEF ResolveCredentials, IInv, SharedInv, Genuine, userVars, diskVars
<1>2. CASE Quit(r) BY <1>1, <1>2, QuitKeeps DEF ResolveCredentials, IInv
<1>3. CASE ~Quit(r)
  <2>1. /\ pc[r] = "credentials" /\ pc'[r] = "running" /\ stage' = stage /\ layers' = layers /\ work' = work
        /\ given' = given /\ trusts' = trusts /\ mem' = mem
    BY <1>3 DEF ResolveCredentials, Goto, Keep, IInv, TypeOK, userVars
  <2>2. Genuine(mem[r])' /\ StageKnown(r)' /\ LayersChecked(r)'
    BY <2>1 DEF IInv, RunInv, Genuine, StageKnown, LayersChecked, PastChecks, Checking, UpgradeChecks, Saving
  <2>3. TrustChecked(r)'
    BY <2>1 DEF IInv, RunInv, TrustChecked, Trusted, OwnContext, PastChecks, PastContext, Checking, Saving
  <2>4. ApprovedLayers(r)'
    BY <2>1 DEF IInv, RunInv, ApprovedLayers, Acts, HasContext, PastChecks, PastContext, Saving
  <2> QED BY <1>1, <2>2, <2>3, <2>4 DEF RunInv
<1> QED BY <1>2, <1>3

\* The user's edits of state.json take answers away and add none.
LEMMA WorldKeeps ==
  ASSUME IInv, \/ \E d \in Dirs : Edit(d) \/ DeleteFile(d) \/ RevokeApproval(d) \/ RevokeTrust(d)
               \/ DeleteState
  PROVE  SharedInv' /\ Grows /\ \A r \in Runs : Untouched(r)
<1>1. /\ given' = given /\ trusts' = trusts /\ UNCHANGED procVars
  BY DEF Edit, DeleteFile, RevokeApproval, RevokeTrust, DeleteState, userVars, procVars
<1>2. \A d \in Dirs : disk'.approved[d] \in {disk.approved[d], {}} /\ (d \in disk'.trusted => d \in disk.trusted)
  <2>0. disk \in States BY DEF IInv, TypeOK
  <2>1. ASSUME NEW d \in Dirs, Edit(d) \/ DeleteFile(d) PROVE disk' = disk
    BY <2>1 DEF Edit, DeleteFile, diskVars
  <2>2. ASSUME NEW d \in Dirs, RevokeApproval(d)
        PROVE  /\ disk'.trusted = disk.trusted
               /\ \A e \in Dirs : disk'.approved[e] = IF e = d THEN {} ELSE disk.approved[e]
    <3>1. disk' = [disk EXCEPT !.approved = [@ EXCEPT ![d] = {}]] BY <2>2 DEF RevokeApproval
    <3>2. disk'.trusted = disk.trusted /\ disk'.approved = [disk.approved EXCEPT ![d] = {}]
      BY <2>0, <3>1 DEF States
    <3> QED BY <2>0, <3>2 DEF States
  <2>3. ASSUME NEW d \in Dirs, RevokeTrust(d)
        PROVE  disk'.trusted \subseteq disk.trusted /\ disk'.approved = disk.approved
    BY <2>0, <2>3 DEF RevokeTrust, States
  <2>4. CASE DeleteState BY <2>4 DEF DeleteState, NoState
  <2> QED BY <2>1, <2>2, <2>3, <2>4
<1>3. SharedInv' BY <1>1, <1>2 DEF IInv, SharedInv, Genuine
<1> QED BY <1>1, <1>3 DEF Grows, Untouched, procVars
-----------------------------------------------------------------------------
(* Every step.                                                             *)

ProcStep(r) == \/ \E w \in WorkDirs : Begin(r, w)
               \/ CheckStep(r) \/ SaveStep(r) \/ UpdateStep(r)
               \/ ResolveCredentials(r) \/ End(r)

LEMMA NextTyped == TypeOK /\ [Next]_vars => TypeOK'
<1> SUFFICES ASSUME TypeOK, [Next]_vars PROVE TypeOK' OBVIOUS
<1>1. ASSUME NEW r \in Runs, ProcStep(r) PROVE TypeOK'
  BY <1>1, CheckStepTyped, SaveStepTyped, UpdateStepTyped, RunStepTyped DEF ProcStep
<1>2. CASE UNCHANGED vars
  BY <1>2 DEF vars, configVars, diskVars, procVars, userVars, TypeOK
<1> QED BY <1>1, <1>2, WorldTyped DEF Next, ProcStep

LEMMA ProcStepKeeps ==
  ASSUME IInv, NEW r \in Runs, ProcStep(r)
  PROVE  SharedInv' /\ RunInv(r)'
  BY BeginKeeps, SkipContextKeeps, LoadTrustKeeps, AnswerTrustKeeps, LoadSettingsKeeps, SkipLayerKeeps,
     AnswerSettingsKeeps, EndSettingsKeeps, EndKeeps, TruncateKeeps, WriteKeeps, SaveFailsKeeps,
     UpdateStepKeeps, ResolveCredentialsKeeps
  DEF ProcStep, CheckStep, SaveStep

LEMMA ProcStepGrows ==
  ASSUME IInv, NEW r \in Runs, ProcStep(r)
  PROVE  Grows
<1>1. CASE AnswerTrust(r) BY <1>1, AnswerTrustKeeps
<1>2. CASE AnswerSettings(r) BY <1>2, AnswerSettingsKeeps
<1>3. CASE ~AnswerTrust(r) /\ ~AnswerSettings(r)
  <2>1. given' = given /\ trusts' = trusts
    BY <1>3 DEF ProcStep, Begin, CheckStep, SkipContext, LoadTrust, LoadSettings, SkipLayer, EndSettings,
       SaveStep, Truncate, Write, SaveFails, UpdateStep, FetchRelease, SaveUpgradeCheck, EndUpgradeCheck,
       CheckTool, MarkChecked, ResolveCredentials, End, userVars
  <2> QED BY <2>1 DEF Grows
<1> QED BY <1>1, <1>2, <1>3

LEMMA QuitTouchesOne ==
  ASSUME TypeOK, NEW r \in Runs, NEW q \in Runs, q # r, Quit(r), work' = work
  PROVE  Untouched(q)
  BY DEF Quit, Goto, Forget, Untouched, TypeOK

LEMMA ProcStepTouchesOne ==
  ASSUME TypeOK, NEW r \in Runs, NEW q \in Runs, q # r, ProcStep(r)
  PROVE  Untouched(q)
<1>1. CASE \E w \in WorkDirs : Begin(r, w) BY <1>1 DEF Begin, Goto, Untouched, TypeOK
<1>2. CASE SkipContext(r) \/ AnswerTrust(r) \/ EndSettings(r)
  BY <1>2 DEF SkipContext, AnswerTrust, EndSettings, Goto, Forget, Untouched, TypeOK
<1>3. CASE SkipLayer(r) \/ AnswerSettings(r)
  BY <1>3 DEF SkipLayer, AnswerSettings, Goto, Untouched, TypeOK
<1>4. CASE LoadTrust(r) \/ LoadSettings(r) \/ ResolveCredentials(r) \/ End(r)
  BY <1>4, QuitTouchesOne DEF LoadTrust, LoadSettings, ResolveCredentials, End, Goto, Keep, Untouched, TypeOK
<1>5. CASE SaveStep(r)
  BY <1>5 DEF SaveStep, Truncate, Write, SaveFails, Goto, Forget, Untouched, TypeOK
<1>6. CASE UpdateStep(r)
  BY <1>6 DEF UpdateStep, FetchRelease, SaveUpgradeCheck, EndUpgradeCheck, CheckTool, MarkChecked,
     Goto, Forget, Untouched, TypeOK
<1> QED BY <1>1, <1>2, <1>3, <1>4, <1>5, <1>6 DEF ProcStep, CheckStep

LEMMA IInvKeeps == IInv /\ [Next]_vars => IInv'
<1> SUFFICES ASSUME IInv, [Next]_vars PROVE IInv' OBVIOUS
<1>0. TypeOK' BY NextTyped DEF IInv
<1>1. ASSUME NEW r \in Runs, ProcStep(r) PROVE SharedInv' /\ \A q \in Runs : RunInv(q)'
  <2>1. SharedInv' /\ RunInv(r)' BY <1>1, ProcStepKeeps
  <2>2. Grows BY <1>1, ProcStepGrows
  <2>3. ASSUME NEW q \in Runs, q # r PROVE RunInv(q)'
    <3>1. Untouched(q) BY <1>1, <2>3, ProcStepTouchesOne DEF IInv
    <3> QED BY <2>2, <3>1, UntouchedKeeps DEF IInv
  <2> QED BY <2>1, <2>3
<1>2. ASSUME \/ \E d \in Dirs : Edit(d) \/ DeleteFile(d) \/ RevokeApproval(d) \/ RevokeTrust(d)
             \/ DeleteState
      PROVE  SharedInv' /\ \A q \in Runs : RunInv(q)'
  BY <1>2, WorldKeeps, UntouchedKeeps DEF IInv
<1>3. CASE UNCHANGED vars
  <2>1. Grows /\ disk' = disk /\ \A q \in Runs : Untouched(q)
    BY <1>3 DEF vars, diskVars, procVars, userVars, Grows, Untouched
  <2> QED BY <1>0, <2>1, SharedKeeps, UntouchedKeeps DEF IInv
<1> QED BY <1>0, <1>1, <1>2, <1>3 DEF IInv, Next, ProcStep

LEMMA IInvAlways == Spec => []IInv
  BY InitInv, IInvKeeps, PTL DEF Spec
-----------------------------------------------------------------------------
(* The theorems.                                                           *)

\* Every variable keeps its type: state.json, the copies of it and the layers a run read.
THEOREM StateFileTypeCorrect == Spec => []TypeOK
<1>1. IInv => TypeOK BY DEF IInv
<1> QED BY <1>1, IInvAlways, PTL

\* A run acts on no guarded settings the user did not approve for their file, however many
\* runs, files and edits interleave (checkSettings, resolveCredentials).
THEOREM SettingsAreApproved == Spec => []OnlyApprovedSettings
<1>1. IInv => OnlyApprovedSettings BY DEF IInv, RunInv, ApprovedLayers, OnlyApprovedSettings
<1> QED BY <1>1, IInvAlways, PTL

\* It runs nowhere, and picks no Docker daemon, without the user's trust (checkTrust, CheckContextTrust).
THEOREM DirsAreTrusted == Spec => []OnlyTrustedDirs
<1>1. IInv => OnlyTrustedDirs BY DEF IInv, RunInv, TrustChecked, Trusted, OnlyTrustedDirs
<1> QED BY <1>1, IInvAlways, PTL

\* Lost and late saves never put an answer into state.json that the user did not give.
THEOREM StateIsGenuine == Spec => []AnswersAreGenuine
<1>1. IInv => AnswersAreGenuine BY DEF IInv, SharedInv, Genuine, AnswersAreGenuine
<1> QED BY <1>1, IInvAlways, PTL
=============================================================================
