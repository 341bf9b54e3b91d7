--------------------------- MODULE RunPlanProofs ---------------------------
(***************************************************************************)
(* What holds of every run's preparation, whatever the files, the flags,   *)
(* the hosts and the presets.  The first four theorems rest on the order   *)
(* of the steps and on the agreement of the capability checks with the     *)
(* RunSpec alone.  The others are about what a run ends up with: they read *)
(* the merge of the files (from the assumption that a request's files are  *)
(* a sequence) and what each check leaves true (PlanInv).                  *)
(***************************************************************************)
EXTENDS RunPlan, FiniteSetTheorems, SequenceTheorems, WellFoundedInduction, TLAPS

\* The files and the flags stay what they are.
LEMMA RequestKept == [PlanNext]_planVars => UNCHANGED <<files, flags>>
  BY DEF PlanNext, planVars, request, At, LoadProject, CheckRuntime, RunnerCheck, CheckCredentials,
         RequireImage, Approve, CheckTool, ResolveInput, WriteInstructions, SyncMarketplaces,
         CheckMounts, RunEnv, NewRunSpec, CheckProxyTrust, Run, PrepareHost, PrepareProxy,
         StartSidecars, RunTool, PlantLink
-----------------------------------------------------------------------------
BeforeApproval == {"load", "runtime", "runner", "credentials", "image", "approve"}
-----------------------------------------------------------------------------
(* The steps before the user's approval have no effects; every later one   *)
(* has the approval behind it.                                             *)

ApprovalInv ==
  /\ pc \in BeforeApproval => did = {}
  /\ pc \notin BeforeApproval \cup {"refused"} => "approval" \in did
  /\ NothingBeforeApproval

LEMMA ApprovalStep == ApprovalInv /\ [PlanNext]_planVars => ApprovalInv'
<1> SUFFICES ASSUME ApprovalInv, [PlanNext]_planVars PROVE ApprovalInv'
  OBVIOUS
<1> USE DEF ApprovalInv, BeforeApproval, NothingBeforeApproval, At, Check, Go, Refuse, Does, rest
<1>1. CASE LoadProject
  BY <1>1 DEF LoadProject
<1>2. CASE CheckRuntime
  BY <1>2 DEF CheckRuntime
<1>3. CASE RunnerCheck
  BY <1>3 DEF RunnerCheck
<1>4. CASE CheckCredentials
  BY <1>4 DEF CheckCredentials
<1>5. CASE RequireImage
  BY <1>5 DEF RequireImage
<1>6. CASE Approve
  BY <1>6 DEF Approve
<1>7. CASE CheckTool
  BY <1>7 DEF CheckTool
<1>8. CASE ResolveInput
  BY <1>8 DEF ResolveInput
<1>9. CASE WriteInstructions
  BY <1>9 DEF WriteInstructions
<1>10. CASE SyncMarketplaces
  BY <1>10 DEF SyncMarketplaces
<1>11. CASE CheckMounts
  BY <1>11 DEF CheckMounts
<1>12. CASE RunEnv
  BY <1>12 DEF RunEnv
<1>13. CASE NewRunSpec
  BY <1>13 DEF NewRunSpec
<1>14. CASE CheckProxyTrust
  BY <1>14 DEF CheckProxyTrust
<1>15. CASE Run
  BY <1>15 DEF Run
<1>16. CASE PrepareHost
  BY <1>16 DEF PrepareHost
<1>17. CASE PrepareProxy
  BY <1>17 DEF PrepareProxy
<1>18. CASE StartSidecars
  BY <1>18 DEF StartSidecars
<1>19. CASE RunTool
  BY <1>19 DEF RunTool
<1>20. CASE PlantLink
  BY <1>20 DEF PlantLink
<1>21. CASE UNCHANGED planVars
  BY <1>21 DEF planVars
<1> QED
  BY <1>1, <1>2, <1>3, <1>4, <1>5, <1>6, <1>7, <1>8, <1>9, <1>10, <1>11, <1>12, <1>13,
     <1>14, <1>15, <1>16, <1>17, <1>18, <1>19, <1>20, <1>21 DEF PlanNext

\* No run updates an image, writes a file for its tool, takes a snapshot, syncs a marketplace or
\* starts anything before the user has approved the project's files (prepare.go).
THEOREM ApprovalComesFirst == PlanSpec => []NothingBeforeApproval
<1>1. PlanInit => ApprovalInv
  BY DEF PlanInit, ApprovalInv, BeforeApproval, NothingBeforeApproval
<1>2. ApprovalInv => NothingBeforeApproval
  BY DEF ApprovalInv
<1> QED
  BY <1>1, <1>2, ApprovalStep, PTL DEF PlanSpec
-----------------------------------------------------------------------------
(* A dry run's effects.                                                    *)

LEMMA DryStep == DryRunsStartNothing /\ [PlanNext]_planVars => DryRunsStartNothing'
<1> SUFFICES ASSUME DryRunsStartNothing, [PlanNext]_planVars, dry' PROVE
      did' \subseteq {"approval", "setup", "snapshot", "instructions", "marketplaces"}
  BY DEF DryRunsStartNothing
<1>1. dry /\ did \subseteq {"approval", "setup", "snapshot", "instructions", "marketplaces"}
  <2>1. UNCHANGED flags
    BY RequestKept
  <2> QED
    BY <2>1 DEF dry, Sets, DryRunsStartNothing
<1> USE <1>1 DEF At, Check, Go, Refuse, Does, rest, When
<1>2. CASE LoadProject \/ CheckRuntime \/ RunnerCheck \/ CheckCredentials \/ RequireImage \/ ResolveInput
  BY <1>2 DEF LoadProject, CheckRuntime, RunnerCheck, CheckCredentials, RequireImage, ResolveInput
<1>3. CASE Approve \/ CheckTool \/ WriteInstructions \/ SyncMarketplaces
  BY <1>3 DEF Approve, CheckTool, WriteInstructions, SyncMarketplaces
<1>4. CASE CheckMounts \/ RunEnv \/ NewRunSpec \/ CheckProxyTrust \/ Run \/ PlantLink
  BY <1>4 DEF CheckMounts, RunEnv, NewRunSpec, CheckProxyTrust, Run, PlantLink
<1>5. CASE PrepareHost \/ PrepareProxy \/ StartSidecars \/ RunTool
  BY <1>5 DEF PrepareHost, PrepareProxy, StartSidecars, RunTool
<1>6. CASE UNCHANGED planVars
  BY <1>6 DEF planVars
<1> QED
  BY <1>2, <1>3, <1>4, <1>5, <1>6 DEF PlanNext

\* A dry run builds, loads and starts nothing and updates no image, on either runtime.
THEOREM DryRunsAreDry == PlanSpec => []DryRunsStartNothing
<1>1. PlanInit => DryRunsStartNothing
  BY DEF PlanInit, DryRunsStartNothing
<1> QED
  BY <1>1, DryStep, PTL DEF PlanSpec
-----------------------------------------------------------------------------
(* The mounts at each start.                                               *)

\* No sidecar and no tool starts while a mounted path goes through a link of the workspace,
\* whatever runtime, however long images were built before (recheckMounts).
THEOREM MountsAreLookedAtAgain == PlanSpec => MountsAreAsChecked
<1>1. [PlanNext]_planVars => [did' \cap {"sidecars", "tool"} \subseteq did \/ ~link]_planVars
  <2> SUFFICES ASSUME PlanNext, link PROVE did' \cap {"sidecars", "tool"} \subseteq did
    BY DEF planVars
  <2> USE DEF At, Check, Go, Refuse, Does, rest, When
  <2>1. CASE LoadProject \/ CheckRuntime \/ RunnerCheck \/ CheckCredentials \/ RequireImage \/ ResolveInput
    BY <2>1 DEF LoadProject, CheckRuntime, RunnerCheck, CheckCredentials, RequireImage, ResolveInput
  <2>2. CASE Approve \/ CheckTool \/ WriteInstructions \/ SyncMarketplaces
    BY <2>2 DEF Approve, CheckTool, WriteInstructions, SyncMarketplaces
  <2>3. CASE CheckMounts \/ RunEnv \/ NewRunSpec \/ CheckProxyTrust \/ Run \/ PlantLink
    BY <2>3 DEF CheckMounts, RunEnv, NewRunSpec, CheckProxyTrust, Run, PlantLink
  <2>4. CASE PrepareHost \/ PrepareProxy
    BY <2>4 DEF PrepareHost, PrepareProxy
  <2>5. CASE StartSidecars \/ RunTool
    BY <2>5 DEF StartSidecars, RunTool
  <2> QED
    BY <2>1, <2>2, <2>3, <2>4, <2>5 DEF PlanNext
<1> QED
  BY <1>1, PTL DEF PlanSpec, MountsAreAsChecked
-----------------------------------------------------------------------------
(* The backstop: what a request needs covers what its RunSpec needs.       *)

Uncapable == {"load", "runtime", "refused"}
Specified == {"trust", "run", "host", "proxy", "start", "tool", "done"}

CapabilityInv ==
  /\ pc \notin Uncapable => (RequiredFeatures \ Offered) \cap Security = {}
  /\ pc \in Specified => spec = TheSpec

LEMMA CapabilityStep == CapabilityInv /\ [PlanNext]_planVars => CapabilityInv'
<1> SUFFICES ASSUME CapabilityInv, [PlanNext]_planVars PROVE CapabilityInv'
  OBVIOUS
<1>1. UNCHANGED <<files, flags>>
  BY RequestKept
<1>2. UNCHANGED <<RequiredFeatures, Offered, TheSpec>>
  <2>1. UNCHANGED <<rc, RequestedProxyMode, Agentic, ThroughProxy>>
    BY <1>1 DEF rc, RequestedProxyMode, Agentic, ThroughProxy, RunsOn, Backend, Pick, Sets, Is
  <2> QED
    BY <1>1, <2>1 DEF RequiredFeatures, Offered, TheSpec, ProxyMode, Rules, IntegrationsApplied, DindOn,
       DindAsked, DindLimitsSet, Limits, DindLimits, Both, creds, MayFilter, Allowed, RunsOn, Backend, Pick
<1>3. (RequiredFeatures \ Offered) \cap Security = {} =>
        (RequiredFeatures' \ Offered') \cap Security' = {}
  BY <1>2 DEF Security
<1> USE <1>2, <1>3 DEF CapabilityInv, Uncapable, Specified, At, Check, Go, Refuse, Does, rest
<1>4. CASE LoadProject \/ CheckRuntime \/ NewRunSpec
  BY <1>4 DEF LoadProject, CheckRuntime, NewRunSpec
<1>5. CASE RunnerCheck \/ CheckCredentials \/ RequireImage \/ Approve
  BY <1>5 DEF RunnerCheck, CheckCredentials, RequireImage, Approve
<1>6. CASE CheckTool \/ ResolveInput \/ WriteInstructions
  BY <1>6 DEF CheckTool, ResolveInput, WriteInstructions
<1>7. CASE SyncMarketplaces \/ CheckMounts \/ RunEnv
  BY <1>7 DEF SyncMarketplaces, CheckMounts, RunEnv
<1>8. CASE CheckProxyTrust \/ Run \/ PlantLink
  BY <1>8 DEF CheckProxyTrust, Run, PlantLink
<1>9. CASE PrepareHost \/ PrepareProxy
  BY <1>9 DEF PrepareHost, PrepareProxy
<1>10. CASE StartSidecars \/ RunTool
  BY <1>10 DEF StartSidecars, RunTool
<1>11. CASE UNCHANGED planVars
  BY <1>11 DEF planVars, rest
<1> QED
  BY <1>4, <1>5, <1>6, <1>7, <1>8, <1>9, <1>10, <1>11 DEF PlanNext

\* A runtime that cannot match paths is given rules without any.
LEMMA RulesAreOffered == HasPathRules(Rules) => "paths" \in Offered
  BY DEF HasPathRules, Rules, AllowWhole, Rule

LEMMA BackstopHolds ==
  ASSUME spec = TheSpec, (RequiredFeatures \ Offered) \cap Security = {}
  PROVE  SpecFeatures \subseteq Offered
<1>1. spec.mode = ProxyMode /\ spec.rules = Rules /\ spec.credentials = creds
  BY DEF TheSpec
<1>2. "proxy" \in Offered /\ "credentials" \in Offered
  BY DEF Offered, DockerFeatures, MsbFeatures
<1>3. ProxyMode = "monitor" => "monitor" \in Offered
  <2>1. ProxyMode = "monitor" => RequestedProxyMode = "monitor"
    BY DEF ProxyMode
  <2>2. RequestedProxyMode = "monitor" => "monitor" \in RequiredFeatures
    BY DEF RequiredFeatures, When
  <2> QED
    BY <2>1, <2>2 DEF Security
<1> QED
  BY <1>1, <1>2, <1>3, RulesAreOffered DEF SpecFeatures, When

\* The capability check of Prepare leaves nothing for checkSpec to refuse, for any request:
\* a run is never stopped for its runtime after its prompts (capabilities.go).
THEOREM ChecksAgree == PlanSpec => []BackstopNeverFires
<1>1. PlanInit => CapabilityInv
  BY DEF PlanInit, CapabilityInv, Uncapable, Specified
<1>2. CapabilityInv => BackstopNeverFires
  BY BackstopHolds DEF CapabilityInv, BackstopNeverFires, Uncapable, Specified
<1> QED
  BY <1>1, <1>2, CapabilityStep, PTL DEF PlanSpec
-----------------------------------------------------------------------------
(* The merge of the files: what the project's configuration has of a key   *)
(* is what the files say of it, the innermost first.                       *)

LEMMA LeastNumber ==
  ASSUME NEW T \in SUBSET Nat, T # {}
  PROVE  \E m \in T : \A n \in T : m <= n
<1>1. PICK m \in T : \A n \in T : ~(<<n, m>> \in OpToRel(<, Nat))
  <2>1. T \subseteq Nat
    OBVIOUS
  <2> QED
    BY <2>1, WFMin, NatLessThanWellFounded, Zenon
<1>2. \A n \in T : ~(n < m)
  BY <1>1, Zenon DEF OpToRel
<1> QED
  BY <1>2

LEMMA VisibleIsPrefix ==
  ASSUME NEW S, NEW f \in Seq(S)
  PROVE  \E k \in 0..Len(f) : Visible(f) = 1..k /\ Cardinality(Visible(f)) = k
<1> DEFINE Rooted(j) == Is(f[j], "root", TRUE)
           Roots     == {j \in 1..Len(f) : Rooted(j)}
<1>1. Visible(f) = {i \in 1..Len(f) : \A j \in 1..(i-1) : j \notin Roots}
  <2>1. DOMAIN f = 1..Len(f) /\ Len(f) \in Nat
    OBVIOUS
  <2>2. Visible(f) = {i \in DOMAIN f : \A j \in 1..(i-1) : ~Rooted(j)}
    BY Zenon DEF Visible
  <2> HIDE DEF Rooted
  <2> QED
    BY <2>1, <2>2
<1> HIDE DEF Rooted
<1>2. \E k \in 0..Len(f) : Visible(f) = 1..k
  <2>1. CASE Roots = {}
    <3>1. Visible(f) = 1..Len(f)
      BY <1>1, <2>1
    <3> QED
      BY <3>1
  <2>2. CASE Roots # {}
    <3>1. Roots \in SUBSET (1..Len(f)) /\ Roots \in SUBSET Nat
      <4>1. Roots \subseteq 1..Len(f)
        OBVIOUS
      <4> QED
        BY <4>1
    <3> HIDE DEF Roots
    <3>2. PICK m \in Roots : \A n \in Roots : m <= n
      BY <2>2, <3>1, LeastNumber
    <3>3. m \in 1..Len(f) /\ \A i \in 1..Len(f) : (\A j \in 1..(i-1) : j \notin Roots) <=> i <= m
      BY <3>1, <3>2
    <3>4. Visible(f) = 1..m
      BY <1>1, <3>3
    <3> QED
      BY <3>3, <3>4
  <2> QED
    BY <2>1, <2>2
<1> QED
  BY <1>2, FS_Interval

LEMMA FoundLayers ==
  ASSUME NEW S, NEW f \in Seq(S)
  PROVE  /\ DOMAIN FindLayers(f) = Visible(f)
         /\ \A i \in Visible(f) : FindLayers(f)[i] = f[i]
<1>1. PICK k \in 0..Len(f) : Visible(f) = 1..k /\ Cardinality(Visible(f)) = k
  BY VisibleIsPrefix
<1>2. \A i \in 1..k : f[i] \in S
  OBVIOUS
<1>3. /\ SubSeq(f, 1, k) \in Seq(S)
      /\ Len(SubSeq(f, 1, k)) = IF 1 <= k THEN k - 1 + 1 ELSE 0
      /\ \A i \in 1 .. k - 1 + 1 : SubSeq(f, 1, k)[i] = f[1 + i - 1]
  <2>1. 1 \in Int /\ k \in Int
    OBVIOUS
  <2> QED
    BY ONLY <1>2, <2>1, SubSeqProperties
<1>4. DOMAIN SubSeq(f, 1, k) = 1..k
  BY <1>3
<1> QED
  BY <1>1, <1>3, <1>4 DEF FindLayers

LEMMA MergedKeys ==
  ASSUME NEW layers, NEW key, key # "root"
  PROVE  key \in DOMAIN Merge(layers) <=> \E i \in DOMAIN layers : key \in DOMAIN layers[i]
<1> DEFINE keys == UNION {DOMAIN layers[i] : i \in DOMAIN layers}
<1>1. DOMAIN Merge(layers) = keys \ {"root"}
  BY Zenon DEF Merge
<1>2. key \in keys <=> \E i \in DOMAIN layers : key \in DOMAIN layers[i]
  BY Zenon
<1> HIDE DEF keys
<1> QED
  BY <1>1, <1>2

\* The list keys: every entry of every file.
LEMMA ListsAreAppended ==
  ASSUME NEW S, files \in Seq(S), NEW key \in Lists
  PROVE  Entries(rc, key) = Declared(key)
<1> DEFINE layers == FindLayers(files)
<1>1. /\ DOMAIN layers = Visible(files)
      /\ \A i \in Visible(files) : layers[i] = files[i]
  BY FoundLayers
<1>2. key \notin Scalars /\ key # "root"
  BY DEF Lists, Scalars
<1> HIDE DEF layers
<1>3. Declared(key) = Appended(layers, key)
  BY <1>1 DEF Declared, Appended
<1>4. CASE key \in DOMAIN Merge(layers)
  <2>1. Entries(Merge(layers), key) = Appended(layers, key)
    BY <1>2, <1>4 DEF Entries, Value, Sets, Merge
  <2> QED
    BY <1>3, <2>1 DEF rc, layers
<1>5. CASE key \notin DOMAIN Merge(layers)
  <2>1. \A i \in DOMAIN layers : key \notin DOMAIN layers[i]
    BY <1>2, <1>5, MergedKeys
  <2>2. Appended(layers, key) = {}
    BY <2>1 DEF Appended, Entries, Value, Sets
  <2>3. Entries(Merge(layers), key) = {}
    BY <1>5 DEF Entries, Value, Sets
  <2> QED
    BY <1>3, <2>2, <2>3 DEF rc, layers
<1> QED
  BY <1>4, <1>5

\* The scalar keys: the value of the first file that has one.
LEMMA InnermostSpeaks ==
  ASSUME NEW S, files \in Seq(S), NEW key \in Scalars
  PROVE  /\ Sets(rc, key) <=> \E i \in Visible(files) : Sets(files[i], key)
         /\ Sets(rc, key) => \E i \in Visible(files) : /\ Sets(files[i], key) /\ rc[key] = files[i][key]
                                                       /\ \A j \in 1..(i-1) : ~Sets(files[j], key)
<1> DEFINE layers == FindLayers(files)
<1>1. /\ DOMAIN layers = Visible(files)
      /\ \A i \in Visible(files) : layers[i] = files[i]
  BY FoundLayers
<1>2. key # "root"
  BY DEF Scalars
<1>3. PICK k \in 0..Len(files) : Visible(files) = 1..k
  BY VisibleIsPrefix
<1> HIDE DEF layers
<1>4. Sets(Merge(layers), key) <=> \E i \in Visible(files) : Sets(files[i], key)
  BY <1>1, <1>2, MergedKeys DEF Sets
<1>5. ASSUME Sets(Merge(layers), key)
      PROVE  \E i \in Visible(files) : /\ Sets(files[i], key) /\ Merge(layers)[key] = files[i][key]
                                       /\ \A j \in 1..(i-1) : ~Sets(files[j], key)
  <2> DEFINE T == {i \in DOMAIN layers : Sets(layers[i], key)}
  <2>1. T = {i \in 1..k : Sets(files[i], key)}
    BY <1>1, <1>3
  <2>2. T # {} /\ T \in SUBSET Nat
    BY <1>3, <1>4, <1>5, <2>1
  <2> HIDE DEF T
  <2>3. \E m \in T : \A n \in T : m <= n
    BY <2>2, LeastNumber
  <2>4. Min(T) \in T /\ \A n \in T : Min(T) <= n
    BY <2>3 DEF Min
  <2>5. Merge(layers)[key] = layers[Min(T)][key]
    BY <1>5 DEF Merge, Innermost, Sets, T
  <2>6. \A j \in 1..(Min(T)-1) : ~Sets(files[j], key)
    BY <2>1, <2>4
  <2>7. Min(T) \in Visible(files) /\ Sets(files[Min(T)], key)
    BY <1>3, <2>1, <2>4
  <2> QED
    BY <1>1, <2>5, <2>6, <2>7
<1> QED
  BY <1>4, <1>5 DEF rc, layers

LEMMA NearestFileRules ==
  ASSUME NEW S, files \in Seq(S), NEW key \in Scalars, NEW v
  PROVE  SaidBy(key, v) <=> Is(rc, key, v)
<1>1. PICK k \in 0..Len(files) : Visible(files) = 1..k
  BY VisibleIsPrefix
<1>2. /\ Sets(rc, key) <=> \E i \in Visible(files) : Sets(files[i], key)
      /\ Sets(rc, key) => \E i \in Visible(files) : /\ Sets(files[i], key) /\ rc[key] = files[i][key]
                                                    /\ \A j \in 1..(i-1) : ~Sets(files[j], key)
  BY InnermostSpeaks
<1>3. ASSUME Sets(rc, key) PROVE SaidBy(key, v) <=> rc[key] = v
  <2>1. PICK i \in 1..k : /\ Sets(files[i], key) /\ rc[key] = files[i][key]
                          /\ \A j \in 1..(i-1) : ~Sets(files[j], key)
    BY <1>1, <1>2, <1>3
  <2>2. \A n \in 1..k : Sets(files[n], key) /\ (\A j \in 1..(n-1) : ~Sets(files[j], key)) => n = i
    BY <2>1
  <2> QED
    BY <1>1, <2>1, <2>2 DEF SaidBy, Is
<1> QED
  BY <1>2, <1>3 DEF SaidBy, Is
-----------------------------------------------------------------------------
(* What the checks of the preparation leave true until the tool runs: each *)
(* conjunct is established by one step and read by the properties below.   *)

RequestFits ==
  /\ files \in Seq({files[i] : i \in DOMAIN files})
  /\ \A i \in DOMAIN files : {p.host : p \in Entries(files[i], "paths")} \subseteq DOMAIN NormalHost
  /\ Value(flags, "egress", "off") \in {"off", "enforce", "monitor"}
  /\ Value(flags, "runtime", "docker") \in Runtimes

Warnings   == Ignored(RequiredFeatures \ Offered)
EnvChecked == /\ Both("env") \cap Reserved = {}
              /\ CredentialsAreSafe /\ CredentialEnvIsFree
SkipsTrust == Decrypts /\ Sets(flags, "skip")

PlanInv ==
  /\ RequestFits
  /\ pc \notin {"load", "refused"} => Loads(files)
  /\ pc \notin Uncapable => Warnings \subseteq warned
  /\ pc \in Specified \cup {"spec"} => EnvChecked
  /\ pc \in Specified => spec = TheSpec
  /\ pc \in Specified \ {"trust"} => (SkipsTrust => "trust" \in warned)
  /\ said # Nothing => said = Said
  /\ launch # Nothing => pc = "done" /\ launch = Launch
  /\ launch # Nothing /\ RunsOn = "microsandbox" => spec.limits.cpus \in DOMAIN WholeCpus

\* What a request asks for does not change while it is prepared.
LEMMA AskedIsKept ==
  ASSUME UNCHANGED <<files, flags>>
  PROVE  /\ UNCHANGED <<Warnings, TheSpec, Said>>
         /\ EnvChecked => EnvChecked'
         /\ RequestFits => RequestFits'
         /\ Loads(files) => Loads(files)'
         /\ UNCHANGED RunsOn
         /\ UNCHANGED spec => UNCHANGED Launch /\ (SkipsTrust' => SkipsTrust)
<1>1. UNCHANGED <<rc, RequestedProxyMode, Agentic, ThroughProxy, RunsOn, DindAsked, Limits, DindLimits, creds>>
  BY DEF rc, RequestedProxyMode, Agentic, ThroughProxy, RunsOn, DindAsked, Limits, DindLimits, creds,
         Backend, Pick, Sets, Is
<1>2. UNCHANGED <<Offered, RequiredFeatures, ProxyMode>>
  BY <1>1 DEF Offered, RequiredFeatures, ProxyMode, MayFilter, DindLimitsSet, Both, Sets
<1>3. UNCHANGED <<IntegrationsApplied, DindOn, Both("env"), Both("mounts"), Both("integrations")>>
  BY <1>1, <1>2 DEF IntegrationsApplied, DindOn, Both
<1>4. UNCHANGED <<Rules, Reserved>>
  BY <1>1, <1>2, <1>3 DEF Rules, Allowed, Reserved
<1>5. UNCHANGED <<Warnings, TheSpec, Said>>
  BY <1>1, <1>2, <1>3, <1>4 DEF Warnings, TheSpec, Said, Docker
<1>6. EnvChecked => EnvChecked'
  BY <1>1, <1>2, <1>3, <1>4 DEF EnvChecked, CredentialsAreSafe, CredentialEnvIsFree
<1>7. (RequestFits => RequestFits') /\ (Loads(files) => Loads(files)')
  BY DEF RequestFits
<1>8. ASSUME UNCHANGED spec PROVE UNCHANGED Launch /\ (SkipsTrust' => SkipsTrust)
  BY <1>1, <1>8 DEF Launch, MsbLimits, ByProxy, SkipsTrust, Decrypts, SpecFeatures, Sets
<1> QED
  BY <1>1, <1>5, <1>6, <1>7, <1>8

LEMMA PlanStep == PlanInv /\ [PlanNext]_planVars => PlanInv'
<1> SUFFICES ASSUME PlanInv, [PlanNext]_planVars PROVE PlanInv'
  OBVIOUS
<1>1. /\ UNCHANGED <<Warnings, TheSpec, Said>>
      /\ EnvChecked => EnvChecked'
      /\ RequestFits => RequestFits'
      /\ Loads(files) => Loads(files)'
      /\ UNCHANGED RunsOn
      /\ UNCHANGED spec => UNCHANGED Launch /\ (SkipsTrust' => SkipsTrust)
  BY RequestKept, AskedIsKept
<1> USE <1>1 DEF PlanInv, Uncapable, Specified, At, Check, Go, Refuse, Does, rest
<1>2. CASE LoadProject
  BY <1>2 DEF LoadProject
<1>3. CASE CheckRuntime
  BY <1>3 DEF CheckRuntime, Warnings
<1>4. CASE RunnerCheck \/ CheckCredentials \/ RequireImage
  BY <1>4 DEF RunnerCheck, CheckCredentials, RequireImage
<1>5. CASE Approve \/ CheckTool \/ ResolveInput
  BY <1>5 DEF Approve, CheckTool, ResolveInput
<1>6. CASE WriteInstructions
  BY <1>6 DEF WriteInstructions
<1>7. CASE SyncMarketplaces \/ CheckMounts
  BY <1>7 DEF SyncMarketplaces, CheckMounts
<1>8. CASE RunEnv
  BY <1>8 DEF RunEnv, EnvChecked
<1>9. CASE NewRunSpec
  BY <1>9 DEF NewRunSpec
<1>10. CASE CheckProxyTrust
  BY <1>10 DEF CheckProxyTrust, SkipsTrust, When
<1>11. CASE Run \/ PlantLink
  BY <1>11 DEF Run, PlantLink
<1>12. CASE PrepareHost \/ PrepareProxy
  BY <1>12 DEF PrepareHost, PrepareProxy
<1>13. CASE StartSidecars
  BY <1>13 DEF StartSidecars
<1>14. CASE RunTool
  BY <1>14 DEF RunTool, MsbRefuses
<1>15. CASE UNCHANGED planVars
  BY <1>15 DEF planVars
<1> QED
  BY <1>2, <1>3, <1>4, <1>5, <1>6, <1>7, <1>8, <1>9, <1>10, <1>11, <1>12, <1>13, <1>14, <1>15
  DEF PlanNext

LEMMA PlanStart == PlanInit => PlanInv
<1> SUFFICES ASSUME PlanInit PROVE PlanInv
  OBVIOUS
<1>1. RequestFits
  BY RequestsAssumption DEF PlanInit, RequestFits
<1> QED
  BY <1>1 DEF PlanInit, PlanInv, Uncapable, Specified
-----------------------------------------------------------------------------
(* The sandbox a run ends up with.                                         *)

\* What PlanInv says of a run whose tool has been started.
Prepared ==
  /\ RequestFits /\ Loads(files) /\ EnvChecked
  /\ Warnings \subseteq warned
  /\ spec = TheSpec /\ launch = Launch
  /\ SkipsTrust => "trust" \in warned
  /\ said # Nothing => said = Said
  /\ RunsOn = "microsandbox" => spec.limits.cpus \in DOMAIN WholeCpus

LEMMA LaunchedIsPrepared == PlanInv /\ Launched => Prepared
  BY DEF PlanInv, Launched, Prepared, Uncapable, Specified

LEMMA Merged ==
  ASSUME RequestFits
  PROVE  /\ \A key \in Lists : Entries(rc, key) = Declared(key)
         /\ \A key \in Scalars : \A v : SaidBy(key, v) <=> Is(rc, key, v)
         /\ \A key \in Scalars : Sets(rc, key) <=> \E i \in Visible(files) : Sets(files[i], key)
  BY ListsAreAppended, NearestFileRules, InnermostSpeaks DEF RequestFits

\* Whether anything filters the egress, and whether it only watches.
LEMMA ModeIsAsAsked ==
  ASSUME RequestFits
  PROVE  /\ RequestedProxyMode # "off" <=> AsksFilter
         /\ RequestedProxyMode = "monitor" <=> AsksMonitor
<1>1. /\ SaidBy("mode", "monitor") <=> Is(rc, "mode", "monitor")
      /\ SaidBy("enabled", "off") <=> Is(rc, "enabled", "off")
      /\ SaidBy("enabled", "on") <=> Is(rc, "enabled", "on")
  BY Merged DEF Scalars
<1>2. Sets(flags, "egress") => flags.egress \in {"off", "enforce", "monitor"}
  BY DEF RequestFits, Value
<1> QED
  BY <1>1, <1>2 DEF RequestedProxyMode, AsksFilter, AsksMonitor, NoFlag, Is

LEMMA CredentialsTurnItOn ==
  /\ ProxyMode = "off" <=> RequestedProxyMode = "off" /\ (creds = {} \/ ~ThroughProxy)
  /\ ProxyMode = "monitor" <=> RequestedProxyMode = "monitor"
  BY DEF ProxyMode

\* The hosts of the rules: those allowed whole, and those with paths as the proxy compares them.
LEMMA RuleHosts ==
  ASSUME NEW r \in Rules
  PROVE  \/ r.host \in Allowed
         \/ \E p \in Entries(rc, "paths") : r.host = NormalHost[p.host]
<1> DEFINE rules == ProxyRules(Allowed, Entries(rc, "paths"))
<1>1. \A q \in rules : \/ q.host \in Allowed
                       \/ \E p \in Entries(rc, "paths") : q.host = NormalHost[p.host]
  BY DEF ProxyRules, MergePathRules, PathHosts, Rule
<1>2. \E q \in rules : r.host = q.host
  <2>1. Rules = rules \/ Rules = AllowWhole(rules)
    BY DEF Rules
  <2> HIDE DEF rules
  <2> QED
    BY <2>1 DEF AllowWhole, Rule
<1> QED
  BY <1>1, <1>2

\* msb's own rules are the same where its runtime cannot match paths.
LEMMA LaunchedRules == spec = TheSpec /\ launch = Launch => launch.rules = Rules
<1> SUFFICES ASSUME spec = TheSpec, launch = Launch PROVE launch.rules = Rules
  OBVIOUS
<1>1. spec.rules = Rules
  BY DEF TheSpec
<1>2. launch.rules = IF ThroughProxy THEN Rules ELSE {Rule(h, {}) : h \in WholeHosts(Rules)}
  BY <1>1 DEF Launch
<1>3. ASSUME ~ThroughProxy PROVE {Rule(h, {}) : h \in WholeHosts(Rules)} = Rules
  <2>1. "paths" \notin Offered
    BY <1>3 DEF ThroughProxy, Offered, MsbFeatures, When
  <2>2. PICK rules : Rules = AllowWhole(rules)
    BY <2>1 DEF Rules
  <2>3. Rules = {Rule(r.host, {}) : r \in rules}
    BY <2>2 DEF AllowWhole
  <2> QED
    BY <2>3 DEF WholeHosts, Rule
<1> QED
  BY <1>2, <1>3

LEMMA EgressHolds == Prepared => EgressIsAsAsked
<1> SUFFICES ASSUME Prepared PROVE EgressIsAsAsked
  OBVIOUS
<1>1. /\ launch.egress = IF ProxyMode = "off" THEN "open" ELSE IF ThroughProxy THEN "proxy" ELSE "vm"
      /\ launch.mode = ProxyMode /\ launch.rules = Rules
  BY LaunchedRules DEF Prepared, Launch, TheSpec, ByProxy
<1>2. /\ creds = Declared("credentials") /\ Entries(rc, "paths") = Declared("paths")
      /\ Entries(rc, "hosts") = Declared("hosts")
  BY Merged DEF Prepared, Lists, creds
<1>3. launch.egress = "open" <=> ~AsksFilter /\ (Declared("credentials") = {} \/ ~ThroughProxy)
  BY <1>1, <1>2, ModeIsAsAsked, CredentialsTurnItOn DEF Prepared
<1>4. launch.mode = "monitor" <=> AsksMonitor
  BY <1>1, ModeIsAsAsked, CredentialsTurnItOn DEF Prepared
<1>5. ASSUME NEW r \in Rules
      PROVE  \E h \in ToolHosts \cup Declared("hosts") \cup {p.host : p \in Declared("paths")}
                       \cup When(DindAsked, DindRegistryHosts)
                       \cup UNION {CredentialHosts(c) : c \in Declared("credentials")} : NormalHost[r.host] = NormalHost[h]
  <2>1. CASE r.host \in Allowed
    <3>1. When(DindOn, DindRegistryHosts) \subseteq When(DindAsked, DindRegistryHosts)
      BY DEF DindOn, When
    <3> QED
      BY <1>2, <2>1, <3>1 DEF Allowed
  <2>2. CASE \E p \in Entries(rc, "paths") : r.host = NormalHost[p.host]
    <3>1. PICK p \in Declared("paths") : r.host = NormalHost[p.host]
      BY <1>2, <2>2
    <3>2. NormalHost[NormalHost[p.host]] = NormalHost[p.host]
      <4>1. PICK i \in DOMAIN files : p \in Entries(files[i], "paths")
        BY DEF Declared, Visible
      <4> QED
        BY <4>1, HostsNormalizeOnce DEF Prepared, RequestFits
    <3> QED
      BY <3>1, <3>2
  <2> QED
    BY <2>1, <2>2, RuleHosts
<1> QED
  BY <1>1, <1>3, <1>4, <1>5 DEF EgressIsAsAsked

LEMMA EgressKinds ==
  Prepared => launch.egress = IF ProxyMode = "off" THEN "open" ELSE IF ThroughProxy THEN "proxy" ELSE "vm"
  BY DEF Prepared, Launch, TheSpec, ByProxy

LEMMA PathLimitsKept == Prepared => PathLimitsHold
<1> SUFFICES ASSUME Prepared, launch.egress # "open", "paths" \notin warned,
                    NEW p \in Declared("paths"), NEW r \in launch.rules, NormalHost[r.host] = NormalHost[p.host]
             PROVE  r.paths # {} /\ r.paths \subseteq UNION {q.paths : q \in {q \in Declared("paths") :
                                                              NormalHost[q.host] = NormalHost[p.host]}}
  BY DEF PathLimitsHold
<1>1. /\ Entries(rc, "paths") = Declared("paths") /\ creds = Declared("credentials")
      /\ launch.rules = Rules
  BY Merged, LaunchedRules DEF Prepared, Lists, creds
<1>2. "paths" \in Offered
  <2>1. MayFilter
    BY EgressKinds, CredentialsTurnItOn DEF MayFilter
  <2>2. "paths" \in RequiredFeatures
    BY <1>1, <2>1 DEF RequiredFeatures, When
  <2>3. "paths" \notin Offered => "paths" \in Warnings
    BY <2>2 DEF Warnings, Ignored
  <2> QED
    BY <2>3 DEF Prepared
<1>3. r \in ProxyRules(Allowed, Declared("paths"))
  BY <1>1, <1>2 DEF Rules
<1>4. \A q \in Declared("paths") : q.paths # {} /\ NormalHost[NormalHost[q.host]] = NormalHost[q.host]
  <2> SUFFICES ASSUME NEW q \in Declared("paths")
               PROVE  q.paths # {} /\ NormalHost[NormalHost[q.host]] = NormalHost[q.host]
    OBVIOUS
  <2>1. PICK i \in Visible(files) : q \in Entries(files[i], "paths")
    BY DEF Declared
  <2>2. Valid(files[i])
    BY DEF Prepared, Loads
  <2>3. ValidAllowedPath(q)
    BY <2>1, <2>2 DEF Valid
  <2>4. q.host \in DOMAIN NormalHost
    BY <2>1 DEF Prepared, RequestFits, Visible
  <2> QED
    BY <2>3, <2>4, HostsNormalizeOnce DEF ValidAllowedPath
<1>5. r \in MergePathRules(Declared("paths"))
  <2>1. NormalHost[p.host] \in PathHosts(Declared("paths"))
    BY DEF PathHosts
  <2>2. ASSUME NEW h \in Allowed, Normalized(h) \notin PathHosts(Declared("paths"))
        PROVE  r # Rule(h, {})
    BY <2>1, <2>2 DEF Normalized, Rule
  <2> QED
    BY <1>3, <2>2 DEF ProxyRules
<1>6. PICK q \in Declared("paths") :
        r = Rule(NormalHost[q.host],
                 UNION {o.paths : o \in {o \in Declared("paths") : NormalHost[o.host] = NormalHost[q.host]}})
  <2>1. PICK h \in PathHosts(Declared("paths")) :
          r = Rule(h, UNION {o.paths : o \in {o \in Declared("paths") : NormalHost[o.host] = h}})
    BY <1>5 DEF MergePathRules
  <2>2. PICK q \in Declared("paths") : h = NormalHost[q.host]
    BY <2>1 DEF PathHosts
  <2> QED
    BY <2>1, <2>2
<1>7. NormalHost[q.host] = NormalHost[p.host]
  BY <1>4, <1>6 DEF Rule
<1>8. r.paths = UNION {o.paths : o \in {o \in Declared("paths") : NormalHost[o.host] = NormalHost[p.host]}}
  BY <1>6, <1>7 DEF Rule
<1> QED
  BY <1>4, <1>8

\* The limits a runtime is given.
LEMMA LaunchedLimits ==
  ASSUME Prepared
  PROVE  /\ RunsOn = "docker" \/ RunsOn = "microsandbox"
         /\ launch.by = RunsOn
         /\ RunsOn = "docker" => launch.limits = Limits
         /\ RunsOn = "microsandbox" => launch.limits = [cpus |-> WholeCpus[Limits.cpus], memory |-> Limits.memory]
         /\ launch.dindLimits = IF DindOn /\ RunsOn = "docker" THEN DindLimits ELSE << >>
         /\ DOMAIN Limits = LimitNames /\ DOMAIN DindLimits = LimitNames
<1>1. RunsOn = "docker" \/ RunsOn = "microsandbox"
  <2>1. Sets(flags, "runtime") => flags.runtime \in Runtimes
    BY DEF Prepared, RequestFits, Value
  <2>2. ASSUME Sets(rc, "runtime") PROVE rc.runtime \in Runtimes
    <3>1. SaidBy("runtime", rc.runtime)
      BY <2>2, Merged DEF Prepared, Scalars, Is
    <3>2. PICK i \in Visible(files) : Is(files[i], "runtime", rc.runtime)
      BY <3>1 DEF SaidBy
    <3>3. Valid(files[i])
      BY DEF Prepared, Loads
    <3> QED
      BY <3>2, <3>3 DEF Valid, Value, Is
  <2> QED
    BY <2>1, <2>2 DEF RunsOn, Pick, Value, Runtimes
<1>2. spec.limits = Limits /\ spec.dindLimits = DindLimits /\ spec.dind = DindOn
  BY DEF Prepared, TheSpec
<1>3. launch = Launch
  BY DEF Prepared
<1> QED
  BY <1>1, <1>2, <1>3 DEF Launch, MsbLimits, Limits, DindLimits

LEMMA NothingIsDroppedSilently == Prepared => NothingIsIgnoredSilently
<1> SUFFICES ASSUME Prepared, Launched PROVE NothingIsIgnoredSilently
  BY DEF NothingIsIgnoredSilently
<1>1. "integrations" \in RequiredFeatures \ Offered => "integrations" \in warned
  BY DEF Prepared, Warnings, Ignored
<1>2. "dind" \in Offered
  BY DEF Offered, DockerFeatures, MsbFeatures
<1>3. launch.docker = IF ~DindAsked THEN "none" ELSE IF RunsOn = "docker" THEN "sidecar" ELSE "vm"
  BY <1>2 DEF Prepared, Launch, TheSpec, DindOn
<1>4. \A l \in LimitNames : Given(DindKey[l]) <=> Sets(flags, DindKey[l]) \/ Sets(rc, DindKey[l])
  <2>1. \A l \in LimitNames : DindKey[l] \in Scalars
    BY DEF LimitNames, DindKey, Scalars
  <2> QED
    BY <2>1, Merged DEF Prepared, Given
<1>5. ASSUME DindAsked, NEW l \in LimitNames, Given(DindKey[l]), l \notin DOMAIN launch.dindLimits
      PROVE  "dindLimits" \in warned
  <2>0. RunsOn # "docker"
    BY <1>2, <1>5, LaunchedLimits DEF DindOn
  <2>1. "dindLimits" \in RequiredFeatures \ Offered
    <3>1. DindLimitsSet
      BY <1>4, <1>5 DEF DindLimitsSet
    <3> QED
      BY <1>5, <2>0, <3>1 DEF RequiredFeatures, Offered, MsbFeatures, When
  <2>2. "dindLimits" \in Warnings
    BY <1>2, <2>1 DEF Warnings, Ignored, When
  <2> QED
    BY <2>2 DEF Prepared
<1>6. ASSUME AsksFilter
      PROVE  Declared("integrations") \cup Entries(flags, "integrations") \subseteq launch.integrations
               \/ "integrations" \in warned
  <2>0. Both("integrations") = Declared("integrations") \cup Entries(flags, "integrations")
    BY Merged DEF Prepared, Lists, Both
  <2>1. RequestedProxyMode # "off" /\ ProxyMode # "off"
    BY <1>6, ModeIsAsAsked, CredentialsTurnItOn DEF Prepared
  <2>2. CASE "integrations" \in Offered
    <3>1. RunsOn = "docker"
      BY <2>2 DEF Offered, MsbFeatures, When
    <3>2. launch.integrations = IntegrationsApplied
      BY <2>1, <3>1 DEF Prepared, Launch, TheSpec, ByProxy, ThroughProxy, When
    <3> QED
      BY <2>0, <2>1, <2>2, <3>2 DEF IntegrationsApplied, When
  <2>3. CASE "integrations" \notin Offered
    <3>1. Both("integrations") # {} => "integrations" \in RequiredFeatures
      BY <2>1 DEF RequiredFeatures, MayFilter, When
    <3> QED
      BY <1>1, <2>0, <2>3, <3>1
  <2> QED
    BY <2>2, <2>3
<1>7. Decrypts /\ Sets(flags, "skip") => "trust" \in warned
  BY DEF Prepared, SkipsTrust
<1>8. ASSUME launch.egress # "open", NEW r \in launch.rules, r.paths = {},
             NormalHost[r.host] \in PathHosts(Declared("paths"))
      PROVE  "paths" \in warned
  <2>1. PICK p \in Declared("paths") : NormalHost[r.host] = NormalHost[p.host]
    BY <1>8 DEF PathHosts
  <2> QED
    BY <1>8, <2>1, PathLimitsKept DEF PathLimitsHold
<1>9. LimitNames \ DOMAIN launch.limits = When(launch.by = "microsandbox", {"pids_limit"})
  <2>1. CASE RunsOn = "docker"
    BY <2>1, LaunchedLimits DEF When
  <2>2. CASE RunsOn = "microsandbox"
    <3>1. DOMAIN launch.limits = {"cpus", "memory"}
      BY <2>2, LaunchedLimits
    <3> QED
      BY <2>2, <3>1, LaunchedLimits DEF When, LimitNames
  <2> QED
    BY <2>1, <2>2, LaunchedLimits
<1>10. Dropped \ {"limits"} \subseteq warned
  <2> SUFFICES ASSUME NEW d \in Dropped, d # "limits" PROVE d \in warned
    OBVIOUS
  <2>1. \/ d = "dind" /\ DindAsked /\ launch.docker = "none"
        \/ d = "dindLimits" /\ DindAsked /\ \E l \in LimitNames : Given(DindKey[l]) /\ l \notin DOMAIN launch.dindLimits
        \/ d = "integrations" /\ AsksFilter
             /\ ~(Declared("integrations") \cup Entries(flags, "integrations") \subseteq launch.integrations)
        \/ d = "paths" /\ launch.egress # "open" /\ \E r \in launch.rules :
             r.paths = {} /\ NormalHost[r.host] \in PathHosts(Declared("paths"))
        \/ d = "trust" /\ Decrypts /\ Sets(flags, "skip")
    BY Zenon DEF Dropped, When
  <2> QED
    BY <1>3, <1>5, <1>6, <1>7, <1>8, <2>1
<1> QED
  BY <1>9, <1>10 DEF NothingIsIgnoredSilently

LEMMA SecretsKeptOut == Prepared => SecretsStayOut
<1> SUFFICES ASSUME Prepared PROVE SecretsStayOut
  OBVIOUS
<1>1. creds = Declared("credentials")
  BY Merged DEF Prepared, Lists, creds
<1>2. launch.injects = creds /\ launch.env = Both("env")
  BY DEF Prepared, Launch, TheSpec
<1>3. launch.injects # {} => ~ThroughProxy \/ launch.egress = "proxy"
  BY <1>2, EgressKinds DEF Prepared, EnvChecked, CredentialsAreSafe
<1>4. \A c \in creds : ~c.held /\ CredentialEnv(c) \cap Both("env") = {}
  BY DEF Prepared, EnvChecked, CredentialsAreSafe, CredentialEnvIsFree
<1>5. launch.egress # "open" => Both("env") \cap ProxyEnvNames = {}
  <2>1. launch.egress # "open" => ProxyEnvNames \subseteq Reserved
    BY EgressKinds DEF Reserved, When
  <2> QED
    BY <2>1 DEF Prepared, EnvChecked
<1> QED
  BY <1>1, <1>2, <1>3, <1>4, <1>5 DEF SecretsStayOut

LEMMA SaidIsTrue == Prepared => InstructionsMatchTheRun
<1> SUFFICES ASSUME Prepared, said = Said
             PROVE  /\ said.by = launch.by /\ said.docker = launch.docker /\ said.dindLimits = launch.dindLimits
                    /\ DOMAIN said.limits = DOMAIN launch.limits
                    /\ \A l \in DOMAIN launch.limits :
                         launch.limits[l] = IF l = "cpus" /\ launch.by = "microsandbox" THEN WholeCpus[said.limits[l]]
                                            ELSE said.limits[l]
                    /\ launch.egress = "open" <=> said.network = "unfiltered"
                    /\ launch.egress # "open" => /\ said.network = launch.mode /\ said.filter = launch.egress
                                                 /\ said.rules = launch.rules
  BY DEF Prepared, InstructionsMatchTheRun
<1>1. "proxy" \in Offered
  BY DEF Offered, DockerFeatures, MsbFeatures
<1>2. said.by = launch.by /\ said.docker = launch.docker
  BY DEF Prepared, Said, Docker, Launch, TheSpec
<1>3. said.dindLimits = launch.dindLimits
  BY LaunchedLimits DEF Said, Docker
<1>9. /\ DOMAIN said.limits = DOMAIN launch.limits
      /\ \A l \in DOMAIN launch.limits :
           launch.limits[l] = IF l = "cpus" /\ launch.by = "microsandbox" THEN WholeCpus[said.limits[l]]
                              ELSE said.limits[l]
  <2>0. said.limits = [l \in LimitNames \ When("pids" \notin Offered, {"pids_limit"}) |-> Limits[l]]
    BY DEF Said
  <2>1. CASE RunsOn = "docker"
    <3>1. LimitNames \ When("pids" \notin Offered, {"pids_limit"}) = LimitNames
      BY <2>1 DEF Offered, DockerFeatures, When
    <3> QED
      BY <2>0, <2>1, <3>1, LaunchedLimits
  <2>2. CASE RunsOn = "microsandbox"
    <3>1. LimitNames \ When("pids" \notin Offered, {"pids_limit"}) = {"cpus", "memory"}
      BY <2>2 DEF Offered, MsbFeatures, When, LimitNames
    <3>2. launch.limits = [cpus |-> WholeCpus[Limits.cpus], memory |-> Limits.memory]
      BY <2>2, LaunchedLimits
    <3> QED
      BY <2>0, <2>2, <3>1, <3>2, LaunchedLimits
  <2> QED
    BY <2>1, <2>2, LaunchedLimits
<1>4. said.rules = launch.rules
  BY LaunchedRules DEF Prepared, Said
<1>5. ProxyMode \in {"off", "enforce", "monitor"}
  BY DEF Prepared, RequestFits, Value, Sets, ProxyMode, RequestedProxyMode
<1>6. said.network = (IF ProxyMode = "off" THEN "unfiltered" ELSE ProxyMode)
  BY <1>1 DEF Said
<1>7. said.filter = IF ThroughProxy THEN "proxy" ELSE "vm"
  BY DEF Said
<1>8. launch.mode = ProxyMode
  BY DEF Prepared, Launch, TheSpec
<1> QED
  BY <1>2, <1>3, <1>4, <1>5, <1>6, <1>7, <1>8, <1>9, EgressKinds

LEMMA LimitsComeFromFlags == Prepared => FilesCannotLiftLimits
<1> SUFFICES ASSUME Prepared PROVE FilesCannotLiftLimits
  OBVIOUS
<1> DEFINE LimitKeys == LimitNames \cup {DindKey[l] : l \in LimitNames}
<1>1. \A key \in LimitKeys : Sets(rc, key) => rc[key] # NoLimit
  <2> SUFFICES ASSUME NEW key \in LimitKeys, Sets(rc, key), rc[key] = NoLimit PROVE FALSE
    OBVIOUS
  <2>0. key \in Scalars
    BY DEF LimitNames, DindKey, Scalars
  <2>1. SaidBy(key, NoLimit)
    BY <2>0, Merged DEF Prepared, Is
  <2>2. PICK i \in Visible(files) : Is(files[i], key, NoLimit)
    BY <2>1 DEF SaidBy
  <2>3. ValidLimit(files[i], key)
    BY DEF Prepared, Loads, Valid
  <2> QED
    BY <2>2, <2>3 DEF ValidLimit
<1>2. \A l \in LimitNames : Limits[l] = NoLimit => Is(flags, l, NoLimit)
  BY <1>1 DEF Limits, Pick, Value, Is, NoLimit
<1>3. \A l \in LimitNames : DindLimits[l] = NoLimit => Is(flags, l, NoLimit) \/ Is(flags, DindKey[l], NoLimit)
  BY <1>1, <1>2 DEF DindLimits, Pick, Value, Is
<1>4. ASSUME NEW l \in DOMAIN launch.limits, launch.limits[l] = NoLimit PROVE Is(flags, l, NoLimit)
  <2>1. CASE RunsOn = "docker"
    BY <1>2, <1>4, <2>1, LaunchedLimits
  <2>2. CASE RunsOn = "microsandbox"
    <3>1. launch.limits = [cpus |-> WholeCpus[Limits.cpus], memory |-> Limits.memory]
      BY <2>2, LaunchedLimits
    <3>2. Limits.cpus \in DOMAIN WholeCpus
      BY <2>2 DEF Prepared, TheSpec
    <3>3. l \in LimitNames /\ Limits[l] = NoLimit
      BY <1>4, <3>1, <3>2, CpusRoundUp DEF LimitNames
    <3> QED
      BY <1>2, <3>3
  <2> QED
    BY <2>1, <2>2, LaunchedLimits
<1>5. ASSUME NEW l \in DOMAIN launch.dindLimits, launch.dindLimits[l] = NoLimit
      PROVE  Is(flags, l, NoLimit) \/ Is(flags, DindKey[l], NoLimit)
  <2>1. launch.dindLimits = DindLimits /\ l \in LimitNames
    BY <1>5, LaunchedLimits
  <2> QED
    BY <1>3, <1>5, <2>1
<1> QED
  BY <1>4, <1>5 DEF FilesCannotLiftLimits
-----------------------------------------------------------------------------
(* The theorems.                                                           *)

LEMMA PlanInvHolds == PlanSpec => []PlanInv
  BY PlanStart, PlanStep, PTL DEF PlanSpec

\* The egress a tool gets is the one the flags ask for, or else the nearest file: open only where
\* nothing asks for a filter, watched only where monitoring is asked for, and no host beyond those of
\* the tool, the files and the credentials, whatever files there are (resolve/proxy.go, merge.go).
THEOREM TheSandboxIsAsAsked == PlanSpec => []EgressIsAsAsked
<1>1. PlanInv => EgressIsAsAsked
  <2>1. PlanInv /\ Launched => EgressIsAsAsked
    BY LaunchedIsPrepared, EgressHolds
  <2>2. ~Launched => EgressIsAsAsked
    BY DEF EgressIsAsAsked
  <2> QED
    BY <2>1, <2>2
<1> QED
  BY <1>1, PlanInvHolds, PTL

\* A host that some file limits to paths is never let through whole nor on other paths, however other
\* entries spell it, unless the user was warned that the runtime cannot match paths (ProxyRules).
THEOREM LimitedHostsStayLimited == PlanSpec => []PathLimitsHold
<1>1. PlanInv => PathLimitsHold
  <2>1. PlanInv /\ Launched => PathLimitsHold
    BY LaunchedIsPrepared, PathLimitsKept
  <2>2. ~Launched => PathLimitsHold
    BY DEF PathLimitsHold
  <2> QED
    BY <2>1, <2>2
<1> QED
  BY <1>1, PlanInvHolds, PTL

\* A Docker daemon, its limits, integrations, path rules and the proxy's CA are given as asked for, or
\* the user was warned (warnIgnored); of the tool's limits only pids_limit is lacking, on microsandbox.
THEOREM DroppedSettingsAreTold == PlanSpec => []NothingIsIgnoredSilently
<1>1. PlanInv => NothingIsIgnoredSilently
  <2>1. PlanInv /\ Launched => NothingIsIgnoredSilently
    BY LaunchedIsPrepared, NothingIsDroppedSilently
  <2>2. ~Launched => NothingIsIgnoredSilently
    BY DEF NothingIsIgnoredSilently
  <2> QED
    BY <2>1, <2>2
<1> QED
  BY <1>1, PlanInvHolds, PTL

\* Every credential of the files is injected, by something that can, and none of its names or
\* secrets is in what the tool is started with (credentialSetup, checkCredentialEnv).
THEOREM SecretsAreNeverSeen == PlanSpec => []SecretsStayOut
<1>1. PlanInv => SecretsStayOut
  <2>1. PlanInv /\ Launched => SecretsStayOut
    BY LaunchedIsPrepared, SecretsKeptOut
  <2>2. ~Launched => SecretsStayOut
    BY DEF SecretsStayOut
  <2> QED
    BY <2>1, <2>2
<1> QED
  BY <1>1, PlanInvHolds, PTL

\* The agent is told the network, rules, daemon and limits its sandbox has (instructions.go); the CPUs
\* of a VM are those it is told of, rounded up (buildLimitArgs).
THEOREM InstructionsAreTrue == PlanSpec => []InstructionsMatchTheRun
<1>1. PlanInv => InstructionsMatchTheRun
  <2>1. PlanInv /\ Launched => InstructionsMatchTheRun
    BY LaunchedIsPrepared, SaidIsTrue
  <2>2. ~Launched => InstructionsMatchTheRun
    BY DEF InstructionsMatchTheRun
  <2> QED
    BY <2>1, <2>2
<1> QED
  BY <1>1, PlanInvHolds, PTL

\* No file that is loaded, however many are merged, lifts a limit of the tool or of its daemon
\* (validateLimits, mergeScalars).
THEOREM OnlyFlagsLiftLimits == PlanSpec => []FilesCannotLiftLimits
<1>1. PlanInv => FilesCannotLiftLimits
  <2>1. PlanInv /\ Launched => FilesCannotLiftLimits
    BY LaunchedIsPrepared, LimitsComeFromFlags
  <2>2. ~Launched => FilesCannotLiftLimits
    BY DEF FilesCannotLiftLimits
  <2> QED
    BY <2>1, <2>2
<1> QED
  BY <1>1, PlanInvHolds, PTL
=============================================================================
