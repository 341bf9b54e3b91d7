------------------------------ MODULE RunPlan ------------------------------
(***************************************************************************)
(* `agentic run' from the flags and the files of the working directory to  *)
(* what the runtime starts: Prepare's checks in their order, the RunSpec   *)
(* they build, and the two runners.                                        *)
(*                                                                         *)
(* A set of files (see Config) and a set of flags are the request.  What   *)
(* the host answers at each look (the image, the engine or msb, a secret,  *)
(* an approval, the user) may be anything.  Meanwhile a tool of another    *)
(* run may turn a directory of the workspace that is mounted into a link.  *)
(***************************************************************************)
EXTENDS Config

CONSTANTS
  ToolHosts,            \* the tool's own allowlist
  DindRegistryHosts,    \* Docker Hub
  OddHosts,             \* entries that are no hostname, like a CIDR or a group
  ConfigEnvNames, ProxyEnvNames, DindEnvNames, TrustEnvNames,
  IntegrationEnvNames,  \* integration -> the names it sets in the tool
  RefusedMounts,        \* mounts CheckMounts never lets through
  WholeCpus,            \* cpus as written, of those that are a number -> rounded up to a whole one
  Requests              \* the files and flags of the runs looked at

\* The egress flags are --proxy, --no-proxy and --proxy-monitor, of which a command takes one; it
\* refuses a --runtime it does not know.
ASSUME RequestsAssumption ==
  \A r \in Requests :
    /\ r.files \in Seq({r.files[i] : i \in DOMAIN r.files})
    /\ \A i \in DOMAIN r.files : {p.host : p \in Entries(r.files[i], "paths")} \subseteq DOMAIN NormalHost
    /\ Value(r.flags, "egress", "off") \in {"off", "enforce", "monitor"}
    /\ Value(r.flags, "runtime", "docker") \in Runtimes

\* What is above zero rounds up to one at least; a flag below zero is left out.
ASSUME CpusRoundUp == \A c \in DOMAIN WholeCpus : WholeCpus[c] = NoLimit => c = NoLimit

VARIABLES
  files,     \* the .agenticrc.toml files, the working directory's first
  flags,     \* flag -> value, of those given
  pc,
  warned,    \* the settings the user was told are ignored
  said,      \* what the instructions tell the agent about its sandbox
  spec,      \* the RunSpec
  launch,    \* what the runtime started, or printed in a dry run
  did,       \* the effects on the host so far
  link       \* a mounted path goes through a link in the workspace

request  == <<files, flags>>
rest     == <<warned, said, spec, launch, did>>
planVars == <<request, pc, rest, link>>

Nothing == [by |-> "none"]
-----------------------------------------------------------------------------
(* Flags over files over defaults.                                         *)

When(condition, set) == IF condition THEN set ELSE {}

rc == Merge(FindLayers(files))
Pick(key, d) == IF Sets(flags, key) THEN flags[key] ELSE Value(rc, key, d)
Both(key)    == Entries(rc, key) \cup Entries(flags, key)

dry       == Sets(flags, "dry")
RunsOn    == Pick("runtime", "docker")
Backend   == Pick("backend", "default")
DindAsked == Pick("dind", "off") = "on"
Limits    == [l \in LimitNames |-> Pick(l, "default")]
DindLimits == [l \in LimitNames |-> Pick(DindKey[l], Limits[l])]
creds     == Entries(rc, "credentials")

OffIsForgotten ==    \* mutant
  IF Sets(flags, "egress") THEN flags.egress
  ELSE IF Is(rc, "mode", "monitor") THEN "monitor"
  ELSE IF Is(rc, "enabled", "on") THEN "enforce" ELSE "off"
RequestedProxyMode ==
  IF Sets(flags, "egress") THEN flags.egress
  ELSE IF Is(rc, "enabled", "off") THEN "off"
  ELSE IF Is(rc, "mode", "monitor") THEN "monitor"
  ELSE IF Is(rc, "enabled", "on") THEN "enforce" ELSE "off"
-----------------------------------------------------------------------------
(* Capabilities: what the runtime offers and the request needs.            *)

DockerFeatures == {"proxy", "monitor", "dind", "dindLimits", "credentials", "paths",
                   "integrations", "pids"}
MsbFeatures    == {"proxy", "dind", "credentials"}

Agentic == RunsOn = "microsandbox" /\ Backend = "agentic"
Offered == IF RunsOn = "docker" THEN DockerFeatures
           ELSE MsbFeatures \cup When(Agentic, {"monitor", "paths"})
\* CredentialsViaProxy and EgressViaProxy, which no runtime has one without the other.
ThroughProxy == RunsOn = "docker" \/ Agentic

DindLimitsSet == \E l \in LimitNames : Sets(flags, DindKey[l]) \/ Sets(rc, DindKey[l])
MayFilter == RequestedProxyMode # "off" \/ creds # {}
RequiredFeatures ==
  {"pids"} \cup When(RequestedProxyMode # "off", {"proxy"})
           \cup When(RequestedProxyMode = "monitor", {"monitor"})
           \cup When(DindAsked, {"dind"})
           \cup When(DindAsked /\ DindLimitsSet, {"dindLimits"})
           \cup When(creds # {}, {"credentials"})
           \cup When(Entries(rc, "paths") # {} /\ MayFilter, {"paths"})
           \cup When(Both("integrations") # {} /\ MayFilter, {"integrations"})

Security == {"proxy", "monitor", "credentials"}
Unasked(missing) == missing \cap {"dind", "dindLimits"}    \* mutant
Ignored(missing) ==
  (missing \cap {"paths", "integrations", "dind"})
     \cup When("dind" \notin missing, missing \cap {"dindLimits"})
-----------------------------------------------------------------------------
(* The input and the RunSpec.                                              *)

\* Credentials the proxy injects turn it on, and refuse an explicit off.
ModeRefused == /\ RequestedProxyMode = "off" /\ ThroughProxy /\ creds # {}
               /\ Is(flags, "egress", "off") \/ Is(rc, "enabled", "off")
ProxyMode   == IF RequestedProxyMode = "off" /\ ThroughProxy /\ creds # {}
               THEN "enforce" ELSE RequestedProxyMode

IntegrationsApplied == When(ProxyMode # "off" /\ "integrations" \in Offered, Both("integrations"))
DindOn              == "dind" \in Offered /\ DindAsked

Allowed == ToolHosts \cup When(DindOn, DindRegistryHosts) \cup Entries(rc, "hosts")
             \cup UNION {CredentialHosts(c) : c \in creds}
AllRules == ProxyRules(Allowed, Entries(rc, "paths"))    \* mutant
Rules    == LET rules == ProxyRules(Allowed, Entries(rc, "paths"))
            IN  IF "paths" \in Offered THEN rules ELSE AllowWhole(rules)

Reserved == ConfigEnvNames \cup When(ProxyMode # "off", ProxyEnvNames)
              \cup When(DindOn, DindEnvNames)
              \cup UNION {IntegrationEnvNames[i] : i \in IntegrationsApplied}

OnlyManagedNames ==    \* mutant
  creds # {} => /\ Both("env") \cap TrustEnvNames = {}
                /\ \A c \in creds : CredentialEnv(c) \cap TrustEnvNames = {}
\* checkCredentialEnv: a name agentic manages, or one an entry would fill with the real secret.
CredentialEnvIsFree ==
  creds # {} => /\ Both("env") \cap TrustEnvNames = {}
                /\ \A c \in creds : CredentialEnv(c) \cap (Reserved \cup ProxyEnvNames \cup TrustEnvNames
                                                            \cup Both("env")) = {}
CredentialsAreSafe ==
  creds # {} => /\ ThroughProxy => ProxyMode # "off"
                /\ \A c \in creds : ~c.held

TheSpec == [mode |-> ProxyMode, rules |-> Rules, integrations |-> IntegrationsApplied,
          dind |-> DindOn, limits |-> Limits, dindLimits |-> DindLimits,
          env |-> Both("env"), mounts |-> Both("mounts"), credentials |-> creds]

SpecFeatures == When(spec.mode # "off", {"proxy"})
                  \cup When(spec.mode = "monitor", {"monitor"})
                  \cup When(spec.credentials # {}, {"credentials"})
                  \cup When(spec.mode # "off" /\ HasPathRules(spec.rules), {"paths"})
Decrypts == ThroughProxy /\ SpecFeatures \cap {"credentials", "paths"} # {}

Docker == IF ~DindOn THEN "none" ELSE IF RunsOn = "docker" THEN "sidecar" ELSE "vm"
AllSaid ==    \* mutant
  [by |-> RunsOn, network |-> IF ProxyMode = "off" \/ "proxy" \notin Offered THEN "unfiltered" ELSE ProxyMode,
   filter |-> IF ThroughProxy THEN "proxy" ELSE "vm", rules |-> Rules, docker |-> Docker,
   limits |-> Limits, dindLimits |-> IF Docker = "sidecar" THEN DindLimits ELSE << >>]
\* BuildInstructions: the sections that depend on the request, with each limit as it is written.
Said ==
  [by      |-> RunsOn,
   network |-> IF ProxyMode = "off" \/ "proxy" \notin Offered THEN "unfiltered" ELSE ProxyMode,
   filter  |-> IF ThroughProxy THEN "proxy" ELSE "vm",
   rules   |-> Rules,
   docker  |-> Docker,
   limits  |-> [l \in LimitNames \ When("pids" \notin Offered, {"pids_limit"}) |-> Limits[l]],
   dindLimits |-> IF Docker = "sidecar" THEN DindLimits ELSE << >>]
-----------------------------------------------------------------------------
(* What each runtime makes of the RunSpec.                                 *)

ByProxy == spec.mode # "off" /\ ThroughProxy
\* buildLimitArgs: msb takes whole CPUs, and no limit of processes.
MsbLimits == [cpus |-> WholeCpus[spec.limits.cpus], memory |-> spec.limits.memory]
Launch  ==
  [by     |-> RunsOn,
   egress |-> IF spec.mode = "off" THEN "open" ELSE IF ByProxy THEN "proxy" ELSE "vm",
   mode   |-> spec.mode,
   \* msb's own rules name whole hosts
   rules  |-> IF ThroughProxy THEN spec.rules ELSE {Rule(h, {}) : h \in WholeHosts(spec.rules)},
   injects |-> spec.credentials,
   integrations |-> When(ByProxy, spec.integrations),
   env    |-> spec.env,
   limits |-> IF RunsOn = "docker" THEN spec.limits ELSE MsbLimits,
   docker |-> IF ~spec.dind THEN "none" ELSE IF RunsOn = "docker" THEN "sidecar" ELSE "vm",
   \* a daemon in the VM has the VM's
   dindLimits |-> IF spec.dind /\ RunsOn = "docker" THEN spec.dindLimits ELSE << >>]

\* buildLimitArgs, buildNetworkArgs and buildEntrypointArgs.
MsbRefuses ==
  \/ spec.limits.cpus \notin DOMAIN WholeCpus
  \/ spec.mode # "off" /\ ~ByProxy /\ (spec.mode = "monitor" \/ WholeHosts(spec.rules) \cap OddHosts # {})
  \/ Is(flags, "skip", "nothing")
-----------------------------------------------------------------------------
At(step)  == pc = step /\ UNCHANGED <<request, link>>
Refuse    == pc' = "refused" /\ UNCHANGED rest
Go(step)  == pc' = step /\ UNCHANGED rest
Check(ok, step) == IF ok THEN Go(step) ELSE Refuse
Does(effects, step) ==
  pc' = step /\ did' = did \cup effects /\ UNCHANGED <<warned, said, spec, launch>>

LoadProject == At("load") /\ Check(Loads(files), "runtime")

\* checkCapabilities: refuses missing security features, warns about ignored settings.
CheckRuntime ==
  /\ At("runtime")
  /\ LET missing == RequiredFeatures \ Offered IN
     IF missing \cap Security # {} THEN Refuse
     ELSE /\ warned' = warned \cup Ignored(missing)
          /\ pc' = "runner"
          /\ UNCHANGED <<said, spec, launch, did>>

\* A dry run asks neither the engine nor msb; Docker looks for the docker layer all the same.
RunnerCheck ==
  /\ At("runner")
  /\ \/ /\ pc' = "credentials"
        /\ warned' = warned \cup When(/\ RunsOn = "docker" /\ Backend = "native"
                                      /\ RequiredFeatures \cap {"proxy", "credentials"} # {}, {"backend"})
        /\ UNCHANGED <<said, spec, launch, did>>
     \/ /\ ~dry \/ (RunsOn = "docker" /\ DindAsked)
        /\ Refuse

CheckCredentials == At("credentials") /\ Check(\A c \in creds : Known(c), "image")
SetupFirst       == At("image") /\ (Does({"setup"}, "approve") \/ Refuse)    \* mutant
RequireImage     == At("image") /\ (Go("approve") \/ Refuse)
\* checkTrust and checkSettings, which StateFile has in full.
Approve          == At("approve") /\ (Does({"approval"}, "update") \/ Refuse)

\* checkTool: an update that is due and accepted, then the tool's host files.
CheckTool ==
  /\ At("update")
  /\ \E updated \in {{}} \cup When(~dry, {{"update"}}) :
       Does(updated \cup {"setup"}, "input") \/ Does(updated, "refused")

\* runInput; an approval may have been taken back, and a secret be unreadable.
ResolveInput ==
  /\ At("input")
  /\ \/ Check(/\ Entries(flags, "integrations") \subseteq Integrations
              /\ ~ModeRefused
              /\ Resolves(FindLayers(files)), "instructions")
     \/ creds # {} /\ Refuse

\* This run gets a snapshot, or an instructions file the project disabled loses its block, unless
\* it is empty.
WriteInstructions ==
  /\ At("instructions")
  /\ \/ /\ Pick("instructions", "on") # "off"
        /\ said' = Said /\ did' = did \cup {"snapshot"} /\ pc' = "marketplaces"
        /\ UNCHANGED <<warned, spec, launch>>
     \/ /\ Pick("instructions", "on") = "off"
        /\ Does({"instructions"}, "marketplaces") \/ Go("marketplaces")
     \/ Refuse

SyncMarketplaces ==
  /\ At("marketplaces")
  /\ IF Entries(rc, "marketplaces") = {} THEN Go("mounts")
     ELSE Does({"marketplaces"}, "mounts") \/ Refuse

CheckMounts == At("mounts") /\ Check(~link /\ Both("mounts") \cap RefusedMounts = {}, "env")

\* validateEnv and credentialSetup.
RunEnv == /\ At("env")
          /\ Check(/\ Both("env") \cap Reserved = {}
                   /\ CredentialsAreSafe /\ CredentialEnvIsFree, "spec")

NewRunSpec == At("spec") /\ spec' = TheSpec /\ pc' = "trust"
              /\ UNCHANGED <<warned, said, launch, did>>

\* An entrypoint from before the proxy CA could not add it; a skipped one does not.
CheckProxyTrust ==
  /\ At("trust")
  /\ \/ /\ warned' = warned \cup When(Decrypts /\ Sets(flags, "skip"), {"trust"})
        /\ pc' = "run"
        /\ UNCHANGED <<said, spec, launch, did>>
     \/ Decrypts /\ ~Sets(flags, "skip") /\ Refuse

\* checkSpec, then the mounts again.
Run == At("run") /\ Check(SpecFeatures \subseteq Offered /\ ~link, "host")

EagerHost ==    \* mutant
  /\ At("host")
  /\ LET next == IF RunsOn = "docker" THEN "start" ELSE IF ByProxy THEN "proxy" ELSE "tool" IN
     \/ Does(IF RunsOn = "docker" THEN {"volumes", "sidecar images"} ELSE {"image"}, next)
     \/ Refuse
\* prepareDockerHost, or ensureDockerdImage and ensureMicrosandboxImage.
PrepareHost ==
  /\ At("host")
  /\ LET next == IF RunsOn = "docker" THEN "start" ELSE IF ByProxy THEN "proxy" ELSE "tool" IN
     IF dry THEN Go(next)
     ELSE \/ Does(IF RunsOn = "docker" THEN {"volumes", "sidecar images"}
                  ELSE {"image"} \cup When(spec.dind, {"dockerd image"}), next)
          \/ Refuse

\* runThroughProxy's own host resources, before which the mounts are checked.
PrepareProxy ==
  /\ At("proxy")
  /\ IF link THEN Refuse
     ELSE IF dry THEN Go("start")
     ELSE Does({"sidecar images"}, "start") \/ Refuse

StartSidecars ==
  /\ At("start")
  /\ IF link /\ (RunsOn = "docker" \/ ~dry) THEN Refuse
     ELSE IF dry THEN Go("tool")
     ELSE Does({"sidecars"}, "tool") \/ Refuse

ToolUnchecked ==    \* mutant
  /\ At("tool")
  /\ IF RunsOn = "microsandbox" /\ MsbRefuses THEN Refuse
     ELSE /\ launch' = Launch
          /\ did' = did \cup When(~dry, {"tool"})
          /\ pc' = "done"
          /\ UNCHANGED <<warned, said, spec>>
RunTool ==
  /\ At("tool")
  /\ IF link \/ (RunsOn = "microsandbox" /\ MsbRefuses) THEN Refuse
     ELSE /\ launch' = Launch
          /\ did' = did \cup When(~dry, {"tool"})
          /\ pc' = "done"
          /\ UNCHANGED <<warned, said, spec>>

\* The workspace is shared with every other run in it.
PlantLink == /\ pc \notin {"load", "done", "refused"}
             /\ Both("mounts") # {}
             /\ ~link /\ link' = TRUE
             /\ UNCHANGED <<request, pc, rest>>
-----------------------------------------------------------------------------
PlanInit ==
  /\ \E r \in Requests : files = r.files /\ flags = r.flags
  /\ pc = "load" /\ warned = {} /\ did = {} /\ link = FALSE
  /\ said = Nothing /\ spec = Nothing /\ launch = Nothing

PlanNext ==
  \/ LoadProject \/ CheckRuntime \/ RunnerCheck \/ CheckCredentials \/ RequireImage
  \/ Approve \/ CheckTool \/ ResolveInput \/ WriteInstructions \/ SyncMarketplaces
  \/ CheckMounts \/ RunEnv \/ NewRunSpec \/ CheckProxyTrust \/ Run
  \/ PrepareHost \/ PrepareProxy \/ StartSidecars \/ RunTool \/ PlantLink

PlanSpec == PlanInit /\ [][PlanNext]_planVars
-----------------------------------------------------------------------------
(* What a user may rely on.                                                *)

Launched == launch # Nothing

\* The file of the working directory, or of the nearest one above it, that has a say.
SaidBy(key, v) ==
  \E i \in Visible(files) : Is(files[i], key, v) /\ \A j \in 1..(i-1) : ~Sets(files[j], key)
Declared(key) == UNION {Entries(files[i], key) : i \in Visible(files)}

NoFlag      == ~Sets(flags, "egress")
AsksMonitor == \/ Is(flags, "egress", "monitor")
               \/ NoFlag /\ SaidBy("mode", "monitor") /\ ~SaidBy("enabled", "off")
AsksFilter  == \/ AsksMonitor \/ Is(flags, "egress", "enforce")
               \/ NoFlag /\ SaidBy("enabled", "on")

\* The sandbox has the egress the flags ask for, or else the nearest file: open only where
\* nobody asks for a filter (nor for credentials only a proxy can inject), watched rather than
\* filtered only where monitoring is asked for, and no host let through that the tool, a file
\* or a credential did not name.
EgressIsAsAsked ==
  Launched =>
    /\ launch.egress = "open" <=> ~AsksFilter /\ (Declared("credentials") = {} \/ ~ThroughProxy)
    /\ launch.mode = "monitor" <=> AsksMonitor
    /\ launch.egress # "open" =>
         {NormalHost[r.host] : r \in launch.rules} \subseteq
           {NormalHost[h] : h \in ToolHosts \cup Declared("hosts")
              \cup {p.host : p \in Declared("paths")}
              \cup When(DindAsked, DindRegistryHosts)
              \cup UNION {CredentialHosts(c) : c \in Declared("credentials")}}

\* A host some file limits to paths is never let through whole, under whatever spelling another
\* entry names it, unless the user was told that the runtime cannot match paths.
PathLimitsHold ==
  Launched /\ launch.egress # "open" /\ "paths" \notin warned =>
    \A p \in Declared("paths"), r \in launch.rules :
      NormalHost[r.host] = NormalHost[p.host] =>
        r.paths # {} /\ r.paths \subseteq UNION {q.paths : q \in {q \in Declared("paths") :
                                                 NormalHost[q.host] = NormalHost[p.host]}}

\* checkSpec is called a backstop for checkCapabilities: what the request was let through
\* with before any prompt never becomes a RunSpec the runtime cannot enforce.
BackstopNeverFires == pc = "run" => SpecFeatures \subseteq Offered

\* A flag or a file has the key.
Given(key) == Sets(flags, key) \/ \E i \in Visible(files) : Sets(files[i], key)

\* What was asked for and what was launched lacks.
Dropped ==
  UNION {When(DindAsked /\ launch.docker = "none", {"dind"}),
         When(DindAsked /\ \E l \in LimitNames : Given(DindKey[l]) /\ l \notin DOMAIN launch.dindLimits,
              {"dindLimits"}),
         When(AsksFilter /\ ~(Declared("integrations") \cup Entries(flags, "integrations")
                                \subseteq launch.integrations), {"integrations"}),
         When(launch.egress # "open" /\ \E r \in launch.rules :
                r.paths = {} /\ NormalHost[r.host] \in PathHosts(Declared("paths")), {"paths"}),
         When(Decrypts /\ Sets(flags, "skip"), {"trust"}),
         When(\E l \in LimitNames : Given(l) /\ l \notin DOMAIN launch.limits, {"limits"})}

\* A Docker daemon or its limits, integrations, path rules or the proxy's CA that the sandbox lacks
\* although the user asked for it is one the user was warned of, and no limit of the tool is lacking
\* but the number of processes on microsandbox, of which no warning tells (warnIgnored).
NothingIsIgnoredSilently ==
  Launched =>
    /\ Dropped \ {"limits"} \subseteq warned
    /\ LimitNames \ DOMAIN launch.limits = When(launch.by = "microsandbox", {"pids_limit"})

\* Every setting the runtime ignores is one the user was warned of, as the comment at warnIgnored
\* has it; not so for pids_limit on microsandbox.
EveryIgnoredSettingIsWarned == Launched => Dropped \subseteq warned

\* A credential the tool gets is one it never sees: its secret is in no directory of the
\* sandbox, no env entry forwards a real value under its names, and something injects it.
SecretsStayOut ==
  Launched =>
    /\ launch.injects = Declared("credentials")
    /\ launch.injects # {} => ~ThroughProxy \/ launch.egress = "proxy"
    /\ \A c \in launch.injects : ~c.held /\ CredentialEnv(c) \cap launch.env = {}
    /\ launch.egress # "open" => launch.env \cap ProxyEnvNames = {}

\* What the agent is told about its network, its Docker daemon and its limits is what it gets: the
\* limits it is told of are those that are enforced, each as told, or for a VM's CPUs rounded up.
InstructionsMatchTheRun ==
  Launched /\ said # Nothing =>
    /\ said.by = launch.by /\ said.docker = launch.docker /\ said.dindLimits = launch.dindLimits
    /\ DOMAIN said.limits = DOMAIN launch.limits
    /\ \A l \in DOMAIN launch.limits :
         launch.limits[l] = IF l = "cpus" /\ launch.by = "microsandbox" THEN WholeCpus[said.limits[l]]
                            ELSE said.limits[l]
    /\ launch.egress = "open" <=> said.network = "unfiltered"
    /\ launch.egress # "open" => /\ said.network = launch.mode /\ said.filter = launch.egress
                                 /\ said.rules = launch.rules

\* Sidecars (the Docker daemon mounts the workspace too) and the tool only start while no
\* mounted path goes through a link, however long a step before took.
MountsAreAsChecked ==
  [][did' \cap {"sidecars", "tool"} \subseteq did \/ ~link]_planVars

\* A dry run prints a command: it builds, loads and starts nothing, and updates no image.
DryRunsStartNothing ==
  dry => did \subseteq {"approval", "setup", "snapshot", "instructions", "marketplaces"}

\* Nothing acts on the project's files before the user has approved them.
NothingBeforeApproval == did # {} => "approval" \in did

\* Only a flag can lift a limit: no file that is loaded holds docker's "no limit".
FilesCannotLiftLimits ==
  Launched =>
    /\ \A l \in DOMAIN launch.limits : launch.limits[l] = NoLimit => Is(flags, l, NoLimit)
    /\ \A l \in DOMAIN launch.dindLimits :
         launch.dindLimits[l] = NoLimit => Is(flags, l, NoLimit) \/ Is(flags, DindKey[l], NoLimit)
=============================================================================
