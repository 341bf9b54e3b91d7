------------------------------- MODULE Config -------------------------------
(***************************************************************************)
(* The .agenticrc.toml files of a working directory and their merge.       *)
(*                                                                         *)
(* A file is a partial function from its keys to their values, so an unset *)
(* key is one it does not have.  A scalar key holds one value, a list key  *)
(* a set of entries.  `version' stands for each entry of [build.versions]: *)
(* the code merges and checks them one by one and alike.  A sequence of    *)
(* files goes up from the working directory: the innermost is the first.   *)
(***************************************************************************)
EXTENDS Naturals, Sequences, FiniteSets, FiniteSetsExt

CONSTANTS
  NormalHost,    \* host as written -> lower case, without a trailing dot
  WildHosts,     \* allowlist entries for a domain and its subdomains
  presets        \* preset name -> [hosts, env]

\* Of a host written with at most one trailing dot, which is any hostname, nothing is left to drop.
ASSUME HostsNormalizeOnce ==
  \A h \in DOMAIN NormalHost : NormalHost[h] \in DOMAIN NormalHost /\ NormalHost[NormalHost[h]] = NormalHost[h]

\* A credential's secret: `held' is inside a directory the tool's container can access.
Credential(preset, hosts, env, held) ==
  [preset |-> preset, hosts |-> hosts, env |-> env, held |-> held]
-----------------------------------------------------------------------------
(* The keys.                                                               *)

Scalars == {"namespace", "docker_context", "runtime", "enabled", "mode", "backend",
            "dind", "instructions", "check_updates", "version", "pids_limit", "cpus", "memory",
            "dind_pids_limit", "dind_cpus", "dind_memory"}
Lists   == {"mounts", "env", "hosts", "credentials", "paths", "integrations",
            "installs", "marketplaces", "custom"}
Keys    == {"root"} \cup Scalars \cup Lists

Sets(file, key)     == key \in DOMAIN file
Value(file, key, d) == IF Sets(file, key) THEN file[key] ELSE d
Entries(file, key)  == Value(file, key, {})
Is(file, key, v)    == Sets(file, key) /\ file[key] = v
-----------------------------------------------------------------------------
(* Validation of one file.                                                 *)

Runtimes       == {"docker", "microsandbox"}
Modes          == {"enforce", "monitor"}
Backends       == {"native", "agentic"}
Integrations   == {"gradle", "maven"}

\* The limits of [run], and the key of each one's counterpart in [run.dind].
LimitNames == {"pids_limit", "cpus", "memory"}
DindKey    == [pids_limit |-> "dind_pids_limit", cpus |-> "dind_cpus", memory |-> "dind_memory"]
\* What docker reads as no limit at all.
NoLimit    == "0"

AnyLimit(file, key) == TRUE    \* mutant
ValidLimit(file, key) == ~Is(file, key, NoLimit)

ValidCredential(c) == IF c.preset = "none" THEN c.hosts # {} ELSE c.hosts = {}

ValidAllowedPath(p) == p.host \notin WildHosts /\ p.paths # {}

\* An entry of another file may have the same name: Merge looks for those.
DuplicateInstall(installs) ==
  \E a, b \in installs : a # b /\ a.name = b.name

\* loadRC and validateRC; a key the file should not have stands for every error of its syntax.
Valid(file) ==
  /\ DOMAIN file \subseteq Keys
  /\ Value(file, "runtime", "docker") \in Runtimes
  /\ \A l \in LimitNames : ValidLimit(file, l) /\ ValidLimit(file, DindKey[l])
  /\ Value(file, "mode", "enforce") \in Modes
  /\ Value(file, "backend", "native") \in Backends
  /\ \A c \in Entries(file, "credentials") : ValidCredential(c)
  /\ \A p \in Entries(file, "paths") : ValidAllowedPath(p)
  /\ Entries(file, "integrations") \subseteq Integrations
  /\ ~DuplicateInstall(Entries(file, "installs"))
-----------------------------------------------------------------------------
(* Finding and merging.                                                    *)

\* FindLayers stops above the first file with root = true, and never reads the files there.
Visible(files) ==
  {i \in DOMAIN files : \A j \in 1..(i-1) : ~Is(files[j], "root", TRUE)}

FindLayers(files) == SubSeq(files, 1, Cardinality(Visible(files)))

OuterWins(layers, key) == layers[Max({i \in DOMAIN layers : Sets(layers[i], key)})][key]    \* mutant
\* mergeScalars fills what no layer further in has set.
Innermost(layers, key) == layers[Min({i \in DOMAIN layers : Sets(layers[i], key)})][key]

\* appendLists takes every layer's entries.
Appended(layers, key)  == UNION {Entries(layers[i], key) : i \in DOMAIN layers}

Mergeable(layers) == ~DuplicateInstall(Appended(layers, "installs"))
                     /\ \A i, j \in DOMAIN layers : i # j =>
                          Entries(layers[i], "installs") \cap Entries(layers[j], "installs") = {}

Merge(layers) ==
  [key \in (UNION {DOMAIN layers[i] : i \in DOMAIN layers}) \ {"root"} |->
     IF key \in Scalars THEN Innermost(layers, key) ELSE Appended(layers, key)]

\* LoadProject refuses a file it read that is invalid, and layers it cannot merge.
Loads(files) == /\ \A i \in Visible(files) : Valid(files[i])
                /\ Mergeable(FindLayers(files))
-----------------------------------------------------------------------------
(* Hosts, allowlist entries and credentials.                               *)

\* expand: a preset's hosts, and its env unless the entry has its own.
CredentialHosts(c) == IF c.preset = "none" THEN c.hosts
                      ELSE IF c.preset \in DOMAIN presets THEN presets[c.preset].hosts ELSE {}
CredentialEnv(c)   == IF c.preset = "none" \/ c.env # {} THEN c.env ELSE presets[c.preset].env

\* credentials.Check: a known preset, and env names to send the placeholder in.
Known(c) == /\ c.preset \in DOMAIN presets \cup {"none"}
            /\ CredentialEnv(c) # {}

\* credentials.Resolve: exact hosts, and no host twice, be it in one entry, one layer or two.
Resolves(layers) ==
  LET entries == UNION {{i} \X Entries(layers[i], "credentials") : i \in DOMAIN layers}
      hosts   == UNION {{e} \X CredentialHosts(e[2]) : e \in entries}
  IN  /\ \A h \in hosts : h[2] \notin WildHosts
      /\ \A h, g \in hosts : h # g => NormalHost[h[2]] # NormalHost[g[2]]

Rule(host, paths) == [host |-> host, paths |-> paths]

\* normalizeHost is what makes two spellings one host: a rule with paths must not meet the
\* same host allowed whole under another spelling.
PathHosts(rules) == {NormalHost[p.host] : p \in rules}

\* mergePathRules: one rule per host, with the paths of all its entries.
MergePathRules(rules) ==
  {Rule(h, UNION {p.paths : p \in {q \in rules : NormalHost[q.host] = h}}) : h \in PathHosts(rules)}

AsWritten(host) == host    \* mutant
Normalized(host) == NormalHost[host]

\* ProxyRules: the hosts of the allowlist that no path rule names, whole, and the path rules.
ProxyRules(allow, rules) ==
  {Rule(h, {}) : h \in {h \in allow : Normalized(h) \notin PathHosts(rules)}}
    \cup MergePathRules(rules)

HasPathRules(rules) == \E r \in rules : r.paths # {}
AllowWhole(rules)   == {Rule(r.host, {}) : r \in rules}
WholeHosts(rules)   == {r.host : r \in {q \in rules : q.paths = {}}}
=============================================================================
