----------------------------- MODULE MCRunPlan -----------------------------
(* RunPlan with small constants for TLC. *)
EXTENDS RunPlan, TLC

\* "API" is "api" as somebody else wrote it.
MCHosts      == {"model", "api", "API", "hub", ".wild", "group"}
MCNormalHost == [h \in MCHosts |-> IF h = "API" THEN "api" ELSE h]
MCPresets    == [github |-> [hosts |-> {"api"}, env |-> {"TOKEN"}]]
MCWholeCpus  == [c \in {"default", "1.5", "2", NoLimit} |-> IF c = "1.5" THEN "2" ELSE c]
MCIntegrationEnv == [gradle |-> {"GRADLE_OPTS"}, maven |-> {"MAVEN_ARGS"}]

Github  == Credential("github", {}, {}, FALSE)
Other   == Credential("none", {"API"}, {"KEY"}, FALSE)
Leaky   == Credential("none", {"model"}, {"KEY"}, TRUE)
Clashes == Credential("github", {}, {"HTTP_PROXY"}, FALSE)
Unknown == Credential("gitlab", {}, {"KEY"}, FALSE)
Limited == [host |-> "API", paths |-> {"/repos"}]
Wild    == [host |-> ".wild", paths |-> {"/repos"}]

\* What a request may add to one of the bases: at 0 a flag, at 1 and 2 a key of the working
\* directory's file and of the one above it.
Option(at, key, values) == {[at |-> at, key |-> key, value |-> v] : v \in values}

Flags ==
  Option(0, "egress", {"off", "enforce", "monitor"}) \cup Option(0, "runtime", {"docker"})
  \cup Option(0, "backend", {"native"})
  \cup Option(0, "dind", {"on", "off"}) \cup Option(0, "pids_limit", {NoLimit})
  \cup Option(0, "cpus", {"1.5", "many", NoLimit}) \cup Option(0, "dind_memory", {NoLimit})
  \cup Option(0, "integrations", {{"maven"}, {"npm"}})
  \cup Option(0, "env", {{"TOKEN"}}) \cup Option(0, "dry", {TRUE})
  \cup Option(0, "skip", {"command", "nothing"})
Inner ==
  Option(1, "enabled", {"on", "off"}) \cup Option(1, "mode", {"monitor"})
  \cup Option(1, "dind", {"on"}) \cup Option(1, "pids_limit", {"small"})
  \cup Option(1, "cpus", {"1.5", NoLimit}) \cup Option(1, "dind_memory", {NoLimit})
  \cup Option(1, "instructions", {"off"}) \cup Option(1, "integrations", {{"gradle"}})
  \cup Option(1, "hosts", {{"api"}, {".wild", "group"}}) \cup Option(1, "paths", {{Limited}, {Wild}})
  \cup Option(1, "credentials", {{Github}, {Other}, {Leaky}, {Clashes}, {Unknown}})
  \cup Option(1, "env", {{"PLAIN"}, {"HTTP_PROXY"}, {"DOCKER_HOST"}, {"CA_FILE"}, {"GRADLE_OPTS"}})
  \cup Option(1, "mounts", {{"data"}, {"config"}}) \cup Option(1, "marketplaces", {{"plugins"}})
  \cup Option(1, "root", {TRUE}) \cup Option(1, "typo", {"on"})
Outer ==
  Option(2, "enabled", {"off"}) \cup Option(2, "dind_memory", {"small"})
  \cup Option(2, "hosts", {{"API"}}) \cup Option(2, "credentials", {{Other}})

Options == Flags \cup Inner \cup Outer

\* Plain, and with an egress filter and path rules, on each runtime.
Bases ==
  {runtime \cup asks :
     runtime \in {{}, Option(2, "runtime", {"microsandbox"}),
                  Option(2, "runtime", {"microsandbox"}) \cup Option(2, "backend", {"agentic"})},
     asks \in {{}, Option(2, "mode", {"enforce"}) \cup Option(2, "enabled", {"on"})
                     \cup Option(2, "paths", {{Limited}}) \cup Option(1, "hosts", {{"api"}})}}

Place(options, at) ==
  LET here == {o \in options : o.at = at}
  IN  [key \in {o.key : o \in here} |-> (CHOOSE o \in here : o.key = key).value]

\* An addition takes the place of what the base has there.
Request(base, added) ==
  LET kept == {b \in base : \A o \in added : <<o.at, o.key>> # <<b.at, b.key>>}
      all  == kept \cup added
  IN  [files |-> <<Place(all, 1), Place(all, 2)>>, flags |-> Place(all, 0)]

MCRequests == {Request(base, {a, b}) : base \in Bases, a, b \in Options}
                \cup {Request(base, {}) : base \in Bases}
=============================================================================
