------------------------------ MODULE MCSidecars ------------------------------
(* Sidecars with small constants for TLC. *)
EXTENDS Sidecars, TLC

DockerRuns    == {{"tool", "net"} \cup extra : extra \in SUBSET {"proxy", "dind"}}
FullRun       == {{"tool", "net", "proxy", "dind"}}
ProxyRuns     == {{"tool", "net", "proxy"}, {"proxy"}}

RunSymmetry   == Permutations(Runs)
=============================================================================
