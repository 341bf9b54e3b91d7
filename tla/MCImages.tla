------------------------------ MODULE MCImages ------------------------------
(* Images with small constants for TLC. *)
EXTENDS Images, TLC

With(key, value) == [NoFlags EXCEPT ![key] = value]

Java == "java"
OldJava == Java :> "17"
Debian  == BaseLayer :> "12"

MCBuildFlags ==
  {NoFlags, [With("bases", {Java}) EXCEPT !.apt = {"make"}], [With("baseExact", TRUE) EXCEPT !.aptExact = TRUE],
   With("versions", OldJava), With("versions", Debian), With("noCache", TRUE), With("pull", "yes"), With("pull", "no")}

Helm(commands) == [name |-> "helm", run |-> commands]
Config(installs) == [bases |-> {}, apt |-> {}, versions |-> << >>, installs |-> installs]
MCConfigs ==
  {Config({Helm("v1")}), [Config({Helm("v2")}) EXCEPT !.bases = {Java}, !.apt = {"gcc"},
                                                     !.versions = OldJava]}
=============================================================================
