---------------------------- MODULE MCStateFile ----------------------------
(***************************************************************************)
(* StateFile with small constants for TLC.  A behaviour has one of two     *)
(* shapes: a project with a file that two runs read while its credentials  *)
(* change; or a project below the directory that holds it, with files of   *)
(* every kind that come and go, where one run is under way at a time.      *)
(***************************************************************************)
EXTENDS StateFile, TLC

CONSTANTS token, newer, key, root, context

VARIABLE nested

MCDirs  == {"src", "project"}
MCAbove == [d \in MCDirs |-> IF d = "src" THEN {"src"} ELSE MCDirs]

\* A file without guarded settings, and two that differ in their credentials.
EitherToken == {{}, {token}, {newer}}

\* A file of every kind; `root = true' matters in the project's own only.
AnyKind == [d \in MCDirs |-> {{}, {context, key}} \cup IF d = "src" THEN {} ELSE {{root}}]

MCContents == EitherToken \cup AnyKind["project"]

Symmetric == Permutations(Runs) \cup Permutations({token, newer})

Alone == files = {"project"} /\ config["project"] \in EitherToken
Below == (\A d \in Dirs : config[d] \in AnyKind[d]) /\ (\E r \in Runs : pc[r] = "idle")
Shape == IF nested THEN Below ELSE Alone

MCInit == Init /\ nested \in BOOLEAN /\ Shape
MCNext == Next /\ UNCHANGED nested /\ Shape'
MCSpec == MCInit /\ [][MCNext]_<<vars, nested>>
=============================================================================
