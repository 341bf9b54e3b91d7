----------------------------- MODULE MCCommands -----------------------------
(***************************************************************************)
(* The modules that share no state, side by side for TLC: `part' is the    *)
(* one whose steps a behaviour takes, while the others rest in one of      *)
(* their initial states.                                                   *)
(***************************************************************************)
EXTENDS MCRunPlan, MCImages, MsbImages, Instructions, SelfUpdate, Mounts, PathPatterns

VARIABLE part

\* Runs are the same model values in every module, so one permutation does for all.
Symmetric == Permutations(Vms)
-----------------------------------------------------------------------------
(* Mounts: a link outside the workspace at most, and two planted in it.    *)

Dir      == [kind |-> "dir"]
File     == [kind |-> "file"]
Link(to) == [kind |-> "link", to |-> to]

MCNames       == {"ws", "a", "x", "home", "old", "state", "proc", "root", "gone"}
MCCwd         == <<"ws">>
State         == <<"home", "state">>
MCConfigFiles == {State}

BaseTree == (<<"proc", "root">> :> Link(<< >>))
              @@ [p \in {State, <<"old", "state">>} |-> File]
              @@ [p \in {<<"ws">>, <<"ws", "a">>, <<"home">>, <<"old">>, <<"proc">>} |-> Dir]
MCTrees  == {BaseTree, (State :> Link(<<"old", "state">>)) @@ BaseTree,
             (<<"home">> :> Link(<<"old">>)) @@ [p \in DOMAIN BaseTree \ {State} |-> BaseTree[p]]}
              \cup {(<<"x">> :> Link(to)) @@ BaseTree : to \in {<<"ws">>, <<"ws", "a">>, <<"home">>}}

MCSpots       == {<<"ws", "x">>, <<"ws", "a">>, <<"ws", "a", "x">>}
MCLinkTargets == {<< >>, <<"ws">>, <<"ws", "a">>, <<"home">>, <<"proc", "root">>, <<"gone">>}

UpTo(S, n)  == UNION {[1..k -> S] : k \in 1..n}
MCHostPaths == {<< >>, <<"home">>, <<"old">>, <<"home", "x">>, <<"proc", "root">>, <<"proc", "root", "home">>}
                 \cup {<<top>> \o p : top \in {"ws", "x"}, p \in {<< >>} \cup UpTo({"ws", "a", "x"}, 2)}
-----------------------------------------------------------------------------
(* PathPatterns: an escaped letter, escaped dots once and twice, an        *)
(* escaped slash, a parameter, and a dot and a space at the end.           *)

Sent       == {"", "repos", "me", "..", "r%65pos", "%2e%2e", "%252e", "me%2f..", "me;v=1", "me. "}
MCUnsafe   == {"%2e%2e", "%252e", "me%2f..", "me;v=1"}
MCTrailing == {"..", "me. "}
MCDecoded  == [s \in Sent |-> CASE s = "r%65pos" -> "repos" [] s = "%2e%2e" -> ".." [] s = "%252e" -> "%2e"
                                [] s = "me%2f.." -> "me/.." [] OTHER -> s]
MCServersRead == [s \in Sent |-> {<<MCDecoded[s]>>} \cup
                    CASE s = "%252e" -> {<<".">>} [] s = "me%2f.." -> {<<"me", "..">>}
                      [] s \in {"me;v=1", "me. "} -> {<<"me">>} [] OTHER -> {}]
MCPatterns == UpTo({"", "repos", "me", "*", "**"}, 3)
MCPaths    == UpTo(Sent, 2) \cup UpTo({"", "repos", "me", ".."}, 3)
-----------------------------------------------------------------------------
Init ==
  /\ part \in {"plan", "images", "msb", "instructions", "update", "mounts", "paths"}
  /\ part = "plan"   \/ (files = <<<< >>, << >>>> /\ flags = << >>)
  /\ part = "images" \/ project = Config({Helm("v1")})
  /\ part = "msb"    \/ dockerd = NoDockerd
  /\ part = "instructions" \/ place = NoPlace
  /\ part = "mounts" \/ (tree = BaseTree /\ host = <<"proc", "root">>)
  /\ part = "paths"  \/ pattern = <<"me">>
  /\ PlanInit /\ ImagesInit /\ MsbInit /\ InstructionsInit /\ SelfUpdateInit /\ MountsInit /\ PathsInit

Next ==
  /\ UNCHANGED part
  /\ IF part = "plan"   THEN PlanNext ELSE UNCHANGED planVars
  /\ IF part = "images" THEN ImagesNext ELSE UNCHANGED imageVars
  /\ IF part = "msb"    THEN MsbNext ELSE UNCHANGED msbVars
  /\ IF part = "instructions" THEN InstructionsNext ELSE UNCHANGED instructionVars
  /\ IF part = "update" THEN SelfUpdateNext ELSE UNCHANGED updateVars
  /\ IF part = "mounts" THEN MountsNext ELSE UNCHANGED mountVars
  /\ IF part = "paths"  THEN NextPath ELSE UNCHANGED pathVars

Spec == Init /\ [][Next]_<<part, planVars, imageVars, msbVars, instructionVars, updateVars, mountVars, pathVars>>
=============================================================================
