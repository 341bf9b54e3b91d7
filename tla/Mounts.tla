------------------------------- MODULE Mounts -------------------------------
(***************************************************************************)
(* The checks of a run's bind mounts against the links on the host.        *)
(*                                                                         *)
(* A path is the sequence of its names below the root; a tree says what    *)
(* each existing path is.  The docker daemon resolves a mount's host path  *)
(* through every link; what it reaches is what the tool gets.  Paths are   *)
(* case sensitive, as on Linux.                                            *)
(***************************************************************************)
EXTENDS Naturals, SequencesExt

CONSTANTS
  Names,        \* names of files
  Trees,        \* path -> [kind |-> "dir" or "file"], or [kind |-> "link", to |-> path]
  Spots,        \* where in the workspace a tool plants links
  LinkTargets,  \* where they lead
  MaxPlanted,   \* bound: links planted
  Cwd,          \* the working directory as agentic sees it
  ConfigFiles,  \* agentic.json and state.json
  HostPaths     \* host sides of mounts, as written and made absolute

Prefix(path, n)   == SubSeq(path, 1, n)
Without(path, n)  == SubSeq(path, n + 1, Len(path))

\* Errors, as paths no host has.
Absent == <<"error", "absent">>
Broken == <<"error", "broken">>

\* What the links lead to is written out from the root; above everything there is are directories.
WellFormed(t) ==
  /\ DOMAIN t \subseteq Seq(Names) \ {<< >>, Absent, Broken}
  /\ \A p \in DOMAIN t :
       /\ t[p].kind = "link" => t[p].to \in Seq(Names)
       /\ \A n \in 1..Len(p) - 1 : Prefix(p, n) \in DOMAIN t /\ t[Prefix(p, n)].kind = "dir"

ASSUME TreesAssumption ==
  /\ \A t \in Trees : WellFormed(t)
  /\ Spots \subseteq Seq(Names) \ {<< >>, Absent, Broken}
  /\ HostPaths \cup ConfigFiles \cup LinkTargets \cup {Cwd} \subseteq Seq(Names)

VARIABLES tree, host, planted    \* the host's files, the mount looked at, and the links planted

mountVars == <<tree, host, planted>>

MaxHops == 4    \* bound: links followed before a path counts as a loop
-----------------------------------------------------------------------------
(* Resolving.                                                              *)

IsLink(path) == path \in DOMAIN tree /\ tree[path].kind = "link"
IsFile(path) == path \in DOMAIN tree /\ tree[path].kind = "file"
IsDir(path)  == path = << >> \/ (path \in DOMAIN tree /\ tree[path].kind = "dir")
Exists(path) == path = << >> \/ path \in DOMAIN tree

\* The kernel goes on from where the first link on the way leads.
Links(path)  == {n \in 1..Len(path) : IsLink(Prefix(path, n))}
Unlink(path) ==
  IF Links(path) = {} THEN path
  ELSE LET n == Min(Links(path)) IN tree[Prefix(path, n)].to \o Without(path, n)

Walked(path) ==
  LET walked[i \in 0..MaxHops] == IF i = 0 THEN path ELSE Unlink(walked[i-1])
  IN  walked[MaxHops]

\* filepath.EvalSymlinks: a loop or a file on the way is another error than a missing path.
EvalSymlinks(path) ==
  LET real == Walked(path)
  IN  IF Links(real) # {} \/ \E n \in 1..Len(real) - 1 : IsFile(Prefix(real, n)) THEN Broken
      ELSE IF Exists(real) THEN real ELSE Absent

\* resolvePrefix: the longest prefix that exists, then the rest as written.
ResolvePrefix(path) ==
  LET n == Max({k \in 0..Len(path) : EvalSymlinks(Prefix(path, k)) # Absent})
      r == EvalSymlinks(Prefix(path, n))
  IN  IF r = Broken THEN Broken ELSE r \o Without(path, n)

ResolveExisting(path) == IF ResolvePrefix(path) = Broken THEN path ELSE ResolvePrefix(path)
-----------------------------------------------------------------------------
(* The checks.                                                             *)

IsProcPath(path) == path # << >> /\ Head(path) = "proc"

Resolvable == ~IsProcPath(host) /\ ResolvePrefix(host) # Broken /\ ~IsProcPath(ResolvePrefix(host))

\* The lengths of the prefixes that resolve to the working directory.
Roots == {n \in 0..Len(host) : ResolveExisting(Prefix(host, n)) = ResolveExisting(Cwd)}

Deepest == Max(Roots)    \* mutant
WorkspaceRoot == Min(Roots)

\* Lstat follows every link but the last.
Lstat(path)  == LET dir == EvalSymlinks(Prefix(path, Len(path) - 1))
                IN  IF dir \in {Absent, Broken} THEN path ELSE Append(dir, path[Len(path)])

WorkspaceSymlink ==
  Roots # {} /\ \E n \in WorkspaceRoot + 1 .. Len(host) : IsLink(Lstat(Prefix(host, n)))

PathForms(path) == {path, ResolveExisting(path)}
Within(path, root) ==
  \E p \in PathForms(path), r \in PathForms(root) : r \in Prefixes(p)

PassesChecks(path) == Resolvable /\ ~WorkspaceSymlink /\ \A f \in ConfigFiles : ~Within(f, path)
-----------------------------------------------------------------------------
MountsInit == tree \in Trees /\ host \in HostPaths /\ planted = 0

\* A tool of an earlier run replaces what is there, with everything below it.
PlantAt(spot) ==
  /\ planted < MaxPlanted
  /\ IsDir(Prefix(spot, Len(spot) - 1))
  /\ \E to \in LinkTargets :
       tree' = [p \in {p \in DOMAIN tree : spot \notin Prefixes(p)} \cup {spot} |->
                  IF p = spot THEN [kind |-> "link", to |-> to] ELSE tree[p]]
  /\ planted' = planted + 1
  /\ UNCHANGED host

MountsNext == \E spot \in Spots : PlantAt(spot)
MountsSpec == MountsInit /\ [][MountsNext]_mountVars
-----------------------------------------------------------------------------
\* A mount that passes shows the tool no file that holds approvals, wherever links put the file or the
\* mount, and one named below the working directory is the very directory there: no link inside the
\* workspace, not even one that leads back into it, takes part in what the daemon resolves.
MountsLeadWhereTheySay ==
  PassesChecks(host) =>
    /\ \A f \in ConfigFiles :
         LET real == EvalSymlinks(f)
         IN  real \notin {Absent, Broken} => ResolvePrefix(host) \notin Prefixes(real)
    /\ LET cwd == EvalSymlinks(Cwd)
       IN  cwd \notin {Absent, Broken} =>
             \A n \in 0..Len(host) :
               EvalSymlinks(Prefix(host, n)) = cwd => ResolvePrefix(host) = cwd \o Without(host, n)
=============================================================================
