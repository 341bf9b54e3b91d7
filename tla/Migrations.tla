----------------------------- MODULE Migrations -----------------------------
(***************************************************************************)
(* The upgrade of $AGENTIC_HOME's layout that every command runs before    *)
(* its own work (usecase/migrate, cli/root.go).                            *)
(*                                                                         *)
(* Commands run side by side and share the home without a lock.  Version 1 *)
(* is a baseline, version 2 moves the tool directories and the proxy logs, *)
(* version 3 moves what agentic recorded in agentic.json to state.json.  A *)
(* command may be killed or fail at any point; the next one starts over    *)
(* from the version the home records.                                      *)
(*                                                                         *)
(* A JSON file is `torn` between os.WriteFile's truncation and its write,  *)
(* and for good if its writer dies there; nothing can read it then.  Each  *)
(* key agentic records holds a set of answers, and is absent without any.  *)
(***************************************************************************)
EXTENDS Naturals

CONSTANTS
  Procs,      \* the commands
  ToolDirs,   \* the tool directories a legacy home may hold
  Logs,       \* the proxy logs it may hold
  Keys,       \* the keys that move to state.json: trusted_dirs, approved_settings...
  Answers,    \* what the user may have answered under one
  Contexts    \* whether commands run in projects whose config sets a docker_context

ASSUME MigrationsAssumption ==
  /\ ToolDirs \cap Logs = {}
  /\ Contexts \in BOOLEAN

Items    == ToolDirs \cup Logs
Recorded == [Keys -> SUBSET Answers]
Nothing  == [k \in Keys |-> {}]

\* state.json, and agentic.json with the user's settings and the obsolete approvals.
StateFiles  == [torn : BOOLEAN, keys : Recorded]
ConfigFiles == [torn : BOOLEAN, keys : Recorded, user : BOOLEAN, obsolete : BOOLEAN]
TornState   == [torn |-> TRUE, keys |-> Nothing]
TornConfig  == [torn |-> TRUE, keys |-> Nothing, user |-> FALSE, obsolete |-> FALSE]
NoState     == [torn |-> FALSE, keys |-> Nothing]
NoConfig    == [torn |-> FALSE, keys |-> Nothing, user |-> FALSE, obsolete |-> FALSE]

Latest   == 3
Versions == 0..Latest

VARIABLES
  home,      \* whether $AGENTIC_HOME exists
  version,   \* the version .migrations.json records, 0 without it
  old,       \* the items in their legacy place
  new,       \* the items in their place since version 2
  proxyDir,  \* whether the legacy proxy directory exists
  config,    \* agentic.json
  state,     \* state.json
  pc,        \* where each command is
  cur,       \* the version it has brought the home to
  todo,      \* what it has still to move
  item,      \* what it is about to rename
  read,      \* the agentic.json it read
  mem,       \* what it is about to write to state.json
  before     \* what the home held before: its items, its answers and the user's settings

homeVars == <<home, version, old, new, proxyDir>>
fileVars == <<config, state>>
procVars == <<pc, cur, todo, item, read, mem>>
vars     == <<homeVars, fileVars, procVars, before>>

PC == {"idle", "context", "truncAnswers", "writeAnswers", "stat", "baseline", "next",
       "moveDirs", "listLogs", "moveLogs", "rename", "tidy", "rmdir", "split", "merge",
       "truncState", "writeState", "truncConfig", "writeConfig", "record",
       "migrated", "truncLate", "writeLate"}

Goto(p, point) == pc' = [pc EXCEPT ![p] = point]
-----------------------------------------------------------------------------
\* The command ends: it failed, was killed or is done.
Quit(p) ==
  /\ Goto(p, "idle")
  /\ cur' = [cur EXCEPT ![p] = 0]
  /\ todo' = [todo EXCEPT ![p] = {}]
  /\ read' = [read EXCEPT ![p] = NoConfig]
  /\ mem' = [mem EXCEPT ![p] = Nothing]
  /\ UNCHANGED item

Begin(p) ==
  /\ pc[p] = "idle"
  /\ Goto(p, "context")
  /\ UNCHANGED <<homeVars, fileVars, cur, todo, item, read, mem, before>>

End(p) ==
  /\ pc[p] # "idle"
  /\ Quit(p)
  /\ UNCHANGED <<homeVars, fileVars, before>>

TornIsEmpty(file) == TRUE    \* mutant
Readable(file) == ~file.torn
-----------------------------------------------------------------------------
(* What a command records in state.json itself: before the migration if a  *)
(* docker_context of its project needs trust or approval, and after it.    *)

LoadAnswers(p) ==
  /\ pc[p] = "migrated" \/ (pc[p] = "context" /\ Contexts)
  /\ Readable(state)
  /\ \E k \in Keys, more \in SUBSET Answers :
       mem' = [mem EXCEPT ![p] = [state.keys EXCEPT ![k] = @ \cup more]]
  /\ Goto(p, IF pc[p] = "context" THEN "truncAnswers" ELSE "truncLate")
  /\ UNCHANGED <<homeVars, fileVars, cur, todo, item, read, before>>

\* CheckContextTrust returns at once without a docker_context, or finds it trusted and approved.
NothingToAsk(p) ==
  /\ pc[p] = "context"
  /\ Goto(p, "stat")
  /\ UNCHANGED <<homeVars, fileVars, cur, todo, item, read, mem, before>>

\* os.WriteFile creates no directory: without a home the answer cannot be saved.
TruncateAnswers(p) ==
  /\ pc[p] \in {"truncAnswers", "truncLate"} /\ home
  /\ state' = TornState
  /\ Goto(p, IF pc[p] = "truncAnswers" THEN "writeAnswers" ELSE "writeLate")
  /\ UNCHANGED <<homeVars, config, cur, todo, item, read, mem, before>>
-----------------------------------------------------------------------------
(* run: the home is created, or its version read.                          *)

NoVersion == version = 0    \* mutant
NoHome    == ~home

Stat(p) ==
  /\ pc[p] = "stat" /\ NoHome
  /\ Goto(p, "baseline")
  /\ UNCHANGED <<homeVars, fileVars, cur, todo, item, read, mem, before>>

PastLatest == Latest + 1    \* mutant
Newest     == Latest

\* MkdirAll; a new home is at the latest version.
Baseline(p) ==
  /\ pc[p] = "baseline"
  /\ home' = TRUE
  /\ cur' = [cur EXCEPT ![p] = Newest]
  /\ Goto(p, "record")
  /\ UNCHANGED <<version, old, new, proxyDir, fileVars, todo, item, read, mem, before>>

LoadVersion(p) ==
  /\ pc[p] = "stat" /\ ~NoHome
  /\ cur' = [cur EXCEPT ![p] = version]
  /\ Goto(p, "next")
  /\ UNCHANGED <<homeVars, fileVars, todo, item, read, mem, before>>

\* applyPending: the first migration newer than the version the home is at.
Applied(p) == cur' = [cur EXCEPT ![p] = @ + 1] /\ Goto(p, "record")

ApplyNext(p) ==
  /\ pc[p] = "next"
  /\ \/ cur[p] = 0 /\ Applied(p) /\ UNCHANGED todo
     \/ cur[p] = 1 /\ todo' = [todo EXCEPT ![p] = ToolDirs] /\ Goto(p, "moveDirs") /\ UNCHANGED cur
     \/ cur[p] = 2 /\ Goto(p, "split") /\ UNCHANGED <<cur, todo>>
     \/ cur[p] = Latest /\ Goto(p, "migrated") /\ UNCHANGED <<cur, todo>>
  /\ UNCHANGED <<homeVars, fileVars, item, read, mem, before>>

\* saveState renames a temporary file, so the version is never torn.
Record(p) ==
  /\ pc[p] = "record"
  /\ version' = cur[p]
  /\ Goto(p, "next")
  /\ UNCHANGED <<home, old, new, proxyDir, fileVars, cur, todo, item, read, mem, before>>
-----------------------------------------------------------------------------
(* Version 2: moveToolDirs, then moveProxyLogs.                            *)

Unmoved(m) == m \notin new    \* mutant
\* moveIfNeeded: "a no-op if dst already exists or src is already gone".
MoveNeeded(m) == m \notin new /\ m \in old

CheckMove(p) ==
  \E m \in todo[p] :
    /\ pc[p] \in {"moveDirs", "moveLogs"}
    /\ \/ MoveNeeded(m) /\ item' = [item EXCEPT ![p] = m] /\ Goto(p, "rename") /\ UNCHANGED todo
       \/ ~MoveNeeded(m) /\ todo' = [todo EXCEPT ![p] = @ \ {m}] /\ UNCHANGED <<pc, item>>
    /\ UNCHANGED <<homeVars, fileVars, cur, read, mem, before>>

\* Another command may have moved it since the check, and os.Rename then fails.
Rename(p) ==
  /\ pc[p] = "rename"
  /\ \/ /\ item[p] \in old
        /\ old' = old \ {item[p]} /\ new' = new \cup {item[p]}
        /\ todo' = [todo EXCEPT ![p] = @ \ {item[p]}]
        /\ Goto(p, IF item[p] \in Logs THEN "moveLogs" ELSE "moveDirs")
        /\ UNCHANGED <<cur, item, read, mem>>
     \/ /\ item[p] \notin old
        /\ Quit(p)
        /\ UNCHANGED <<old, new>>
  /\ UNCHANGED <<home, version, proxyDir, fileVars, before>>

EndDirs(p) ==
  /\ pc[p] = "moveDirs" /\ todo[p] = {}
  /\ Goto(p, "listLogs")
  /\ UNCHANGED <<homeVars, fileVars, cur, todo, item, read, mem, before>>

\* os.ReadDir; without a proxy directory there is nothing to move.
ListLogs(p) ==
  /\ pc[p] = "listLogs"
  /\ \/ proxyDir /\ todo' = [todo EXCEPT ![p] = old \cap Logs] /\ Goto(p, "moveLogs") /\ UNCHANGED cur
     \/ ~proxyDir /\ Applied(p) /\ UNCHANGED todo
  /\ UNCHANGED <<homeVars, fileVars, item, read, mem, before>>

EndLogs(p) ==
  /\ pc[p] = "moveLogs" /\ todo[p] = {}
  /\ Goto(p, "tidy")
  /\ UNCHANGED <<homeVars, fileVars, cur, todo, item, read, mem, before>>

\* removeIfEmpty.  A file that is no log keeps the directory.
Tidy(p) ==
  /\ pc[p] = "tidy"
  /\ \/ Goto(p, "rmdir") /\ proxyDir /\ old \cap Logs = {} /\ UNCHANGED cur
     \/ Applied(p)
  /\ UNCHANGED <<homeVars, fileVars, todo, item, read, mem, before>>

RemoveDir(p) ==
  /\ pc[p] = "rmdir"
  /\ \/ proxyDir /\ proxyDir' = FALSE /\ Applied(p) /\ UNCHANGED <<todo, item, read, mem>>
     \/ ~proxyDir /\ Quit(p) /\ UNCHANGED proxyDir
  /\ UNCHANGED <<home, version, old, new, fileVars, before>>
-----------------------------------------------------------------------------
(* Version 3: SplitStateFile.                                              *)

HasKeys(file) == file.keys # Nothing

Split(p) ==
  /\ pc[p] = "split"
  /\ Readable(config)
  /\ read' = [read EXCEPT ![p] = config]
  /\ \/ HasKeys(config) /\ Goto(p, "merge") /\ UNCHANGED cur
     \/ ~HasKeys(config) /\ config.obsolete /\ Goto(p, "truncConfig") /\ UNCHANGED cur
     \/ ~HasKeys(config) /\ ~config.obsolete /\ Applied(p)
  /\ UNCHANGED <<homeVars, fileVars, todo, item, mem, before>>

\* "values a retry finds from before a failure win", key by key.
Merged(found, moved) ==
  [k \in Keys |-> IF found[k] # {} THEN found[k] ELSE moved[k]]

Merge(p) ==
  /\ pc[p] = "merge"
  /\ Readable(state)
  /\ mem' = [mem EXCEPT ![p] = Merged(state.keys, read[p].keys)]
  /\ Goto(p, "truncState")
  /\ UNCHANGED <<homeVars, fileVars, cur, todo, item, read, before>>

\* readJSONObject and LoadState fail on a torn file, and the command with them.
Unreadable(p) ==
  /\ \/ pc[p] \in {"migrated", "merge"} /\ ~Readable(state)
     \/ pc[p] = "context" /\ Contexts /\ ~Readable(state)
     \/ pc[p] = "split" /\ ~Readable(config)
  /\ Quit(p)
  /\ UNCHANGED <<homeVars, fileVars, before>>

TruncateState(p) ==
  /\ pc[p] = "truncState"
  /\ state' = TornState
  /\ Goto(p, "writeState")
  /\ UNCHANGED <<homeVars, config, cur, todo, item, read, mem, before>>

AfterWrite(p) == CASE pc[p] = "writeAnswers" -> "stat"
                   [] pc[p] = "writeState"   -> "truncConfig"
                   [] pc[p] = "writeLate"    -> "migrated"

\* Over what another command wrote since the truncation, a shorter text leaves that one's tail.
WriteState(p) ==
  /\ pc[p] \in {"writeAnswers", "writeState", "writeLate"}
  /\ \/ state' = [torn |-> FALSE, keys |-> mem[p]]
     \/ ~state.torn /\ state' = TornState
  /\ mem' = [mem EXCEPT ![p] = Nothing]
  /\ Goto(p, AfterWrite(p))
  /\ UNCHANGED <<homeVars, config, cur, todo, item, read, before>>

TruncateConfig(p) ==
  /\ pc[p] = "truncConfig"
  /\ config' = TornConfig
  /\ Goto(p, "writeConfig")
  /\ UNCHANGED <<homeVars, state, cur, todo, item, read, mem, before>>

WriteConfig(p) ==
  /\ pc[p] = "writeConfig"
  /\ \/ config' = [NoConfig EXCEPT !.user = read[p].user]
     \/ ~config.torn /\ config' = TornConfig
  /\ Applied(p)
  /\ UNCHANGED <<homeVars, state, todo, item, read, mem, before>>
-----------------------------------------------------------------------------
\* A home without any version, one of each earlier version, or none yet.
Init ==
  /\ home \in BOOLEAN
  /\ version \in {0, 1, 2}
  /\ old \in SUBSET Items
  /\ new \in SUBSET Items
  /\ proxyDir \in BOOLEAN
  /\ config \in {file \in ConfigFiles : ~file.torn}
  /\ version < 2 => new = {}
  /\ version = 2 => old = {} /\ ~proxyDir
  /\ old \cap Logs # {} => proxyDir
  /\ ~home => version = 0 /\ old = {} /\ ~proxyDir /\ config = NoConfig
  /\ state = NoState
  /\ pc = [p \in Procs |-> "idle"]
  /\ cur = [p \in Procs |-> 0]
  /\ todo = [p \in Procs |-> {}]
  /\ item \in [Procs -> Items]
  /\ read = [p \in Procs |-> NoConfig]
  /\ mem = [p \in Procs |-> Nothing]
  /\ before = [items |-> old \cup new, answers |-> config.keys, user |-> config.user]

MigrationStep(p) ==
  \/ Stat(p) \/ Baseline(p) \/ LoadVersion(p) \/ ApplyNext(p) \/ Record(p)
  \/ CheckMove(p) \/ Rename(p) \/ EndDirs(p)
  \/ ListLogs(p) \/ EndLogs(p) \/ Tidy(p) \/ RemoveDir(p)
  \/ Split(p) \/ Merge(p) \/ TruncateState(p) \/ WriteState(p)
  \/ TruncateConfig(p) \/ WriteConfig(p)

AnswerStep(p) == LoadAnswers(p) \/ NothingToAsk(p) \/ TruncateAnswers(p)

Next == \E p \in Procs : \/ Begin(p) \/ AnswerStep(p) \/ MigrationStep(p)
                         \/ Unreadable(p) \/ End(p)

\* A command that migrates goes on; nothing makes users answer or start commands.
Spec == Init /\ [][Next]_vars /\ \A p \in Procs : WF_vars(MigrationStep(p))
-----------------------------------------------------------------------------
(* Properties.                                                             *)

TypeOK ==
  /\ home \in BOOLEAN /\ proxyDir \in BOOLEAN
  /\ version \in Versions
  /\ old \subseteq Items /\ new \subseteq Items
  /\ config \in ConfigFiles /\ state \in StateFiles
  /\ pc \in [Procs -> PC]
  /\ cur \in [Procs -> Versions]
  /\ todo \in [Procs -> SUBSET Items]
  /\ item \in [Procs -> Items]
  /\ read \in [Procs -> ConfigFiles]
  /\ mem \in [Procs -> Recorded]
  /\ before \in [items : SUBSET Items, answers : Recorded, user : BOOLEAN]

\* No answer of the user and no setting disappears in silence: at every moment, also
\* between two commands' steps and after a kill, it is in a file that can be read, or the
\* file that lost it cannot be read at all and so stops every later command
\* (0003_split_state_file.go: "leaves stale keys in agentic.json rather than lost state").
NothingVanishes ==
  /\ state.torn \/ \A k \in Keys : before.answers[k] \subseteq config.keys[k] \cup state.keys[k]
  /\ config.torn \/ config.user = before.user

\* What the home records it is: at version 2 everything that was there has moved and nothing
\* is left behind, at version 3 agentic.json holds nothing of agentic's own any more, though
\* several commands may migrate at once and the recorded version may go back and forth.
LayoutMatchesVersion ==
  /\ version >= 2 => old = {} /\ before.items \subseteq new
  /\ version = Latest => config.keys = Nothing /\ ~config.obsolete

\* A command that another one has overtaken fails by itself; any other end is a kill.
Overtaken(p) == \/ pc[p] = "rename" /\ item[p] \notin old
                \/ pc[p] = "rmdir" /\ ~proxyDir

SomeBegin == \E p \in Procs : Begin(p)
SomeKill  == \E p \in Procs : End(p) /\ pc[p] # "migrated" /\ ~Overtaken(p)
Upgraded  == version = Latest \/ state.torn \/ config.torn

\* Retries finish the upgrade: if commands go on being started, however many of them fail
\* because another overtook them, and from some time on none is killed, the home gets to
\* the latest version for good, unless a kill left a torn file
\* (0002_move_tool_and_proxy_dirs.go: "Safe to retry after a partial failure").
UpgradeCompletes ==
  []<><<SomeBegin>>_vars /\ <>[][~SomeKill]_vars => <>[]Upgraded
=============================================================================
