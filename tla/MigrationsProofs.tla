-------------------------- MODULE MigrationsProofs --------------------------
(***************************************************************************)
(* What the upgrade keeps, for any number of commands, items, keys and     *)
(* answers.  The argument rests on what only ever shrinks: nothing returns *)
(* to a legacy place, and no key returns to agentic.json, so what a        *)
(* command found gone stays gone while it is between two steps.            *)
(***************************************************************************)
EXTENDS Migrations, TLAPS

Moving    == {"moveDirs", "listLogs", "moveLogs", "rename", "tidy", "rmdir"}
Splitting == {"split", "merge", "truncState", "writeState", "truncConfig", "writeConfig"}
Answering == {"migrated", "truncLate", "writeLate"}

Stripped == config.keys = Nothing /\ ~config.obsolete
Missing  == before.items = {} /\ Stripped

\* Where a command is tells which version it has brought the home to.
CurKnown(p) ==
  /\ pc[p] \in Moving => cur[p] = 1
  /\ pc[p] \in Splitting => cur[p] = 2
  /\ pc[p] \in Answering => cur[p] = Latest

\* What is still in its legacy place is what a moving command has still to look at.
Unlisted(p) ==
  /\ pc[p] = "moveDirs" \/ (pc[p] = "rename" /\ item[p] \notin Logs)
       => todo[p] \subseteq ToolDirs /\ old \cap ToolDirs \subseteq todo[p]
  /\ pc[p] = "listLogs" => old \subseteq Logs
  /\ pc[p] = "moveLogs" \/ (pc[p] = "rename" /\ item[p] \in Logs)
       => todo[p] \subseteq Logs /\ old \subseteq todo[p]
  /\ pc[p] \in {"tidy", "rmdir"} => old = {}

\* The version a command has brought the home to is the layout it has.
Reached(p) ==
  /\ cur[p] >= 2 => old = {}
  /\ cur[p] = Latest => Stripped
  /\ pc[p] = "baseline" => Missing

UserRead(p) == pc[p] \in Splitting \ {"split"} => read[p].user = before.user

ProcInv(p) == CurKnown(p) /\ Unlisted(p) /\ Reached(p) /\ UserRead(p)

SharedInv ==
  /\ old \cap new = {} /\ old \cup new = before.items
  /\ old \cap Logs # {} => proxyDir
  /\ ~home => Missing
  /\ version >= 2 => old = {}
  /\ version = Latest => Stripped
  /\ config.torn \/ config.user = before.user

IInv == TypeOK /\ SharedInv /\ \A p \in Procs : ProcInv(p)
-----------------------------------------------------------------------------
(* Types.                                                                  *)

LEMMA Constants ==
  /\ Nothing \in Recorded
  /\ TornState \in StateFiles /\ NoState \in StateFiles
  /\ TornConfig \in ConfigFiles /\ NoConfig \in ConfigFiles
  /\ Latest = 3 /\ Latest \in Versions /\ 0 \in Versions
  BY DEF Nothing, Recorded, TornState, NoState, TornConfig, NoConfig, StateFiles, ConfigFiles, Latest, Versions

LEMMA InitInv == Init => IInv
<1> SUFFICES ASSUME Init PROVE IInv OBVIOUS
<1>1. TypeOK BY Constants DEF Init, TypeOK, PC, Versions, Latest, ConfigFiles
<1>2. SharedInv
  <2>1. ~home => Missing BY DEF Init, Missing, Stripped, NoConfig
  <2> QED BY <2>1 DEF Init, SharedInv, Latest, ConfigFiles
<1>3. ASSUME NEW p \in Procs PROVE ProcInv(p)
  BY DEF Init, ProcInv, CurKnown, Unlisted, Reached, UserRead, Moving, Splitting, Answering, Latest
<1> QED BY <1>1, <1>2, <1>3 DEF IInv

LEMMA QuitTyped ==
  ASSUME TypeOK, NEW p \in Procs, Quit(p)
  PROVE  /\ pc' \in [Procs -> PC] /\ cur' \in [Procs -> Versions]
         /\ todo' \in [Procs -> SUBSET Items] /\ item' \in [Procs -> Items]
         /\ read' \in [Procs -> ConfigFiles] /\ mem' \in [Procs -> Recorded]
  BY Constants DEF Quit, Goto, TypeOK, PC

LEMMA AppliedTyped ==
  ASSUME TypeOK, NEW p \in Procs, Applied(p), cur[p] < Latest
  PROVE  pc' \in [Procs -> PC] /\ cur' \in [Procs -> Versions]
<1>1. cur[p] + 1 \in Versions BY DEF TypeOK, Versions, Latest
<1> QED BY <1>1 DEF Applied, Goto, TypeOK, PC

LEMMA MergedTyped ==
  ASSUME NEW f \in Recorded, NEW g \in Recorded
  PROVE  Merged(f, g) \in Recorded
  BY DEF Merged, Recorded

LEMMA StepTyped ==
  ASSUME IInv, NEW p \in Procs,
         Begin(p) \/ AnswerStep(p) \/ MigrationStep(p) \/ Unreadable(p) \/ End(p)
  PROVE  TypeOK'
<1> USE DEF IInv
<1>1. CASE Begin(p) BY <1>1 DEF Begin, Goto, TypeOK, PC, homeVars, fileVars
<1>2. CASE LoadAnswers(p)
  <2>1. state.keys \in Recorded BY DEF TypeOK, StateFiles
  <2>2. PICK k \in Keys, more \in SUBSET Answers :
          mem' = [mem EXCEPT ![p] = [state.keys EXCEPT ![k] = @ \cup more]]
    BY <1>2 DEF LoadAnswers
  <2>3. [state.keys EXCEPT ![k] = @ \cup more] \in Recorded BY <2>1 DEF Recorded
  <2>4. mem' \in [Procs -> Recorded] BY <2>2, <2>3 DEF TypeOK
  <2> QED BY <1>2, <2>4 DEF LoadAnswers, Goto, TypeOK, PC, homeVars, fileVars
<1>3. CASE NothingToAsk(p) BY <1>3 DEF NothingToAsk, Goto, TypeOK, PC, homeVars, fileVars
<1>4. CASE TruncateAnswers(p) BY <1>4, Constants DEF TruncateAnswers, Goto, TypeOK, PC, homeVars
<1>5. CASE Stat(p) BY <1>5 DEF Stat, Goto, TypeOK, PC, homeVars, fileVars
<1>6. CASE Baseline(p) BY <1>6, Constants DEF Baseline, Newest, Goto, TypeOK, PC, fileVars
<1>7. CASE LoadVersion(p) BY <1>7 DEF LoadVersion, Goto, TypeOK, PC, homeVars, fileVars
<1>8. CASE ApplyNext(p)
  <2>1. CASE Applied(p) /\ cur[p] = 0
    <3>1. cur[p] < Latest /\ cur[p] # 1 /\ cur[p] # 2 BY <2>1, Constants
    <3>2. UNCHANGED todo BY <1>8, <2>1, <3>1, Constants DEF ApplyNext
    <3> QED BY <1>8, <2>1, <3>1, <3>2, AppliedTyped DEF ApplyNext, TypeOK, homeVars, fileVars
  <2>2. CASE ~(Applied(p) /\ cur[p] = 0)
    BY <1>8, <2>2 DEF ApplyNext, Goto, TypeOK, PC, Items, homeVars, fileVars
  <2> QED BY <2>1, <2>2
<1>9. CASE Record(p) BY <1>9 DEF Record, Goto, TypeOK, PC, fileVars
<1>10. CASE CheckMove(p) BY <1>10 DEF CheckMove, Goto, TypeOK, PC, homeVars, fileVars
<1>11. CASE Rename(p)
  <2>1. CASE item[p] \in old BY <1>11, <2>1 DEF Rename, Goto, TypeOK, PC, fileVars
  <2>2. CASE item[p] \notin old BY <1>11, <2>2, QuitTyped DEF Rename, TypeOK, fileVars
  <2> QED BY <2>1, <2>2
<1>12. CASE EndDirs(p) BY <1>12 DEF EndDirs, Goto, TypeOK, PC, homeVars, fileVars
<1>13. CASE ListLogs(p)
  <2>1. cur[p] < Latest BY <1>13, Constants DEF ListLogs, ProcInv, CurKnown, Moving
  <2>2. CASE proxyDir BY <1>13, <2>2 DEF ListLogs, Goto, TypeOK, PC, homeVars, fileVars
  <2>3. CASE ~proxyDir BY <1>13, <2>1, <2>3, AppliedTyped DEF ListLogs, TypeOK, homeVars, fileVars
  <2> QED BY <2>2, <2>3
<1>14. CASE EndLogs(p) BY <1>14 DEF EndLogs, Goto, TypeOK, PC, homeVars, fileVars
<1>15. CASE Tidy(p)
  <2>1. cur[p] < Latest BY <1>15, Constants DEF Tidy, ProcInv, CurKnown, Moving
  <2>2. CASE Applied(p) BY <1>15, <2>1, <2>2, AppliedTyped DEF Tidy, TypeOK, homeVars, fileVars
  <2>3. CASE ~Applied(p) BY <1>15, <2>3 DEF Tidy, Goto, TypeOK, PC, homeVars, fileVars
  <2> QED BY <2>2, <2>3
<1>16. CASE RemoveDir(p)
  <2>1. cur[p] < Latest BY <1>16, Constants DEF RemoveDir, ProcInv, CurKnown, Moving
  <2>2. CASE proxyDir BY <1>16, <2>1, <2>2, AppliedTyped DEF RemoveDir, TypeOK, fileVars
  <2>3. CASE ~proxyDir BY <1>16, <2>3, QuitTyped DEF RemoveDir, TypeOK, fileVars
  <2> QED BY <2>2, <2>3
<1>17. CASE Split(p)
  <2>1. cur[p] < Latest BY <1>17, Constants DEF Split, ProcInv, CurKnown, Splitting
  <2>2. CASE Applied(p) BY <1>17, <2>1, <2>2, AppliedTyped DEF Split, TypeOK, homeVars, fileVars
  <2>3. CASE ~Applied(p) BY <1>17, <2>3 DEF Split, Goto, TypeOK, PC, homeVars, fileVars
  <2> QED BY <2>2, <2>3
<1>18. CASE Merge(p)
  <2>1. state.keys \in Recorded /\ read[p].keys \in Recorded BY DEF TypeOK, StateFiles, ConfigFiles
  <2>2. mem' \in [Procs -> Recorded] BY <1>18, <2>1, MergedTyped DEF Merge, TypeOK
  <2> QED BY <1>18, <2>2 DEF Merge, Goto, TypeOK, PC, homeVars, fileVars
<1>19. CASE TruncateState(p) BY <1>19, Constants DEF TruncateState, Goto, TypeOK, PC, homeVars
<1>20. CASE WriteState(p)
  <2>1. mem[p] \in Recorded BY DEF TypeOK
  <2>3. [torn |-> FALSE, keys |-> mem[p]] \in StateFiles BY <2>1 DEF StateFiles
  <2>4. state' \in StateFiles BY <1>20, <2>3, Constants DEF WriteState
  <2>2. AfterWrite(p) \in PC BY <1>20 DEF WriteState, AfterWrite, PC
  <2> QED BY <1>20, <2>4, <2>2, Constants DEF WriteState, Goto, TypeOK, homeVars
<1>21. CASE TruncateConfig(p) BY <1>21, Constants DEF TruncateConfig, Goto, TypeOK, PC, homeVars
<1>22. CASE WriteConfig(p)
  <2>1. cur[p] < Latest BY <1>22, Constants DEF WriteConfig, ProcInv, CurKnown, Splitting
  <2>2. read[p].user \in BOOLEAN BY DEF TypeOK, ConfigFiles
  <2>3. config' \in ConfigFiles BY <1>22, <2>2, Constants DEF WriteConfig, ConfigFiles, NoConfig
  <2> QED BY <1>22, <2>1, <2>3, AppliedTyped DEF WriteConfig, TypeOK, homeVars
<1>23. CASE Unreadable(p) BY <1>23, QuitTyped DEF Unreadable, TypeOK, homeVars, fileVars
<1>24. CASE End(p) BY <1>24, QuitTyped DEF End, TypeOK, homeVars, fileVars
<1> QED
  BY <1>1, <1>2, <1>3, <1>4, <1>5, <1>6, <1>7, <1>8, <1>9, <1>10, <1>11, <1>12, <1>13, <1>14, <1>15,
     <1>16, <1>17, <1>18, <1>19, <1>20, <1>21, <1>22, <1>23, <1>24 DEF AnswerStep, MigrationStep
-----------------------------------------------------------------------------
(* The layout.                                                             *)

Step(p) == Begin(p) \/ AnswerStep(p) \/ MigrationStep(p) \/ Unreadable(p) \/ End(p)

\* Nothing comes back to where it was moved from.
Shrinks == /\ old' \subseteq old
           /\ Stripped => Stripped'
           /\ UNCHANGED before

\* A step with neither of these effects leaves the home and agentic.json as they are.
LEMMA QuietSteps ==
  ASSUME NEW p \in Procs, Step(p)
  PROVE  \/ Baseline(p) \/ Record(p) \/ Rename(p) \/ RemoveDir(p) \/ TruncateConfig(p) \/ WriteConfig(p)
         \/ UNCHANGED <<homeVars, config, before>>
  BY DEF Step, AnswerStep, MigrationStep, Begin, LoadAnswers, NothingToAsk, TruncateAnswers, Stat, LoadVersion,
     ApplyNext, CheckMove, EndDirs, ListLogs, EndLogs, Tidy, Split, Merge, TruncateState, WriteState, Unreadable,
     End, fileVars

LEMMA StepShared ==
  ASSUME IInv, NEW p \in Procs, Step(p)
  PROVE  SharedInv' /\ Shrinks
<1> USE DEF IInv
<1>1. CASE UNCHANGED <<homeVars, config, before>>
  BY <1>1 DEF SharedInv, Shrinks, Stripped, Missing, homeVars
<1>2. CASE Baseline(p)
  <2>1. Missing BY <1>2 DEF Baseline, ProcInv, Reached
  <2> QED BY <1>2, <2>1 DEF Baseline, SharedInv, Shrinks, Stripped, Missing, fileVars
<1>3. CASE Record(p)
  <2>1. cur[p] \in Versions BY DEF TypeOK
  <2>2. cur[p] >= 2 => old = {} BY DEF ProcInv, Reached
  <2>3. cur[p] = Latest => Stripped BY DEF ProcInv, Reached
  <2> QED BY <1>3, <2>1, <2>2, <2>3 DEF Record, SharedInv, Shrinks, Stripped, Missing, fileVars
<1>4. CASE Rename(p)
  <2>1. UNCHANGED <<home, version, proxyDir, config, before>> BY <1>4 DEF Rename, fileVars
  <2>2. CASE item[p] \in old
    <3>1. old' = old \ {item[p]} /\ new' = new \cup {item[p]} BY <1>4, <2>2 DEF Rename
    <3> QED BY <2>1, <2>2, <3>1 DEF SharedInv, Shrinks, Stripped, Missing
  <2>3. CASE item[p] \notin old
    BY <1>4, <2>1, <2>3 DEF Rename, SharedInv, Shrinks, Stripped, Missing
  <2> QED BY <2>2, <2>3
<1>5. CASE RemoveDir(p)
  <2>1. old = {} BY <1>5 DEF RemoveDir, ProcInv, Unlisted
  <2> QED BY <1>5, <2>1 DEF RemoveDir, SharedInv, Shrinks, Stripped, Missing, fileVars
<1>6. CASE TruncateConfig(p)
  <2>1. config'.torn /\ Stripped' BY <1>6 DEF TruncateConfig, TornConfig, Stripped
  <2> QED BY <1>6, <2>1 DEF TruncateConfig, SharedInv, Shrinks, Missing, homeVars
<1>7. CASE WriteConfig(p)
  <2>1. read[p].user = before.user BY <1>7 DEF WriteConfig, ProcInv, UserRead, Splitting
  <2>2. Stripped' /\ (config'.torn \/ config'.user = before.user)
    BY <1>7, <2>1 DEF WriteConfig, TornConfig, NoConfig, Stripped
  <2> QED BY <1>7, <2>2 DEF WriteConfig, SharedInv, Shrinks, Missing, homeVars
<1> QED BY <1>1, <1>2, <1>3, <1>4, <1>5, <1>6, <1>7, QuietSteps

\* A command keeps what the others have found and brought about.
LEMMA OthersKept ==
  ASSUME IInv, NEW p \in Procs, Step(p), NEW q \in Procs, q # p
  PROVE  ProcInv(q)'
<1>1. Shrinks BY StepShared
<1>2. /\ pc'[q] = pc[q] /\ cur'[q] = cur[q] /\ todo'[q] = todo[q] /\ item'[q] = item[q] /\ read'[q] = read[q]
  BY DEF IInv, TypeOK, Step, AnswerStep, MigrationStep, Begin, LoadAnswers, NothingToAsk, TruncateAnswers, Stat,
     Baseline, LoadVersion, ApplyNext, Record, CheckMove, Rename, EndDirs, ListLogs, EndLogs, Tidy, RemoveDir,
     Split, Merge, TruncateState, WriteState, TruncateConfig, WriteConfig, Unreadable, End, Quit, Goto, Applied
<1>3. ProcInv(q) BY DEF IInv
<1> QED BY <1>1, <1>2, <1>3
     DEF ProcInv, CurKnown, Unlisted, Reached, UserRead, Shrinks, Missing

\* A command that ended has found nothing.
LEMMA IdleInv ==
  ASSUME IInv, NEW p \in Procs, pc'[p] = "idle", cur'[p] = 0
  PROVE  ProcInv(p)'
  BY Constants DEF ProcInv, CurKnown, Unlisted, Reached, UserRead, Moving, Splitting, Answering

LEMMA QuitInv ==
  ASSUME IInv, NEW p \in Procs, Quit(p)
  PROVE  ProcInv(p)'
<1>1. pc'[p] = "idle" /\ cur'[p] = 0 BY DEF Quit, Goto, IInv, TypeOK
<1> QED BY <1>1, IdleInv

LEMMA AppliedInv ==
  ASSUME IInv, NEW p \in Procs, Applied(p),
         cur[p] + 1 >= 2 => old' = {}, cur[p] + 1 = Latest => Stripped'
  PROVE  ProcInv(p)'
<1>1. pc'[p] = "record" /\ cur'[p] = cur[p] + 1 BY DEF Applied, Goto, IInv, TypeOK
<1> QED BY <1>1 DEF ProcInv, CurKnown, Unlisted, Reached, UserRead, Moving, Splitting, Answering

LEMMA StepInv ==
  ASSUME IInv, NEW p \in Procs, Step(p)
  PROVE  ProcInv(p)'
<1>0. ProcInv(p) /\ TypeOK /\ SharedInv /\ SharedInv' /\ Shrinks BY StepShared DEF IInv
<1> USE <1>0
<1>1. CASE Begin(p)
  BY <1>1, Constants DEF Begin, Stripped, Missing, Shrinks, homeVars, fileVars, ProcInv, CurKnown, Unlisted, Reached, UserRead, Moving, Splitting, Answering, Goto, TypeOK
<1>2. CASE LoadAnswers(p)
  BY <1>2, Constants DEF LoadAnswers, Stripped, Missing, Stripped, Missing, Shrinks, homeVars, fileVars, ProcInv, CurKnown, Unlisted, Reached, UserRead, Moving, Splitting, Answering, Goto, TypeOK
<1>3. CASE NothingToAsk(p)
  BY <1>3, Constants DEF NothingToAsk, Stripped, Missing, Shrinks, homeVars, fileVars, ProcInv, CurKnown, Unlisted, Reached, UserRead, Moving, Splitting, Answering, Goto, TypeOK
<1>4. CASE TruncateAnswers(p)
  BY <1>4, Constants DEF TruncateAnswers, Stripped, Missing, Shrinks, homeVars, fileVars, ProcInv, CurKnown, Unlisted, Reached, UserRead, Moving, Splitting, Answering, Goto, TypeOK
<1>5. CASE Stat(p)
  BY <1>5, Constants DEF Stat, NoHome, SharedInv, Missing, Stripped, Stripped, Missing, Shrinks, homeVars, fileVars, ProcInv, CurKnown, Unlisted, Reached, UserRead, Moving, Splitting, Answering, Goto, TypeOK
<1>6. CASE Baseline(p)
  <2>1. Missing /\ old = {} BY <1>6 DEF Baseline, ProcInv, Reached, SharedInv, Missing
  <2> QED BY <1>6, <2>1, Constants DEF Baseline, Newest, Stripped, Missing, Shrinks, fileVars, ProcInv, CurKnown, Unlisted, Reached, UserRead, Moving, Splitting, Answering, Goto, TypeOK
<1>7. CASE LoadVersion(p)
  BY <1>7, Constants DEF LoadVersion, SharedInv, Stripped, Missing, Shrinks, homeVars, fileVars, ProcInv, CurKnown, Unlisted, Reached, UserRead, Moving, Splitting, Answering, Goto, TypeOK
<1>8. CASE ApplyNext(p)
  <2>1. CASE cur[p] = 0 BY <1>8, <2>1, AppliedInv, Constants DEF ApplyNext
  <2>2. CASE cur[p] # 0
    BY <1>8, <2>2, Constants DEF ApplyNext, Stripped, Missing, Shrinks, homeVars, fileVars, ProcInv, CurKnown, Unlisted, Reached, UserRead, Moving, Splitting, Answering, Goto, TypeOK
  <2> QED BY <2>1, <2>2
<1>9. CASE Record(p)
  BY <1>9, Constants DEF Record, Stripped, Missing, Shrinks, homeVars, fileVars, ProcInv, CurKnown, Unlisted, Reached, UserRead, Moving, Splitting, Answering, Goto, TypeOK
<1>10. CASE CheckMove(p)
  BY <1>10, Constants, MigrationsAssumption DEF CheckMove, MoveNeeded, SharedInv, Items, Stripped, Missing, Shrinks, homeVars, fileVars, ProcInv, CurKnown, Unlisted, Reached, UserRead, Moving, Splitting, Answering, Goto, TypeOK
<1>11. CASE Rename(p)
  <2>1. CASE item[p] \in old
    <3>1. old' = old \ {item[p]} /\ todo' = [todo EXCEPT ![p] = @ \ {item[p]}] BY <1>11, <2>1 DEF Rename
    <3>2. UNCHANGED <<config, before, cur>> /\ pc[p] = "rename" BY <1>11, <2>1 DEF Rename, fileVars
    <3>3. pc' = [pc EXCEPT ![p] = IF item[p] \in Logs THEN "moveLogs" ELSE "moveDirs"]
      BY <1>11, <2>1 DEF Rename, Goto
    <3> QED BY <3>1, <3>2, <3>3, Constants DEF Stripped, Missing, ProcInv, CurKnown, Unlisted, Reached, UserRead, Moving, Splitting, Answering, Goto, TypeOK
  <2>2. CASE item[p] \notin old BY <1>11, <2>2, QuitInv DEF Rename
  <2> QED BY <2>1, <2>2
<1>12. CASE EndDirs(p)
  BY <1>12, Constants DEF EndDirs, SharedInv, Items, Stripped, Missing, Shrinks, homeVars, fileVars, ProcInv, CurKnown, Unlisted, Reached, UserRead, Moving, Splitting, Answering, Goto, TypeOK
<1>13. CASE ListLogs(p)
  <2>1. old \subseteq Logs /\ cur[p] = 1 /\ UNCHANGED <<old, config, before>>
    BY <1>13 DEF ListLogs, ProcInv, CurKnown, Unlisted, Moving, homeVars, fileVars
  <2>2. CASE proxyDir
    BY <1>13, <2>1, <2>2, Constants DEF ListLogs, Stripped, Missing, ProcInv, CurKnown, Unlisted, Reached, UserRead, Moving, Splitting, Answering, Goto, TypeOK
  <2>3. CASE ~proxyDir
    <3>1. old = {} BY <2>1, <2>3 DEF SharedInv
    <3> QED BY <1>13, <2>1, <2>3, <3>1, AppliedInv, Constants DEF ListLogs
  <2> QED BY <2>2, <2>3
<1>14. CASE EndLogs(p)
  BY <1>14, Constants DEF EndLogs, Stripped, Missing, Shrinks, homeVars, fileVars, ProcInv, CurKnown, Unlisted, Reached, UserRead, Moving, Splitting, Answering, Goto, TypeOK
<1>15. CASE Tidy(p)
  <2>1. old = {} /\ cur[p] = 1 /\ UNCHANGED <<old, config, before>>
    BY <1>15 DEF Tidy, ProcInv, CurKnown, Unlisted, Moving, homeVars, fileVars
  <2>2. CASE Applied(p) BY <2>1, <2>2, AppliedInv, Constants
  <2>3. CASE ~Applied(p)
    BY <1>15, <2>1, <2>3, Constants DEF Tidy, Stripped, Missing, ProcInv, CurKnown, Unlisted, Reached, UserRead, Moving, Splitting, Answering, Goto, TypeOK
  <2> QED BY <2>2, <2>3
<1>16. CASE RemoveDir(p)
  <2>1. old = {} /\ cur[p] = 1 /\ UNCHANGED old
    BY <1>16 DEF RemoveDir, ProcInv, CurKnown, Unlisted, Moving
  <2>2. CASE proxyDir BY <1>16, <2>1, <2>2, AppliedInv, Constants DEF RemoveDir
  <2>3. CASE ~proxyDir BY <1>16, <2>3, QuitInv DEF RemoveDir
  <2> QED BY <2>2, <2>3
<1>17. CASE Split(p)
  <2>1. old = {} /\ cur[p] = 2 /\ UNCHANGED <<old, config, before>>
    BY <1>17, Constants DEF Split, ProcInv, CurKnown, Reached, Splitting, homeVars, fileVars
  <2>2. CASE HasKeys(config) \/ config.obsolete
    <3>1. pc'[p] \in {"merge", "truncConfig"} /\ UNCHANGED cur /\ read'[p] = config
      BY <1>17, <2>2 DEF Split, Goto, TypeOK
    <3>2. config.user = before.user BY <1>17 DEF Split, Readable, SharedInv
    <3> QED BY <2>1, <3>1, <3>2, Constants DEF ProcInv, CurKnown, Unlisted, Reached, UserRead, Moving, Splitting, Answering, Goto, TypeOK
  <2>3. CASE ~(HasKeys(config) \/ config.obsolete)
    BY <1>17, <2>1, <2>3, AppliedInv, Constants DEF Split, HasKeys, Stripped
  <2> QED BY <2>2, <2>3
<1>18. CASE Merge(p)
  BY <1>18, Constants DEF Merge, Stripped, Missing, Shrinks, homeVars, fileVars, ProcInv, CurKnown, Unlisted, Reached, UserRead, Moving, Splitting, Answering, Goto, TypeOK
<1>19. CASE TruncateState(p)
  BY <1>19, Constants DEF TruncateState, Stripped, Missing, Shrinks, homeVars, fileVars, ProcInv, CurKnown, Unlisted, Reached, UserRead, Moving, Splitting, Answering, Goto, TypeOK
<1>20. CASE WriteState(p)
  <2>1. pc'[p] = AfterWrite(p) /\ UNCHANGED <<old, config, before, cur, read>>
    BY <1>20 DEF WriteState, Goto, TypeOK, homeVars
  <2>2. CASE pc[p] = "writeAnswers" BY <2>1, <2>2, Constants DEF AfterWrite, Stripped, Missing, ProcInv, CurKnown, Unlisted, Reached, UserRead, Moving, Splitting, Answering, Goto, TypeOK
  <2>3. CASE pc[p] = "writeState" BY <2>1, <2>3, Constants DEF AfterWrite, Stripped, Missing, ProcInv, CurKnown, Unlisted, Reached, UserRead, Moving, Splitting, Answering, Goto, TypeOK
  <2>4. CASE pc[p] = "writeLate" BY <2>1, <2>4, Constants DEF AfterWrite, Stripped, Missing, ProcInv, CurKnown, Unlisted, Reached, UserRead, Moving, Splitting, Answering, Goto, TypeOK
  <2> QED BY <1>20, <2>2, <2>3, <2>4 DEF WriteState
<1>21. CASE TruncateConfig(p)
  BY <1>21, Constants DEF TruncateConfig, Stripped, Missing, Shrinks, homeVars, fileVars, ProcInv, CurKnown, Unlisted, Reached, UserRead, Moving, Splitting, Answering, Goto, TypeOK
<1>22. CASE WriteConfig(p)
  <2>1. old = {} /\ cur[p] = 2 /\ UNCHANGED old
    BY <1>22, Constants DEF WriteConfig, ProcInv, CurKnown, Reached, Splitting, homeVars
  <2>2. Stripped' BY <1>22 DEF WriteConfig, TornConfig, NoConfig, Stripped
  <2> QED BY <1>22, <2>1, <2>2, AppliedInv, Constants DEF WriteConfig
<1>23. CASE Unreadable(p) BY <1>23, QuitInv DEF Unreadable
<1>24. CASE End(p) BY <1>24, QuitInv DEF End
<1> QED
  BY <1>1, <1>2, <1>3, <1>4, <1>5, <1>6, <1>7, <1>8, <1>9, <1>10, <1>11, <1>12, <1>13, <1>14, <1>15,
     <1>16, <1>17, <1>18, <1>19, <1>20, <1>21, <1>22, <1>23, <1>24 DEF Step, AnswerStep, MigrationStep

LEMMA Inductive == IInv /\ [Next]_vars => IInv'
<1> SUFFICES ASSUME IInv, [Next]_vars PROVE IInv' OBVIOUS
<1>1. CASE UNCHANGED vars
  BY <1>1 DEF IInv, TypeOK, SharedInv, ProcInv, CurKnown, Unlisted, Reached, UserRead, Stripped, Missing,
     vars, homeVars, fileVars, procVars
<1>2. CASE Next
  <2>1. PICK p \in Procs : Step(p) BY <1>2 DEF Next, Step
  <2>2. TypeOK' /\ SharedInv' BY <2>1, StepTyped, StepShared DEF Step
  <2>3. \A q \in Procs : ProcInv(q)' BY <2>1, StepInv, OthersKept
  <2> QED BY <2>2, <2>3 DEF IInv
<1> QED BY <1>1, <1>2

LEMMA Always == Spec => []IInv
<1> QED BY InitInv, Inductive, PTL DEF Spec

\* Every variable keeps its type: in particular no command records a version past the latest.
THEOREM MigrationsTypeCorrect == Spec => []TypeOK
<1>1. IInv => TypeOK BY DEF IInv
<1> QED BY <1>1, Always, PTL

\* However many commands migrate one home at once, fail or are killed, what the home records of
\* its version is true: at version 2 all items have moved, at version 3 agentic.json is stripped.
THEOREM RecordedVersionIsTrue == Spec => []LayoutMatchesVersion
<1>1. IInv => LayoutMatchesVersion
  <2> SUFFICES ASSUME IInv PROVE LayoutMatchesVersion OBVIOUS
  <2>1. version >= 2 => old = {} BY DEF IInv, SharedInv
  <2>2. old \cup new = before.items /\ (version = Latest => Stripped) BY DEF IInv, SharedInv
  <2> QED BY <2>1, <2>2 DEF LayoutMatchesVersion, Stripped
<1> QED BY <1>1, Always, PTL
-----------------------------------------------------------------------------
(* The answers, if no command records any before it migrates.              *)

Holds(keys) == \A k \in Keys : before.answers[k] \subseteq keys[k]

SharedAnswers ==
  /\ \A k \in Keys : config.keys[k] \in {{}, before.answers[k]}
  /\ state.torn \/ \A k \in Keys :
       /\ config.keys[k] = before.answers[k] \/ before.answers[k] \subseteq state.keys[k]
       /\ state.keys[k] # {} => before.answers[k] \subseteq state.keys[k]

\* What a command is about to write holds every answer, and before it strips agentic.json,
\* so does state.json.
ProcAnswers(p) ==
  /\ pc[p] \notin {"truncAnswers", "writeAnswers"}
  /\ pc[p] = "merge" => \A k \in Keys : read[p].keys[k] = before.answers[k] \/ config.keys[k] = {}
  /\ pc[p] \in {"truncState", "writeState", "truncLate", "writeLate"} => Holds(mem[p])
  /\ pc[p] \in {"truncConfig", "writeConfig"} => state.torn \/ Holds(state.keys)

AnswersInv == SharedAnswers /\ \A p \in Procs : ProcAnswers(p)

\* agentic.json loses its keys as a whole and gets none back; state.json is torn or holds every answer.
KeysShrink == config'.keys = config.keys \/ config'.keys = Nothing
StateHolds == UNCHANGED state \/ state'.torn \/ Holds(state'.keys)

LEMMA StateSteps ==
  ASSUME NEW p \in Procs, Step(p)
  PROVE  TruncateAnswers(p) \/ TruncateState(p) \/ WriteState(p) \/ UNCHANGED state
  BY DEF Step, AnswerStep, MigrationStep, Begin, LoadAnswers, NothingToAsk, Stat, Baseline, LoadVersion,
     ApplyNext, Record, CheckMove, Rename, EndDirs, ListLogs, EndLogs, Tidy, RemoveDir, Split, Merge,
     TruncateConfig, WriteConfig, Unreadable, End, fileVars

LEMMA AnswersEffect ==
  ASSUME IInv, AnswersInv, NEW p \in Procs, Step(p)
  PROVE  KeysShrink /\ StateHolds /\ UNCHANGED before
<1>1. UNCHANGED before BY StepShared DEF Shrinks
<1>2. KeysShrink
  <2>1. CASE TruncateConfig(p) BY <2>1 DEF TruncateConfig, TornConfig, KeysShrink
  <2>2. CASE WriteConfig(p) BY <2>2 DEF WriteConfig, TornConfig, NoConfig, KeysShrink
  <2>3. CASE ~TruncateConfig(p) /\ ~WriteConfig(p)
    <3>1. UNCHANGED config
      BY <2>3, QuietSteps DEF Baseline, Record, Rename, RemoveDir, fileVars
    <3> QED BY <3>1 DEF KeysShrink
  <2> QED BY <2>1, <2>2, <2>3
<1>3. StateHolds
  <2>1. CASE TruncateAnswers(p) \/ TruncateState(p)
    BY <2>1 DEF TruncateAnswers, TruncateState, TornState, StateHolds
  <2>2. CASE WriteState(p)
    <3>1. Holds(mem[p]) BY <2>2 DEF WriteState, AnswersInv, ProcAnswers
    <3>2. state'.torn \/ state'.keys = mem[p] BY <2>2 DEF WriteState, TornState
    <3> QED BY <3>1, <3>2 DEF StateHolds, Holds
  <2>3. CASE UNCHANGED state BY <2>3 DEF StateHolds
  <2> QED BY <2>1, <2>2, <2>3, StateSteps
<1> QED BY <1>1, <1>2, <1>3

LEMMA SharedAnswersKept ==
  ASSUME IInv, AnswersInv, NEW p \in Procs, Step(p)
  PROVE  SharedAnswers'
<1>1. KeysShrink /\ StateHolds /\ UNCHANGED before BY AnswersEffect
<1>2. \A k \in Keys : config'.keys[k] \in {{}, before.answers[k]}
  BY <1>1 DEF KeysShrink, Nothing, AnswersInv, SharedAnswers
<1>3. CASE state'.torn BY <1>1, <1>2, <1>3 DEF SharedAnswers
<1>4. CASE Holds(state'.keys) BY <1>1, <1>2, <1>4 DEF SharedAnswers, Holds
<1>5. CASE UNCHANGED state /\ ~state.torn /\ ~Holds(state.keys)
  <2>1. UNCHANGED config
    <3>1. ~TruncateConfig(p) /\ ~WriteConfig(p)
      BY <1>5 DEF TruncateConfig, WriteConfig, AnswersInv, ProcAnswers
    <3> QED BY <3>1, QuietSteps DEF Baseline, Record, Rename, RemoveDir, fileVars
  <2> QED BY <1>1, <1>5, <2>1 DEF AnswersInv, SharedAnswers
<1> QED BY <1>1, <1>3, <1>4, <1>5 DEF StateHolds

LEMMA OtherAnswersKept ==
  ASSUME IInv, AnswersInv, NEW p \in Procs, Step(p), NEW q \in Procs, q # p
  PROVE  ProcAnswers(q)'
<1>1. KeysShrink /\ StateHolds /\ UNCHANGED before BY AnswersEffect
<1>2. pc'[q] = pc[q] /\ read'[q] = read[q] /\ mem'[q] = mem[q]
  BY DEF IInv, TypeOK, Step, AnswerStep, MigrationStep, Begin, LoadAnswers, NothingToAsk, TruncateAnswers, Stat,
     Baseline, LoadVersion, ApplyNext, Record, CheckMove, Rename, EndDirs, ListLogs, EndLogs, Tidy, RemoveDir,
     Split, Merge, TruncateState, WriteState, TruncateConfig, WriteConfig, Unreadable, End, Quit, Goto, Applied
<1>3. ProcAnswers(q) BY DEF AnswersInv
<1> QED BY <1>1, <1>2, <1>3 DEF ProcAnswers, Holds, KeysShrink, StateHolds, Nothing

LEMMA OwnAnswersKept ==
  ASSUME ~Contexts, IInv, AnswersInv, NEW p \in Procs, Step(p)
  PROVE  ProcAnswers(p)'
<1>0. /\ ProcAnswers(p) /\ ProcInv(p) /\ TypeOK /\ SharedAnswers
      /\ KeysShrink /\ StateHolds /\ UNCHANGED before
  BY AnswersEffect DEF AnswersInv, IInv
<1>1. CASE LoadAnswers(p)
  <2>1. pc[p] = "migrated" /\ ~state.torn BY <1>0, <1>1 DEF LoadAnswers, ProcAnswers, Readable
  <2>2. config.keys = Nothing BY <1>0, <2>1 DEF ProcInv, CurKnown, Reached, Answering, Stripped
  <2>3. Holds(state.keys) BY <1>0, <2>1, <2>2 DEF SharedAnswers, Holds, Nothing
  <2>4. PICK k \in Keys, more \in SUBSET Answers :
          mem' = [mem EXCEPT ![p] = [state.keys EXCEPT ![k] = @ \cup more]]
    BY <1>1 DEF LoadAnswers
  <2>5. mem'[p] = [state.keys EXCEPT ![k] = @ \cup more] /\ state.keys \in [Keys -> SUBSET Answers]
    BY <1>0, <2>4 DEF TypeOK, StateFiles, Recorded
  <2>6. Holds(mem'[p]) BY <2>3, <2>5 DEF Holds
  <2>7. pc'[p] = "truncLate" BY <1>0, <1>1, <2>1 DEF LoadAnswers, Goto, TypeOK
  <2> QED BY <1>0, <2>6, <2>7 DEF ProcAnswers, Holds
<1>2. CASE Merge(p)
  <2>1. pc[p] = "merge" /\ ~state.torn BY <1>2 DEF Merge, Readable
  <2>2. mem'[p] = Merged(state.keys, read[p].keys) BY <1>0, <1>2 DEF Merge, TypeOK
  <2>3. ASSUME NEW k \in Keys PROVE before.answers[k] \subseteq mem'[p][k]
    <3>1. CASE state.keys[k] # {} BY <1>0, <2>1, <2>2, <3>1 DEF SharedAnswers, Merged
    <3>2. CASE state.keys[k] = {}
      <4>1. mem'[p][k] = read[p].keys[k] BY <2>2, <3>2 DEF Merged
      <4>2. read[p].keys[k] = before.answers[k] \/ before.answers[k] = {}
        BY <1>0, <2>1, <3>2 DEF ProcAnswers, SharedAnswers
      <4> QED BY <4>1, <4>2
    <3> QED BY <3>1, <3>2
  <2>4. pc'[p] = "truncState" BY <1>0, <1>2 DEF Merge, Goto, TypeOK
  <2> QED BY <1>0, <2>3, <2>4 DEF ProcAnswers, Holds
<1>3. CASE Split(p)
  <2>1. UNCHANGED <<state, config>> BY <1>3 DEF Split, fileVars
  <2>2. CASE HasKeys(config)
    <3>1. pc'[p] = "merge" /\ read'[p] = config BY <1>0, <1>3, <2>2 DEF Split, Goto, TypeOK
    <3> QED BY <1>0, <2>1, <3>1 DEF ProcAnswers, SharedAnswers
  <2>3. CASE ~HasKeys(config)
    <3>1. pc'[p] \in {"truncConfig", "record"} BY <1>0, <1>3, <2>3 DEF Split, Applied, Goto, TypeOK
    <3>2. state.torn \/ Holds(state.keys) BY <1>0, <2>3 DEF HasKeys, SharedAnswers, Holds, Nothing
    <3> QED BY <1>0, <2>1, <3>1, <3>2 DEF ProcAnswers, Holds
  <2> QED BY <2>2, <2>3
<1>4. CASE WriteState(p)
  <2>1. Holds(mem[p]) /\ pc[p] \in {"writeState", "writeLate"} BY <1>0, <1>4 DEF WriteState, ProcAnswers
  <2>2. pc'[p] \in {"truncConfig", "migrated"} BY <1>0, <1>4, <2>1 DEF WriteState, AfterWrite, Goto, TypeOK
  <2>3. state'.torn \/ state'.keys = mem[p] BY <1>4 DEF WriteState, TornState
  <2> QED BY <1>0, <2>1, <2>2, <2>3 DEF ProcAnswers, Holds
<1>5. CASE TruncateState(p) \/ TruncateAnswers(p) \/ TruncateConfig(p)
  BY <1>0, <1>5 DEF TruncateState, TruncateAnswers, TruncateConfig, ProcAnswers, Holds, Goto, TypeOK,
     StateHolds, TornState, homeVars
<1>6. CASE WriteConfig(p) \/ Tidy(p) \/ ListLogs(p) \/ ApplyNext(p)
  BY <1>0, <1>6 DEF WriteConfig, Tidy, ListLogs, ApplyNext, ProcAnswers, Applied, Goto, TypeOK
<1>7. CASE Rename(p) \/ RemoveDir(p) \/ Unreadable(p) \/ End(p)
  BY <1>0, <1>7 DEF Rename, RemoveDir, Unreadable, End, ProcAnswers, Applied, Quit, Goto, TypeOK
<1>8. CASE Begin(p) \/ NothingToAsk(p) \/ Stat(p) \/ Baseline(p) \/ LoadVersion(p) \/ Record(p)
  BY <1>0, <1>8 DEF Begin, NothingToAsk, Stat, Baseline, LoadVersion, Record, ProcAnswers, Goto, TypeOK
<1>9. CASE CheckMove(p) \/ EndDirs(p) \/ EndLogs(p)
  BY <1>0, <1>9 DEF CheckMove, EndDirs, EndLogs, ProcAnswers, Goto, TypeOK
<1> QED BY <1>1, <1>2, <1>3, <1>4, <1>5, <1>6, <1>7, <1>8, <1>9 DEF Step, AnswerStep, MigrationStep

LEMMA AnswersInductive == ~Contexts /\ IInv /\ AnswersInv /\ [Next]_vars => AnswersInv'
<1> SUFFICES ASSUME ~Contexts, IInv, AnswersInv, [Next]_vars PROVE AnswersInv' OBVIOUS
<1>1. CASE UNCHANGED vars
  BY <1>1 DEF AnswersInv, SharedAnswers, ProcAnswers, Holds, vars, homeVars, fileVars, procVars
<1>2. CASE Next
  <2>1. PICK p \in Procs : Step(p) BY <1>2 DEF Next, Step
  <2> QED BY <2>1, SharedAnswersKept, OwnAnswersKept, OtherAnswersKept DEF AnswersInv
<1> QED BY <1>1, <1>2

\* Unless a command records answers before it migrates, as it does for a docker_context, the
\* upgrade loses no answer of the user and no setting, whoever else migrates, fails or is killed.
THEOREM UpgradeKeepsAnswers == ~Contexts => (Spec => []NothingVanishes)
<1> SUFFICES ASSUME ~Contexts PROVE Spec => []NothingVanishes OBVIOUS
<1>1. Init => AnswersInv
  <2> SUFFICES ASSUME Init PROVE AnswersInv OBVIOUS
  <2>1. SharedAnswers BY DEF Init, SharedAnswers, NoState, Nothing
  <2> QED BY <2>1 DEF Init, AnswersInv, ProcAnswers
<1>2. IInv /\ AnswersInv /\ [Next]_vars => AnswersInv' BY AnswersInductive
<1>3. IInv /\ AnswersInv => NothingVanishes
  BY DEF IInv, SharedInv, AnswersInv, SharedAnswers, NothingVanishes
<1> QED BY <1>1, <1>2, <1>3, Always, PTL DEF Spec
=============================================================================
