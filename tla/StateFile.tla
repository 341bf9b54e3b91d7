----------------------------- MODULE StateFile -----------------------------
(***************************************************************************)
(* Trust and setting approvals: `agentic run` processes that share         *)
(* $AGENTIC_HOME/state.json, and the .agenticrc.toml files they read.      *)
(*                                                                         *)
(* A run reads the config files once, asks the user about its directory    *)
(* and about each file's guarded settings, and uses what it read.  Every   *)
(* answer is saved by writing back the whole state the process loaded      *)
(* before it asked, and nothing locks the file: other runs, an upgrade     *)
(* check waiting for the network and the user's own edits interleave.      *)
(*                                                                         *)
(* A config file stands for its directory.  Its content is the set of the  *)
(* guarded settings that have a value; a setting with another value is     *)
(* another setting, and a hash is the setting itself.                      *)
(***************************************************************************)
CONSTANTS
  Runs,       \* the processes
  Dirs,       \* directories, real paths
  Above,      \* Above[d]: d and the directories it is in
  WorkDirs,   \* where runs are started
  Contents,   \* what a file may hold: sets of guarded settings that have a value
  Root,       \* the settings that are `root = true`
  Context,    \* those that are a docker_context
  Creds       \* those that are proxy credentials

ASSUME StateFileAssumption ==
  /\ WorkDirs \subseteq Dirs
  /\ Above \in [Dirs -> SUBSET Dirs]
  /\ \A d \in Dirs : d \in Above[d]
  /\ \A d, e \in Dirs : d \in Above[e] /\ e \in Above[d] => d = e
  /\ {} \in Contents

States   == [trusted : SUBSET Dirs, approved : [Dirs -> Contents]]
NoState  == [trusted |-> {}, approved |-> [d \in Dirs |-> {}]]
\* The config files a run read, with their content; <<>> before it read any.
Layers   == UNION {[found -> Contents] : found \in SUBSET Dirs}

VARIABLES
  files,    \* the directories with a config file
  config,   \* the guarded settings in each
  status,   \* what reading state.json finds: "ok", "empty" (truncated) or "garbled"
  disk,     \* its state when it is ok; a missing file reads as NoState
  pc,       \* where each process is
  stage,    \* which of its checks a process is in: "context" or "run"
  work,     \* the directory it was started in
  layers,   \* the config files it read
  left,     \* those of them it has still to check
  mem,      \* the state it loaded
  asked,    \* what it saves for: "trust", "settings", "upgrade" or "tool"
  given,    \* given[d]: every content of d's file the user ever approved
  trusts,   \* every directory the user ever trusted
  last      \* last[d]: what was last approved and saved for d's file, {} once revoked

configVars == <<files, config>>
diskVars   == <<status, disk>>
procVars   == <<pc, stage, work, layers, left, mem, asked>>
userVars   == <<given, trusts, last>>
vars       == <<configVars, diskVars, procVars, userVars>>

PC == {"idle", "loadTrust", "askTrust", "loadSettings", "settings", "truncate", "write",
       "upgrade", "fetch", "upgraded", "tool", "loadTool", "credentials", "running"}
-----------------------------------------------------------------------------
(* Reading.                                                                *)

\* FindLayers: the walk goes up from d and stops above a file with root = true.
HidesAbove(e, d) == e \in files /\ config[e] \cap Root # {} /\ e # d /\ d \in Above[e]

FindLayers(w) ==
  [d \in {d \in Above[w] \cap files : ~\E e \in Above[w] : HidesAbove(e, d)} |-> config[d]]

Readable == status = "ok"

IsTrusted(state, d) == Above[d] \cap state.trusted # {}

AskedOnce(set, approved) == IF approved # {} THEN {} ELSE set    \* mutant
\* The settings whose value differs from the approved one, unset ones included.
ChangedSettings(set, approved) == (set \ approved) \cup (approved \ set)

Changed(r, d, state) == ChangedSettings(layers[r][d], state.approved[d])

CurrentContent(r, d) == config[d]    \* mutant
\* What ApproveSettings records: the settings the user was shown, those of the layer as it was read.
Approved(r, d) == layers[r][d]

\* The layers are checked outermost first.
IsNext(r, d) == d \in left[r] /\ \A e \in left[r] : d \in Above[e]

EveryDir(r)  == Above[work[r]]    \* mutant
EveryFile(r) == DOMAIN layers[r]

HasContext(r) == \E d \in DOMAIN layers[r] : layers[r][d] \cap Context # {}
OwnContext(r) == work[r] \in DOMAIN layers[r] /\ layers[r][work[r]] \cap Context # {}
HasCreds(r)   == \E d \in DOMAIN layers[r] : layers[r][d] \cap Creds # {}
-----------------------------------------------------------------------------
Goto(r, point) == pc' = [pc EXCEPT ![r] = point]
Keep == UNCHANGED <<configVars, work>>
Forget(r) == mem' = [mem EXCEPT ![r] = NoState]

\* A failed check, a refusal, a read error or a kill ends the process, and what it held goes with it.
Quit(r) ==
  /\ Goto(r, "idle")
  /\ Forget(r)
  /\ layers' = [layers EXCEPT ![r] = <<>>]
  /\ left' = [left EXCEPT ![r] = {}]
  /\ stage' = [stage EXCEPT ![r] = "context"]
  /\ asked' = [asked EXCEPT ![r] = "trust"]

\* withProject reads the config once for the whole command; resolveContext then checks it
\* first if it chooses the Docker daemon.
Begin(r, w) ==
  /\ pc[r] = "idle"
  /\ work' = [work EXCEPT ![r] = w]
  /\ layers' = [layers EXCEPT ![r] = FindLayers(w)]
  /\ Goto(r, "loadTrust")
  /\ UNCHANGED <<configVars, diskVars, stage, left, mem, asked, userVars>>

\* CheckContextTrust has nothing to do without a docker_context, and no trust to ask for
\* unless the workspace's own file sets it.
SkipContext(r) ==
  /\ pc[r] = "loadTrust" /\ stage[r] = "context"
  /\ \/ ~HasContext(r) /\ Goto(r, "upgrade")
     \/ HasContext(r) /\ ~OwnContext(r) /\ Goto(r, "loadSettings")
  /\ UNCHANGED <<configVars, diskVars, stage, work, layers, left, mem, asked, userVars>>

\* checkTrust.
LoadTrust(r) ==
  /\ pc[r] = "loadTrust" /\ (stage[r] = "context" => OwnContext(r))
  /\ \/ /\ Readable /\ IsTrusted(disk, work[r])
        /\ Goto(r, "loadSettings")
        /\ UNCHANGED <<stage, layers, left, mem, asked>>
     \/ /\ Readable /\ ~IsTrusted(disk, work[r])
        /\ mem' = [mem EXCEPT ![r] = disk]
        /\ Goto(r, "askTrust")
        /\ UNCHANGED <<stage, layers, left, asked>>
     \/ ~Readable /\ Quit(r)
  /\ Keep
  /\ UNCHANGED <<diskVars, userVars>>

\* The prompt, or --trust-dir; state.Trust then saves the state loaded before it.
AnswerTrust(r) ==
  /\ pc[r] = "askTrust"
  /\ trusts' = trusts \cup {work[r]}
  /\ mem' = [mem EXCEPT ![r].trusted = @ \cup {work[r]}]
  /\ asked' = [asked EXCEPT ![r] = "trust"]
  /\ Goto(r, "truncate")
  /\ UNCHANGED <<configVars, diskVars, stage, work, layers, left, given, last>>

\* checkSettings loads the state once for all layers.
LoadSettings(r) ==
  /\ pc[r] = "loadSettings"
  /\ \/ /\ Readable
        /\ mem' = [mem EXCEPT ![r] = disk]
        /\ left' = [left EXCEPT ![r] = EveryFile(r)]
        /\ Goto(r, "settings")
        /\ UNCHANGED <<stage, layers, asked>>
     \/ ~Readable /\ Quit(r)
  /\ Keep
  /\ UNCHANGED <<diskVars, userVars>>

SkipRest(r) ==    \* mutant
  \E d \in Dirs :
    /\ pc[r] = "settings" /\ IsNext(r, d)
    /\ Changed(r, d, mem[r]) = {}
    /\ left' = [left EXCEPT ![r] = {}]
    /\ UNCHANGED <<configVars, diskVars, pc, stage, work, layers, mem, asked, userVars>>

SkipLayer(r) ==
  \E d \in Dirs :
    /\ pc[r] = "settings" /\ IsNext(r, d)
    /\ Changed(r, d, mem[r]) = {}
    /\ left' = [left EXCEPT ![r] = @ \ {d}]
    /\ UNCHANGED <<configVars, diskVars, pc, stage, work, layers, mem, asked, userVars>>

\* The user sees the layer as it was read and approves it.
AnswerSettings(r) ==
  \E d \in Dirs :
    /\ pc[r] = "settings" /\ IsNext(r, d)
    /\ Changed(r, d, mem[r]) # {}
    /\ given' = [given EXCEPT ![d] = @ \cup {layers[r][d]}]
    /\ mem' = [mem EXCEPT ![r].approved[d] = Approved(r, d)]
    /\ asked' = [asked EXCEPT ![r] = "settings"]
    /\ Goto(r, "truncate")
    /\ UNCHANGED <<configVars, diskVars, stage, work, layers, left, trusts, last>>

EndSettings(r) ==
  /\ pc[r] = "settings" /\ left[r] = {}
  /\ Forget(r)
  /\ Goto(r, IF stage[r] = "context" THEN "upgrade" ELSE "tool")
  /\ UNCHANGED <<configVars, diskVars, stage, work, layers, left, asked, userVars>>

\* A prompt is refused, the tool ends, or the process fails or is killed, in a save or elsewhere.
End(r) ==
  /\ pc[r] # "idle"
  /\ Quit(r)
  /\ Keep
  /\ UNCHANGED <<diskVars, userVars>>
-----------------------------------------------------------------------------
(* State.Save is os.WriteFile: it truncates the file and then writes it.   *)

AfterSave(r) == CASE asked[r] = "trust"    -> "loadSettings"
                  [] asked[r] = "settings" -> "settings"
                  [] asked[r] = "upgrade"  -> "upgraded"
                  [] asked[r] = "tool"     -> "credentials"

Truncate(r) ==
  /\ pc[r] = "truncate"
  /\ status' = "empty" /\ disk' = NoState
  /\ Goto(r, "write")
  /\ UNCHANGED <<configVars, stage, work, layers, left, mem, asked, userVars>>

\* Over what another process wrote since the truncation, a shorter state leaves its tail.
Write(r) ==
  /\ pc[r] = "write"
  /\ \/ status' = "ok" /\ disk' = mem[r]
     \/ status # "empty" /\ status' = "garbled" /\ disk' = NoState
  /\ \/ /\ asked[r] = "settings"
        /\ \E d \in Dirs : /\ IsNext(r, d)
                          /\ left' = [left EXCEPT ![r] = @ \ {d}]
                          /\ last' = [last EXCEPT ![d] = layers[r][d]]
        /\ UNCHANGED mem
     \/ asked[r] # "settings" /\ Forget(r) /\ UNCHANGED <<left, last>>
  /\ Goto(r, AfterSave(r))
  /\ UNCHANGED <<configVars, stage, work, layers, asked, given, trusts>>

\* The file cannot be opened: an answer that is not saved ends the run, a timestamp does not matter.
SaveFails(r) ==
  /\ pc[r] = "truncate" /\ asked[r] \in {"upgrade", "tool"}
  /\ Forget(r)
  /\ Goto(r, AfterSave(r))
  /\ UNCHANGED <<configVars, diskVars, stage, work, layers, left, asked, userVars>>
-----------------------------------------------------------------------------
(* The upgrade check before the command and the tool update check in it    *)
(* only touch their timestamps, which are left out; what they save with    *)
(* them is not.  Whether a check is due is left open.                      *)

FetchRelease(r) ==
  /\ pc[r] = "upgrade"
  /\ Readable
  /\ mem' = [mem EXCEPT ![r] = disk]
  /\ Goto(r, "fetch")
  /\ UNCHANGED <<configVars, diskVars, stage, work, layers, left, asked, userVars>>

\* LatestVersion answers; the state loaded before the request is saved.
SaveUpgradeCheck(r) ==
  /\ pc[r] = "fetch"
  /\ asked' = [asked EXCEPT ![r] = "upgrade"]
  /\ Goto(r, "truncate")
  /\ UNCHANGED <<configVars, diskVars, stage, work, layers, left, mem, userVars>>

TrustedAlready(r) ==    \* mutant
  /\ pc[r] \in {"upgrade", "fetch", "upgraded"}
  /\ stage' = [stage EXCEPT ![r] = "run"]
  /\ Forget(r)
  /\ Goto(r, IF HasContext(r) THEN "loadSettings" ELSE "loadTrust")
  /\ UNCHANGED <<configVars, diskVars, work, layers, left, asked, userVars>>

\* The check is not due, cannot read the state, failed or is done: Prepare runs its own checks.
EndUpgradeCheck(r) ==
  /\ pc[r] \in {"upgrade", "fetch", "upgraded"}
  /\ stage' = [stage EXCEPT ![r] = "run"]
  /\ Forget(r)
  /\ Goto(r, "loadTrust")
  /\ UNCHANGED <<configVars, diskVars, work, layers, left, asked, userVars>>

\* fetchIfDue only reads the state; MarkChecked loads it again after the upstream lookup.
CheckTool(r) ==
  /\ pc[r] = "tool"
  /\ \/ Readable /\ Goto(r, "loadTool")
     \/ Goto(r, "credentials")
  /\ UNCHANGED <<configVars, diskVars, stage, work, layers, left, mem, asked, userVars>>

MarkChecked(r) ==
  /\ pc[r] = "loadTool"
  /\ \/ /\ Readable
        /\ mem' = [mem EXCEPT ![r] = disk]
        /\ asked' = [asked EXCEPT ![r] = "tool"]
        /\ Goto(r, "truncate")
     \/ ~Readable /\ Goto(r, "credentials") /\ UNCHANGED <<mem, asked>>
  /\ UNCHANGED <<configVars, diskVars, stage, work, layers, left, userVars>>

\* resolveCredentials reads no secret unless the state on disk approves every layer's entries.
Unapproved(r) ==
  \/ ~Readable
  \/ \E d \in DOMAIN layers[r] : Changed(r, d, disk) \cap Creds # {}

ResolveCredentials(r) ==
  /\ pc[r] = "credentials"
  /\ \/ /\ HasCreds(r) => ~Unapproved(r)
        /\ Goto(r, "running")
        /\ UNCHANGED <<stage, layers, left, mem, asked>>
     \/ HasCreds(r) /\ Unapproved(r) /\ Quit(r)
  /\ Keep
  /\ UNCHANGED <<diskVars, userVars>>
-----------------------------------------------------------------------------
(* The world around them: the agent or the user edits config files, and    *)
(* the user edits state.json, though not between a truncation and its      *)
(* write.                                                                  *)

NobodyWrites == \A r \in Runs : pc[r] # "write"

Edit(d) ==
  /\ \E set \in Contents :
       config' = [config EXCEPT ![d] = set] /\ files' = files \cup {d}
  /\ UNCHANGED <<diskVars, procVars, userVars>>

DeleteFile(d) ==
  /\ files' = files \ {d}
  /\ config' = [config EXCEPT ![d] = {}]
  /\ UNCHANGED <<diskVars, procVars, userVars>>

RevokeApproval(d) ==
  /\ NobodyWrites /\ Readable /\ disk.approved[d] # {}
  /\ disk' = [disk EXCEPT !.approved[d] = {}]
  /\ last' = [last EXCEPT ![d] = {}]
  /\ UNCHANGED <<configVars, status, procVars, given, trusts>>

RevokeTrust(d) ==
  /\ NobodyWrites /\ Readable /\ d \in disk.trusted
  /\ disk' = [disk EXCEPT !.trusted = @ \ {d}]
  /\ UNCHANGED <<configVars, status, procVars, userVars>>

\* "or the whole file to reset all trust and approvals"
DeleteState ==
  /\ NobodyWrites
  /\ status' = "ok" /\ disk' = NoState
  /\ last' = [d \in Dirs |-> {}]
  /\ UNCHANGED <<configVars, procVars, given, trusts>>
-----------------------------------------------------------------------------
Init ==
  /\ files \in SUBSET Dirs
  /\ config \in [Dirs -> Contents]
  /\ \A d \in Dirs \ files : config[d] = {}
  /\ status = "ok" /\ disk = NoState
  /\ pc = [r \in Runs |-> "idle"]
  /\ stage = [r \in Runs |-> "context"]
  /\ work \in [Runs -> WorkDirs]
  /\ layers = [r \in Runs |-> <<>>]
  /\ left = [r \in Runs |-> {}]
  /\ mem = [r \in Runs |-> NoState]
  /\ asked = [r \in Runs |-> "trust"]
  /\ given = [d \in Dirs |-> {{}}]
  /\ trusts = {}
  /\ last = [d \in Dirs |-> {}]

CheckStep(r) ==
  \/ SkipContext(r) \/ LoadTrust(r) \/ AnswerTrust(r)
  \/ LoadSettings(r) \/ SkipLayer(r) \/ AnswerSettings(r) \/ EndSettings(r)

SaveStep(r) == Truncate(r) \/ Write(r) \/ SaveFails(r)

UpdateStep(r) ==
  \/ FetchRelease(r) \/ SaveUpgradeCheck(r) \/ EndUpgradeCheck(r)
  \/ CheckTool(r) \/ MarkChecked(r)

Next ==
  \/ \E r \in Runs : \/ \E w \in WorkDirs : Begin(r, w)
                     \/ CheckStep(r) \/ SaveStep(r) \/ UpdateStep(r)
                     \/ ResolveCredentials(r) \/ End(r)
  \/ \E d \in Dirs : Edit(d) \/ DeleteFile(d) \/ RevokeApproval(d) \/ RevokeTrust(d)
  \/ DeleteState

Spec == Init /\ [][Next]_vars
-----------------------------------------------------------------------------
(* Properties.                                                             *)

TypeOK ==
  /\ files \subseteq Dirs
  /\ config \in [Dirs -> Contents]
  /\ status \in {"ok", "empty", "garbled"}
  /\ disk \in States
  /\ pc \in [Runs -> PC]
  /\ stage \in [Runs -> {"context", "run"}]
  /\ work \in [Runs -> WorkDirs]
  /\ layers \in [Runs -> Layers]
  /\ left \in [Runs -> SUBSET Dirs]
  /\ \A r \in Runs : left[r] \subseteq DOMAIN layers[r] /\ (pc[r] = "idle" => left[r] = {})
  /\ mem \in [Runs -> States]
  /\ asked \in [Runs -> {"trust", "settings", "upgrade", "tool"}]
  /\ given \in [Dirs -> SUBSET Contents]
  /\ trusts \subseteq Dirs
  /\ last \in [Dirs -> Contents]

\* The points at which a run acts on what its config files say: Docker is chosen by a
\* docker_context from the upgrade check on, the rest is used once Prepare checked it.
Saving(r, what) == pc[r] \in {"truncate", "write"} /\ asked[r] \in what

PastChecks(r) == \/ pc[r] \in {"tool", "loadTool", "credentials", "running"}
                 \/ Saving(r, {"tool"})

PastContext(r) == \/ PastChecks(r) \/ pc[r] \in {"upgrade", "fetch", "upgraded"}
                  \/ Saving(r, {"upgrade"}) \/ (pc[r] # "idle" /\ stage[r] = "run")

Acts(r) == PastChecks(r) \/ (PastContext(r) /\ HasContext(r))

\* A run acts on no guarded settings but those the user approved for their very file,
\* whatever is edited, saved or lost meanwhile (trust.go: "none can be used before this
\* approval").
OnlyApprovedSettings ==
  \A r \in Runs : Acts(r) =>
    \A d \in DOMAIN layers[r] : layers[r][d] \in given[d]

\* It runs in no directory the user did not trust, or one above it, and its own file
\* chooses no Docker daemon before that (checkTrust, CheckContextTrust).
OnlyTrustedDirs ==
  \A r \in Runs : PastChecks(r) \/ (PastContext(r) /\ OwnContext(r)) =>
    Above[work[r]] \cap trusts # {}

\* However saves interleave, state.json never holds an answer the user did not give.
AnswersAreGenuine ==
  \A d \in Dirs : disk.approved[d] \in given[d] /\ (d \in disk.trusted => d \in trusts)

\* A run asks about every file whose settings differ from what was last approved for it
\* and not revoked since (state.go: "differ from what the user last approved for its
\* file"; docs/config.md: "Delete an entry to revoke it").
AsksAboutEveryChange ==
  [][\A r \in Runs : pc[r] = "loadSettings" /\ pc'[r] = "settings" =>
       \A d \in DOMAIN layers[r] : Changed(r, d, mem'[r]) = {} => layers[r][d] = last[d]]_vars
=============================================================================
