----------------------------- MODULE SelfUpdate -----------------------------
(***************************************************************************)
(* `agentic upgrade', and the upgrade offered before a command: a release  *)
(* is downloaded, verified, staged next to the binary and renamed over it. *)
(*                                                                         *)
(* Updates may run side by side, fail and be killed anywhere, downloads be *)
(* cut off, and a release's files be uploaded again one after the other    *)
(* while somebody downloads them.  An upload is a number; 0 is the binary  *)
(* that is there at first.                                                 *)
(***************************************************************************)
EXTENDS Naturals

CONSTANTS
  Updaters,    \* processes that update
  Cosigns,     \* those among them that have cosign
  Signed,      \* whether the release is one of those with a signature bundle
  MaxUploads   \* bound: uploads of the release

VARIABLES
  release,   \* the upload each file of the release is of; bundle 0 when there is none
  binary,    \* the installed binary
  staging,   \* target.new
  updater,   \* updater -> where it is and what it has downloaded
  from,      \* who installed the binary
  clash      \* two updates were staging at the same time

updateVars == <<release, binary, staging, updater, from, clash>>
Original   == "original"

\* A file's upload and whether all of it is there.
Whole(n)  == [upload |-> n, whole |-> TRUE]
Cut(n)    == [upload |-> n, whole |-> FALSE]
NoFile    == Cut(0)
Waiting   == [pc |-> "idle", archive |-> NoFile, sums |-> NoFile, bundle |-> NoFile]

Step(u, pc)  == updater' = [updater EXCEPT ![u].pc = pc]
Abandon(u)   == updater' = [updater EXCEPT ![u] = Waiting]
Staging(u)   == updater[u].pc \in {"copy", "rename"}
-----------------------------------------------------------------------------
\* The interval has passed and the user agrees, or asked for it.
StartUpdate(u) ==
  /\ updater[u].pc = "idle"
  /\ Step(u, "archive")
  /\ UNCHANGED <<release, binary, staging, from, clash>>

\* A connection that ends early may go unnoticed.
Download(u, pc, file, n, next) ==
  /\ updater[u].pc = pc
  /\ \E got \in {Whole(n), Cut(n)} : updater' = [updater EXCEPT ![u] = [@ EXCEPT !.pc = next, ![file] = got]]
  /\ UNCHANGED <<release, binary, staging, from, clash>>

DownloadArchive(u)   == Download(u, "archive", "archive", release.archive, "sums")
DownloadChecksums(u) ==
  Download(u, "sums", "sums", release.sums, IF u \in Cosigns THEN "bundle" ELSE "verify")

\* A missing bundle is fine for a release from before firstSignedVersion.
MissingBundle(u) ==
  /\ updater[u].pc = "bundle" /\ release.bundle = 0
  /\ IF Signed THEN Abandon(u) ELSE Step(u, "verify")
  /\ UNCHANGED <<release, binary, staging, from, clash>>
DownloadBundle(u) == release.bundle # 0 /\ Download(u, "bundle", "bundle", release.bundle, "cosign")

\* cosign accepts the checksums the bundle was made for.
VerifySignature(u) ==
  /\ updater[u].pc = "cosign"
  /\ IF updater[u].bundle.whole /\ updater[u].sums = Whole(updater[u].bundle.upload)
     THEN Step(u, "verify") ELSE Abandon(u)
  /\ UNCHANGED <<release, binary, staging, from, clash>>

\* The archive's line may be in a list that was cut off.
AnyArchive(u) == TRUE    \* mutant
ChecksumMatches(u) == updater[u].archive = Whole(updater[u].sums.upload)

VerifyChecksum(u) ==
  /\ updater[u].pc = "verify"
  /\ \/ ChecksumMatches(u) /\ Step(u, "extract")
     \/ (~ChecksumMatches(u) \/ ~updater[u].sums.whole) /\ Abandon(u)
  /\ UNCHANGED <<release, binary, staging, from, clash>>

\* Into the update's own temporary directory; Interrupt stands for a failure.
ExtractBinary(u) ==
  /\ updater[u].pc = "extract"
  /\ Step(u, "stage")
  /\ UNCHANGED <<release, binary, staging, from, clash>>

\* installBinary: os.Create empties a staging file left behind.
CreateStaging(u) ==
  /\ updater[u].pc = "stage"
  /\ staging' = Cut(updater[u].archive.upload)
  /\ clash' = (clash \/ \E v \in Updaters \ {u} : Staging(v))
  /\ Step(u, "copy")
  /\ UNCHANGED <<release, binary, from>>

CopyOver(u) ==    \* mutant
  /\ updater[u].pc \in {"copy", "half"}
  /\ binary' = [upload |-> updater[u].archive.upload, whole |-> updater[u].pc = "half"]
  /\ IF updater[u].pc = "copy" THEN Step(u, "half") ELSE Abandon(u)
  /\ UNCHANGED <<release, staging, from, clash>>
CopyStaging(u) ==
  /\ updater[u].pc = "copy"
  /\ staging' = updater[u].archive
  /\ Step(u, "rename")
  /\ UNCHANGED <<release, binary, from, clash>>

\* os.Chmod or os.Rename fails: the staging file is removed.
FailInstall(u) ==
  /\ updater[u].pc = "rename"
  /\ staging' = NoFile /\ Abandon(u)
  /\ UNCHANGED <<release, binary, from, clash>>

ReplaceBinary(u) ==
  /\ updater[u].pc = "rename" /\ staging # NoFile
  /\ binary' = staging /\ staging' = NoFile
  /\ from' = u
  /\ Abandon(u)
  /\ UNCHANGED <<release, clash>>

\* A download fails, or the update is killed: its temporary directory is nobody's, target.new stays.
Interrupt(u) ==
  /\ updater[u].pc # "idle"
  /\ Abandon(u)
  /\ UNCHANGED <<release, binary, staging, from, clash>>

\* The release is built once more; its bundle comes last.
Upload ==
  /\ \/ release.archive = release.sums /\ release.archive < MaxUploads
        /\ release' = [release EXCEPT !.archive = @ + 1]
     \/ release.sums < release.archive /\ release' = [release EXCEPT !.sums = release.archive]
     \/ Signed /\ release.bundle < release.sums /\ release' = [release EXCEPT !.bundle = release.sums]
  /\ UNCHANGED <<binary, staging, updater, from, clash>>

SelfUpdateInit ==
  /\ release = [archive |-> 1, sums |-> 1, bundle |-> 0]
  /\ binary = Whole(0) /\ staging = NoFile
  /\ updater = [u \in Updaters |-> Waiting] /\ from = Original /\ clash = FALSE

SelfUpdateNext ==
  \/ \E u \in Updaters :
       \/ StartUpdate(u) \/ DownloadArchive(u) \/ DownloadChecksums(u) \/ MissingBundle(u)
       \/ DownloadBundle(u) \/ VerifySignature(u) \/ VerifyChecksum(u) \/ ExtractBinary(u)
       \/ CreateStaging(u) \/ CopyStaging(u) \/ FailInstall(u) \/ ReplaceBinary(u) \/ Interrupt(u)
  \/ Upload

SelfUpdateSpec == SelfUpdateInit /\ [][SelfUpdateNext]_updateVars
-----------------------------------------------------------------------------
\* Whatever is killed, cut off or uploaded again, the installed binary is the old one or all of one that
\* was released, and signed where its updater could tell, unless two updates were staging at the same
\* time (selfupdate.go's rename, checksum and signature).
BinaryIsARelease ==
  ~clash =>
    /\ binary.whole
    /\ (Signed /\ from \in Cosigns) => release.bundle >= binary.upload
=============================================================================
