---------------------------- MODULE Instructions ----------------------------
(***************************************************************************)
(* A tool's global instructions file on the host, of which each run gives  *)
(* its tool a snapshot with agentic's own block in front, and to which it  *)
(* brings back what the tool leaves of the snapshot, without the block.    *)
(*                                                                         *)
(* The file sits in a directory tools can write to: while one runs, it may *)
(* put a link to another file there and take it away again.  A run that    *)
(* disabled the instructions only strips the block.                        *)
(*                                                                         *)
(* A text is the sequence of its parts: the two markers, the block of a    *)
(* run between them, and notes.  Users and tools add notes at the end, as  *)
(* the begin marker asks for; a tool may also take out a marker.           *)
(***************************************************************************)
EXTENDS Naturals, Sequences, FiniteSetsExt, Functions

CONSTANTS
  Sessions,   \* runs of one tool
  Notes,      \* what users and tools write
  MaxFiles,   \* bound: files that were ever put in the place
  MaxTaken    \* bound: markers that tools take out

BeginMark == "begin"
EndMark   == "end"
Markers   == {BeginMark, EndMark}
Old       == "old"          \* the block of an agentic of before
Away      == "elsewhere"    \* what is in the file a planted link leads to

ASSUME PartsDiffer == /\ Notes \cap Sessions = {}
                      /\ (Notes \cup Sessions) \cap (Markers \cup {Old, Away}) = {}

VARIABLES
  place,     \* what is at the file's path: nothing, a file (which, and its text) or a link before it
  session,   \* run -> where it is, the file it checked, what it read and its snapshot
  kept,      \* the notes the user wrote while no run was under way
  taken      \* how many markers are missing because they were taken out

instructionVars == <<place, session, kept, taken>>

Empty == << >>

NoPlace == [kind |-> "none", id |-> 0, text |-> Empty]
Off     == [pc |-> "off", checked |-> 0, text |-> Empty, strips |-> FALSE]

Under(s)  == session[s].pc # "off"
Quiet     == \A s \in Sessions : ~Under(s)
Move(s, pc) == session' = [session EXCEPT ![s].pc = pc]
Drop(s)     == session' = [session EXCEPT ![s] = Off]

CutOut(text, i, j) == SubSeq(text, 1, i - 1) \o SubSeq(text, j + 1, Len(text))
Places(part, text)  == {i \in DOMAIN text : text[i] = part}

\* Where a block that StripManaged would take out ends: after the first begin marker.
Ends(text) == {j \in Places(EndMark, text) : \E i \in Places(BeginMark, text) : i < j}

\* The first block, from its begin marker to the next end marker, if there is one.
StripManaged(text) ==
  IF Ends(text) = {} THEN text ELSE CutOut(text, Min(Places(BeginMark, text)), Min(Ends(text)))

PutInFront(text, s) == <<BeginMark, s, EndMark>> \o text    \* mutant
MergeInstructions(text, s) == <<BeginMark, s, EndMark>> \o StripManaged(text)
-----------------------------------------------------------------------------
\* An instructions file the project disabled is rewritten without a block (WriteManaged).
Open(s) ==
  /\ session[s].pc = "off"
  /\ \E strips \in BOOLEAN : session' = [session EXCEPT ![s] = [Off EXCEPT !.pc = "lstat", !.strips = strips]]
  /\ UNCHANGED <<place, kept, taken>>

\* readInstructions: only a regular file is read, and a missing one is empty.
CheckRegular(s) ==
  /\ session[s].pc = "lstat"
  /\ CASE place.kind = "file" -> session' = [session EXCEPT ![s].pc = "open", ![s].checked = place.id]
       [] place.kind = "none" -> IF session[s].strips THEN Drop(s) ELSE Move(s, "ensure")
       [] OTHER -> Drop(s)
  /\ UNCHANGED <<place, kept, taken>>

SameFile(s) == place.kind = "file" /\ place.id = session[s].checked

\* The file opened must still be the one checked; there is nothing to strip from an empty one.
OpenRegular(s) ==
  /\ session[s].pc = "open"
  /\ IF SameFile(s) /\ ~(session[s].strips /\ place.text = Empty)
     THEN session' = [session EXCEPT ![s].pc = IF session[s].strips THEN "write" ELSE "ensure",
                                     ![s].text = IF place.kind = "link" THEN <<Away>> ELSE place.text,
                                     ![s].checked = 0]
     ELSE Drop(s)
  /\ UNCHANGED <<place, kept, taken>>

Put(text) == /\ place.id < MaxFiles
             /\ place' = [kind |-> "file", id |-> place.id + 1, text |-> text]

\* ensureHostFile creates a missing file, never through a link; then the snapshot.
WriteSnapshot(s) ==
  /\ session[s].pc = "ensure"
  /\ IF place.kind = "none" THEN Put(Empty) ELSE UNCHANGED place
  /\ IF place.kind = "link" THEN Drop(s)
     ELSE session' = [session EXCEPT ![s].pc = "runs", ![s].text = MergeInstructions(@, s)]
  /\ UNCHANGED <<kept, taken>>

ToolWrites(s) ==
  /\ session[s].pc = "runs"
  /\ \E n \in Notes \ Range(session[s].text) : session' = [session EXCEPT ![s].text = Append(@, n)]
  /\ UNCHANGED <<place, kept, taken>>

ToolTakesMarker(s) ==
  /\ session[s].pc = "runs" /\ taken < MaxTaken
  /\ \E m \in Markers : \E i \in Places(m, session[s].text) :
       session' = [session EXCEPT ![s].text = CutOut(@, i, i)]
  /\ taken' = taken + 1
  /\ UNCHANGED <<place, kept>>

\* FinalizeSnapshot reads what the tool left of the snapshot.
Finalize(s) ==
  /\ session[s].pc = "runs" /\ Move(s, "write")
  /\ UNCHANGED <<place, kept, taken>>

TruncateFirst(s) ==    \* mutant
  /\ session[s].pc \in {"write", "half"}
  /\ IF session[s].pc = "write" THEN Put(Empty) /\ Move(s, "half")
     ELSE Put(StripManaged(session[s].text)) /\ Drop(s)
  /\ UNCHANGED <<kept, taken>>
\* writeInstructions renames a new file to the path, whatever is there.
Persist(s) ==
  /\ session[s].pc = "write"
  /\ Put(StripManaged(session[s].text)) /\ Drop(s)
  /\ UNCHANGED <<kept, taken>>

\* A step fails, or the run is killed: its snapshot is lost.
Lose(s) == Under(s) /\ Drop(s) /\ UNCHANGED <<place, kept, taken>>

\* A running tool moves the file aside for a link, and back.
Swap(s) ==
  /\ session[s].pc = "runs"
  /\ \/ place.kind = "file" /\ place' = [place EXCEPT !.kind = "link"]
     \/ place.kind = "link" /\ place' = [place EXCEPT !.kind = "file"]
  /\ UNCHANGED <<session, kept, taken>>

UserWrites ==
  /\ Quiet /\ place.kind # "link"
  /\ \E n \in Notes \ Range(place.text) :
       /\ place' = [place EXCEPT !.kind = "file", !.text = Append(@, n)]
       /\ kept' = kept \cup {n}
  /\ UNCHANGED <<session, taken>>

\* A file of an agentic that wrote its block into it, whole or cut short.
InstructionsInit ==
  /\ \/ place = NoPlace /\ taken = 0
     \/ place = [NoPlace EXCEPT !.kind = "file", !.text = <<BeginMark, Old, EndMark>>] /\ taken = 0
     \/ place = [NoPlace EXCEPT !.kind = "file", !.text = <<BeginMark, Old>>] /\ taken = 1
  /\ session = [s \in Sessions |-> Off] /\ kept = {}

InstructionsNext ==
  \/ \E s \in Sessions : \/ Open(s) \/ CheckRegular(s) \/ OpenRegular(s) \/ WriteSnapshot(s) \/ ToolWrites(s)
                         \/ ToolTakesMarker(s) \/ Finalize(s) \/ Persist(s) \/ Lose(s) \/ Swap(s)
  \/ UserWrites

InstructionsSpec == InstructionsInit /\ [][InstructionsNext]_instructionVars
-----------------------------------------------------------------------------
\* What the user wrote before the runs under way is in the file whenever it is looked at, and in every
\* snapshot, however many runs write it back, fail or are killed (instructions.go's temporary file),
\* and whichever marker a tool took out (stripManaged keeps a block without its end).
NotesSurvive ==
  /\ kept \subseteq Range(place.text)
  /\ \A s \in Sessions : session[s].pc = "runs" => kept \subseteq Range(session[s].text)

\* The snapshot a tool starts with has its own run's block in front and no other whole one, although
\* only one is stripped on the way in and one on the way out; as long as no marker was taken out, the
\* rest of it is notes alone; and it has nothing of a file a link led to, which would then be written
\* back as the user's own.
CleanSnapshot(s, text) ==
  LET rest == SubSeq(text, 4, Len(text)) IN
  /\ SubSeq(text, 1, 3) = <<BeginMark, s, EndMark>>
  /\ Ends(rest) = {}
  /\ taken = 0 => Range(rest) \subseteq Notes
  /\ Away \notin Range(text)

SnapshotsAreClean ==
  [][\A s \in Sessions : session[s].pc # "runs" /\ session'[s].pc = "runs" =>
       CleanSnapshot(s, session'[s].text)]_instructionVars
=============================================================================
