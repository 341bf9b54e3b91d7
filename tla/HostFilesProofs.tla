--------------------------- MODULE HostFilesProofs ---------------------------
(***************************************************************************)
(* Two files of the user's that several processes read, and write as a     *)
(* whole: the instructions file, and the binary that an update replaces.   *)
(*                                                                         *)
(* The user's notes are in the instructions file at every moment, but that *)
(* alone is not inductive: what a run writes back is what it read before   *)
(* other runs wrote, and it takes only one block out.  SessionFits says    *)
(* that what a run has read holds the notes too, PlaceFits that there were *)
(* none to be read where there was no file, and TextFits what any text is  *)
(* like: no marker comes after a note, so that no note is between two; no  *)
(* two begin markers come before one end marker, so that without its first *)
(* block a text has no other; and while no marker was taken out, what is   *)
(* not a note is one block, in front.                                      *)
(*                                                                         *)
(* A rename installs what is in the staging file.  UpdateInv says what     *)
(* that is: at each point of an update, what its checks have shown of the  *)
(* archive it downloaded, and, as long as no two updates staged at the     *)
(* same time, that an update about to rename finds its own archive there.  *)
(***************************************************************************)
EXTENDS Instructions, SelfUpdate, SequenceTheorems, WellFoundedInduction, TLAPS

(* Texts, and what taking one block out of them leaves.                    *)

Parts == Notes \cup Sessions \cup Markers \cup {Old}
Texts == Seq(Parts)

NotesLast(text) ==
  \A i, j \in DOMAIN text : i < j /\ text[j] \in Markers => text[i] \notin Notes

OneClosed(text) ==
  \A i, j, k \in DOMAIN text : i < j /\ j < k /\ text[i] = BeginMark /\ text[j] = BeginMark => text[k] # EndMark

Shaped(text) == NotesLast(text) /\ OneClosed(text)

AllNotes(text) == \A k \in DOMAIN text : text[k] \in Notes

Tidy(text) ==
  \/ AllNotes(text)
  \/ /\ Len(text) >= 3 /\ text[1] = BeginMark /\ text[2] \notin Markers /\ text[3] = EndMark
     /\ \A k \in DOMAIN text : k > 3 => text[k] \in Notes

HasNotesOf(longer, text) == Range(text) \cap Notes \subseteq Range(longer)
-----------------------------------------------------------------------------
LEMMA LeastPlace ==
  ASSUME NEW T \in SUBSET Nat, T # {}
  PROVE  Min(T) \in T /\ \A n \in T : Min(T) <= n
<1>1. PICK m \in T : \A n \in T : ~(<<n, m>> \in OpToRel(<, Nat))
  <2>1. T \subseteq Nat
    OBVIOUS
  <2> QED BY <2>1, WFMin, NatLessThanWellFounded, Zenon
<1>2. \A n \in T : ~(n < m)
  BY <1>1, Zenon DEF OpToRel
<1>3. \A n \in T : m <= n
  BY <1>2
<1> QED BY <1>3 DEF Min

LEMMA CutOutParts ==
  ASSUME NEW S, NEW text \in Seq(S), NEW i \in 1..Len(text), NEW j \in i..Len(text)
  PROVE  LET rest == CutOut(text, i, j) IN
         /\ rest \in Seq(S) /\ Len(rest) = Len(text) - (j - i + 1)
         /\ \A k \in 1..Len(rest) : rest[k] = text[IF k < i THEN k ELSE k + (j - i + 1)]
<1> DEFINE front == SubSeq(text, 1, i - 1)
           back  == SubSeq(text, j + 1, Len(text))
<1>1. Len(text) \in Nat /\ i \in Nat /\ j \in Nat /\ i >= 1 /\ i <= j /\ j <= Len(text)
  OBVIOUS
<1>2. \A k \in 1..Len(text) : text[k] \in S
  BY ElementOfSeq
<1>3. /\ front \in Seq(S) /\ Len(front) = i - 1
      /\ \A k \in 1..(i - 1) : front[k] = text[k]
  <2>1. 1 \in Int /\ i - 1 \in Int /\ \A k \in 1..(i - 1) : text[k] \in S
    BY <1>1, <1>2
  <2>2. /\ front \in Seq(S) /\ Len(front) = (IF 1 <= i - 1 THEN i - 1 - 1 + 1 ELSE 0)
        /\ \A k \in 1..(i - 1 - 1 + 1) : front[k] = text[1 + k - 1]
    BY <2>1, SubSeqProperties
  <2> QED BY <1>1, <2>2
<1>4. /\ back \in Seq(S) /\ Len(back) = Len(text) - j
      /\ \A k \in 1..(Len(text) - j) : back[k] = text[j + k]
  <2>1. j + 1 \in Int /\ Len(text) \in Int /\ \A k \in (j + 1)..Len(text) : text[k] \in S
    BY <1>1, <1>2
  <2>2. /\ back \in Seq(S) /\ Len(back) = (IF j + 1 <= Len(text) THEN Len(text) - (j + 1) + 1 ELSE 0)
        /\ \A k \in 1..(Len(text) - (j + 1) + 1) : back[k] = text[j + 1 + k - 1]
    BY <2>1, SubSeqProperties
  <2> QED BY <1>1, <2>2
<1>5. /\ front \o back \in Seq(S) /\ Len(front \o back) = Len(front) + Len(back)
      /\ \A k \in 1..(Len(front) + Len(back)) :
           (front \o back)[k] = IF k <= Len(front) THEN front[k] ELSE back[k - Len(front)]
  BY <1>3, <1>4, ConcatProperties
<1> HIDE DEF front, back
<1>6. CutOut(text, i, j) = front \o back
  BY DEF CutOut, front, back
<1>7. Len(front \o back) = Len(text) - (j - i + 1)
  BY <1>1, <1>3, <1>4, <1>5
<1>8. ASSUME NEW k \in 1..Len(front \o back)
      PROVE  (front \o back)[k] = text[IF k < i THEN k ELSE k + (j - i + 1)]
  <2>1. CASE k < i
    BY <1>1, <1>3, <1>5, <1>7, <2>1
  <2>2. CASE ~(k < i)
    <3>0. k \in 1..(Len(front) + Len(back)) /\ ~(k <= Len(front))
      BY <1>1, <1>3, <1>5, <2>2
    <3>1. (front \o back)[k] = back[k - (i - 1)] /\ k - (i - 1) \in 1..(Len(text) - j)
      BY <1>1, <1>3, <1>4, <1>5, <3>0
    <3>2. back[k - (i - 1)] = text[j + (k - (i - 1))]
      BY <1>4, <3>1
    <3>3. j + (k - (i - 1)) = k + (j - i + 1)
      BY <1>1, <3>0
    <3> QED BY <2>2, <3>1, <3>2, <3>3
  <2> QED BY <2>1, <2>2
<1> QED BY <1>5, <1>6, <1>7, <1>8

\* The parts that are left stand in the order they stood in.
LEMMA CutOutOrder ==
  ASSUME NEW text \in Texts, NEW i \in 1..Len(text), NEW j \in i..Len(text)
  PROVE  LET rest == CutOut(text, i, j) IN
         /\ rest \in Texts /\ Len(rest) = Len(text) - (j - i + 1)
         /\ \E was \in [DOMAIN rest -> DOMAIN text] :
              /\ \A k \in DOMAIN rest : rest[k] = text[was[k]] /\ was[k] \notin i..j /\ k <= was[k]
              /\ \A k, l \in DOMAIN rest : k < l => was[k] < was[l]
         /\ \A k \in DOMAIN text \ (i..j) : text[k] \in Range(rest)
<1> DEFINE rest == CutOut(text, i, j)
           was  == [k \in DOMAIN rest |-> IF k < i THEN k ELSE k + (j - i + 1)]
<1>1. Len(text) \in Nat /\ i \in Nat /\ j \in Nat /\ i >= 1 /\ i <= j /\ j <= Len(text)
  BY DEF Texts
<1>2. /\ rest \in Texts /\ Len(rest) = Len(text) - (j - i + 1)
      /\ \A k \in 1..Len(rest) : rest[k] = text[IF k < i THEN k ELSE k + (j - i + 1)]
  BY CutOutParts DEF Texts
<1>3. DOMAIN rest = 1..Len(rest) /\ DOMAIN text = 1..Len(text)
  BY <1>2, LenProperties DEF Texts
<1> HIDE DEF rest
<1>4. was \in [DOMAIN rest -> DOMAIN text]
  BY <1>1, <1>2, <1>3
<1>5. ASSUME NEW k \in DOMAIN rest
      PROVE  rest[k] = text[was[k]] /\ was[k] \notin i..j /\ k <= was[k]
  <2>1. was[k] = IF k < i THEN k ELSE k + (j - i + 1)
    OBVIOUS
  <2>2. k \in Nat /\ rest[k] = text[IF k < i THEN k ELSE k + (j - i + 1)]
    <3>1. k \in 1..Len(rest) /\ Len(rest) \in Int
      BY <1>1, <1>2, <1>3
    <3> QED BY <1>2, <3>1
  <2> HIDE DEF was
  <2>3. was[k] \notin i..j /\ k <= was[k]
    BY <1>1, <2>1, <2>2
  <2> QED BY <2>1, <2>2, <2>3
<1>6. \A k, l \in DOMAIN rest : k < l => was[k] < was[l]
  BY <1>1, <1>2, <1>3
<1>7. ASSUME NEW k \in DOMAIN text \ (i..j) PROVE text[k] \in Range(rest)
  <2>1. CASE k < i
    <3>1. k \in DOMAIN rest /\ rest[k] = text[k]
      BY <1>1, <1>2, <1>3, <2>1
    <3> QED BY <3>1 DEF Range
  <2>2. CASE k > j
    <3> DEFINE l == k - (j - i + 1)
    <3>1. l \in DOMAIN rest /\ ~(l < i) /\ l + (j - i + 1) = k
      BY <1>1, <1>2, <1>3, <2>2
    <3>2. rest[l] = text[k]
      BY <1>2, <1>3, <3>1
    <3> QED BY <3>1, <3>2 DEF Range
  <2> QED BY <1>1, <1>3, <2>1, <2>2
<1> QED BY <1>2, <1>4, <1>5, <1>6, <1>7 DEF rest

LEMMA CutOutShaped ==
  ASSUME NEW text \in Texts, Shaped(text), NEW i \in 1..Len(text), NEW j \in i..Len(text)
  PROVE  CutOut(text, i, j) \in Texts /\ Shaped(CutOut(text, i, j))
<1> DEFINE rest == CutOut(text, i, j)
<1>1. PICK was \in [DOMAIN rest -> DOMAIN text] :
        /\ \A k \in DOMAIN rest : rest[k] = text[was[k]]
        /\ \A k, l \in DOMAIN rest : k < l => was[k] < was[l]
  <2>1. \E was \in [DOMAIN rest -> DOMAIN text] :
          /\ \A k \in DOMAIN rest : rest[k] = text[was[k]] /\ was[k] \notin i..j /\ k <= was[k]
          /\ \A k, l \in DOMAIN rest : k < l => was[k] < was[l]
    BY CutOutOrder
  <2> HIDE DEF rest
  <2> QED BY <2>1
<1> HIDE DEF rest
<1>2. NotesLast(rest)
  BY <1>1 DEF Shaped, NotesLast
<1>3. OneClosed(rest)
  BY <1>1 DEF Shaped, OneClosed
<1> QED BY <1>2, <1>3, CutOutOrder DEF Shaped, rest

\* A marker that a tool takes out takes no note along.
LEMMA CutOneKeepsNotes ==
  ASSUME NEW text \in Texts, NEW i \in DOMAIN text, text[i] \notin Notes
  PROVE  HasNotesOf(CutOut(text, i, i), text)
<1>1. DOMAIN text = 1..Len(text) /\ Len(text) \in Nat
  BY LenProperties DEF Texts
<1>2. \A k \in DOMAIN text \ (i..i) : text[k] \in Range(CutOut(text, i, i))
  <2>1. i \in 1..Len(text) /\ i \in i..Len(text)
    BY <1>1
  <2> QED BY <2>1, CutOutOrder
<1>3. \A k \in DOMAIN text : text[k] \in Notes => k \notin i..i
  BY <1>1
<1> QED BY <1>2, <1>3 DEF HasNotesOf, Range

\* Without its first whole block a text has none, all its notes, and only these if it was tidy.
LEMMA Stripped ==
  ASSUME NEW text \in Texts, Shaped(text)
  PROVE  LET rest == StripManaged(text) IN
         /\ rest \in Texts /\ Shaped(rest)
         /\ Ends(rest) = {}
         /\ HasNotesOf(rest, text)
         /\ Tidy(text) => AllNotes(rest)
<1>1. DOMAIN text = 1..Len(text) /\ Len(text) \in Nat
  BY LenProperties DEF Texts
<1>2. BeginMark # EndMark /\ BeginMark \in Markers /\ EndMark \in Markers
  BY DEF BeginMark, EndMark, Markers
<1>3. CASE Ends(text) = {}
  <2>1. StripManaged(text) = text
    BY <1>3 DEF StripManaged
  <2>2. Tidy(text) => AllNotes(text)
    <3>1. ASSUME Len(text) >= 3, text[1] = BeginMark, text[3] = EndMark PROVE FALSE
      <4>1. 3 \in Places(EndMark, text) /\ 1 \in Places(BeginMark, text) /\ 1 < 3
        BY <1>1, <3>1 DEF Places
      <4> QED BY <1>3, <4>1 DEF Ends
    <3> QED BY <3>1 DEF Tidy
  <2> QED BY <1>3, <2>1, <2>2 DEF HasNotesOf
<1>4. CASE Ends(text) # {}
  <2> DEFINE i == Min(Places(BeginMark, text))
             j == Min(Ends(text))
             rest == CutOut(text, i, j)
  <2>1. Places(BeginMark, text) # {} /\ Places(BeginMark, text) \subseteq 1..Len(text)
        /\ Ends(text) \subseteq 1..Len(text)
    BY <1>1, <1>4 DEF Ends, Places
  <2>2. i \in Places(BeginMark, text) /\ \A k \in Places(BeginMark, text) : i <= k
    BY <2>1, LeastPlace
  <2>3. j \in Ends(text) /\ \A k \in Ends(text) : j <= k
    BY <1>4, <2>1, LeastPlace
  <2> HIDE DEF i, j
  <2>4. i \in 1..Len(text) /\ text[i] = BeginMark /\ j \in 1..Len(text) /\ text[j] = EndMark /\ i < j
    <3>1. PICK b \in Places(BeginMark, text) : b < j
      BY <2>3 DEF Ends
    <3> QED BY <1>1, <2>1, <2>2, <2>3, <3>1 DEF Ends, Places
  <2>5. j \in i..Len(text)
    BY <1>1, <2>4
  <2>6. StripManaged(text) = rest
    BY <1>4 DEF StripManaged, i, j
  <2>7. rest \in Texts /\ Shaped(rest)
    BY <2>4, <2>5, CutOutShaped
  <2>8. /\ Len(rest) = Len(text) - (j - i + 1)
        /\ \E was \in [DOMAIN rest -> DOMAIN text] :
             /\ \A k \in DOMAIN rest : rest[k] = text[was[k]] /\ was[k] \notin i..j /\ k <= was[k]
             /\ \A k, l \in DOMAIN rest : k < l => was[k] < was[l]
        /\ \A k \in DOMAIN text \ (i..j) : text[k] \in Range(rest)
    BY <2>4, <2>5, CutOutOrder
  <2> HIDE DEF rest
  <2>9. PICK was \in [DOMAIN rest -> DOMAIN text] :
             /\ \A k \in DOMAIN rest : rest[k] = text[was[k]] /\ was[k] \notin i..j /\ k <= was[k]
             /\ \A k, l \in DOMAIN rest : k < l => was[k] < was[l]
    BY <2>8
  <2>10. Ends(rest) = {}
    <3> SUFFICES ASSUME NEW e \in DOMAIN rest, rest[e] = EndMark, NEW b \in DOMAIN rest, rest[b] = BeginMark, b < e
                 PROVE  FALSE
      BY DEF Ends, Places
    <3>1. was[b] \in DOMAIN text /\ text[was[b]] = BeginMark /\ was[b] \notin i..j
          /\ was[e] \in DOMAIN text /\ text[was[e]] = EndMark /\ was[b] < was[e]
      BY <2>9
    <3>2. i <= was[b] /\ i # was[b]
      BY <1>1, <2>2, <2>4, <3>1 DEF Places
    <3> QED BY <1>1, <2>4, <3>1, <3>2 DEF Shaped, OneClosed
  <2>11. HasNotesOf(rest, text)
    <3>1. ASSUME NEW k \in DOMAIN text, text[k] \in Notes PROVE k \notin i..j
      <4>1. ~(k < j)
        BY <1>1, <1>2, <2>4, <3>1 DEF Shaped, NotesLast
      <4>2. k # j
        BY <1>2, <2>4, <3>1, PartsDiffer
      <4> QED BY <1>1, <2>4, <4>1, <4>2
    <3> QED BY <2>8, <3>1 DEF HasNotesOf, Range
  <2>12. ASSUME Tidy(text) PROVE AllNotes(rest)
    <3>1. ~AllNotes(text)
      BY <1>1, <1>2, <2>4, PartsDiffer DEF AllNotes
    <3>2. /\ Len(text) >= 3 /\ text[1] = BeginMark /\ text[2] \notin Markers /\ text[3] = EndMark
          /\ \A k \in DOMAIN text : k > 3 => text[k] \in Notes
      BY <2>12, <3>1 DEF Tidy
    <3>3. i = 1
      BY <1>1, <2>2, <2>4, <3>2 DEF Places
    <3>4. 3 \in Ends(text) /\ j # 2
      BY <1>1, <1>2, <2>4, <3>2 DEF Ends, Places
    <3>5. j = 3
      BY <2>3, <2>4, <3>3, <3>4
    <3>6. \A k \in DOMAIN rest : was[k] > 3
      BY <1>1, <2>9, <3>3, <3>5
    <3> QED BY <2>9, <3>2, <3>6 DEF AllNotes
  <2> QED BY <2>6, <2>7, <2>10, <2>11, <2>12
<1> QED BY <1>3, <1>4

\* A snapshot has its own run's block in front, and of the rest what stripping leaves.
LEMMA Merged ==
  ASSUME NEW text \in Texts, Shaped(text), NEW s \in Sessions
  PROVE  LET merged == MergeInstructions(text, s) IN
         /\ merged \in Texts /\ Shaped(merged)
         /\ HasNotesOf(merged, text)
         /\ Tidy(text) => Tidy(merged)
         /\ SubSeq(merged, 1, 3) = <<BeginMark, s, EndMark>>
         /\ SubSeq(merged, 4, Len(merged)) = StripManaged(text)
<1> DEFINE block  == <<BeginMark, s, EndMark>>
           rest   == StripManaged(text)
           merged == block \o rest
<1>1. /\ rest \in Texts /\ Shaped(rest) /\ Ends(rest) = {} /\ HasNotesOf(rest, text)
      /\ Tidy(text) => AllNotes(rest)
  BY Stripped
<1>2. /\ BeginMark # EndMark /\ BeginMark \in Markers /\ EndMark \in Markers /\ s \notin Markers
      /\ Markers \cap Notes = {} /\ s \notin Notes
  BY PartsDiffer DEF BeginMark, EndMark, Markers
<1>3. block \in Texts /\ Len(block) = 3 /\ block[1] = BeginMark /\ block[2] = s /\ block[3] = EndMark
  BY <1>2 DEF Texts, Parts
<1> HIDE DEF block, rest
<1>4. /\ merged \in Texts /\ Len(merged) = 3 + Len(rest)
      /\ \A k \in 1..(3 + Len(rest)) : merged[k] = IF k <= 3 THEN block[k] ELSE rest[k - 3]
  <2>1. block \in Seq(Parts) /\ rest \in Seq(Parts)
    BY <1>1, <1>3 DEF Texts
  <2>2. /\ block \o rest \in Seq(Parts) /\ Len(block \o rest) = Len(block) + Len(rest)
        /\ \A k \in 1..(Len(block) + Len(rest)) :
             (block \o rest)[k] = IF k <= Len(block) THEN block[k] ELSE rest[k - Len(block)]
    BY <2>1, ConcatProperties
  <2> QED BY <1>3, <2>2 DEF Texts
<1> HIDE DEF merged
<1>5. /\ Len(rest) \in Nat /\ DOMAIN rest = 1..Len(rest)
      /\ DOMAIN merged = 1..(3 + Len(rest))
  BY <1>1, <1>4, LenProperties DEF Texts
<1>6. merged[1] = BeginMark /\ merged[2] = s /\ merged[3] = EndMark
  BY <1>3, <1>4, <1>5
<1>7. \A k \in DOMAIN merged : k > 3 => merged[k] = rest[k - 3] /\ k - 3 \in DOMAIN rest
  BY <1>4, <1>5
<1>8. \A k \in DOMAIN merged : k <= 3 => k = 1 \/ k = 2 \/ k = 3
  BY <1>5
<1>9. NotesLast(merged)
  <2> SUFFICES ASSUME NEW i \in DOMAIN merged, NEW j \in DOMAIN merged, i < j, merged[j] \in Markers
               PROVE  merged[i] \notin Notes
    BY DEF NotesLast
  <2>1. CASE i <= 3
    BY <1>2, <1>6, <1>8, <2>1
  <2>2. CASE i > 3
    <3>1. i - 3 < j - 3 /\ j > 3
      BY <1>5, <2>2
    <3> QED BY <1>1, <1>7, <2>2, <3>1 DEF Shaped, NotesLast
  <2> QED BY <1>5, <2>1, <2>2
<1>10. OneClosed(merged)
  <2> SUFFICES ASSUME NEW i \in DOMAIN merged, NEW j \in DOMAIN merged, NEW k \in DOMAIN merged,
                      i < j, j < k, merged[i] = BeginMark, merged[j] = BeginMark, merged[k] = EndMark
               PROVE  FALSE
    BY DEF OneClosed
  <2>1. j > 3
    BY <1>2, <1>5, <1>6, <1>8
  <2>2. k > 3 /\ j - 3 < k - 3
    BY <1>5, <2>1
  <2>3. k - 3 \in Places(EndMark, rest) /\ j - 3 \in Places(BeginMark, rest)
    BY <1>7, <2>1, <2>2 DEF Places
  <2> QED BY <1>1, <2>2, <2>3 DEF Ends
<1>11. Range(rest) \subseteq Range(merged)
  <2> SUFFICES ASSUME NEW k \in DOMAIN rest PROVE rest[k] \in Range(merged)
    BY DEF Range
  <2>1. k + 3 \in DOMAIN merged /\ merged[k + 3] = rest[k]
    BY <1>4, <1>5
  <2> QED BY <2>1 DEF Range
<1>12. Tidy(text) => Tidy(merged)
  BY <1>1, <1>2, <1>4, <1>5, <1>6, <1>7 DEF Tidy, AllNotes
<1>13. SubSeq(merged, 1, 3) = block
  <2>1. \A k \in 1..3 : merged[k] \in Parts
    BY <1>4, <1>5, ElementOfSeq DEF Texts
  <2>2. /\ SubSeq(merged, 1, 3) \in Seq(Parts)
        /\ Len(SubSeq(merged, 1, 3)) = (IF 1 <= 3 THEN 3 - 1 + 1 ELSE 0)
        /\ \A k \in 1..(3 - 1 + 1) : SubSeq(merged, 1, 3)[k] = merged[1 + k - 1]
    <3>1. 1 \in Int /\ 3 \in Int
      OBVIOUS
    <3> QED BY <2>1, <3>1, SubSeqProperties
  <2>3. \A k \in 1..3 : SubSeq(merged, 1, 3)[k] = block[k]
    BY <1>4, <1>5, <2>2
  <2> QED BY <1>3, <2>2, <2>3, SeqEqual DEF Texts
<1>14. SubSeq(merged, 4, Len(merged)) = rest
  <2> DEFINE n == Len(merged)
             tail == SubSeq(merged, 4, n)
  <2>0. n = 3 + Len(rest) /\ n \in Int /\ 4 \in Int
    BY <1>4, <1>5
  <2> HIDE DEF n
  <2>1. \A k \in 4..n : merged[k] \in Parts
    BY <1>4, <1>5, <2>0, ElementOfSeq DEF Texts
  <2>2. /\ tail \in Seq(Parts)
        /\ Len(tail) = (IF 4 <= n THEN n - 4 + 1 ELSE 0)
        /\ \A k \in 1..(n - 4 + 1) : tail[k] = merged[4 + k - 1]
    BY <2>0, <2>1, SubSeqProperties
  <2> HIDE DEF tail
  <2>3. Len(tail) = Len(rest)
    BY <1>5, <2>0, <2>2
  <2>4. \A k \in 1..Len(tail) : tail[k] = rest[k]
    BY <1>4, <1>5, <2>0, <2>2, <2>3
  <2>5. tail = rest
    BY <1>1, <2>2, <2>3, <2>4, SeqEqual DEF Texts
  <2> QED BY <2>5 DEF tail, n
<1>15. HasNotesOf(merged, text)
  BY <1>1, <1>11 DEF HasNotesOf
<1> QED BY <1>1, <1>4, <1>9, <1>10, <1>12, <1>13, <1>14, <1>15
        DEF MergeInstructions, merged, block, rest, Shaped

LEMMA NoteAdded ==
  ASSUME NEW text \in Texts, Shaped(text), NEW n \in Notes
  PROVE  LET longer == Append(text, n) IN
         /\ longer \in Texts /\ Shaped(longer)
         /\ Range(longer) = Range(text) \cup {n}
         /\ Tidy(text) => Tidy(longer)
<1> DEFINE longer == Append(text, n)
<1>1. Len(text) \in Nat /\ DOMAIN text = 1..Len(text) /\ n \in Parts /\ n \notin Markers
  BY LenProperties, PartsDiffer DEF Texts, Parts
<1>2. /\ longer \in Texts /\ Len(longer) = Len(text) + 1
      /\ \A k \in 1..Len(text) : longer[k] = text[k]
      /\ longer[Len(text) + 1] = n
  BY <1>1, AppendProperties DEF Texts
<1>3. DOMAIN longer = 1..(Len(text) + 1)
  BY <1>2, LenProperties DEF Texts
<1> HIDE DEF longer
<1>4. \A k \in DOMAIN longer : \/ k \in DOMAIN text /\ longer[k] = text[k]
                               \/ k = Len(text) + 1 /\ longer[k] = n
  BY <1>1, <1>2, <1>3
<1>5. Range(longer) = Range(text) \cup {n}
  <2>1. \A k \in DOMAIN text : k \in DOMAIN longer /\ longer[k] = text[k]
    BY <1>1, <1>2, <1>3
  <2>2. Len(text) + 1 \in DOMAIN longer
    BY <1>1, <1>3
  <2> QED BY <1>2, <1>4, <2>1, <2>2 DEF Range
<1>6. NotesLast(longer)
  <2> SUFFICES ASSUME NEW i \in DOMAIN longer, NEW j \in DOMAIN longer, i < j, longer[j] \in Markers
               PROVE  longer[i] \notin Notes
    BY DEF NotesLast
  <2>1. j \in DOMAIN text /\ longer[j] = text[j]
    BY <1>1, <1>4
  <2>2. i \in DOMAIN text /\ longer[i] = text[i]
    BY <1>1, <1>2, <1>3, <2>1
  <2> QED BY <2>1, <2>2 DEF Shaped, NotesLast
<1>7. OneClosed(longer)
  <2> SUFFICES ASSUME NEW i \in DOMAIN longer, NEW j \in DOMAIN longer, NEW k \in DOMAIN longer,
                      i < j, j < k, longer[i] = BeginMark, longer[j] = BeginMark, longer[k] = EndMark
               PROVE  FALSE
    BY DEF OneClosed
  <2>1. k \in DOMAIN text /\ longer[k] = text[k]
    BY <1>1, <1>4 DEF Markers
  <2>2. i \in DOMAIN text /\ j \in DOMAIN text /\ longer[i] = text[i] /\ longer[j] = text[j]
    BY <1>1, <1>2, <1>3, <2>1
  <2> QED BY <2>1, <2>2 DEF Shaped, OneClosed
<1>8. Tidy(text) => Tidy(longer)
  <2>1. CASE AllNotes(text)
    BY <1>4, <2>1 DEF AllNotes, Tidy
  <2>2. CASE ~AllNotes(text) /\ Tidy(text)
    <3>1. /\ Len(text) >= 3 /\ text[1] = BeginMark /\ text[2] \notin Markers /\ text[3] = EndMark
          /\ \A k \in DOMAIN text : k > 3 => text[k] \in Notes
      BY <2>2 DEF Tidy
    <3>2. longer[1] = text[1] /\ longer[2] = text[2] /\ longer[3] = text[3] /\ Len(longer) >= 3
      BY <1>1, <1>2, <3>1
    <3>3. \A k \in DOMAIN longer : k > 3 => longer[k] \in Notes
      BY <1>4, <3>1
    <3> QED BY <3>1, <3>2, <3>3 DEF Tidy
  <2> QED BY <2>1, <2>2
<1> QED BY <1>2, <1>5, <1>6, <1>7, <1>8 DEF longer, Shaped
-----------------------------------------------------------------------------
(* The instructions file.                                                  *)

HostFiles      == [kind : {"none", "file", "link"}, id : Nat, text : Texts]
SessionRecords == [pc : {"off", "lstat", "open", "ensure", "runs", "write"},
                   checked : Nat, text : Texts, strips : BOOLEAN]

InstructionsTyped ==
  /\ place \in HostFiles
  /\ session \in [Sessions -> SessionRecords]
  /\ kept \subseteq Notes
  /\ taken \in Nat

TextFits(text) == Shaped(text) /\ (taken = 0 => Tidy(text))

PlaceFits ==
  /\ TextFits(place.text)
  /\ place.kind = "none" => place.text = Empty
  /\ kept \subseteq Range(place.text)

\* Whatever a run will give its tool or write back holds the user's notes.
SessionFits(rec) ==
  /\ TextFits(rec.text)
  /\ rec.pc \in {"ensure", "runs", "write"} => kept \subseteq Range(rec.text)
  /\ rec.pc = "lstat" => rec.text = Empty

NotesInv ==
  /\ InstructionsTyped
  /\ PlaceFits
  /\ \A s \in Sessions : SessionFits(session[s])
-----------------------------------------------------------------------------
LEMMA OffFits ==
  /\ Empty \in Texts /\ AllNotes(Empty) /\ TextFits(Empty) /\ Range(Empty) = {}
  /\ Off \in SessionRecords /\ Off.pc = "off" /\ Off.text = Empty /\ SessionFits(Off)
<1>1. Empty \in Texts /\ DOMAIN Empty = {}
  BY EmptySeq DEF Empty, Texts
<1>2. AllNotes(Empty) /\ TextFits(Empty) /\ Range(Empty) = {}
  BY <1>1 DEF TextFits, Shaped, NotesLast, OneClosed, Tidy, AllNotes, Range
<1> QED BY <1>1, <1>2 DEF Off, SessionRecords, SessionFits

\* The files of an agentic that wrote its block into them.
LEMMA OldBlocksFit ==
  /\ <<BeginMark, Old, EndMark>> \in Texts /\ Shaped(<<BeginMark, Old, EndMark>>) /\ Tidy(<<BeginMark, Old, EndMark>>)
  /\ <<BeginMark, Old>> \in Texts /\ Shaped(<<BeginMark, Old>>)
<1> DEFINE whole == <<BeginMark, Old, EndMark>>
           short == <<BeginMark, Old>>
<1>1. BeginMark # EndMark /\ BeginMark # Old /\ Old # EndMark /\ BeginMark \in Markers /\ EndMark \in Markers /\ Old \notin Markers
      /\ BeginMark \notin Notes /\ Old \notin Notes /\ EndMark \notin Notes
  BY PartsDiffer DEF BeginMark, EndMark, Old, Markers
<1>2. /\ whole \in Texts /\ Len(whole) = 3 /\ DOMAIN whole = 1..3
      /\ whole[1] = BeginMark /\ whole[2] = Old /\ whole[3] = EndMark
  BY <1>1 DEF Texts, Parts
<1>3. short \in Texts /\ DOMAIN short = 1..2 /\ short[1] = BeginMark /\ short[2] = Old
  BY <1>1 DEF Texts, Parts
<1> HIDE DEF whole, short
<1>4. Shaped(whole) /\ Tidy(whole)
  <2>1. \A k \in DOMAIN whole : k = 1 \/ k = 2 \/ k = 3
    BY <1>2
  <2>2. \A k \in DOMAIN whole : whole[k] \notin Notes /\ ~(k > 3)
    BY <1>1, <1>2, <2>1
  <2> QED BY <1>1, <1>2, <2>1, <2>2 DEF Shaped, NotesLast, OneClosed, Tidy
<1>5. Shaped(short)
  <2>1. \A k \in DOMAIN short : k = 1 \/ k = 2
    BY <1>3
  <2> QED BY <1>1, <1>3, <2>1 DEF Shaped, NotesLast, OneClosed
<1> QED BY <1>2, <1>3, <1>4, <1>5 DEF whole, short

LEMMA NotesInitially == InstructionsInit => NotesInv
<1> SUFFICES ASSUME InstructionsInit PROVE NotesInv
  OBVIOUS
<1>1. session = [s \in Sessions |-> Off] /\ kept = {} /\ taken \in Nat
  BY DEF InstructionsInit
<1>2. place \in HostFiles /\ TextFits(place.text) /\ (place.kind = "none" => place.text = Empty)
  <2>1. CASE place = NoPlace
    BY <2>1, OffFits DEF NoPlace, HostFiles
  <2>2. CASE place = [NoPlace EXCEPT !.kind = "file", !.text = <<BeginMark, Old, EndMark>>]
    <3>1. place = [kind |-> "file", id |-> 0, text |-> <<BeginMark, Old, EndMark>>]
      BY <2>2 DEF NoPlace
    <3> QED BY <3>1, OldBlocksFit DEF HostFiles, TextFits
  <2>3. CASE place = [NoPlace EXCEPT !.kind = "file", !.text = <<BeginMark, Old>>] /\ taken = 1
    <3>1. place = [kind |-> "file", id |-> 0, text |-> <<BeginMark, Old>>]
      BY <2>3 DEF NoPlace
    <3> QED BY <2>3, <3>1, OldBlocksFit DEF HostFiles, TextFits
  <2> QED BY <2>1, <2>2, <2>3 DEF InstructionsInit
<1> QED BY <1>1, <1>2, OffFits DEF NotesInv, InstructionsTyped, PlaceFits

\* A step of one run that leaves the user's notes what they were.
LEMMA SessionStep ==
  ASSUME NotesInv, NEW s \in Sessions, NEW rec \in SessionRecords, SessionFits(rec),
         session' = [session EXCEPT ![s] = rec], UNCHANGED <<kept, taken>>,
         place' \in HostFiles, PlaceFits'
  PROVE  NotesInv'
<1>1. InstructionsTyped'
  BY DEF NotesInv, InstructionsTyped
<1>2. ASSUME NEW t \in Sessions PROVE SessionFits(session[t])'
  <2>1. CASE t = s
    <3>1. session'[t] = rec
      BY <2>1 DEF NotesInv, InstructionsTyped
    <3> QED BY <3>1 DEF SessionFits, TextFits
  <2>2. CASE t # s
    <3>1. session'[t] = session[t] /\ SessionFits(session[t])
      BY <2>2 DEF NotesInv, InstructionsTyped
    <3> QED BY <3>1 DEF SessionFits, TextFits
  <2> QED BY <2>1, <2>2
<1> QED BY <1>1, <1>2 DEF NotesInv

LEMMA DropKeeps ==
  ASSUME NotesInv, NEW s \in Sessions, Drop(s), UNCHANGED <<kept, taken>>, place' \in HostFiles, PlaceFits'
  PROVE  NotesInv'
  BY OffFits, SessionStep DEF Drop

LEMMA PlaceKept ==
  ASSUME NotesInv, UNCHANGED <<place, kept, taken>>
  PROVE  place' \in HostFiles /\ PlaceFits'
  BY DEF NotesInv, InstructionsTyped, PlaceFits, TextFits

LEMMA PutFits ==
  ASSUME NotesInv, UNCHANGED <<kept, taken>>, NEW text \in Texts, TextFits(text),
         kept \subseteq Range(text), Put(text)
  PROVE  place' \in HostFiles /\ PlaceFits'
<1>1. place' = [kind |-> "file", id |-> place.id + 1, text |-> text] /\ place.id \in Nat
  BY DEF Put, NotesInv, InstructionsTyped, HostFiles
<1> QED BY <1>1 DEF HostFiles, PlaceFits, TextFits
-----------------------------------------------------------------------------
LEMMA NotesInductive ==
  ASSUME NotesInv, [InstructionsNext]_instructionVars
  PROVE  NotesInv'
<1>1. /\ place \in HostFiles /\ session \in [Sessions -> SessionRecords] /\ PlaceFits
      /\ kept \subseteq Notes /\ taken \in Nat
  BY DEF NotesInv, InstructionsTyped
<1>2. ASSUME NEW s \in Sessions
      PROVE  session[s] \in SessionRecords /\ session[s].text \in Texts /\ SessionFits(session[s])
  BY <1>1 DEF NotesInv, SessionRecords
<1>3. ASSUME NEW s \in Sessions, Open(s) PROVE NotesInv'
  <2>1. PICK strips \in BOOLEAN : session' = [session EXCEPT ![s] = [Off EXCEPT !.pc = "lstat", !.strips = strips]]
    BY <1>3 DEF Open
  <2> DEFINE rec == [Off EXCEPT !.pc = "lstat", !.strips = strips]
  <2>2. rec \in SessionRecords /\ rec.pc = "lstat" /\ rec.text = Empty
    BY OffFits DEF Off, SessionRecords
  <2>3. SessionFits(rec)
    BY <2>2, OffFits DEF SessionFits
  <2> QED BY <1>3, <2>1, <2>2, <2>3, SessionStep, PlaceKept DEF Open
<1>4. ASSUME NEW s \in Sessions, CheckRegular(s) PROVE NotesInv'
  <2>1. UNCHANGED <<place, kept, taken>> /\ session[s].pc = "lstat"
    BY <1>4 DEF CheckRegular
  <2>2. CASE place.kind = "file"
    <3> DEFINE rec == [session[s] EXCEPT !.pc = "open", !.checked = place.id]
    <3>0. session' = [session EXCEPT ![s].pc = "open", ![s].checked = place.id]
      BY <1>4, <2>2 DEF CheckRegular
    <3>1. session' = [session EXCEPT ![s] = rec]
      BY <1>1, <3>0
    <3>2. rec \in SessionRecords /\ rec.pc = "open" /\ rec.text = session[s].text
      BY <1>1, <1>2 DEF SessionRecords, HostFiles
    <3>3. SessionFits(rec)
      BY <1>2, <3>2 DEF SessionFits
    <3> QED BY <2>1, <3>1, <3>2, <3>3, SessionStep, PlaceKept
  <2>3. CASE place.kind = "none" /\ ~session[s].strips
    <3> DEFINE rec == [session[s] EXCEPT !.pc = "ensure"]
    <3>1. session' = [session EXCEPT ![s] = rec]
      BY <1>1, <1>4, <2>3 DEF CheckRegular, Move
    <3>2. rec \in SessionRecords /\ rec.pc = "ensure" /\ rec.text = session[s].text
      BY <1>2 DEF SessionRecords
    <3>3. kept = {}
      BY <1>1, <2>3, OffFits DEF PlaceFits
    <3>4. SessionFits(rec)
      BY <1>2, <3>2, <3>3 DEF SessionFits
    <3> QED BY <2>1, <3>1, <3>2, <3>4, SessionStep, PlaceKept
  <2>4. CASE (place.kind = "none" /\ session[s].strips) \/ place.kind = "link"
    <3>1. Drop(s)
      BY <1>4, <2>4 DEF CheckRegular
    <3> QED BY <2>1, <3>1, DropKeeps, PlaceKept
  <2> QED BY <1>1, <1>2, <2>2, <2>3, <2>4 DEF HostFiles, SessionRecords
<1>5. ASSUME NEW s \in Sessions, OpenRegular(s) PROVE NotesInv'
  <2>1. UNCHANGED <<place, kept, taken>>
    BY <1>5 DEF OpenRegular
  <2> DEFINE opens == SameFile(s) /\ ~(session[s].strips /\ place.text = Empty)
  <2>2. CASE opens
    <3> DEFINE rec == [session[s] EXCEPT !.pc = IF session[s].strips THEN "write" ELSE "ensure",
                                         !.text = place.text, !.checked = 0]
    <3>1. session' = [session EXCEPT ![s] = rec]
      BY <1>1, <1>5, <2>2 DEF OpenRegular, SameFile
    <3>2. /\ rec \in SessionRecords /\ rec.text = place.text
          /\ rec.pc \in {"write", "ensure"}
      BY <1>1, <1>2 DEF SessionRecords, HostFiles
    <3>3. SessionFits(rec)
      BY <1>1, <3>2 DEF SessionFits, PlaceFits
    <3> QED BY <2>1, <3>1, <3>2, <3>3, SessionStep, PlaceKept
  <2>3. CASE ~opens
    BY <1>5, <2>1, <2>3, DropKeeps, PlaceKept DEF OpenRegular
  <2> QED BY <2>2, <2>3
<1>6. ASSUME NEW s \in Sessions, WriteSnapshot(s) PROVE NotesInv'
  <2>1. session[s].pc = "ensure" /\ UNCHANGED <<kept, taken>>
    BY <1>6 DEF WriteSnapshot
  <2>2. place' \in HostFiles /\ PlaceFits'
    <3>1. CASE place.kind = "none"
      BY <1>1, <1>6, <2>1, <3>1, OffFits, PutFits DEF WriteSnapshot, PlaceFits
    <3>2. CASE place.kind # "none"
      BY <1>6, <2>1, <3>2, PlaceKept DEF WriteSnapshot
    <3> QED BY <3>1, <3>2
  <2>3. CASE place.kind = "link"
    BY <1>6, <2>1, <2>2, <2>3, DropKeeps DEF WriteSnapshot
  <2>4. CASE place.kind # "link"
    <3> DEFINE text == MergeInstructions(session[s].text, s)
               rec  == [session[s] EXCEPT !.pc = "runs", !.text = text]
    <3>2. session' = [session EXCEPT ![s] = rec]
      BY <1>1, <1>6, <2>4 DEF WriteSnapshot
    <3>3. text \in Texts /\ TextFits(text) /\ HasNotesOf(text, session[s].text)
      BY <1>2, Merged DEF SessionFits, TextFits
    <3> HIDE DEF text
    <3>4. rec \in SessionRecords /\ rec.pc = "runs" /\ rec.text = text
      BY <1>2, <3>3 DEF SessionRecords
    <3>5. SessionFits(rec)
      BY <1>1, <1>2, <2>1, <3>3, <3>4 DEF SessionFits, HasNotesOf
    <3> QED BY <2>1, <2>2, <3>2, <3>4, <3>5, SessionStep
  <2> QED BY <2>3, <2>4
<1>7. ASSUME NEW s \in Sessions, ToolWrites(s) PROVE NotesInv'
  <2>1. UNCHANGED <<place, kept, taken>> /\ session[s].pc = "runs"
    BY <1>7 DEF ToolWrites
  <2>2. PICK n \in Notes : session' = [session EXCEPT ![s].text = Append(@, n)]
    BY <1>7 DEF ToolWrites
  <2> DEFINE text == Append(session[s].text, n)
             rec  == [session[s] EXCEPT !.text = text]
  <2>3. session' = [session EXCEPT ![s] = rec]
    BY <1>1, <2>2
  <2>4. text \in Texts /\ TextFits(text) /\ Range(session[s].text) \subseteq Range(text)
    <3>1. Shaped(session[s].text)
      BY <1>2 DEF SessionFits, TextFits
    <3> QED BY <1>2, <3>1, NoteAdded DEF SessionFits, TextFits
  <2> HIDE DEF text
  <2>5. rec \in SessionRecords /\ rec.pc = "runs" /\ rec.text = text
    BY <1>2, <2>1, <2>4 DEF SessionRecords
  <2>6. SessionFits(rec)
    BY <1>2, <2>1, <2>4, <2>5 DEF SessionFits
  <2> QED BY <2>1, <2>3, <2>5, <2>6, SessionStep, PlaceKept
<1>8. ASSUME NEW s \in Sessions, ToolTakesMarker(s) PROVE NotesInv'
  <2>1. UNCHANGED <<place, kept>> /\ taken' = taken + 1 /\ session[s].pc = "runs"
    BY <1>8 DEF ToolTakesMarker
  <2>2. PICK m \in Markers : \E i \in Places(m, session[s].text) :
          session' = [session EXCEPT ![s].text = CutOut(@, i, i)]
    BY <1>8 DEF ToolTakesMarker
  <2>0. PICK i \in Places(m, session[s].text) : session' = [session EXCEPT ![s].text = CutOut(@, i, i)]
    BY <2>2
  <2> DEFINE text == CutOut(session[s].text, i, i)
             rec  == [session[s] EXCEPT !.text = text]
  <2>3. session' = [session EXCEPT ![s] = rec]
    BY <1>1, <2>0
  <2>4. i \in DOMAIN session[s].text /\ session[s].text[i] \notin Notes
    BY <2>0, PartsDiffer DEF Places
  <2>5. i \in 1..Len(session[s].text) /\ i \in i..Len(session[s].text)
    BY <1>2, <2>4, LenProperties DEF Texts
  <2>6. text \in Texts /\ Shaped(text) /\ HasNotesOf(text, session[s].text)
    BY <1>2, <2>4, <2>5, CutOutShaped, CutOneKeepsNotes DEF SessionFits, TextFits
  <2> HIDE DEF text
  <2>7. rec \in SessionRecords /\ rec.pc = "runs" /\ rec.text = text
    BY <1>2, <2>1, <2>6 DEF SessionRecords
  <2>8. kept \subseteq Range(text)
    BY <1>1, <1>2, <2>1, <2>6 DEF SessionFits, HasNotesOf
  <2>9. taken' \in Nat /\ taken' # 0
    BY <1>1, <2>1
  <2>10. InstructionsTyped' /\ PlaceFits'
    BY <1>1, <2>1, <2>3, <2>7, <2>9 DEF InstructionsTyped, PlaceFits, TextFits
  <2>11. ASSUME NEW t \in Sessions PROVE SessionFits(session[t])'
    <3>1. CASE t = s
      <4>1. session'[t] = rec
        BY <1>1, <2>3, <3>1
      <4> QED BY <2>1, <2>6, <2>7, <2>8, <2>9, <4>1 DEF SessionFits, TextFits
    <3>2. CASE t # s
      <4>1. session'[t] = session[t]
        BY <1>1, <2>3, <3>2
      <4> QED BY <1>2, <2>1, <2>9, <4>1 DEF SessionFits, TextFits
    <3> QED BY <3>1, <3>2
  <2> QED BY <2>10, <2>11 DEF NotesInv
<1>9. ASSUME NEW s \in Sessions, Finalize(s) PROVE NotesInv'
  <2>1. UNCHANGED <<place, kept, taken>> /\ session[s].pc = "runs"
    BY <1>9 DEF Finalize
  <2> DEFINE rec == [session[s] EXCEPT !.pc = "write"]
  <2>2. session' = [session EXCEPT ![s] = rec]
    BY <1>1, <1>9 DEF Finalize, Move
  <2>3. rec \in SessionRecords /\ rec.pc = "write" /\ rec.text = session[s].text
    BY <1>2 DEF SessionRecords
  <2>4. SessionFits(rec)
    BY <1>2, <2>1, <2>3 DEF SessionFits
  <2> QED BY <2>1, <2>2, <2>3, <2>4, SessionStep, PlaceKept
<1>10. ASSUME NEW s \in Sessions, Persist(s) PROVE NotesInv'
  <2>1. session[s].pc = "write" /\ Drop(s) /\ UNCHANGED <<kept, taken>> /\ Put(StripManaged(session[s].text))
    BY <1>10 DEF Persist
  <2> DEFINE text == StripManaged(session[s].text)
  <2>2. text \in Texts /\ TextFits(text) /\ HasNotesOf(text, session[s].text)
    BY <1>2, Stripped DEF SessionFits, TextFits, Tidy
  <2> HIDE DEF text
  <2>3. kept \subseteq Range(text)
    BY <1>1, <1>2, <2>1, <2>2 DEF SessionFits, HasNotesOf
  <2>4. Put(text)
    BY <2>1 DEF text
  <2> QED BY <2>1, <2>2, <2>3, <2>4, PutFits, DropKeeps
<1>11. ASSUME NEW s \in Sessions, Lose(s) PROVE NotesInv'
  BY <1>11, DropKeeps, PlaceKept DEF Lose
<1>12. ASSUME NEW s \in Sessions, Swap(s) PROVE NotesInv'
  <2>1. \E kind \in {"file", "link"} : place' = [place EXCEPT !.kind = kind]
    BY <1>12 DEF Swap
  <2>2. /\ place' \in HostFiles /\ place'.text = place.text /\ place'.kind # "none"
        /\ UNCHANGED <<session, kept, taken>>
    BY <1>1, <1>12, <2>1 DEF Swap, HostFiles
  <2> QED BY <2>2 DEF NotesInv, InstructionsTyped, PlaceFits, SessionFits, TextFits
<1>13. CASE UserWrites
  <2>1. PICK n \in Notes : /\ place' = [place EXCEPT !.kind = "file", !.text = Append(@, n)]
                           /\ kept' = kept \cup {n} /\ UNCHANGED <<session, taken>>
    BY <1>13 DEF UserWrites
  <2> DEFINE text == Append(place.text, n)
  <2>2. place.text \in Texts /\ TextFits(place.text)
    BY <1>1 DEF HostFiles, PlaceFits
  <2>3. text \in Texts /\ TextFits(text) /\ Range(text) = Range(place.text) \cup {n}
    BY <2>2, NoteAdded DEF TextFits
  <2> HIDE DEF text
  <2>4. place' = [kind |-> "file", id |-> place.id, text |-> text]
    BY <1>1, <2>1 DEF HostFiles, text
  <2>5. place' \in HostFiles /\ place'.kind = "file" /\ place'.text = text
    BY <1>1, <2>3, <2>4 DEF HostFiles
  <2>6. \A s \in Sessions : session[s].pc = "off"
    BY <1>13 DEF UserWrites, Quiet, Under
  <2> QED BY <1>1, <1>2, <2>1, <2>3, <2>5, <2>6 DEF NotesInv, InstructionsTyped, PlaceFits, SessionFits, TextFits
<1>14. CASE UNCHANGED instructionVars
  BY <1>14 DEF instructionVars, NotesInv, InstructionsTyped, PlaceFits, SessionFits, TextFits
<1> QED
  BY <1>3, <1>4, <1>5, <1>6, <1>7, <1>8, <1>9, <1>10, <1>11, <1>12, <1>13, <1>14 DEF InstructionsNext

\* Only WriteSnapshot gives a run its snapshot.
LEMMA NewSnapshots ==
  ASSUME NotesInv, InstructionsNext, NEW s \in Sessions, session[s].pc # "runs", session'[s].pc = "runs"
  PROVE  session'[s].text = MergeInstructions(session[s].text, s) /\ UNCHANGED taken
<1>1. session \in [Sessions -> SessionRecords]
  BY DEF NotesInv, InstructionsTyped
<1>2. PICK t \in Sessions : Open(t) \/ CheckRegular(t) \/ OpenRegular(t) \/ WriteSnapshot(t)
                             \/ Finalize(t) \/ Persist(t) \/ Lose(t) \/ ToolWrites(t) \/ ToolTakesMarker(t)
  BY DEF InstructionsNext, Swap, UserWrites
<1>3. t = s
  <2> SUFFICES ASSUME t # s PROVE session'[s] = session[s]
    OBVIOUS
  <2>1. ASSUME Drop(t) \/ \E pc : Move(t, pc) PROVE session'[s] = session[s]
    BY <1>1, <2>1 DEF Drop, Move
  <2>2. CASE Open(t)
    BY <1>1, <2>2 DEF Open
  <2>3. CASE CheckRegular(t)
    BY <1>1, <2>1, <2>3 DEF CheckRegular
  <2>4. CASE OpenRegular(t)
    BY <1>1, <2>1, <2>4 DEF OpenRegular
  <2>5. CASE WriteSnapshot(t)
    BY <1>1, <2>1, <2>5 DEF WriteSnapshot
  <2>6. CASE Finalize(t) \/ Persist(t) \/ Lose(t)
    BY <1>1, <2>1, <2>6 DEF Finalize, Persist, Lose
  <2>7. CASE ToolWrites(t) \/ ToolTakesMarker(t)
    BY <1>1, <2>7 DEF ToolWrites, ToolTakesMarker
  <2> QED BY <1>2, <2>2, <2>3, <2>4, <2>5, <2>6, <2>7
<1>4. WriteSnapshot(s)
  <2>1. ~ToolWrites(s) /\ ~ToolTakesMarker(s) /\ ~Finalize(s)
    BY DEF ToolWrites, ToolTakesMarker, Finalize
  <2>2. ~Drop(s) /\ ~Move(s, "ensure")
    BY <1>1 DEF Drop, Move, Off, SessionRecords
  <2>3. ~Persist(s) /\ ~Lose(s)
    BY <2>2 DEF Persist, Lose
  <2>4. ~Open(s)
    BY <1>1 DEF Open, Off, SessionRecords
  <2>5. ~CheckRegular(s)
    BY <1>1, <2>2 DEF CheckRegular, SessionRecords
  <2>6. ~OpenRegular(s)
    BY <1>1, <2>2 DEF OpenRegular, SessionRecords
  <2> QED BY <1>2, <1>3, <2>1, <2>3, <2>4, <2>5, <2>6
<1>5. ~Drop(s)
  BY <1>1 DEF Drop, Off
<1> QED BY <1>1, <1>4, <1>5 DEF WriteSnapshot, SessionRecords

\* However many runs read the file and write it back, whatever is planted in its place, whichever
\* of them fail or are killed, whichever markers a tool takes out: what the user wrote before them
\* is in the file and in every snapshot.
THEOREM UserNotesSurvive == InstructionsSpec => []NotesSurvive
<1>1. NotesInv => NotesSurvive
  BY DEF NotesInv, PlaceFits, SessionFits, NotesSurvive
<1> QED BY <1>1, NotesInitially, NotesInductive, PTL DEF InstructionsSpec

\* A snapshot that a tool starts with has its run's block in front and no whole block after it; it is
\* notes alone but for this block while no marker was taken out; and it has nothing of the file that a
\* planted link leads to.
THEOREM SnapshotsStayClean == InstructionsSpec => SnapshotsAreClean
<1> DEFINE Clean == \A s \in Sessions : session[s].pc # "runs" /\ session'[s].pc = "runs" =>
                      CleanSnapshot(s, session'[s].text)
<1>1. ASSUME NotesInv, [InstructionsNext]_instructionVars PROVE [Clean]_instructionVars
  <2> SUFFICES ASSUME InstructionsNext, NEW s \in Sessions, session[s].pc # "runs", session'[s].pc = "runs"
               PROVE  CleanSnapshot(s, session'[s].text)
    BY <1>1
  <2> DEFINE text == session[s].text
             merged == MergeInstructions(text, s)
  <2>1. session'[s].text = merged /\ taken' = taken
    BY <1>1, NewSnapshots
  <2>2. text \in Texts /\ TextFits(text)
    BY <1>1 DEF NotesInv, InstructionsTyped, SessionRecords, SessionFits
  <2>3. /\ merged \in Texts
        /\ SubSeq(merged, 1, 3) = <<BeginMark, s, EndMark>>
        /\ SubSeq(merged, 4, Len(merged)) = StripManaged(text)
    BY <2>2, Merged DEF TextFits
  <2>4. Ends(StripManaged(text)) = {} /\ (taken = 0 => Range(StripManaged(text)) \subseteq Notes)
    BY <2>2, Stripped DEF TextFits, AllNotes, Range
  <2> HIDE DEF text, merged
  <2>5. Away \notin Range(merged)
    <3>1. Away \notin Parts
      BY PartsDiffer DEF Parts, Away, BeginMark, EndMark, Old, Markers
    <3>2. \A k \in DOMAIN merged : merged[k] \in Parts
      BY <2>3, LenProperties, ElementOfSeq DEF Texts
    <3> QED BY <3>1, <3>2 DEF Range
  <2> QED BY <2>1, <2>3, <2>4, <2>5 DEF CleanSnapshot
<1> QED BY <1>1, NotesInitially, NotesInductive, PTL DEF InstructionsSpec, SnapshotsAreClean
-----------------------------------------------------------------------------
(* The installed binary.                                                   *)

ReleaseFiles   == [upload : Nat, whole : BOOLEAN]
UpdaterRecords == [pc : {"idle", "archive", "sums", "bundle", "cosign", "verify", "extract", "stage", "copy",
                         "rename"},
                   archive : ReleaseFiles, sums : ReleaseFiles, bundle : ReleaseFiles]

UpdateTyped ==
  /\ release \in [archive : Nat, sums : Nat, bundle : Nat]
  /\ binary \in ReleaseFiles /\ staging \in ReleaseFiles
  /\ updater \in [Updaters -> UpdaterRecords]
  /\ clash \in BOOLEAN

\* What an update knows of its downloads: the bundle it has was published; with cosign it gets
\* past the signature only with checksums of a bundle; past the checksum, the archive is the whole
\* one of these checksums.
Verified(u, rec) ==
  /\ Signed /\ u \in Cosigns =>
       /\ rec.pc = "cosign" => rec.bundle.upload <= release.bundle
       /\ rec.pc \in {"verify", "extract", "stage", "copy", "rename"} => rec.sums.upload <= release.bundle
  /\ rec.pc \in {"extract", "stage", "copy", "rename"} => rec.archive = Whole(rec.sums.upload)

\* Unless two updates staged at the same time, one at most is staging, and renames its own archive.
StagingIsOwn ==
  ~clash => \A u \in Updaters : Staging(u) =>
              /\ \A v \in Updaters \ {u} : ~Staging(v)
              /\ updater[u].pc = "rename" => staging = updater[u].archive

BinaryFits ==
  ~clash => /\ binary = Whole(binary.upload)
            /\ Signed /\ from \in Cosigns => binary.upload <= release.bundle

UpdateInv ==
  /\ UpdateTyped
  /\ \A u \in Updaters : Verified(u, updater[u])
  /\ StagingIsOwn
  /\ BinaryFits
-----------------------------------------------------------------------------
LEMMA FilesTyped ==
  ASSUME NEW n \in Nat
  PROVE  /\ Whole(n) \in ReleaseFiles /\ Cut(n) \in ReleaseFiles /\ NoFile \in ReleaseFiles
         /\ Whole(n).upload = n /\ Cut(n).upload = n
  BY DEF Whole, Cut, NoFile, ReleaseFiles

LEMMA WaitingFits ==
  /\ Waiting \in UpdaterRecords /\ Waiting.pc = "idle"
  /\ \A u : Verified(u, Waiting)
  BY FilesTyped DEF Waiting, UpdaterRecords, Verified

\* A step of one update before it stages, or as it gives up.
LEMMA UpdaterStep ==
  ASSUME UpdateInv, NEW u \in Updaters, NEW rec \in UpdaterRecords, Verified(u, rec),
         rec.pc \notin {"copy", "rename"},
         updater' = [updater EXCEPT ![u] = rec], UNCHANGED <<release, binary, from, clash>>,
         staging' = staging \/ (Staging(u) /\ staging' \in ReleaseFiles)
  PROVE  UpdateInv'
<1>1. updater \in [Updaters -> UpdaterRecords]
  BY DEF UpdateInv, UpdateTyped
<1>2. updater'[u] = rec /\ \A v \in Updaters \ {u} : updater'[v] = updater[v]
  BY <1>1
<1>3. UpdateTyped'
  BY <1>1 DEF UpdateInv, UpdateTyped
<1>4. \A v \in Updaters : Verified(v, updater[v])'
  BY <1>2 DEF UpdateInv, Verified
<1>5. ~Staging(u)' /\ \A v \in Updaters \ {u} : Staging(v)' <=> Staging(v)
  BY <1>2 DEF Staging
<1>6. StagingIsOwn'
  BY <1>2, <1>5 DEF UpdateInv, StagingIsOwn
<1>7. BinaryFits'
  BY DEF UpdateInv, BinaryFits
<1> QED BY <1>3, <1>4, <1>6, <1>7 DEF UpdateInv

LEMMA AbandonKeeps ==
  ASSUME UpdateInv, NEW u \in Updaters, Abandon(u), UNCHANGED <<release, binary, staging, from, clash>>
  PROVE  UpdateInv'
  BY UpdaterStep, WaitingFits DEF Abandon

LEMMA DownloadKeeps ==
  ASSUME UpdateInv, NEW u \in Updaters,
         NEW file \in {"archive", "sums", "bundle"}, NEW n \in Nat,
         NEW next \in {"sums", "bundle", "verify", "cosign"},
         Download(u, file, file, n, next),
         Signed /\ u \in Cosigns =>
           /\ next = "cosign" => file = "bundle" /\ n <= release.bundle
           /\ next # "verify"
  PROVE  UpdateInv'
<1>1. PICK got \in {Whole(n), Cut(n)} :
        updater' = [updater EXCEPT ![u] = [@ EXCEPT !.pc = next, ![file] = got]]
  BY DEF Download
<1>2. updater[u] \in UpdaterRecords /\ got \in ReleaseFiles /\ got.upload = n
  BY FilesTyped DEF UpdateInv, UpdateTyped
<1> DEFINE rec == [updater[u] EXCEPT !.pc = next, ![file] = got]
<1>3. rec \in UpdaterRecords /\ rec.pc = next /\ (file = "bundle" => rec.bundle = got)
  BY <1>2 DEF UpdaterRecords
<1>4. Verified(u, rec)
  BY <1>2, <1>3 DEF Verified
<1>5. updater' = [updater EXCEPT ![u] = rec]
  BY <1>1
<1> QED BY <1>3, <1>4, <1>5, UpdaterStep DEF Download

LEMMA UpdateInitially == SelfUpdateInit => UpdateInv
<1> SUFFICES ASSUME SelfUpdateInit PROVE UpdateInv
  OBVIOUS
<1>1. UpdateTyped
  BY FilesTyped, WaitingFits DEF SelfUpdateInit, UpdateTyped
<1>2. \A u \in Updaters : Verified(u, updater[u]) /\ ~Staging(u)
  BY WaitingFits DEF SelfUpdateInit, Staging
<1>3. BinaryFits
  BY FilesTyped DEF SelfUpdateInit, BinaryFits
<1> QED BY <1>1, <1>2, <1>3 DEF UpdateInv, StagingIsOwn

LEMMA UpdateInductive ==
  ASSUME UpdateInv, [SelfUpdateNext]_updateVars
  PROVE  UpdateInv'
<1>1. /\ release \in [archive : Nat, sums : Nat, bundle : Nat]
      /\ updater \in [Updaters -> UpdaterRecords]
      /\ binary \in ReleaseFiles /\ staging \in ReleaseFiles /\ clash \in BOOLEAN
  BY DEF UpdateInv, UpdateTyped
<1>2. \A u \in Updaters : updater[u] \in UpdaterRecords /\ Verified(u, updater[u])
  BY <1>1 DEF UpdateInv
\* An update that goes on with what it has.
<1>3. ASSUME NEW u \in Updaters, NEW next \in {"archive", "verify", "extract", "stage"}, Step(u, next),
             UNCHANGED <<release, binary, staging, from, clash>>,
             next = "verify" => (Signed /\ u \in Cosigns => updater[u].sums.upload <= release.bundle),
             next = "extract" => updater[u].pc = "verify" /\ ChecksumMatches(u),
             next = "stage" => updater[u].pc = "extract"
      PROVE  UpdateInv'
  <2> DEFINE rec == [updater[u] EXCEPT !.pc = next]
  <2>1. updater' = [updater EXCEPT ![u] = rec]
    BY <1>1, <1>3 DEF Step
  <2>2. rec \in UpdaterRecords /\ rec.pc = next /\ rec.sums = updater[u].sums /\ rec.archive = updater[u].archive
    BY <1>2 DEF UpdaterRecords
  <2>3. Verified(u, rec)
    BY <1>2, <1>3, <2>2 DEF Verified, ChecksumMatches
  <2> QED BY <1>3, <2>1, <2>2, <2>3, UpdaterStep
<1>4. ASSUME NEW u \in Updaters, StartUpdate(u) \/ ExtractBinary(u) PROVE UpdateInv'
  BY <1>3, <1>4 DEF StartUpdate, ExtractBinary
<1>5. ASSUME NEW u \in Updaters, DownloadArchive(u) \/ DownloadChecksums(u) \/ DownloadBundle(u) PROVE UpdateInv'
  BY <1>1, <1>5, DownloadKeeps DEF DownloadArchive, DownloadChecksums, DownloadBundle
<1>6. ASSUME NEW u \in Updaters, MissingBundle(u) PROVE UpdateInv'
  <2>1. CASE Signed
    BY <1>6, <2>1, AbandonKeeps DEF MissingBundle
  <2>2. CASE ~Signed
    BY <1>3, <1>6, <2>2 DEF MissingBundle
  <2> QED BY <2>1, <2>2
<1>7. ASSUME NEW u \in Updaters, VerifySignature(u) PROVE UpdateInv'
  <2>1. CASE updater[u].sums = Whole(updater[u].bundle.upload) /\ Step(u, "verify")
    <3>1. updater[u].bundle.upload \in Nat
      BY <1>2 DEF UpdaterRecords, ReleaseFiles
    <3>2. Signed /\ u \in Cosigns => updater[u].sums.upload <= release.bundle
      BY <1>2, <1>7, <2>1, <3>1, FilesTyped DEF VerifySignature, Verified
    <3> QED BY <1>3, <1>7, <2>1, <3>2 DEF VerifySignature
  <2>2. CASE Abandon(u)
    BY <1>7, <2>2, AbandonKeeps DEF VerifySignature
  <2> QED BY <1>7, <2>1, <2>2 DEF VerifySignature
<1>8. ASSUME NEW u \in Updaters, VerifyChecksum(u) PROVE UpdateInv'
  <2>1. CASE ChecksumMatches(u) /\ Step(u, "extract")
    BY <1>3, <1>8, <2>1 DEF VerifyChecksum
  <2>2. CASE Abandon(u)
    BY <1>8, <2>2, AbandonKeeps DEF VerifyChecksum
  <2> QED BY <1>8, <2>1, <2>2 DEF VerifyChecksum
\* The two steps of an update that stages.
<1>9. ASSUME NEW u \in Updaters, NEW next \in {"copy", "rename"}, Step(u, next), UNCHANGED <<release, binary, from>>,
             updater[u].pc \in {"stage", "copy"}, staging' \in ReleaseFiles, clash' \in BOOLEAN,
             ~clash' => ~clash /\ \A v \in Updaters \ {u} : ~Staging(v),
             next = "rename" => staging' = updater[u].archive
      PROVE  UpdateInv'
  <2> DEFINE rec == [updater[u] EXCEPT !.pc = next]
  <2>1. updater' = [updater EXCEPT ![u] = rec]
    BY <1>1, <1>9 DEF Step
  <2>2. /\ rec \in UpdaterRecords /\ rec.pc = next /\ rec.sums = updater[u].sums /\ rec.archive = updater[u].archive
        /\ updater'[u] = rec /\ \A v \in Updaters \ {u} : updater'[v] = updater[v]
    BY <1>1, <1>2, <2>1 DEF UpdaterRecords
  <2> HIDE DEF rec
  <2>3. Verified(u, rec)
    BY <1>2, <1>9, <2>2 DEF Verified
  <2>4. \A v \in Updaters : Verified(v, updater[v])'
    BY <1>2, <1>9, <2>2, <2>3 DEF Verified
  <2>5. StagingIsOwn'
    BY <1>9, <2>2 DEF StagingIsOwn, Staging
  <2>6. UpdateTyped'
    BY <1>1, <1>9, <2>1, <2>2 DEF UpdateTyped
  <2>7. BinaryFits'
    BY <1>9 DEF UpdateInv, BinaryFits
  <2> QED BY <2>4, <2>5, <2>6, <2>7 DEF UpdateInv
<1>10. ASSUME NEW u \in Updaters, CreateStaging(u) PROVE UpdateInv'
  <2>1. updater[u].archive.upload \in Nat
    BY <1>2 DEF UpdaterRecords, ReleaseFiles
  <2>2. clash' = (clash \/ \E v \in Updaters \ {u} : Staging(v))
    BY <1>10 DEF CreateStaging
  <2>3. clash' \in BOOLEAN /\ (~clash' => ~clash /\ \A v \in Updaters \ {u} : ~Staging(v))
    BY <2>2, Zenon
  <2> QED BY <1>9, <1>10, <2>1, <2>3, FilesTyped DEF CreateStaging
<1>11. ASSUME NEW u \in Updaters, CopyStaging(u) PROVE UpdateInv'
  <2>1. Staging(u) /\ updater[u].archive \in ReleaseFiles
    BY <1>2, <1>11 DEF CopyStaging, Staging, UpdaterRecords
  <2>2. ~clash => \A v \in Updaters \ {u} : ~Staging(v)
    BY <2>1 DEF UpdateInv, StagingIsOwn
  <2> QED BY <1>1, <1>9, <1>11, <2>1, <2>2 DEF CopyStaging
<1>12. ASSUME NEW u \in Updaters, FailInstall(u) PROVE UpdateInv'
  BY <1>12, UpdaterStep, WaitingFits, FilesTyped DEF FailInstall, Abandon, Staging
<1>13. ASSUME NEW u \in Updaters, ReplaceBinary(u) PROVE UpdateInv'
  <2>1. /\ updater[u].pc = "rename" /\ updater' = [updater EXCEPT ![u] = Waiting]
        /\ binary' = staging /\ staging' = NoFile /\ from' = u /\ UNCHANGED <<release, clash>>
    BY <1>13 DEF ReplaceBinary, Abandon
  <2>2. updater'[u] = Waiting /\ \A v \in Updaters \ {u} : updater'[v] = updater[v]
    BY <1>1, <2>1
  <2>3. UpdateTyped'
    BY <1>1, <2>1, WaitingFits, FilesTyped DEF UpdateTyped
  <2>4. \A v \in Updaters : Verified(v, updater[v])'
    BY <1>2, <2>1, <2>2, WaitingFits DEF Verified
  <2>5. StagingIsOwn'
    <3>1. Staging(u) /\ ~Staging(u)' /\ \A v \in Updaters \ {u} : Staging(v)' <=> Staging(v)
      BY <2>1, <2>2, WaitingFits DEF Staging
    <3> QED BY <2>1, <3>1 DEF UpdateInv, StagingIsOwn
  <2>6. BinaryFits'
    <3> SUFFICES ASSUME ~clash
                 PROVE  /\ staging = Whole(staging.upload)
                        /\ Signed /\ u \in Cosigns => staging.upload <= release.bundle
      BY <2>1 DEF BinaryFits
    <3>1. staging = updater[u].archive
      BY <2>1 DEF UpdateInv, StagingIsOwn, Staging
    <3>2. updater[u].archive = Whole(updater[u].sums.upload) /\ updater[u].sums.upload \in Nat
      BY <1>2, <2>1 DEF Verified, UpdaterRecords, ReleaseFiles
    <3> QED BY <1>2, <2>1, <3>1, <3>2, FilesTyped DEF Verified
  <2> QED BY <2>3, <2>4, <2>5, <2>6 DEF UpdateInv
<1>14. ASSUME NEW u \in Updaters, Interrupt(u) PROVE UpdateInv'
  BY <1>14, AbandonKeeps DEF Interrupt
<1>15. CASE Upload
  <2>1. release' \in [archive : Nat, sums : Nat, bundle : Nat] /\ release.bundle <= release'.bundle
    BY <1>1, <1>15 DEF Upload
  <2>2. UNCHANGED <<binary, staging, updater, from, clash>>
    BY <1>15 DEF Upload
  <2>3. \A u \in Updaters : /\ Verified(u, updater[u])'
    BY <1>1, <1>2, <2>1, <2>2 DEF Verified, UpdaterRecords, ReleaseFiles
  <2>4. UpdateTyped' /\ StagingIsOwn' /\ BinaryFits'
    BY <1>1, <2>1, <2>2 DEF UpdateInv, UpdateTyped, StagingIsOwn, Staging, BinaryFits, ReleaseFiles
  <2> QED BY <2>3, <2>4 DEF UpdateInv
<1>16. CASE UNCHANGED updateVars
  BY <1>16 DEF updateVars, UpdateInv, UpdateTyped, Verified, StagingIsOwn, Staging, BinaryFits
<1> QED
  BY <1>4, <1>5, <1>6, <1>7, <1>8, <1>10, <1>11, <1>12, <1>13, <1>14, <1>15, <1>16 DEF SelfUpdateNext

\* For any number of updates and uploads, wherever updates are killed and downloads cut off: unless
\* two of them staged at the same time, the installed binary is all of one release, and one whose
\* signature was published if its updater could verify that.
THEOREM InstalledIsReleased == SelfUpdateSpec => []BinaryIsARelease
<1>1. UpdateInv => BinaryIsARelease
  <2> SUFFICES ASSUME UpdateInv, ~clash
               PROVE  binary.whole /\ (Signed /\ from \in Cosigns => release.bundle >= binary.upload)
    BY DEF BinaryIsARelease
  <2>1. binary = Whole(binary.upload) /\ binary.upload \in Nat /\ release.bundle \in Nat
    BY DEF UpdateInv, UpdateTyped, BinaryFits, ReleaseFiles
  <2>2. binary.whole
    BY <2>1 DEF Whole
  <2> QED BY <2>1, <2>2 DEF UpdateInv, BinaryFits
<1> QED BY <1>1, UpdateInitially, UpdateInductive, PTL DEF SelfUpdateSpec
==============================================================================
