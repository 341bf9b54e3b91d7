---------------------------- MODULE PathPatterns ----------------------------
(***************************************************************************)
(* Which request paths the proxy lets through to a host with path rules:   *)
(* the pattern a configuration may hold, the matcher, and the refusal of   *)
(* paths that a server may read in another way than the matcher does.      *)
(*                                                                         *)
(* A path is the sequence of its segments as sent.  For each segment, the  *)
(* constants say what the code makes of it and what a server may.          *)
(***************************************************************************)
EXTENDS Naturals, Sequences, SequencesExt

CONSTANTS
  Patterns,     \* the patterns of a configuration, as sequences of segments
  Paths,        \* the paths of requests
  Unsafe,       \* segments with an escape or separator in unsafePathParts, or unprintable
  Trailing,     \* segments that end in a dot or a space once decoded
  Decoded,      \* segment as sent -> decoded
  ServersRead   \* segment as sent -> what servers may make of it: sequences of segments

segmentWildcard == "*"
restWildcard    == "**"
EmptySegment    == ""
Dot             == "."
DotDot          == ".."
DotSegments     == {Dot, DotDot}

\* No pattern or path is empty: "/" is <<"">>.  A server reads a segment in another way than the matcher
\* only because of what the code refuses: an escape, a separator, or dots at its end.  It lets an escaped
\* question mark or hash (%3F, %23) through: a server that decodes a path before it looks for the query
\* is left out.
ASSUME SegmentsAssumption ==
  /\ \A p \in Patterns : p \in Seq(STRING) /\ p # << >>
  /\ \A p \in Paths : p \in Seq(DOMAIN Decoded) /\ p # << >>
  /\ Decoded \in [DOMAIN Decoded -> STRING] /\ EmptySegment \in DOMAIN Decoded
  /\ \A s \in DOMAIN Decoded \ (Unsafe \cup Trailing) :
       Decoded[s] \notin DotSegments /\ ServersRead[s] = {<<Decoded[s]>>}

VARIABLES pattern, path

pathVars == <<pattern, path>>
-----------------------------------------------------------------------------
ValidSegment(s, last) ==
  /\ s \notin DotSegments
  /\ s = EmptySegment => last
  /\ s = restWildcard => last
ValidatePathPattern(p) == \A i \in DOMAIN p : ValidSegment(p[i], i = Len(p))

EmptyToo(s, segment) == s = segment \/ s = segmentWildcard    \* mutant
MatchSegment(s, segment) == s = segment \/ (s = segmentWildcard /\ segment # EmptySegment)

MatchPathPattern(p, segments) ==
  LET rest == p[Len(p)] = restWildcard
      n    == IF rest THEN Len(p) - 1 ELSE Len(p)
  IN  /\ IF rest THEN Len(segments) >= n ELSE Len(segments) = n
      /\ \A i \in 1..n : MatchSegment(p[i], segments[i])

\* requestPath: the decoded path, unless an upstream may read it differently.
Safe(p)        == \A i \in DOMAIN p : p[i] \notin Unsafe \cup Trailing
RequestPath(p) == [i \in DOMAIN p |-> Decoded[p[i]]]

AllowsPath(p) == Safe(p) /\ MatchPathPattern(pattern, RequestPath(p))
-----------------------------------------------------------------------------
PathsInit == pattern \in {p \in Patterns : ValidatePathPattern(p)} /\ path = <<EmptySegment>>

NextPath  == path = <<EmptySegment>> /\ path' \in Paths /\ UNCHANGED pattern
PathsSpec == PathsInit /\ [][NextPath]_pathVars
-----------------------------------------------------------------------------
\* How a server resolves dot segments and, if it does so, runs of slashes: `done' is what the segments
\* before the i-th come to.
ReadSegment(done, segments, i, merge) ==
  CASE segments[i] = DotDot -> IF done = << >> THEN done ELSE Front(done)
    [] segments[i] = Dot  -> done
    [] merge /\ segments[i] = EmptySegment /\ i < Len(segments) -> done
    [] OTHER -> Append(done, segments[i])

Resolve(segments, merge) ==
  LET done[i \in 0..Len(segments)] ==
        IF i = 0 THEN << >> ELSE ReadSegment(done[i-1], segments, i, merge)
  IN  done[Len(segments)]

Readings(p) == {c \in [DOMAIN p -> UNION {ServersRead[p[i]] : i \in DOMAIN p}] :
                 \A i \in DOMAIN p : c[i] \in ServersRead[p[i]]}

\* A path the proxy lets through is one its rule allows as every server reads it: decoded once or
\* twice, with or without parameters, dot segments and runs of slashes (paths.go, pathpattern.go).
ServersReadWhatWasMatched ==
  AllowsPath(path) =>
    \A c \in Readings(path), merge \in BOOLEAN :
      MatchPathPattern(pattern, Resolve(FlattenSeq(c), merge))
=============================================================================
