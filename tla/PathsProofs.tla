---------------------------- MODULE PathsProofs ----------------------------
(***************************************************************************)
(* What links do to a mount's path, and dot segments and slashes to that   *)
(* of a request.  Both are about functions on 0..n that are defined from   *)
(* the number before: the walk of a path, link by link, and the reading of *)
(* a request path, segment by segment.  Recursion says that there are such *)
(* functions, Counting what all their values have in common.               *)
(*                                                                         *)
(* WalkedLonger is why a mount leads where it says: a path is walked name  *)
(* by name as long as the next name is no link, which is what the checks   *)
(* looked at for every name below the working directory.                   *)
(***************************************************************************)
EXTENDS Mounts, PathPatterns, SequenceTheorems, WellFoundedInduction, TLAPS

(* Numbers and functions.                                                  *)

LEMMA LeastNumber ==
  ASSUME NEW T \in SUBSET Nat, T # {}
  PROVE  \E m \in T : \A n \in T : m <= n
<1>1. PICK m \in T : \A n \in T : ~(<<n, m>> \in OpToRel(<, Nat))
  <2>1. T \subseteq Nat
    OBVIOUS
  <2> QED
    BY <2>1, WFMin, NatLessThanWellFounded, Zenon
<1>2. \A n \in T : ~(n < m)
  BY <1>1, Zenon DEF OpToRel
<1> QED
  BY <1>2

LEMMA Least ==
  ASSUME NEW T \in SUBSET Nat, T # {}
  PROVE  Min(T) \in T /\ \A n \in T : Min(T) <= n
  BY LeastNumber DEF Min

LEMMA Greatest ==
  ASSUME NEW n \in Nat, NEW T \in SUBSET (0..n), T # {}
  PROVE  Max(T) \in T /\ \A k \in T : k <= Max(T)
<1> DEFINE Bounds == {i \in 0..n : \A k \in T : k <= i}
<1>1. n \in Bounds /\ Bounds \in SUBSET Nat
  OBVIOUS
<1>2. PICK m \in Bounds : \A i \in Bounds : m <= i
  <2> HIDE DEF Bounds
  <2> QED
    BY <1>1, LeastNumber
<1>3. m \in T
  <2> SUFFICES ASSUME m \notin T PROVE FALSE
    OBVIOUS
  <2>1. PICK k \in T : TRUE
    OBVIOUS
  <2>2. m - 1 \in Bounds
    BY <1>2, <2>1
  <2> QED
    BY <1>2, <2>2
<1>4. \E x \in T : \A y \in T : x >= y
  BY <1>2, <1>3
<1> QED
  BY <1>4 DEF Max

LEMMA Counting ==
  ASSUME NEW n \in Nat, NEW T, 0 \in T, \A i \in 1..n : i-1 \in T => i \in T
  PROVE  \A i \in 0..n : i \in T
<1> DEFINE Missing == {i \in 0..n : i \notin T}
<1> SUFFICES ASSUME Missing # {} PROVE FALSE
  OBVIOUS
<1>1. PICK m \in Missing : \A i \in Missing : m <= i
  <2> Missing \in SUBSET Nat
    OBVIOUS
  <2> HIDE DEF Missing
  <2> QED
    BY LeastNumber
<1>2. m \in 1..n /\ m-1 \in 0..n /\ m-1 \notin Missing
  BY <1>1
<1> QED
  BY <1>1, <1>2

Iterates(f, n, x, step) == f[0] = x /\ \A i \in 1..n : f[i] = step[<<f[i-1], i>>]

\* A function on 0..n may be defined from its value at the number before.
LEMMA Recursion ==
  ASSUME NEW n \in Nat, NEW X, NEW x \in X, NEW step \in [X \X (1..n) -> X]
  PROVE  \E f \in [0..n -> X] : Iterates(f, n, x, step)
<1> USE DEF Iterates
<1> DEFINE Upto(f, k) == f[0] = x /\ \A i \in 1..k : f[i] = step[<<f[i-1], i>>]
           T == {k \in 0..n : \E f \in [0..n -> X] : Upto(f, k)}
<1>1. 0 \in T
  <2>1. [i \in 0..n |-> x] \in [0..n -> X] /\ Upto([i \in 0..n |-> x], 0)
    OBVIOUS
  <2>2. 0 \in 0..n
    OBVIOUS
  <2> HIDE DEF Upto
  <2> QED
    BY <2>1, <2>2
<1>2. ASSUME NEW k \in 1..n, k-1 \in T PROVE k \in T
  <2>1. PICK f \in [0..n -> X] : Upto(f, k-1)
    <3> HIDE DEF Upto
    <3> QED
      BY <1>2
  <2> DEFINE g == [f EXCEPT ![k] = step[<<f[k-1], k>>]]
  <2>2. g \in [0..n -> X]
    <3>1. <<f[k-1], k>> \in X \X (1..n)
      OBVIOUS
    <3> QED
      BY <3>1
  <2>3. Upto(g, k)
    <3>1. ASSUME NEW i \in 1..k PROVE g[i] = step[<<g[i-1], i>>]
      <4>0. i-1 \in 0..n /\ i \in 0..n /\ i-1 # k
        OBVIOUS
      <4>1. g[i-1] = f[i-1]
        BY <4>0
      <4>2. CASE i = k
        BY <4>0, <4>1, <4>2
      <4>3. CASE i # k
        <5>1. i \in 1..(k-1) /\ g[i] = f[i]
          BY <4>0, <4>3
        <5> QED
          BY <2>1, <4>1, <5>1
      <4> QED
        BY <4>2, <4>3
    <3>2. g[0] = x
      <4>1. 0 \in 0..n /\ 0 # k
        OBVIOUS
      <4> QED
        BY <2>1, <4>1
    <3> HIDE DEF g
    <3> QED
      BY <3>1, <3>2
  <2> HIDE DEF Upto, g
  <2> QED
    BY <2>2, <2>3
<1>3. n \in T
  <2> HIDE DEF T
  <2>1. \A i \in 0..n : i \in T
    BY <1>1, <1>2, Counting
  <2> QED
    BY <2>1
<1> QED
  BY <1>3
-----------------------------------------------------------------------------
(* Request paths.                                                          *)

\* Segment by segment, there is what `done' comes to.
LEMMA ResolveDefined ==
  ASSUME NEW S, NEW q \in Seq(S), NEW merge \in BOOLEAN
  PROVE  \E f : f = [i \in 0..Len(q) |-> IF i = 0 THEN << >> ELSE ReadSegment(f[i-1], q, i, merge)]
<1> DEFINE step == [t \in Seq(S) \X (1..Len(q)) |-> ReadSegment(t[1], q, t[2], merge)]
<1>1. ASSUME NEW d \in Seq(S), NEW i \in 1..Len(q) PROVE ReadSegment(d, q, i, merge) \in Seq(S)
  BY DEF ReadSegment, Front
<1>2. step \in [Seq(S) \X (1..Len(q)) -> Seq(S)]
  BY <1>1
<1>3. << >> \in Seq(S) /\ Len(q) \in Nat
  OBVIOUS
<1>4. PICK f \in [0..Len(q) -> Seq(S)] : Iterates(f, Len(q), << >>, step)
  <2> DEFINE X == Seq(S)
             n == Len(q)
             x == << >>
  <2>1. n \in Nat
    BY <1>3
  <2>2. x \in X
    BY <1>3
  <2>3. step \in [X \X (1..n) -> X]
    BY <1>2
  <2> HIDE DEF step, X, n, x
  <2>4. \E f \in [0..n -> X] : Iterates(f, n, x, step)
    BY <2>1, <2>2, <2>3, Recursion, Zenon
  <2> QED
    BY <2>4 DEF X, n, x
<1>5. ASSUME NEW i \in 0..Len(q) PROVE f[i] = IF i = 0 THEN << >> ELSE ReadSegment(f[i-1], q, i, merge)
  <2>1. CASE i = 0
    BY <1>4, <2>1 DEF Iterates
  <2>2. CASE i # 0
    <3>1. i \in 1..Len(q) /\ i-1 \in 0..Len(q)
      BY <2>2
    <3>2. <<f[i-1], i>> \in Seq(S) \X (1..Len(q))
      BY <3>1
    <3> QED
      BY <1>4, <2>2, <3>1, <3>2 DEF Iterates
  <2> QED
    BY <2>1, <2>2
<1>6. f = [i \in 0..Len(q) |-> f[i]]
  OBVIOUS
<1> QED
  BY <1>5, <1>6

\* Where no segment is a dot segment, and none of the first n but the last one of all is empty, the
\* first n segments stay; and the path is no longer than they are if it was not.
LEMMA ResolveKeeps ==
  ASSUME NEW S, NEW q \in Seq(S), q # << >>, NEW merge \in BOOLEAN, NEW n \in 0..Len(q),
         \A i \in 1..Len(q) : q[i] \notin DotSegments,
         \A i \in 1..n : q[i] = EmptySegment => i = Len(q)
  PROVE  LET r == Resolve(q, merge)
         IN  /\ r \in Seq(S) /\ Len(r) >= n
             /\ \A i \in 1..n : r[i] = q[i]
             /\ n = Len(q) => Len(r) = n
<1> DEFINE merged(i) == merge /\ q[i] = EmptySegment /\ i < Len(q)
           Defined(f) == f = [i \in 0..Len(q) |-> IF i = 0 THEN << >> ELSE ReadSegment(f[i-1], q, i, merge)]
           Kept(d, i) == /\ d \in Seq(S)
                         /\ i <= n => Len(d) = i
                         /\ i > n => Len(d) >= n
                         /\ \A j \in 1..n : j <= i => d[j] = q[j]
<1>1. ASSUME NEW f, Defined(f) PROVE Kept(f[Len(q)], Len(q))
  <2> DEFINE T == {i \in 0..Len(q) : Kept(f[i], i)}
  <2>1. 0 \in T
    <3>1. f[0] = << >>
      BY <1>1
    <3>2. Kept(<< >>, 0)
      OBVIOUS
    <3>3. 0 \in 0..Len(q)
      OBVIOUS
    <3> HIDE DEF Kept
    <3> QED
      BY <3>1, <3>2, <3>3
  <2>2. ASSUME NEW m \in 1..Len(q), m-1 \in T PROVE m \in T
    <3>1. Kept(f[m-1], m-1)
      BY <2>2
    <3>2. f[m] = ReadSegment(f[m-1], q, m, merge)
      BY <1>1
    <3>3. f[m] = IF merged(m) THEN f[m-1] ELSE Append(f[m-1], q[m])
      BY <3>2 DEF ReadSegment, DotSegments
    <3>4. merged(m) => m > n
      OBVIOUS
    <3>5. q[m] \in S /\ Len(q) \in Nat
      OBVIOUS
    <3> HIDE DEF merged, Defined
    <3>6. Kept(f[m], m)
      <4>1. CASE merged(m)
        BY <3>1, <3>3, <3>4, <4>1
      <4>2. CASE ~merged(m)
        BY <3>1, <3>3, <3>5, <4>2
      <4> QED
        BY <4>1, <4>2
    <3>7. m \in 0..Len(q)
      OBVIOUS
    <3> HIDE DEF Kept
    <3> QED
      BY <3>6, <3>7
  <2>3. Len(q) \in Nat
    OBVIOUS
  <2> HIDE DEF T
  <2>4. \A i \in 0..Len(q) : i \in T
    BY <2>1, <2>2, <2>3, Counting
  <2> QED
    BY <2>3, <2>4 DEF T
<1>2. \E f : f = [i \in 0..Len(q) |-> IF i = 0 THEN << >> ELSE ReadSegment(f[i-1], q, i, merge)]
  BY ResolveDefined
<1>3. PICK f : Defined(f) /\ Resolve(q, merge) = f[Len(q)]
  BY <1>2, Zenon DEF Resolve
<1> HIDE DEF Defined
<1>4. Kept(f[Len(q)], Len(q))
  BY <1>1, <1>3
<1> QED
  BY <1>3, <1>4

\* Segments that a server reads one by one are a path again when they are put together.
LEMMA OneByOne ==
  ASSUME NEW S, NEW q \in Seq(S), q # << >>, NEW c, c = [i \in 1..Len(q) |-> <<q[i]>>]
  PROVE  FlattenSeq(c) = q
<1> DEFINE Flat(f) == f = [i \in 1..Len(c) |-> IF i = 1 THEN c[i] ELSE f[i-1] \o c[i]]
           g        == [i \in 1..Len(q) |-> SubSeq(q, 1, i)]
<1>1. Len(q) \in Nat /\ Len(q) > 0 /\ Len(c) = Len(q) /\ Len(c) # 0
  OBVIOUS
<1>2. SubSeq(q, 1, 1) = <<q[1]>>
  <2>1. Len(SubSeq(q, 1, 1)) = 1 /\ SubSeq(q, 1, 1) \in Seq(S) /\ SubSeq(q, 1, 1)[1] = q[1]
    BY <1>1
  <2>2. Len(<<q[1]>>) = 1 /\ <<q[1]>> \in Seq(S)
    BY <1>1
  <2>3. \A i \in 1..1 : SubSeq(q, 1, 1)[i] = <<q[1]>>[i]
    BY <2>1
  <2> QED
    BY <2>1, <2>2, <2>3, SeqEqual
<1>3. Flat(g)
  <2>1. ASSUME NEW i \in 1..Len(q) PROVE g[i] = IF i = 1 THEN c[i] ELSE g[i-1] \o c[i]
    <3>1. CASE i = 1
      BY <1>1, <1>2, <3>1
    <3>2. CASE i # 1
      <4>1. i-1 \in 1..Len(q)
        BY <1>1, <3>2
      <4>2. SubSeq(q, 1, i) = SubSeq(q, 1, i-1) \o <<q[i]>>
        BY <1>1, <4>1
      <4> QED
        BY <1>1, <3>2, <4>1, <4>2
    <3> QED
      BY <3>1, <3>2
  <2>2. g = [i \in 1..Len(q) |-> IF i = 1 THEN c[i] ELSE g[i-1] \o c[i]]
    <3> DEFINE h == [i \in 1..Len(q) |-> IF i = 1 THEN c[i] ELSE g[i-1] \o c[i]]
    <3>1. \A i \in 1..Len(q) : g[i] = h[i]
      BY <2>1
    <3>2. g = [i \in 1..Len(q) |-> g[i]] /\ h = [i \in 1..Len(q) |-> h[i]]
      OBVIOUS
    <3> HIDE DEF g, h
    <3>3. g = h
      BY <3>1, <3>2
    <3> QED
      BY <3>3 DEF h
  <2>3. Len(c) = Len(q)
    BY <1>1
  <2> HIDE DEF g
  <2> QED
    BY <2>2, <2>3
<1>4. ASSUME NEW f, Flat(f) PROVE f[Len(q)] = q
  <2> DEFINE T == {k \in 0..Len(q) : k # 0 => f[k] = SubSeq(q, 1, k)}
  <2>1. ASSUME NEW m \in 1..Len(q), m-1 \in T PROVE m \in T
    <3>1. f[m] = IF m = 1 THEN c[m] ELSE f[m-1] \o c[m]
      BY <1>1, <1>4
    <3>2. m # 1 => f[m-1] = SubSeq(q, 1, m-1) /\ SubSeq(q, 1, m) = SubSeq(q, 1, m-1) \o <<q[m]>>
      BY <2>1
    <3>3. c[m] = <<q[m]>>
      OBVIOUS
    <3>4. f[m] = SubSeq(q, 1, m)
      <4>1. CASE m = 1
        BY <1>2, <3>1, <3>3, <4>1
      <4>2. CASE m # 1
        BY <3>1, <3>2, <3>3, <4>2
      <4> QED
        BY <4>1, <4>2
    <3> QED
      BY <3>4
  <2>2. \A k \in 0..Len(q) : k \in T
    <3>1. 0 \in T
      OBVIOUS
    <3> HIDE DEF T
    <3> QED
      BY <1>1, <2>1, <3>1, Counting
  <2>3. f[Len(q)] = SubSeq(q, 1, Len(q))
    BY <1>1, <2>2
  <2> QED
    BY <1>1, <2>3
<1>5. \E f : Flat(f)
  <2> HIDE DEF Flat
  <2> QED
    BY <1>3
<1> HIDE DEF g
<1>6. PICK f : Flat(f) /\ FlattenSeq(c) = f[Len(c)]
  BY <1>1, <1>5, Zenon DEF FlattenSeq
<1> HIDE DEF Flat
<1> QED
  BY <1>1, <1>4, <1>6

PathsInv ==
  /\ pattern \in Patterns /\ ValidatePathPattern(pattern)
  /\ path \in Seq(DOMAIN Decoded) /\ path # << >>

LEMMA AllowedAsRead == PathsInv => ServersReadWhatWasMatched
<1> SUFFICES ASSUME PathsInv, AllowsPath(path),
                    NEW c \in Readings(path), NEW merge \in BOOLEAN
             PROVE  MatchPathPattern(pattern, Resolve(FlattenSeq(c), merge))
  BY DEF ServersReadWhatWasMatched
<1> DEFINE q == RequestPath(path)
           n == IF pattern[Len(pattern)] = restWildcard THEN Len(pattern) - 1 ELSE Len(pattern)
<1>1. /\ pattern \in Seq(STRING) /\ pattern # << >>
      /\ path \in Seq(DOMAIN Decoded) /\ path # << >>
  BY SegmentsAssumption DEF PathsInv
<1>2. /\ Len(pattern) \in Nat \ {0} /\ Len(path) \in Nat \ {0}
      /\ \A i \in 1..Len(path) : path[i] \in DOMAIN Decoded
  BY <1>1
<1>3. /\ DOMAIN path = 1..Len(path) /\ DOMAIN pattern = 1..Len(pattern)
      /\ \A i \in 1..Len(path) : path[i] \in DOMAIN Decoded \ (Unsafe \cup Trailing)
  BY <1>1, <1>2 DEF AllowsPath, Safe
<1>4. q \in Seq(STRING) /\ Len(q) = Len(path) /\ q # << >>
  <2>1. q = [i \in 1..Len(path) |-> Decoded[path[i]]]
    BY <1>3 DEF RequestPath
  <2>2. \A i \in 1..Len(path) : Decoded[path[i]] \in STRING
    BY <1>2, SegmentsAssumption
  <2> QED
    BY <1>2, <2>1, <2>2
<1>5. \A i \in 1..Len(path) : q[i] = Decoded[path[i]] /\ q[i] \notin DotSegments /\ ServersRead[path[i]] = {<<q[i]>>}
  BY <1>3, SegmentsAssumption DEF RequestPath
<1>6. FlattenSeq(c) = q
  <2>1. c = [i \in 1..Len(q) |-> c[i]] /\ \A i \in 1..Len(path) : c[i] \in ServersRead[path[i]]
    BY <1>3, <1>4 DEF Readings
  <2>2. c = [i \in 1..Len(q) |-> <<q[i]>>]
    BY <1>4, <1>5, <2>1
  <2> HIDE DEF q
  <2> QED
    BY <1>4, <2>2, OneByOne
<1>7. /\ n \in 0..Len(q)
      /\ n < Len(q) => pattern[Len(pattern)] = restWildcard
      /\ \A i \in 1..n : MatchSegment(pattern[i], q[i])
  BY <1>2, <1>4 DEF AllowsPath, MatchPathPattern
<1>8. \A i \in 1..n : q[i] = EmptySegment => i = Len(q)
  <2> SUFFICES ASSUME NEW i \in 1..n, q[i] = EmptySegment PROVE i = Len(q)
    OBVIOUS
  <2>1. i \in 1..Len(pattern) /\ pattern[i] = EmptySegment
    BY <1>2, <1>7 DEF MatchSegment
  <2>2. i = Len(pattern)
    BY <1>3, <2>1 DEF PathsInv, ValidatePathPattern, ValidSegment
  <2>3. n = Len(pattern) /\ pattern[Len(pattern)] # restWildcard
    BY <1>2, <2>1, <2>2
  <2> HIDE DEF q, n
  <2> QED
    BY <1>2, <1>4, <1>7, <2>2, <2>3
<1> DEFINE r == Resolve(q, merge)
<1> HIDE DEF q
<1>9. /\ r \in Seq(STRING) /\ Len(r) >= n
      /\ \A i \in 1..n : r[i] = q[i]
      /\ n = Len(q) => Len(r) = n
  <2>1. \A i \in 1..Len(q) : q[i] \notin DotSegments
    BY <1>4, <1>5
  <2> HIDE DEF n
  <2> QED
    BY <1>4, <1>7, <1>8, <2>1, ResolveKeeps
<1>10. \A i \in 1..n : MatchSegment(pattern[i], r[i])
  BY <1>7, <1>9
<1>11. IF pattern[Len(pattern)] = restWildcard THEN Len(r) >= n ELSE Len(r) = n
  <2> HIDE DEF n, r
  <2> QED
    BY <1>4, <1>7, <1>9
<1>12. MatchPathPattern(pattern, r)
  <2> HIDE DEF r
  <2> QED
    BY <1>10, <1>11 DEF MatchPathPattern
<1> QED
  BY <1>6, <1>12

\* Whatever the pattern and the path, no server that decodes once or twice, drops parameters, resolves
\* dot segments or merges slashes reads an allowed path as one its rule does not allow (paths.go).
THEOREM AllowedPathsAreAsRead == PathsSpec => []ServersReadWhatWasMatched
<1>1. PathsInit => PathsInv
  <2>1. <<EmptySegment>> \in Seq(DOMAIN Decoded) /\ <<EmptySegment>> # << >>
    BY SegmentsAssumption
  <2> QED
    BY <2>1 DEF PathsInit, PathsInv
<1>2. PathsInv /\ [NextPath]_pathVars => PathsInv'
  BY SegmentsAssumption DEF PathsInv, NextPath, pathVars, ValidatePathPattern, ValidSegment
<1> QED
  BY <1>1, <1>2, AllowedAsRead, PTL DEF PathsSpec
-----------------------------------------------------------------------------
(* Mounts: how a path is walked.                                           *)

HostPath == Seq(Names)

\* What paths are written with.
LEMMA Parts ==
  ASSUME NEW p \in HostPath, NEW n \in 0..Len(p)
  PROVE  /\ Prefix(p, n) \in HostPath /\ Len(Prefix(p, n)) = n
         /\ \A i \in 1..n : Prefix(p, n)[i] = p[i]
         /\ Without(p, n) \in HostPath /\ Len(Without(p, n)) = Len(p) - n
         /\ \A i \in 1..Len(p) - n : Without(p, n)[i] = p[n + i]
  BY DEF HostPath, Prefix, Without

LEMMA SamePath ==
  ASSUME NEW p \in HostPath, NEW q \in HostPath, Len(p) = Len(q), \A i \in 1..Len(p) : p[i] = q[i]
  PROVE  p = q
  BY SeqEqual DEF HostPath

LEMMA Longer ==
  ASSUME NEW p \in HostPath, NEW x \in Names
  PROVE  /\ Append(p, x) \in HostPath /\ Len(Append(p, x)) = Len(p) + 1
         /\ Prefix(Append(p, x), Len(p) + 1) = Append(p, x)
         /\ \A n \in 0..Len(p) : /\ Prefix(Append(p, x), n) = Prefix(p, n)
                                 /\ Without(Append(p, x), n) = Append(Without(p, n), x)
<1> DEFINE q == Append(p, x)
<1>1. /\ q \in HostPath /\ Len(q) = Len(p) + 1 /\ Len(p) \in Nat
      /\ q[Len(p) + 1] = x /\ \A i \in 1..Len(p) : q[i] = p[i]
  BY DEF HostPath
<1> HIDE DEF q
<1>2. Prefix(q, Len(p) + 1) = q
  <2>1. Len(p) + 1 \in 0..Len(q)
    BY <1>1
  <2>2. /\ Prefix(q, Len(p) + 1) \in HostPath /\ Len(Prefix(q, Len(p) + 1)) = Len(q)
        /\ \A i \in 1..Len(q) : Prefix(q, Len(p) + 1)[i] = q[i]
    <3> DEFINE n == Len(p) + 1
    <3>1. n = Len(q)
      BY <1>1
    <3> HIDE DEF n
    <3>2. /\ Prefix(q, n) \in HostPath /\ Len(Prefix(q, n)) = n
          /\ \A i \in 1..n : Prefix(q, n)[i] = q[i]
      BY <1>1, <2>1, Parts DEF n
    <3> QED
      BY <3>1, <3>2 DEF n
  <2> QED
    BY <1>1, <2>2, SamePath
<1>3. ASSUME NEW n \in 0..Len(p)
      PROVE  Prefix(q, n) = Prefix(p, n)
  <2>1. n \in 0..Len(q)
    BY <1>1
  <2>2. /\ Prefix(q, n) \in HostPath /\ Len(Prefix(q, n)) = n
        /\ \A i \in 1..n : Prefix(q, n)[i] = q[i]
    BY <1>1, <2>1, Parts
  <2>3. /\ Prefix(p, n) \in HostPath /\ Len(Prefix(p, n)) = n
        /\ \A i \in 1..n : Prefix(p, n)[i] = p[i]
    BY Parts
  <2>4. \A i \in 1..n : Prefix(q, n)[i] = Prefix(p, n)[i]
    BY <1>1, <2>2, <2>3
  <2> QED
    BY <2>2, <2>3, <2>4, SamePath
<1>4. ASSUME NEW n \in 0..Len(p)
      PROVE  Without(q, n) = Append(Without(p, n), x)
  <2> DEFINE u == Without(q, n)
             v == Append(Without(p, n), x)
  <2>1. /\ u \in HostPath /\ Len(u) = Len(p) + 1 - n
        /\ \A i \in 1..Len(p) + 1 - n : u[i] = q[n + i]
    <3>1. n \in 0..Len(q)
      BY <1>1
    <3> QED
      BY <1>1, <3>1, Parts
  <2>2. /\ Without(p, n) \in HostPath /\ Len(Without(p, n)) = Len(p) - n
        /\ \A i \in 1..Len(p) - n : Without(p, n)[i] = p[n + i]
    BY Parts
  <2>3. /\ v \in HostPath /\ Len(v) = Len(p) + 1 - n
        /\ v[Len(p) + 1 - n] = x /\ \A i \in 1..Len(p) - n : v[i] = p[n + i]
    <3> DEFINE w == Without(p, n)
    <3>1. w \in Seq(Names) /\ Len(w) = Len(p) - n /\ \A i \in 1..Len(p) - n : w[i] = p[n + i]
      BY <2>2 DEF HostPath
    <3>2. v = Append(w, x)
      OBVIOUS
    <3> HIDE DEF v, w
    <3>3. /\ v \in Seq(Names) /\ Len(v) = Len(w) + 1
          /\ \A i \in 1..Len(w) : v[i] = w[i]
          /\ v[Len(w) + 1] = x
      BY <3>1, <3>2
    <3>4. Len(w) + 1 = Len(p) + 1 - n
      BY <1>1, <3>1
    <3> QED
      BY <3>1, <3>3, <3>4 DEF HostPath
  <2>4. \A i \in 1..Len(p) + 1 - n : u[i] = v[i]
    <3> HIDE DEF u, v
    <3> SUFFICES ASSUME NEW i \in 1..Len(p) + 1 - n PROVE u[i] = v[i]
      OBVIOUS
    <3>1. CASE i = Len(p) + 1 - n
      <4>1. n + i = Len(p) + 1
        BY <1>1, <3>1
      <4> QED
        BY <1>1, <2>1, <2>3, <3>1, <4>1
    <3>2. CASE i # Len(p) + 1 - n
      <4>1. n + i \in 1..Len(p)
        BY <1>1, <3>2
      <4> QED
        BY <1>1, <2>1, <2>3, <3>2, <4>1
    <3> QED
      BY <3>1, <3>2
  <2> HIDE DEF u, v
  <2>5. u = v
    BY <2>1, <2>3, <2>4, SamePath
  <2> QED
    BY <2>5 DEF u, v
<1> QED
  BY <1>1, <1>2, <1>3, <1>4 DEF q

\* Of a prefix, the prefixes are those of the path.
LEMMA PrefixOfPrefix ==
  ASSUME NEW p \in HostPath, NEW n \in 0..Len(p), NEW k \in 0..n
  PROVE  Prefix(Prefix(p, n), k) = Prefix(p, k)
<1>1. Len(p) \in Nat /\ k \in 0..Len(p)
  BY DEF HostPath
<1>2. Prefix(p, n) \in HostPath /\ Len(Prefix(p, n)) = n /\ \A i \in 1..n : Prefix(p, n)[i] = p[i]
  BY Parts
<1>3. /\ Prefix(Prefix(p, n), k) \in HostPath /\ Len(Prefix(Prefix(p, n), k)) = k
      /\ \A i \in 1..k : Prefix(Prefix(p, n), k)[i] = Prefix(p, n)[i]
  <2> DEFINE q == Prefix(p, n)
  <2>1. q \in HostPath /\ k \in 0..Len(q)
    BY <1>2
  <2> HIDE DEF q
  <2>2. /\ Prefix(q, k) \in HostPath /\ Len(Prefix(q, k)) = k
        /\ \A i \in 1..k : Prefix(q, k)[i] = q[i]
    BY <2>1, Parts
  <2> QED
    BY <2>2 DEF q
<1>4. Prefix(p, k) \in HostPath /\ Len(Prefix(p, k)) = k /\ \A i \in 1..k : Prefix(p, k)[i] = p[i]
  BY <1>1, Parts
<1>5. \A i \in 1..k : Prefix(Prefix(p, n), k)[i] = Prefix(p, k)[i]
  BY <1>1, <1>2, <1>3, <1>4
<1> QED
  BY <1>3, <1>4, <1>5, SamePath

LEMMA OnePrefixMore ==
  ASSUME NEW p \in HostPath, NEW n \in 0..Len(p) - 1
  PROVE  /\ n + 1 \in 1..Len(p) /\ p[n + 1] \in Names
         /\ Prefix(p, n + 1) = Append(Prefix(p, n), p[n + 1])
<1>1. Len(p) \in Nat /\ n + 1 \in 1..Len(p) /\ n \in 0..Len(p) /\ n + 1 \in 0..Len(p)
  BY DEF HostPath
<1>2. p[n + 1] \in Names
  BY <1>1 DEF HostPath
<1>3. /\ Prefix(p, n) \in HostPath /\ Len(Prefix(p, n)) = n /\ \A i \in 1..n : Prefix(p, n)[i] = p[i]
      /\ Prefix(p, n+1) \in HostPath /\ Len(Prefix(p, n+1)) = n+1 /\ \A i \in 1..n+1 : Prefix(p, n+1)[i] = p[i]
  BY <1>1, Parts
<1>4. /\ Append(Prefix(p, n), p[n+1]) \in HostPath /\ Len(Append(Prefix(p, n), p[n+1])) = n + 1
      /\ \A i \in 1..n+1 : Append(Prefix(p, n), p[n+1])[i] = p[i]
  <2> DEFINE q == Prefix(p, n)
  <2>1. q \in Seq(Names) /\ Len(q) = n
    BY <1>3 DEF HostPath
  <2> HIDE DEF q
  <2>2. /\ Append(q, p[n+1]) \in Seq(Names) /\ Len(Append(q, p[n+1])) = n + 1
        /\ \A i \in 1..n : Append(q, p[n+1])[i] = q[i]
        /\ Append(q, p[n+1])[n+1] = p[n+1]
    BY <1>2, <2>1
  <2> QED
    BY <1>1, <1>3, <2>2 DEF q, HostPath
<1>5. Prefix(p, n + 1) = Append(Prefix(p, n), p[n + 1])
  BY <1>3, <1>4, SamePath
<1> QED
  BY <1>1, <1>2, <1>5

TreeInv == WellFormed(tree)

LEMMA LinksOf ==
  ASSUME NEW p \in HostPath
  PROVE  /\ Links(p) \in SUBSET (1..Len(p)) /\ Links(p) \in SUBSET Nat
         /\ Links(p) # {} => /\ Min(Links(p)) \in Links(p) /\ Min(Links(p)) \in 0..Len(p)
                             /\ \A n \in Links(p) : Min(Links(p)) <= n
                             /\ IsLink(Prefix(p, Min(Links(p))))
<1>1. Len(p) \in Nat
  BY DEF HostPath
<1>2. Links(p) \in SUBSET (1..Len(p)) /\ Links(p) \in SUBSET Nat
  BY <1>1 DEF Links
<1>3. ASSUME Links(p) # {}
      PROVE  Min(Links(p)) \in Links(p) /\ \A n \in Links(p) : Min(Links(p)) <= n
  BY <1>2, <1>3, Least
<1> QED
  BY <1>1, <1>2, <1>3 DEF Links

LEMMA UnlinkTyped ==
  ASSUME TreeInv, NEW p \in HostPath
  PROVE  Unlink(p) \in HostPath
<1>1. CASE Links(p) = {}
  BY <1>1 DEF Unlink
<1>2. CASE Links(p) # {}
  <2> DEFINE n == Min(Links(p))
  <2>1. n \in 0..Len(p) /\ IsLink(Prefix(p, n))
    BY <1>2, LinksOf
  <2> HIDE DEF n
  <2>2. tree[Prefix(p, n)].to \in HostPath
    BY <2>1 DEF TreeInv, WellFormed, IsLink, HostPath
  <2>3. Without(p, n) \in HostPath
    BY <2>1, Parts
  <2>4. tree[Prefix(p, n)].to \o Without(p, n) \in HostPath
    BY <2>2, <2>3 DEF HostPath
  <2> QED
    BY <1>2, <2>4 DEF Unlink, n
<1> QED
  BY <1>1, <1>2

\* Where a walk is after each link it may follow.
Walk(f, p) == /\ f \in [0..MaxHops -> HostPath]
              /\ f[0] = p
              /\ \A i \in 1..MaxHops : f[i] = Unlink(f[i-1])

LEMMA Walks ==
  ASSUME TreeInv, NEW p \in HostPath
  PROVE  \E f : Walk(f, p) /\ Walked(p) = f[MaxHops]
<1> DEFINE step == [t \in HostPath \X (1..MaxHops) |-> Unlink(t[1])]
           Defined(f) == f = [i \in 0..MaxHops |-> IF i = 0 THEN p ELSE Unlink(f[i-1])]
<1>1. step \in [HostPath \X (1..MaxHops) -> HostPath]
  BY UnlinkTyped
<1>2. MaxHops \in Nat
  BY DEF MaxHops
<1>3. PICK f \in [0..MaxHops -> HostPath] : Iterates(f, MaxHops, p, step)
  <2> HIDE DEF step
  <2> QED
    BY <1>1, <1>2, Recursion
<1>4. ASSUME NEW i \in 0..MaxHops PROVE f[i] = IF i = 0 THEN p ELSE Unlink(f[i-1])
  <2>1. CASE i = 0
    BY <1>3, <2>1 DEF Iterates
  <2>2. CASE i # 0
    <3>1. i \in 1..MaxHops /\ i-1 \in 0..MaxHops
      BY <1>2, <2>2
    <3>2. <<f[i-1], i>> \in HostPath \X (1..MaxHops)
      BY <3>1
    <3> QED
      BY <1>3, <2>2, <3>1, <3>2 DEF Iterates
  <2> QED
    BY <2>1, <2>2
<1>5. Defined(f)
  <2>1. f = [i \in 0..MaxHops |-> f[i]]
    OBVIOUS
  <2> QED
    BY <1>4, <2>1
<1>6. \E g : Defined(g)
  <2> HIDE DEF Defined
  <2> QED
    BY <1>5
<1>7. PICK g : Defined(g) /\ Walked(p) = g[MaxHops]
  BY <1>6, Zenon DEF Walked
<1>8. ASSUME NEW i \in 1..MaxHops PROVE g[i] = Unlink(g[i-1])
  BY <1>2, <1>7
<1>9. g[0] = p
  BY <1>2, <1>7
<1>10. g \in [0..MaxHops -> HostPath]
  <2> DEFINE T == {i \in 0..MaxHops : g[i] \in HostPath}
  <2>1. 0 \in T
    BY <1>2, <1>9
  <2>2. ASSUME NEW i \in 1..MaxHops, i-1 \in T PROVE i \in T
    BY <1>2, <1>8, <2>2, UnlinkTyped
  <2> HIDE DEF Defined
  <2>3. \A i \in 0..MaxHops : i \in T
    <3> HIDE DEF T
    <3> QED
      BY <1>2, <2>1, <2>2, Counting
  <2>4. g = [i \in 0..MaxHops |-> g[i]]
    BY <1>7 DEF Defined
  <2> QED
    BY <2>3, <2>4
<1> HIDE DEF Defined
<1> QED
  BY <1>7, <1>8, <1>9, <1>10 DEF Walk

\* A walk stays where there is no link.
LEMMA WalkEnds ==
  ASSUME TreeInv, NEW p \in HostPath, NEW f, Walk(f, p), NEW n \in 0..MaxHops, Links(f[n]) = {}
  PROVE  f[MaxHops] = f[n]
<1> DEFINE T == {i \in 0..MaxHops : i >= n => f[i] = f[n]}
<1>1. MaxHops \in Nat
  BY DEF MaxHops
<1>2. 0 \in T
  BY <1>1
<1>3. ASSUME NEW i \in 1..MaxHops, i-1 \in T PROVE i \in T
  <2>1. i-1 >= n => f[i-1] = f[n]
    BY <1>3
  <2>2. f[i] = Unlink(f[i-1])
    BY DEF Walk
  <2>3. i-1 >= n => f[i] = f[n]
    BY <2>1, <2>2 DEF Unlink
  <2> QED
    BY <1>1, <2>3
<1>4. MaxHops \in T
  <2>1. \A i \in 0..MaxHops : i \in T
    <3> HIDE DEF T
    <3> QED
      BY <1>1, <1>2, <1>3, Counting
  <2> QED
    BY <1>1, <2>1
<1> QED
  BY <1>1, <1>4

\* One walk is enough to speak of.
LEMMA OneWalk ==
  ASSUME TreeInv, NEW p \in HostPath, NEW f, Walk(f, p)
  PROVE  Walked(p) = f[MaxHops] /\ Walked(p) \in HostPath
<1>1. PICK g : Walk(g, p) /\ Walked(p) = g[MaxHops]
  BY Walks
<1> DEFINE T == {i \in 0..MaxHops : f[i] = g[i]}
<1>2. MaxHops \in Nat
  BY DEF MaxHops
<1>3. 0 \in T
  BY <1>1, <1>2 DEF Walk
<1>4. ASSUME NEW i \in 1..MaxHops, i-1 \in T PROVE i \in T
  BY <1>1, <1>2, <1>4 DEF Walk
<1>5. \A i \in 0..MaxHops : i \in T
  <2> HIDE DEF T
  <2> QED
    BY <1>2, <1>3, <1>4, Counting
<1> QED
  BY <1>1, <1>2, <1>5 DEF Walk

LEMMA WalkedStraight ==
  ASSUME TreeInv, NEW p \in HostPath, Links(p) = {}
  PROVE  Walked(p) = p
<1>1. PICK f : Walk(f, p) /\ Walked(p) = f[MaxHops]
  BY Walks
<1>2. 0 \in 0..MaxHops /\ f[0] = p
  BY <1>1 DEF Walk, MaxHops
<1> QED
  BY <1>1, <1>2, WalkEnds

\* A name more adds at most a link at its end.
LEMMA LinksLonger ==
  ASSUME NEW p \in HostPath, NEW x \in Names
  PROVE  Links(Append(p, x)) = Links(p) \cup {n \in {Len(p) + 1} : IsLink(Append(p, x))}
<1> DEFINE q == Append(p, x)
<1>1. /\ Len(q) = Len(p) + 1 /\ Len(p) \in Nat
      /\ Prefix(q, Len(p) + 1) = q
      /\ \A n \in 0..Len(p) : Prefix(q, n) = Prefix(p, n)
  BY Longer DEF HostPath
<1> HIDE DEF q
<1>2. ASSUME NEW n \in 1..Len(p) + 1
      PROVE  n \in Links(q) <=> n \in Links(p) \/ (n = Len(p) + 1 /\ IsLink(q))
  <2>1. CASE n = Len(p) + 1
    BY <1>1, <2>1 DEF Links
  <2>2. CASE n # Len(p) + 1
    <3>1. n \in 1..Len(p) /\ n \in 0..Len(p) /\ n \in 1..Len(q)
      BY <1>1, <2>2
    <3> QED
      BY <1>1, <2>2, <3>1 DEF Links
  <2> QED
    BY <2>1, <2>2
<1>3. Links(q) \subseteq 1..Len(p) + 1 /\ Links(p) \subseteq 1..Len(p) + 1 /\ Len(p) + 1 \in 1..Len(p) + 1
  BY <1>1 DEF Links
<1>4. Links(q) = Links(p) \cup {n \in {Len(p) + 1} : IsLink(q)}
  BY <1>2, <1>3
<1> QED
  BY <1>4 DEF q

\* While links are left in the path, the name after it is taken along.
LEMMA UnlinkLonger ==
  ASSUME TreeInv, NEW p \in HostPath, NEW x \in Names, Links(p) # {}
  PROVE  Unlink(Append(p, x)) = Append(Unlink(p), x)
<1> DEFINE m == Min(Links(p))
           q == Append(p, x)
<1>1. /\ m \in Links(p) /\ m \in 0..Len(p) /\ m \in 1..Len(p) /\ \A n \in Links(p) : m <= n
      /\ IsLink(Prefix(p, m)) /\ Len(p) \in Nat
  BY LinksOf DEF HostPath
<1>2. Links(q) = Links(p) \cup {n \in {Len(p) + 1} : IsLink(q)}
  BY LinksLonger
<1>3. /\ q \in HostPath /\ Prefix(q, m) = Prefix(p, m) /\ Without(q, m) = Append(Without(p, m), x)
  BY <1>1, Longer
<1> HIDE DEF m, q
<1>4. Links(q) # {} /\ m \in Links(q) /\ \A n \in Links(q) : m <= n
  BY <1>1, <1>2
<1>5. Min(Links(q)) = m
  <2>1. Min(Links(q)) \in Links(q) /\ \A n \in Links(q) : Min(Links(q)) <= n
    BY <1>3, <1>4, LinksOf
  <2>2. Min(Links(q)) <= m /\ m <= Min(Links(q)) /\ m \in Nat /\ Min(Links(q)) \in Nat
    BY <1>1, <1>3, <1>4, <2>1, LinksOf
  <2> QED
    BY <2>2
<1>6. Unlink(q) = tree[Prefix(p, m)].to \o Append(Without(p, m), x)
  BY <1>3, <1>4, <1>5 DEF Unlink
<1>7. Unlink(p) = tree[Prefix(p, m)].to \o Without(p, m)
  BY DEF Unlink, m
<1>8. tree[Prefix(p, m)].to \in Seq(Names) /\ Without(p, m) \in Seq(Names)
  BY <1>1, Parts DEF TreeInv, WellFormed, IsLink, HostPath
<1>9. ASSUME NEW a \in Seq(Names), NEW b \in Seq(Names)
      PROVE  a \o Append(b, x) = Append(a \o b, x)
  OBVIOUS
<1>10. Unlink(q) = Append(Unlink(p), x)
  BY <1>6, <1>7, <1>8, <1>9
<1> QED
  BY <1>10 DEF q

\* So a path is walked name by name, as long as the next name is no link.
LEMMA WalkedLonger ==
  ASSUME TreeInv, NEW p \in HostPath, NEW x \in Names,
         Links(Walked(p)) = {} => ~IsLink(Append(Walked(p), x))
  PROVE  Walked(Append(p, x)) = Append(Walked(p), x)
<1> DEFINE q == Append(p, x)
<1>1. q \in HostPath
  BY Longer
<1>2. PICK f : Walk(f, p) /\ Walked(p) = f[MaxHops]
  BY Walks
<1> HIDE DEF q
<1>3. PICK g : Walk(g, q) /\ Walked(q) = g[MaxHops]
  BY <1>1, Walks
<1> DEFINE T == {i \in 0..MaxHops : g[i] = Append(f[i], x)}
<1>4. MaxHops \in Nat
  BY DEF MaxHops
<1>5. 0 \in T
  BY <1>2, <1>3, <1>4 DEF Walk, q
<1>6. ASSUME NEW i \in 1..MaxHops, i-1 \in T PROVE i \in T
  <2>1. /\ i \in 0..MaxHops /\ i-1 \in 0..MaxHops
        /\ f[i] = Unlink(f[i-1]) /\ g[i] = Unlink(g[i-1]) /\ g[i-1] = Append(f[i-1], x)
        /\ f[i-1] \in HostPath
    BY <1>2, <1>3, <1>4, <1>6 DEF Walk
  <2>2. CASE Links(f[i-1]) # {}
    BY <2>1, <2>2, UnlinkLonger
  <2>3. CASE Links(f[i-1]) = {}
    <3>1. Walked(p) = f[i-1] /\ f[i] = f[i-1]
      BY <1>2, <2>1, <2>3, WalkEnds DEF Unlink
    <3>2. ~IsLink(Append(f[i-1], x))
      BY <2>3, <3>1
    <3>3. Links(Append(f[i-1], x)) = {}
      BY <2>1, <2>3, <3>2, LinksLonger
    <3>4. g[i] = g[i-1]
      BY <2>1, <3>3 DEF Unlink
    <3> QED
      BY <2>1, <3>1, <3>4
  <2> QED
    BY <2>2, <2>3
<1>7. \A i \in 0..MaxHops : i \in T
  <2> HIDE DEF T
  <2> QED
    BY <1>4, <1>5, <1>6, Counting
<1>8. g[MaxHops] = Append(f[MaxHops], x)
  BY <1>4, <1>7
<1> QED
  BY <1>2, <1>3, <1>8 DEF q
-----------------------------------------------------------------------------
(* Mounts: what resolving gives.                                           *)

\* What is there has directories above it.
LEMMA Above ==
  ASSUME TreeInv, NEW p \in HostPath, Exists(p)
  PROVE  /\ p \notin {Absent, Broken}
         /\ \A n \in 0..Len(p) : Exists(Prefix(p, n))
         /\ \A n \in 1..Len(p) - 1 : ~IsFile(Prefix(p, n)) /\ ~IsLink(Prefix(p, n))
<1>1. p \notin {Absent, Broken}
  BY DEF TreeInv, WellFormed, Exists, Absent, Broken
<1>2. Len(p) \in Nat /\ (p = << >> => Len(p) = 0)
  BY DEF HostPath
<1>3. ASSUME NEW n \in 1..Len(p) - 1
      PROVE  Prefix(p, n) \in DOMAIN tree /\ tree[Prefix(p, n)].kind = "dir"
  BY <1>2 DEF TreeInv, WellFormed, Exists
<1>4. Prefix(p, 0) = << >> /\ Prefix(p, Len(p)) = p
  BY <1>2 DEF Prefix, HostPath
<1>5. ASSUME NEW n \in 0..Len(p)
      PROVE  Exists(Prefix(p, n))
  <2>1. n = 0 \/ n = Len(p) \/ n \in 1..Len(p) - 1
    BY <1>2
  <2> QED
    BY <1>3, <1>4, <2>1 DEF Exists
<1> QED
  BY <1>1, <1>3, <1>5 DEF IsFile, IsLink

\* EvalSymlinks without an error is where the walk ends, and there is no link on the way there.
LEMMA Evaluated ==
  ASSUME TreeInv, NEW p \in HostPath
  PROVE  /\ EvalSymlinks(p) \notin {Absent, Broken} <=> Links(Walked(p)) = {} /\ Exists(Walked(p))
         /\ EvalSymlinks(p) \notin {Absent, Broken} => EvalSymlinks(p) = Walked(p)
<1>1. Walked(p) \in HostPath
  BY Walks, OneWalk
<1>2. ASSUME Exists(Walked(p)), Links(Walked(p)) = {}
      PROVE  EvalSymlinks(p) = Walked(p) /\ Walked(p) \notin {Absent, Broken}
  BY <1>1, <1>2, Above DEF EvalSymlinks
<1>3. ASSUME ~(Exists(Walked(p)) /\ Links(Walked(p)) = {})
      PROVE  EvalSymlinks(p) \in {Absent, Broken}
  BY <1>3 DEF EvalSymlinks
<1> QED
  BY <1>2, <1>3

\* What EvalSymlinks gives is itself without links, like everything above it.
LEMMA EvaluatedAgain ==
  ASSUME TreeInv, NEW p \in HostPath, Exists(p), Links(p) = {}, NEW n \in 0..Len(p)
  PROVE  EvalSymlinks(Prefix(p, n)) = Prefix(p, n) /\ Links(Prefix(p, n)) = {}
<1>1. Prefix(p, n) \in HostPath /\ Len(Prefix(p, n)) = n /\ Exists(Prefix(p, n)) /\ Len(p) \in Nat
  BY Parts, Above DEF HostPath
<1>2. ASSUME NEW k \in 1..n PROVE ~IsLink(Prefix(Prefix(p, n), k))
  <2>1. k \in 0..n /\ k \in 1..Len(p)
    BY <1>1
  <2>2. Prefix(Prefix(p, n), k) = Prefix(p, k)
    BY <2>1, PrefixOfPrefix
  <2> QED
    BY <2>1, <2>2 DEF Links
<1>3. Links(Prefix(p, n)) = {}
  BY <1>1, <1>2 DEF Links
<1> QED
  BY <1>1, <1>3, WalkedStraight, Evaluated

LEMMA Ends ==
  ASSUME NEW p \in HostPath
  PROVE  /\ Len(p) \in Nat
         /\ Prefix(p, Len(p)) = p /\ Without(p, Len(p)) = << >>
         /\ Prefix(p, 0) = << >> /\ << >> \in HostPath
         /\ p \o << >> = p
  BY DEF HostPath, Prefix, Without

\* The longest prefix that exists.
Known(p) == {k \in 0..Len(p) : EvalSymlinks(Prefix(p, k)) # Absent}

LEMMA LongestKnown ==
  ASSUME TreeInv, NEW p \in HostPath
  PROVE  /\ Max(Known(p)) \in Known(p) /\ Max(Known(p)) \in 0..Len(p)
         /\ \A k \in Known(p) : k <= Max(Known(p))
<1>1. Len(p) \in Nat /\ 0 \in 0..Len(p) /\ Prefix(p, 0) = << >> /\ << >> \in HostPath
  BY Ends
<1>2. Exists(<< >>) /\ Links(<< >>) = {}
  BY DEF Exists, Links
<1>3. EvalSymlinks(<< >>) # Absent
  BY <1>1, <1>2, WalkedStraight, Evaluated
<1>4. Known(p) \in SUBSET (0..Len(p)) /\ Known(p) # {}
  BY <1>1, <1>3 DEF Known
<1>5. Max(Known(p)) \in Known(p) /\ \A k \in Known(p) : k <= Max(Known(p))
  BY <1>1, <1>4, Greatest
<1> QED
  BY <1>4, <1>5

\* What exists, ResolvePrefix resolves as EvalSymlinks does.
LEMMA ResolvedExisting ==
  ASSUME TreeInv, NEW p \in HostPath, EvalSymlinks(p) \notin {Absent, Broken}
  PROVE  ResolvePrefix(p) = EvalSymlinks(p) /\ ResolveExisting(p) = EvalSymlinks(p)
<1>1. Max(Known(p)) = Len(p)
  <2>1. Len(p) \in Known(p) /\ Len(p) \in Nat
    BY Ends DEF Known
  <2> QED
    BY <2>1, LongestKnown
<1>2. EvalSymlinks(p) \in HostPath
  BY Evaluated, Walks, OneWalk
<1>3. ResolvePrefix(p) = EvalSymlinks(p)
  BY <1>1, <1>2, Ends DEF ResolvePrefix, Known
<1> QED
  BY <1>3 DEF ResolveExisting

\* A path that ResolveExisting takes to a directory that is there leads there.
LEMMA ReallyThere ==
  ASSUME TreeInv, NEW p \in HostPath,
         NEW c \in HostPath, Exists(c), Links(c) = {}, ResolveExisting(p) = c
  PROVE  EvalSymlinks(p) = c
<1>0. /\ \A n \in 0..Len(c) : EvalSymlinks(Prefix(c, n)) = Prefix(c, n) /\ Exists(Prefix(c, n))
      /\ c \notin {Absent, Broken} /\ Len(c) \in Nat /\ Prefix(c, Len(c)) = c
  BY EvaluatedAgain, Above, Ends
<1>1. CASE ResolvePrefix(p) = Broken
  <2>1. p = c
    BY <1>1 DEF ResolveExisting
  <2> QED
    BY <1>0, <2>1
<1>2. CASE ResolvePrefix(p) # Broken
  <2> DEFINE m == Max(Known(p))
             r == EvalSymlinks(Prefix(p, m))
  <2>1. ResolvePrefix(p) = c
    BY <1>2 DEF ResolveExisting
  <2>2. /\ m \in 0..Len(p) /\ r # Absent /\ \A k \in Known(p) : k <= m
        /\ Len(p) \in Nat
    BY LongestKnown, Ends DEF Known
  <2>3. r # Broken /\ r \o Without(p, m) = c
    BY <1>2, <2>1 DEF ResolvePrefix, Known
  <2>4. /\ Prefix(p, m) \in HostPath /\ Without(p, m) \in HostPath /\ Len(Without(p, m)) = Len(p) - m
        /\ \A i \in 1..Len(p) - m : Without(p, m)[i] = p[m + i]
    BY <2>2, Parts
  <2>5. r = Walked(Prefix(p, m)) /\ r \in HostPath /\ Links(r) = {}
    BY <2>2, <2>3, <2>4, Evaluated, Walks, OneWalk
  <2> HIDE DEF m, r
  <2>6. m = Len(p)
    <3> SUFFICES ASSUME m # Len(p) PROVE FALSE
      OBVIOUS
    <3> DEFINE n == Len(r) + 1
               x == p[m + 1]
    <3>1. m \in 0..Len(p) - 1 /\ 1 \in 1..Len(p) - m
      BY <2>2
    <3>2. x \in Names /\ m + 1 \in 0..Len(p) /\ Prefix(p, m + 1) = Append(Prefix(p, m), x)
      BY <2>2, <3>1, OnePrefixMore
    <3>3. /\ Len(c) = Len(r) + Len(Without(p, m)) /\ Len(r) \in Nat
          /\ \A i \in 1..Len(r) : c[i] = r[i]
          /\ c[Len(r) + 1] = Without(p, m)[1]
      <4>1. ASSUME NEW a \in Seq(Names), NEW b \in Seq(Names), 1 \in 1..Len(b)
            PROVE  /\ Len(a \o b) = Len(a) + Len(b) /\ Len(a) \in Nat
                   /\ \A i \in 1..Len(a) : (a \o b)[i] = a[i]
                   /\ (a \o b)[Len(a) + 1] = b[1]
        <5>1. Len(a) \in Nat /\ Len(b) \in Nat /\ Len(a) + 1 \in 1..Len(a) + Len(b)
          BY <4>1
        <5>2. /\ Len(a \o b) = Len(a) + Len(b)
              /\ \A i \in 1..Len(a) + Len(b) : (a \o b)[i] = IF i <= Len(a) THEN a[i] ELSE b[i - Len(a)]
          OBVIOUS
        <5> QED
          BY <5>1, <5>2
      <4>2. r \in Seq(Names) /\ Without(p, m) \in Seq(Names) /\ 1 \in 1..Len(Without(p, m))
        BY <2>4, <2>5, <3>1 DEF HostPath
      <4> QED
        BY <2>3, <4>1, <4>2
    <3>4. n \in 0..Len(c) /\ Prefix(c, n) = Append(r, x)
      <4>1. n \in 0..Len(c) /\ Without(p, m)[1] = x
        BY <2>2, <2>4, <3>1, <3>3
      <4>2. /\ Prefix(c, n) \in HostPath /\ Len(Prefix(c, n)) = n
            /\ \A i \in 1..n : Prefix(c, n)[i] = c[i]
        BY <4>1, Parts
      <4> HIDE DEF x
      <4>3. /\ Append(r, x) \in HostPath /\ Len(Append(r, x)) = n
            /\ \A i \in 1..Len(r) : Append(r, x)[i] = r[i]
            /\ Append(r, x)[n] = x
        BY <2>5, <3>2 DEF HostPath
      <4>4. \A i \in 1..n : Prefix(c, n)[i] = Append(r, x)[i]
        BY <3>3, <4>1, <4>2, <4>3
      <4> QED
        BY <4>1, <4>2, <4>3, <4>4, SamePath
    <3> HIDE DEF n, x
    <3>5. Links(Append(r, x)) = {} /\ Exists(Append(r, x))
      BY <1>0, <3>4, EvaluatedAgain
    <3>6. ~IsLink(Append(r, x))
      BY <2>5, <3>2, <3>5, LinksLonger
    <3>7. Walked(Prefix(p, m + 1)) = Append(r, x)
      BY <2>4, <2>5, <3>2, <3>6, WalkedLonger
    <3>8. Prefix(p, m + 1) \in HostPath
      BY <3>2, Parts
    <3>9. EvalSymlinks(Prefix(p, m + 1)) # Absent
      BY <3>5, <3>7, <3>8, Evaluated
    <3>10. m + 1 \in Known(p)
      BY <3>2, <3>9 DEF Known
    <3> QED
      BY <2>2, <3>10
  <2>7. r = c
    BY <2>3, <2>5, <2>6, Ends
  <2> QED
    BY <2>6, <2>7, Ends DEF r
<1> QED
  BY <1>1, <1>2
-----------------------------------------------------------------------------
(* Mounts: what passes the checks.                                         *)

MountsInv == TreeInv /\ host \in HostPath /\ ConfigFiles \subseteq HostPath /\ Cwd \in HostPath

\* Below the directory that its shallowest root is, a path without links is walked as it is written.
LEMMA WalkedBelow ==
  ASSUME TreeInv, NEW p \in HostPath, NEW c \in HostPath, NEW w \in 0..Len(p),
         EvalSymlinks(Prefix(p, w)) = c, c \notin {Absent, Broken},
         \A n \in w + 1 .. Len(p) : ~IsLink(Lstat(Prefix(p, n)))
  PROVE  \A n \in w..Len(p) : /\ Walked(Prefix(p, n)) = c \o SubSeq(p, w + 1, n)
                              /\ Links(Walked(Prefix(p, n))) = {}
<1> DEFINE Fits(n) == /\ Walked(Prefix(p, n)) = c \o SubSeq(p, w + 1, n)
                      /\ Links(Walked(Prefix(p, n))) = {}
           T == {n \in 0..Len(p) : n >= w => Fits(n)}
<1>1. Len(p) \in Nat /\ w \in Nat
  BY Ends
<1>2. Fits(w)
  <2>1. Prefix(p, w) \in HostPath
    BY Parts
  <2>2. Walked(Prefix(p, w)) = c /\ Links(c) = {}
    BY <2>1, Evaluated
  <2>3. SubSeq(p, w + 1, w) = << >> /\ c \o << >> = c
    BY <1>1, Ends DEF HostPath
  <2> QED
    BY <2>2, <2>3
<1>3. ASSUME NEW n \in w..Len(p) - 1, Fits(n) PROVE Fits(n + 1)
  <2> DEFINE d == Walked(Prefix(p, n))
             x == p[n + 1]
  <2>1. /\ n \in 0..Len(p) - 1 /\ n \in 0..Len(p) /\ n + 1 \in w + 1 .. Len(p) /\ n + 1 \in 1..Len(p)
        /\ n + 1 \in 0..Len(p)
    BY <1>1
  <2>2. /\ x \in Names /\ Prefix(p, n + 1) = Append(Prefix(p, n), x)
        /\ Prefix(p, n) \in HostPath /\ Prefix(p, n + 1) \in HostPath /\ Len(Prefix(p, n + 1)) = n + 1
        /\ Prefix(p, n + 1)[n + 1] = x
        /\ Prefix(Prefix(p, n + 1), n) = Prefix(p, n)
    <3>1. n + 1 \in 1..n + 1 /\ n \in 0..n + 1
      BY <2>1
    <3> QED
      BY <2>1, <3>1, Parts, OnePrefixMore, PrefixOfPrefix
  <2>3. d = c \o SubSeq(p, w + 1, n) /\ Links(d) = {}
    BY <1>3
  <2>4. d \in HostPath
    BY <2>2, Walks, OneWalk
  <2> HIDE DEF d, x
  <2>5. ~IsLink(Append(d, x))
    <3>1. CASE Exists(d)
      <4>1. EvalSymlinks(Prefix(p, n)) = d /\ d \notin {Absent, Broken}
        BY <2>2, <2>3, <3>1, Evaluated DEF d
      <4>2. (n + 1) - 1 = n
        BY <2>1
      <4>3. Lstat(Prefix(p, n + 1)) = Append(d, x)
        BY <2>2, <4>1, <4>2 DEF Lstat
      <4> QED
        BY <2>1, <4>3
    <3>2. CASE ~Exists(d)
      <4> SUFFICES ASSUME IsLink(Append(d, x)) PROVE FALSE
        OBVIOUS
      <4>1. /\ Append(d, x) \in HostPath /\ Len(Append(d, x)) = Len(d) + 1
            /\ Prefix(Append(d, x), Len(d)) = Prefix(d, Len(d))
            /\ Len(d) \in Nat /\ Prefix(d, Len(d)) = d
        BY <2>2, <2>4, Longer, Ends
      <4>2. Len(d) \in 0..Len(Append(d, x)) /\ Exists(Append(d, x))
        BY <4>1 DEF IsLink, Exists
      <4> QED
        BY <3>2, <4>1, <4>2, Above
    <3> QED
      BY <3>1, <3>2
  <2>6. Walked(Prefix(p, n + 1)) = Append(d, x)
    BY <2>2, <2>5, WalkedLonger DEF d
  <2>7. Links(Append(d, x)) = {}
    BY <2>2, <2>3, <2>4, <2>5, LinksLonger
  <2>8. c \o SubSeq(p, w + 1, n + 1) = Append(c \o SubSeq(p, w + 1, n), x)
    <3>1. SubSeq(p, w + 1, n + 1) = Append(SubSeq(p, w + 1, n), x) /\ SubSeq(p, w + 1, n) \in Seq(Names)
      BY <1>1, <2>1 DEF HostPath, x
    <3>2. ASSUME NEW a \in Seq(Names), NEW b \in Seq(Names)
          PROVE  a \o Append(b, x) = Append(a \o b, x)
      BY <2>2
    <3> QED
      BY <3>1, <3>2 DEF HostPath
  <2> QED
    BY <2>3, <2>6, <2>7, <2>8
<1>4. 0 \in T
  <2>1. 0 >= w => w = 0
    BY <1>1
  <2> HIDE DEF Fits
  <2> QED
    BY <1>1, <1>2, <2>1
<1>5. ASSUME NEW n \in 1..Len(p), n-1 \in T PROVE n \in T
  <2> HIDE DEF Fits
  <2>1. CASE n > w
    <3>1. n-1 \in w..Len(p) - 1 /\ (n-1) + 1 = n
      BY <1>1, <2>1
    <3>2. Fits(n-1)
      BY <1>5, <1>1, <3>1
    <3>3. Fits((n-1) + 1)
      BY <1>3, <3>1, <3>2
    <3> QED
      BY <3>1, <3>3
  <2>2. CASE n = w
    BY <1>2, <2>2
  <2>3. CASE n < w
    BY <1>1, <2>3
  <2> QED
    BY <1>1, <2>1, <2>2, <2>3
<1>6. \A n \in 0..Len(p) : n \in T
  <2> HIDE DEF T
  <2> QED
    BY <1>1, <1>4, <1>5, Counting
<1>7. \A n \in w..Len(p) : Fits(n)
  <2> HIDE DEF Fits
  <2> QED
    BY <1>1, <1>6
<1> QED
  BY <1>7

LEMMA FilesStayOut ==
  ASSUME MountsInv, PassesChecks(host), NEW f \in ConfigFiles, EvalSymlinks(f) \notin {Absent, Broken}
  PROVE  ResolvePrefix(host) \notin Prefixes(EvalSymlinks(f))
<1>1. ResolveExisting(f) = EvalSymlinks(f)
  BY ResolvedExisting DEF MountsInv
<1>2. ResolveExisting(host) = ResolvePrefix(host)
  BY DEF PassesChecks, Resolvable, ResolveExisting
<1> QED
  BY <1>1, <1>2 DEF PassesChecks, Within, PathForms

LEMMA BelowIsBelow ==
  ASSUME MountsInv, PassesChecks(host), EvalSymlinks(Cwd) \notin {Absent, Broken},
         NEW n \in 0..Len(host), EvalSymlinks(Prefix(host, n)) = EvalSymlinks(Cwd)
  PROVE  ResolvePrefix(host) = EvalSymlinks(Cwd) \o Without(host, n)
<1> DEFINE c == EvalSymlinks(Cwd)
           w == Min(Roots)
<1>1. /\ TreeInv /\ host \in HostPath /\ Cwd \in HostPath /\ Len(host) \in Nat
      /\ \A k \in 0..Len(host) : Prefix(host, k) \in HostPath
  BY Ends, Parts DEF MountsInv
<1>2. /\ c \in HostPath /\ Exists(c) /\ Links(c) = {} /\ ResolveExisting(Cwd) = c
  BY <1>1, Evaluated, Walks, OneWalk, ResolvedExisting
<1>3. n \in Roots /\ Roots \in SUBSET Nat /\ Roots \in SUBSET (0..Len(host))
  BY <1>1, <1>2, ResolvedExisting DEF Roots
<1>4. w \in Roots /\ w \in 0..Len(host) /\ w <= n
  BY <1>3, Least
<1>5. EvalSymlinks(Prefix(host, w)) = c
  BY <1>1, <1>2, <1>4, ReallyThere DEF Roots
<1>6. \A k \in w + 1 .. Len(host) : ~IsLink(Lstat(Prefix(host, k)))
  BY <1>3 DEF PassesChecks, WorkspaceSymlink, WorkspaceRoot
<1> HIDE DEF c, w
<1>7. \A k \in w..Len(host) : /\ Walked(Prefix(host, k)) = c \o SubSeq(host, w + 1, k)
                              /\ Links(Walked(Prefix(host, k))) = {}
  <2>1. c \notin {Absent, Broken}
    BY DEF c
  <2> QED
    BY <1>1, <1>2, <1>4, <1>5, <1>6, <2>1, WalkedBelow
<1>8. n = w
  <2>1. Walked(Prefix(host, n)) = c
    BY <1>1, Evaluated DEF c
  <2>2. c = c \o SubSeq(host, w + 1, n) /\ w \in Nat
    BY <1>1, <1>4, <1>7, <2>1
  <2>3. SubSeq(host, w + 1, n) \in Seq(Names) /\ Len(SubSeq(host, w + 1, n)) = n - w
    BY <1>1, <1>4, <2>2 DEF HostPath
  <2>4. Len(c) = Len(c) + (n - w) /\ Len(c) \in Nat
    BY <1>2, <2>2, <2>3 DEF HostPath
  <2> QED
    BY <1>4, <2>4
<1> DEFINE m == Max(Known(host))
<1>9. /\ m \in 0..Len(host) /\ EvalSymlinks(Prefix(host, m)) # Absent
      /\ \A k \in Known(host) : k <= m
  BY <1>1, LongestKnown DEF Known
<1>10. w <= m
  BY <1>2, <1>4, <1>5, <1>9, Above DEF Known, c
<1>11. /\ EvalSymlinks(Prefix(host, m)) # Broken
       /\ ResolvePrefix(host) = EvalSymlinks(Prefix(host, m)) \o Without(host, m)
  BY DEF PassesChecks, Resolvable, ResolvePrefix, Known
<1> HIDE DEF m
<1>12. EvalSymlinks(Prefix(host, m)) = c \o SubSeq(host, w + 1, m)
  <2>1. m \in w..Len(host)
    BY <1>1, <1>4, <1>9, <1>10
  <2> QED
    BY <1>1, <1>7, <1>9, <1>11, <2>1, Evaluated
<1>13. (c \o SubSeq(host, w + 1, m)) \o Without(host, m) = c \o Without(host, w)
  <2>1. /\ SubSeq(host, w + 1, m) \in Seq(Names) /\ Without(host, m) \in Seq(Names) /\ c \in Seq(Names)
    <3>1. Without(host, m) \in HostPath
      BY <1>1, <1>9, Parts
    <3>2. SubSeq(host, w + 1, m) \in Seq(Names)
      <4>1. host \in Seq(Names) /\ w + 1 \in 1..Len(host) + 1 /\ m \in 0..Len(host)
        BY <1>1, <1>4, <1>9 DEF HostPath
      <4> QED
        BY <4>1
    <3> QED
      BY <1>2, <3>1, <3>2 DEF HostPath
  <2>2. SubSeq(host, w + 1, m) \o Without(host, m) = Without(host, w)
    <3>1. /\ host \in Seq(Names) /\ w + 1 \in 1..Len(host) + 1 /\ m \in (w + 1) - 1 .. Len(host)
          /\ Len(host) \in m..Len(host)
      BY <1>1, <1>4, <1>9, <1>10 DEF HostPath
    <3> QED
      BY <3>1, ConcatAdjacentSubSeq DEF Without
  <2>3. ASSUME NEW a \in Seq(Names), NEW b \in Seq(Names), NEW d \in Seq(Names)
        PROVE  (a \o b) \o d = a \o (b \o d)
    OBVIOUS
  <2>4. (c \o SubSeq(host, w + 1, m)) \o Without(host, m) = c \o (SubSeq(host, w + 1, m) \o Without(host, m))
    BY <2>1, <2>3
  <2> QED
    BY <2>2, <2>4
<1> QED
  BY <1>8, <1>11, <1>12, <1>13 DEF c

LEMMA PlantStep == MountsInv /\ [MountsNext]_mountVars => MountsInv'
<1> SUFFICES ASSUME MountsInv, [MountsNext]_mountVars PROVE MountsInv'
  OBVIOUS
<1>1. CASE UNCHANGED mountVars
  BY <1>1 DEF MountsInv, TreeInv, mountVars
<1>2. ASSUME NEW spot \in Spots, PlantAt(spot) PROVE MountsInv'
  <2>1. /\ spot \in Seq(Names) \ {<< >>, Absent, Broken} /\ spot \in HostPath
        /\ Len(spot) \in Nat \ {0}
    BY TreesAssumption DEF HostPath
  <2>2. PICK to \in LinkTargets :
          tree' = [p \in {p \in DOMAIN tree : spot \notin Prefixes(p)} \cup {spot} |->
                     IF p = spot THEN [kind |-> "link", to |-> to] ELSE tree[p]]
    BY <1>2 DEF PlantAt
  <2>3. to \in Seq(Names)
    BY TreesAssumption
  <2> DEFINE Stays == {p \in DOMAIN tree : spot \notin Prefixes(p)}
  <2>4. /\ DOMAIN tree' = Stays \cup {spot}
        /\ \A p \in Stays : p # spot => tree'[p] = tree[p]
        /\ tree'[spot] = [kind |-> "link", to |-> to]
    BY <2>2
  <2>5. DOMAIN tree \subseteq Seq(Names) \ {<< >>, Absent, Broken}
    BY DEF MountsInv, TreeInv, WellFormed
  <2>6. \A p \in Stays : p # spot
    <3> SUFFICES ASSUME spot \in Stays PROVE FALSE
      OBVIOUS
    <3>1. spot = SubSeq(spot, 1, Len(spot)) /\ Len(spot) \in 0..Len(spot)
      BY <2>1
    <3> QED
      BY <3>1 DEF Prefixes
  <2>7. ASSUME NEW p \in Stays, NEW n \in 1..Len(p) - 1
        PROVE  Prefix(p, n) \in Stays /\ tree[Prefix(p, n)].kind = "dir"
    <3>1. Prefix(p, n) \in DOMAIN tree /\ tree[Prefix(p, n)].kind = "dir"
      BY DEF MountsInv, TreeInv, WellFormed
    <3>2. spot \notin Prefixes(Prefix(p, n))
      <4> SUFFICES ASSUME spot \in Prefixes(Prefix(p, n)) PROVE FALSE
        OBVIOUS
      <4>1. p \in HostPath /\ n \in 0..Len(p) /\ Len(p) \in Nat
        BY <2>5 DEF HostPath
      <4>2. PICK k \in 0..n : spot = Prefix(Prefix(p, n), k)
        BY <4>1, Parts DEF Prefixes, Prefix
      <4>3. spot = SubSeq(p, 1, k) /\ k \in 0..Len(p)
        BY <4>1, <4>2, PrefixOfPrefix DEF Prefix
      <4> QED
        BY <4>3 DEF Prefixes
    <3> QED
      BY <3>1, <3>2
  <2>8. ASSUME NEW n \in 1..Len(spot) - 1
        PROVE  Prefix(spot, n) \in Stays /\ tree[Prefix(spot, n)].kind = "dir"
    <3> DEFINE parent == Prefix(spot, Len(spot) - 1)
    <3>0. Len(spot) - 1 \in 0..Len(spot) /\ n \in 0..Len(spot) - 1 /\ n \in 0..Len(spot)
      BY <2>1
    <3>1. /\ n \in 0..Len(spot)
          /\ parent \in HostPath /\ Len(parent) = Len(spot) - 1
          /\ Prefix(parent, n) = Prefix(spot, n)
      <4>1. parent \in HostPath /\ Len(parent) = Len(spot) - 1
        BY <2>1, <3>0, Parts
      <4>2. Prefix(parent, n) = Prefix(spot, n)
        BY <2>1, <3>0, PrefixOfPrefix
      <4> QED
        BY <3>0, <4>1, <4>2
    <3>2. IsDir(parent)
      BY <1>2 DEF PlantAt
    <3>3. parent # << >>
      BY <2>1, <3>1 DEF HostPath
    <3>4. parent \in DOMAIN tree /\ tree[parent].kind = "dir"
      BY <3>2, <3>3 DEF IsDir
    <3> HIDE DEF parent
    <3>5. Prefix(spot, n) \in DOMAIN tree /\ tree[Prefix(spot, n)].kind = "dir"
      <4>1. CASE n = Len(spot) - 1
        BY <3>4, <4>1 DEF parent
      <4>2. CASE n # Len(spot) - 1
        <5>1. n \in 1..Len(parent) - 1
          BY <2>1, <3>1, <4>2
        <5> QED
          BY <3>1, <3>4, <5>1 DEF MountsInv, TreeInv, WellFormed
      <4> QED
        BY <4>1, <4>2
    <3>6. spot \notin Prefixes(Prefix(spot, n))
      <4> SUFFICES ASSUME spot \in Prefixes(Prefix(spot, n)) PROVE FALSE
        OBVIOUS
      <4>1. Len(Prefix(spot, n)) = n
        BY <2>1, <3>1, Parts
      <4>2. PICK k \in 0..n : spot = Prefix(Prefix(spot, n), k)
        BY <4>1 DEF Prefixes, Prefix
      <4>3. spot = Prefix(spot, k) /\ k \in 0..Len(spot)
        BY <2>1, <3>1, <4>2, PrefixOfPrefix
      <4>4. Len(spot) = k
        BY <2>1, <4>3, Parts
      <4> QED
        BY <2>1, <4>2, <4>4
    <3> QED
      BY <3>5, <3>6
  <2>9. WellFormed(tree')
    <3> HIDE DEF Stays
    <3>1. DOMAIN tree' \subseteq Seq(Names) \ {<< >>, Absent, Broken}
      BY <2>1, <2>4, <2>5 DEF Stays
    <3>2. ASSUME NEW p \in DOMAIN tree', tree'[p].kind = "link"
          PROVE  tree'[p].to \in Seq(Names)
      BY <2>3, <2>4, <2>6, <3>2 DEF MountsInv, TreeInv, WellFormed, Stays
    <3>3. ASSUME NEW p \in DOMAIN tree', NEW n \in 1..Len(p) - 1
          PROVE  Prefix(p, n) \in DOMAIN tree' /\ tree'[Prefix(p, n)].kind = "dir"
      <4>1. Prefix(p, n) \in Stays /\ tree[Prefix(p, n)].kind = "dir"
        BY <2>4, <2>7, <2>8
      <4> QED
        BY <2>4, <2>6, <4>1
    <3> QED
      BY <3>1, <3>2, <3>3 DEF WellFormed
  <2> QED
    BY <1>2, <2>9 DEF MountsInv, TreeInv, PlantAt
<1> QED
  BY <1>1, <1>2 DEF MountsNext

\* A mount that passes shows the tool no file with approvals, and one named below the working directory
\* is the directory there, however many links lie on the host and whatever a tool planted (mounts.go).
THEOREM MountsLeadThere == MountsSpec => []MountsLeadWhereTheySay
<1>1. MountsInit => MountsInv
  BY TreesAssumption DEF MountsInit, MountsInv, TreeInv, HostPath
<1>2. MountsInv => MountsLeadWhereTheySay
  BY FilesStayOut, BelowIsBelow DEF MountsLeadWhereTheySay
<1> QED
  BY <1>1, <1>2, PlantStep, PTL DEF MountsSpec
============================================================================
