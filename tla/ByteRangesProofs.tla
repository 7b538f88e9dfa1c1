--------------------------- MODULE ByteRangesProofs ---------------------------
(***************************************************************************)
(* What applyFileLock does to an owner's records, for files of any length: *)
(* records that are in order and apart stay so, and every byte has the     *)
(* mode it had, but the bytes of the request, which have the request's.    *)
(* Three parts: the pieces a request leaves of each record, the order      *)
(* normalizeFileLocks puts them in, and the rounds of its loop.            *)
(***************************************************************************)
EXTENDS ByteRanges, TLAPS, FiniteSetTheorems, WellFoundedInduction

-----------------------------------------------------------------------------
(* The pieces.                                                             *)

\* The pieces of a record are proper ranges of its own type, even when the
\* request starts at byte 0 or ends at the last byte.
LEMMA SplitTyped ==
    ASSUME NEW current \in Ranges, NEW requested \in Requests,
           Proper(current), Proper(requested),
           NEW r \in Split(current, requested)
    PROVE  r \in Ranges /\ Proper(r) /\ r.type = current.type
BY MaxByteAssumption DEF Ranges, Requests, Proper, Split, Lock, Bytes, LockRangesOverlap

\* A byte is in a piece exactly when it was in the record and is not in the
\* request: applyFileLock neither keeps nor loses a byte it should not.
LEMMA SplitExact ==
    ASSUME NEW current \in Ranges, NEW requested \in Requests,
           Proper(current), Proper(requested), NEW b \in Bytes
    PROVE  (\E r \in Split(current, requested) : Covers(r, b))
             <=> Covers(current, b) /\ ~Covers(requested, b)
<1> USE MaxByteAssumption DEF Ranges, Requests, Proper, Bytes
<1>1. CASE ~LockRangesOverlap(current, requested)
  BY <1>1 DEF Split, Covers, LockRangesOverlap
<1>2. CASE LockRangesOverlap(current, requested)
  <2> DEFINE left == Lock(current.start, requested.start - 1, current.type)
             right == Lock(requested.end + 1, current.end, current.type)
  <2>1. Split(current, requested) =
            {r \in {left} : current.start < requested.start}
            \cup {r \in {right} : requested.end < current.end}
    BY <1>2 DEF Split
  <2>2. Covers(left, b) <=> current.start <= b /\ b <= requested.start - 1
    BY DEF Covers, Lock
  <2>3. Covers(right, b) <=> requested.end + 1 <= b /\ b <= current.end
    BY DEF Covers, Lock
  <2>4. (\E r \in Split(current, requested) : Covers(r, b))
            <=> \/ current.start < requested.start /\ Covers(left, b)
                \/ requested.end < current.end /\ Covers(right, b)
    BY <2>1
  <2> QED
    BY <1>2, <2>2, <2>3, <2>4 DEF Covers, LockRangesOverlap
<1> QED
  BY <1>1, <1>2

\* What applyFileLock hands to normalizeFileLocks means, byte by byte, the
\* owner's modes updated by the request, whenever an owner's records do not
\* overlap each other.
THEOREM PiecesExact ==
    ASSUME NEW existing \in Seq(Ranges), NEW requested \in Requests, Proper(requested),
           \A i \in DOMAIN existing : Proper(existing[i]),
           \A i, j \in DOMAIN existing : i # j => ~LockRangesOverlap(existing[i], existing[j]),
           NEW b \in Bytes
    PROVE  LET old == {existing[i] : i \in DOMAIN existing}
               new == Pieces(existing, requested) \cup {r \in {requested} : r.type # "none"}
           IN  ModeOf(new, b) = IF Covers(requested, b) THEN requested.type
                                ELSE ModeOf(old, b)
<1> DEFINE old == {existing[i] : i \in DOMAIN existing}
           new == Pieces(existing, requested) \cup {r \in {requested} : r.type # "none"}
<1>1. \A i \in DOMAIN existing : existing[i] \in Ranges
  OBVIOUS
<1>2. ASSUME NEW r \in Pieces(existing, requested), Covers(r, b)
      PROVE  /\ ~Covers(requested, b)
             /\ \E i \in DOMAIN existing : Covers(existing[i], b) /\ r.type = existing[i].type
  <2>1. PICK i \in DOMAIN existing : r \in Split(existing[i], requested)
    BY DEF Pieces
  <2>2. Covers(existing[i], b) /\ ~Covers(requested, b)
    BY <1>1, <1>2, <2>1, SplitExact
  <2>3. r.type = existing[i].type
    BY <1>1, <2>1, SplitTyped
  <2> QED
    BY <2>2, <2>3
<1>3. ASSUME NEW i \in DOMAIN existing, NEW j \in DOMAIN existing,
             Covers(existing[i], b), Covers(existing[j], b)
      PROVE  i = j
  <2>1. existing[i] \in Ranges /\ existing[j] \in Ranges
    BY <1>1
  <2>2. LockRangesOverlap(existing[i], existing[j])
    <3> DEFINE x == existing[i]
               y == existing[j]
    <3>1. x \in Ranges /\ y \in Ranges /\ Covers(x, b) /\ Covers(y, b)
      BY <1>3, <2>1
    <3> HIDE DEF x, y
    <3>2. LockRangesOverlap(x, y)
      BY <3>1, MaxByteAssumption DEF Covers, LockRangesOverlap, Ranges, Bytes
    <3> QED
      BY <3>2 DEF x, y
  <2> QED
    BY <2>2
<1>4. CASE Covers(requested, b)
  <2>1. \A r \in Pieces(existing, requested) : ~Covers(r, b)
    BY <1>2, <1>4
  <2>2. CASE requested.type = "none"
    <3>1. new = Pieces(existing, requested)
      BY <2>2
    <3> QED
      BY <2>1, <2>2, <3>1, <1>4 DEF ModeOf
  <2>3. CASE requested.type # "none"
    <3>1. requested \in new
      BY <2>3
    <3>2. \A r \in new : Covers(r, b) => r = requested
      BY <2>1
    <3>3. (CHOOSE r \in new : Covers(r, b)) = requested
      BY <3>1, <3>2, <1>4
    <3> QED
      BY <3>1, <3>3, <1>4 DEF ModeOf
  <2> QED
    BY <2>2, <2>3
<1>5. CASE ~Covers(requested, b)
  <2>1. \A r \in new : Covers(r, b) => r \in Pieces(existing, requested)
    BY <1>5
  <2>2. CASE \E i \in DOMAIN existing : Covers(existing[i], b)
    <3>1. PICK i \in DOMAIN existing : Covers(existing[i], b)
      BY <2>2
    <3>2. \E r \in Split(existing[i], requested) : Covers(r, b)
      BY <1>1, <1>5, <3>1, SplitExact
    <3>3. \E r \in new : Covers(r, b)
      BY <3>2 DEF Pieces
    <3>4. \A r \in new : Covers(r, b) => r.type = existing[i].type
      BY <1>2, <1>3, <2>1, <3>1
    <3>5. ModeOf(new, b) = existing[i].type
      BY <3>3, <3>4 DEF ModeOf
    <3>6. \E r \in old : Covers(r, b)
      BY <3>1
    <3>7. \A r \in old : Covers(r, b) => r.type = existing[i].type
      BY <1>3, <3>1
    <3>8. ModeOf(old, b) = existing[i].type
      BY <3>6, <3>7 DEF ModeOf
    <3> QED
      BY <1>5, <3>5, <3>8
  <2>3. CASE ~ \E i \in DOMAIN existing : Covers(existing[i], b)
    <3>1. ~ \E r \in new : Covers(r, b)
      BY <1>2, <2>1, <2>3
    <3>2. ~ \E r \in old : Covers(r, b)
      BY <2>3
    <3> QED
      BY <1>5, <3>1, <3>2 DEF ModeOf
  <2> QED
    BY <2>2, <2>3
<1> QED
  BY <1>4, <1>5

-----------------------------------------------------------------------------
(* Sorting records that do not overlap.                                    *)

\* Proper ranges that do not overlap each other.
Disjoint(S) ==
    /\ S \subseteq Ranges /\ \A r \in S : Proper(r)
    /\ \A q, r \in S : q # r => ~LockRangesOverlap(q, r)

\* A non-empty set of numbers has a least one.
LEMMA LeastNumber ==
    ASSUME NEW T, T \subseteq Nat, T # {}
    PROVE  \E m \in T : \A k \in T : m <= k
<1>1. PICK x \in T : \A y \in T : <<y, x>> \notin OpToRel(<, Nat)
  BY NatLessThanWellFounded, WFMin
<1>2. \A y \in T : ~(y < x)
  BY <1>1 DEF OpToRel
<1>3. \A y \in T : x <= y
  <2> SUFFICES ASSUME NEW y \in T PROVE x <= y
    OBVIOUS
  <2>1. x \in Nat /\ y \in Nat
    OBVIOUS
  <2> QED BY <1>2, <2>1
<1> QED
  BY <1>3

\* Ranges that do not overlap are ordered by Before, from end to start.
LEMMA DisjointOrder ==
    ASSUME NEW S, Disjoint(S), NEW q \in S, NEW r \in S, q # r
    PROVE  /\ Before(q, r) \/ Before(r, q)
           /\ Before(q, r) => q.end < r.start
           /\ ~(Before(q, r) /\ Before(r, q))
<1> DEFINE qs == q.start  qe == q.end  rs == r.start  re == r.end
<1>1. qs \in Nat /\ qe \in Nat /\ rs \in Nat /\ re \in Nat /\ qs <= qe /\ rs <= re
  BY MaxByteAssumption DEF Disjoint, Ranges, Bytes, Proper
<1>2. ~(qs <= re /\ rs <= qe)
  BY DEF Disjoint, LockRangesOverlap
<1>3. /\ Before(q, r) <=> qs < rs \/ (qs = rs /\ qe < re)
      /\ Before(r, q) <=> rs < qs \/ (rs = qs /\ re < qe)
  BY DEF Before
<1> HIDE DEF qs, qe, rs, re
<1>4. /\ Before(q, r) \/ Before(r, q)
      /\ Before(q, r) => qe < rs
      /\ ~(Before(q, r) /\ Before(r, q))
  BY <1>1, <1>2, <1>3
<1> QED BY <1>4 DEF qe, rs

Earlier(S, r) == {q \in S : Before(q, r)}

\* The number of records before one is its place, and every place is taken.
LEMMA Ranks ==
    ASSUME NEW S, IsFiniteSet(S), Disjoint(S)
    PROVE  /\ \A i \in 1..Cardinality(S) :
                \E r \in S : Cardinality(Earlier(S, r)) = i - 1
           /\ \A r \in S : Cardinality(Earlier(S, r)) \in 0..(Cardinality(S) - 1)
           /\ \A q, r \in S : Before(q, r) =>
                Cardinality(Earlier(S, q)) < Cardinality(Earlier(S, r))
<1> DEFINE n == Cardinality(S)
           rank == [r \in S |-> Cardinality(Earlier(S, r))]
<1>1. n \in Nat
  BY FS_CardinalityType
<1>2. \A r \in S : ~Before(r, r)
  BY MaxByteAssumption DEF Before, Disjoint, Ranges, Bytes
<1>3. ASSUME NEW r \in S
      PROVE  /\ IsFiniteSet(Earlier(S, r)) /\ Cardinality(Earlier(S, r)) \in Nat
             /\ Cardinality(Earlier(S, r)) < n
  <2>1. Earlier(S, r) \in SUBSET S /\ Earlier(S, r) # S
    BY <1>2 DEF Earlier
  <2>2. /\ IsFiniteSet(Earlier(S, r)) /\ Cardinality(Earlier(S, r)) <= n
        /\ Cardinality(Earlier(S, r)) # n
    BY <2>1, FS_Subset
  <2>3. Cardinality(Earlier(S, r)) \in Nat
    BY <2>2, FS_CardinalityType
  <2> QED BY <1>1, <2>2, <2>3
<1>4. ASSUME NEW q \in S, NEW r \in S, Before(q, r)
      PROVE  Cardinality(Earlier(S, q)) < Cardinality(Earlier(S, r))
  <2>1. ASSUME NEW p \in S, Before(p, q) PROVE Before(p, r)
    <3>1. p # q /\ q # r
      BY <1>2, <1>4, <2>1
    <3>2. p.end < q.start /\ q.end < r.start
      BY <1>4, <2>1, <3>1, DisjointOrder
    <3>3. p \in Ranges /\ q \in Ranges /\ r \in Ranges /\ Proper(p) /\ Proper(q)
      BY DEF Disjoint
    <3> QED BY <3>2, <3>3, MaxByteAssumption DEF Before, Ranges, Bytes, Proper
  <2>2. Earlier(S, q) \in SUBSET Earlier(S, r) /\ Earlier(S, q) # Earlier(S, r)
    BY <1>2, <1>4, <2>1 DEF Earlier
  <2>3. /\ Cardinality(Earlier(S, q)) <= Cardinality(Earlier(S, r))
        /\ Cardinality(Earlier(S, q)) # Cardinality(Earlier(S, r))
    BY <1>3, <2>2, FS_Subset
  <2> QED BY <1>3, <2>3
<1>5. IsFiniteSet(0..(n - 1)) /\ Cardinality(0..(n - 1)) = n
  BY <1>1, FS_Interval
<1>6. rank \in [S -> 0..(n - 1)]
  BY <1>1, <1>3
<1>7. ASSUME NEW q \in S, NEW r \in S, rank[q] = rank[r] PROVE q = r
  <2>1. SUFFICES ASSUME q # r PROVE FALSE
    OBVIOUS
  <2>2. Before(q, r) \/ Before(r, q)
    BY <2>1, DisjointOrder
  <2>3. rank[q] < rank[r] \/ rank[r] < rank[q]
    BY <1>4, <2>2
  <2> QED BY <1>3, <1>7, <2>3
<1>8. rank \in Injection(S, 0..(n - 1))
  BY <1>6, <1>7 DEF Injection, IsInjective
<1>9. rank \in Surjection(S, 0..(n - 1))
  BY <1>5, <1>8, FS_Injection
<1>10. ASSUME NEW i \in 1..n PROVE \E r \in S : Cardinality(Earlier(S, r)) = i - 1
  <2>1. i - 1 \in 0..(n - 1)
    BY <1>1
  <2>2. \E r \in S : rank[r] = i - 1
    BY <1>9, <2>1 DEF Surjection
  <2> QED BY <2>2
<1> QED BY <1>1, <1>3, <1>4, <1>10

\* What Sorted is: each record once, each before the next.
LEMMA SortedSorts ==
    ASSUME NEW S, IsFiniteSet(S), Disjoint(S)
    PROVE  /\ Cardinality(S) \in Nat
           /\ Sorted(S) \in [1..Cardinality(S) -> S]
           /\ \A i, j \in 1..Cardinality(S) :
                i < j => Sorted(S)[i].end < Sorted(S)[j].start
           /\ \A r \in S : \E i \in 1..Cardinality(S) : Sorted(S)[i] = r
<1> DEFINE n == Cardinality(S)
           seq == Sorted(S)
           size(r) == Cardinality(Earlier(S, r))
<1>1. n \in Nat
  BY FS_CardinalityType
<1>2. ASSUME NEW i \in 1..n PROVE seq[i] \in S /\ size(seq[i]) = i - 1
  <2>1. \E r \in S : size(r) = i - 1
    BY Ranks
  <2>2. seq[i] = CHOOSE r \in S : size(r) = i - 1
    BY DEF Sorted, Earlier
  <2> HIDE DEF seq, size
  <2> QED BY <2>1, <2>2
<1>3. seq \in [1..n -> S]
  <2> DEFINE first(i) == CHOOSE r \in S : Cardinality({q \in S : Before(q, r)}) = i - 1
  <2>1. seq = [i \in 1..n |-> first(i)]
    BY DEF Sorted
  <2> HIDE DEF seq, first
  <2> QED BY <1>2, <2>1
<1>4. ASSUME NEW i \in 1..n, NEW j \in 1..n, i < j PROVE seq[i].end < seq[j].start
  <2>1. size(seq[i]) = i - 1 /\ size(seq[j]) = j - 1 /\ seq[i] \in S /\ seq[j] \in S
    BY <1>2
  <2> HIDE DEF seq
  <2>2. seq[i] # seq[j]
    BY <1>1, <1>4, <2>1
  <2>3. ~Before(seq[j], seq[i])
    <3>1. SUFFICES ASSUME Before(seq[j], seq[i]) PROVE FALSE
      OBVIOUS
    <3>2. size(seq[j]) < size(seq[i])
      BY <2>1, <3>1, Ranks
    <3> QED BY <1>1, <1>4, <2>1, <3>2
  <2> QED BY <2>1, <2>2, <2>3, DisjointOrder
<1>5. ASSUME NEW r \in S PROVE \E i \in 1..n : seq[i] = r
  <2> DEFINE i == size(r) + 1
  <2>1. size(r) \in 0..(n - 1)
    BY Ranks
  <2>2. i \in 1..n /\ size(r) = i - 1
    BY <1>1, <2>1
  <2>3. seq[i] \in S /\ size(seq[i]) = size(r)
    BY <1>2, <2>2
  <2>4. seq[i] = r
    <3> HIDE DEF seq
    <3>1. SUFFICES ASSUME seq[i] # r PROVE FALSE
      OBVIOUS
    <3>2. Before(seq[i], r) \/ Before(r, seq[i])
      BY <2>3, <3>1, DisjointOrder
    <3>3. size(seq[i]) < size(r) \/ size(r) < size(seq[i])
      BY <2>3, <3>2, Ranks
    <3> QED BY <2>1, <2>3, <3>3
  <2> QED BY <2>2, <2>4
<1> QED BY <1>1, <1>3, <1>4, <1>5

-----------------------------------------------------------------------------
(* The loop of normalizeFileLocks.                                         *)

\* The function that FoldLeft chooses, over the sets of places.
Loop(f, S, seq) ==
    f = [s \in SUBSET S |->
            IF s = {} THEN <<>> ELSE Coalesce(f[s \ {Max(s)}], seq[Max(s)])]

\* A non-empty set of places has a last one.
LEMMA LastPlace ==
    ASSUME NEW n \in Nat, NEW s \in SUBSET (1..n), s # {}
    PROVE  Max(s) \in s /\ \A x \in s : x <= Max(s)
<1> DEFINE T == {n - x : x \in s}
<1>1. T \subseteq Nat /\ T # {}
  OBVIOUS
<1>2. PICK m \in T : \A k \in T : m <= k
  <2> HIDE DEF T
  <2> QED BY <1>1, LeastNumber
<1>3. PICK x \in s : m = n - x
  OBVIOUS
<1>4. \A y \in s : x >= y
  <2> SUFFICES ASSUME NEW y \in s PROVE x >= y
    OBVIOUS
  <2>1. n - x <= n - y
    BY <1>2, <1>3
  <2>2. x \in Int /\ y \in Int
    OBVIOUS
  <2> QED BY <2>1, <2>2
<1>5. Max(s) \in s /\ \A y \in s : Max(s) >= y
  BY <1>4 DEF Max
<1>6. \A y \in s : y \in Int
  OBVIOUS
<1>7. \A y \in s : y <= Max(s)
  <2> HIDE DEF T
  <2> SUFFICES ASSUME NEW y \in s PROVE y <= Max(s)
    OBVIOUS
  <2> DEFINE M == Max(s)
  <2>1. M \in Int /\ y \in Int /\ M >= y
    BY <1>5, <1>6
  <2> HIDE DEF M
  <2>2. y <= M
    BY <2>1
  <2> QED BY <2>2 DEF M
<1> QED BY <1>5, <1>7

\* It exists, and is built up by size.
LEMMA LoopExists ==
    ASSUME NEW n \in Nat, NEW seq
    PROVE  \E f : Loop(f, 1..n, seq)
<1> DEFINE S == 1..n
           Small(k) == {s \in SUBSET S : Cardinality(s) <= k}
           Next1(f, s) == IF s = {} THEN <<>> ELSE Coalesce(f[s \ {Max(s)}], seq[Max(s)])
           Partial(f, k) == f = [s \in Small(k) |-> Next1(f, s)]
           T == {k \in Nat : ~ \E f : Partial(f, k)}
<1>f. ASSUME NEW s \in SUBSET S
      PROVE  /\ Cardinality(s) \in Nat /\ Cardinality(s) <= n
             /\ s # {} => /\ s \ {Max(s)} \in SUBSET S
                          /\ Cardinality(s \ {Max(s)}) = Cardinality(s) - 1
             /\ Cardinality(s) = 0 <=> s = {}
  <2>1. IsFiniteSet(S) /\ Cardinality(S) = n
    BY FS_Interval
  <2> HIDE DEF S
  <2>2. IsFiniteSet(s) /\ Cardinality(s) <= n
    BY <2>1, FS_Subset
  <2>3. Cardinality(s) \in Nat /\ (Cardinality(s) = 0 <=> s = {})
    BY <2>2, FS_CardinalityType, FS_EmptySet
  <2>4. s # {} => Max(s) \in s
    BY LastPlace DEF S
  <2> QED
    BY <2>2, <2>3, <2>4, FS_RemoveElement
<1> HIDE DEF S
<1>1. \E f : Partial(f, 0)
  <2> DEFINE f == [s \in Small(0) |-> <<>>]
  <2>1. ASSUME NEW s \in Small(0) PROVE s = {}
    <3>1. s \in SUBSET S /\ Cardinality(s) <= 0
      OBVIOUS
    <3>2. Cardinality(s) \in Nat /\ (Cardinality(s) = 0 <=> s = {})
      BY <3>1, <1>f
    <3> QED BY <3>1, <3>2
  <2>2. Partial(f, 0)
    BY <2>1
  <2> QED BY <2>2
<1>2. ASSUME NEW k \in Nat, NEW f, Partial(f, k)
      PROVE  \E h : Partial(h, k + 1)
  <2> DEFINE h == [s \in Small(k + 1) |-> Next1(f, s)]
  <2>1. ASSUME NEW s \in Small(k + 1), s # {}
        PROVE  s \ {Max(s)} \in Small(k)
    BY <2>1, <1>f
  <2>2. ASSUME NEW s \in Small(k) PROVE s \in Small(k + 1) /\ h[s] = f[s]
    <3>1. s \in SUBSET S /\ Cardinality(s) <= k
      OBVIOUS
    <3>2. Cardinality(s) \in Nat
      BY <3>1, <1>f
    <3>3. s \in Small(k + 1)
      BY <3>1, <3>2
    <3>4. f[s] = Next1(f, s)
      <4> HIDE DEF Next1
      <4> QED BY <1>2
    <3>5. h[s] = Next1(f, s)
      BY <3>3
    <3> QED BY <3>3, <3>4, <3>5
  <2>3. ASSUME NEW s \in Small(k + 1) PROVE Next1(f, s) = Next1(h, s)
    <3>1. CASE s = {}
      BY <3>1
    <3>2. CASE s # {}
      <4>1. h[s \ {Max(s)}] = f[s \ {Max(s)}]
        BY <3>2, <2>1, <2>2
      <4> QED BY <4>1
    <3> QED BY <3>1, <3>2
  <2>4. Partial(h, k + 1)
    <3> HIDE DEF Next1
    <3> QED BY <2>3
  <2> QED BY <2>4
<1>3. T = {}
  <2> SUFFICES ASSUME T # {} PROVE FALSE
    OBVIOUS
  <2>1. PICK m \in T : \A k \in T : m <= k
    <3> HIDE DEF T
    <3>1. T \subseteq Nat
      BY DEF T
    <3> QED BY <3>1, LeastNumber
  <2>2. m \in Nat /\ ~ \E f : Partial(f, m)
    BY <2>1
  <2> HIDE DEF Partial
  <2>3. m # 0
    BY <1>1, <2>2
  <2>4. m - 1 \in Nat /\ m - 1 \notin T
    BY <2>1, <2>2, <2>3
  <2>5. PICK f : Partial(f, m - 1)
    BY <2>4
  <2>6. \E h : Partial(h, (m - 1) + 1)
    BY <2>4, <2>5, <1>2
  <2>7. (m - 1) + 1 = m
    BY <2>2
  <2> QED BY <2>2, <2>6, <2>7
<1>4. Small(n) = SUBSET S
  BY <1>f
<1>5. PICK f : Partial(f, n)
  <2> HIDE DEF Partial
  <2> QED BY <1>3
<1>6. Loop(f, S, seq)
  BY <1>4, <1>5 DEF Loop
<1> QED BY <1>6 DEF S

\* What the chosen function is at 1..n: the fold.
LEMMA FoldIsLoop ==
    ASSUME NEW n \in Nat, NEW seq, DOMAIN seq = 1..n
    PROVE  FoldLeft(Coalesce, <<>>, seq) = (CHOOSE f : Loop(f, 1..n, seq))[1..n]
BY ZenonT(30) DEF FoldLeft, MapThenFoldSet, Loop

\* The records out so far after k rounds of the loop.
LEMMA Rounds ==
    ASSUME NEW n \in Nat, NEW seq, DOMAIN seq = 1..n
    PROVE  \E out : /\ out[0] = <<>>
                    /\ \A k \in 1..n : out[k] = Coalesce(out[k - 1], seq[k])
                    /\ out[n] = FoldLeft(Coalesce, <<>>, seq)
<1> DEFINE f == CHOOSE g : Loop(g, 1..n, seq)
           out == [k \in 0..n |-> f[1..k]]
<1>1. Loop(f, 1..n, seq)
  BY LoopExists
<1>2. out[n] = FoldLeft(Coalesce, <<>>, seq)
  BY FoldIsLoop
<1>3. \A s \in SUBSET (1..n) :
        f[s] = IF s = {} THEN <<>> ELSE Coalesce(f[s \ {Max(s)}], seq[Max(s)])
  <2> HIDE DEF f
  <2> QED BY <1>1 DEF Loop
<1> HIDE DEF f
<1>4. out[0] = <<>>
  <2>1. 1..0 = {} /\ 0 \in 0..n
    OBVIOUS
  <2>2. {} \subseteq 1..n
    OBVIOUS
  <2>3. f[{}] = <<>>
    BY <1>3, <2>2
  <2>4. out[0] = f[1..0]
    BY <2>1
  <2> QED BY <2>1, <2>3, <2>4
<1>5. ASSUME NEW k \in 1..n PROVE out[k] = Coalesce(out[k - 1], seq[k])
  <2>1. 1..k \in SUBSET (1..n) /\ 1..k # {} /\ k \in 0..n /\ k - 1 \in 0..n
    <3>1. k \in 1..k /\ k \in 0..n /\ k - 1 \in 0..n
      OBVIOUS
    <3>2. \A x \in 1..k : x \in 1..n
      OBVIOUS
    <3> QED BY <3>1, <3>2
  <2>2. Max(1..k) \in 1..k /\ \A x \in 1..k : x <= Max(1..k)
    BY <2>1, LastPlace
  <2>3. Max(1..k) = k
    <3> DEFINE M == Max(1..k)
    <3>1. M \in 1..k /\ k <= M
      BY <2>2
    <3> HIDE DEF M
    <3>2. M = k
      BY <3>1
    <3> QED BY <3>2 DEF M
  <2>4. (1..k) \ {k} = 1..(k - 1)
    OBVIOUS
  <2>5. f[1..k] = Coalesce(f[1..(k - 1)], seq[k])
    BY <1>3, <2>1, <2>3, <2>4
  <2> QED BY <2>1, <2>5
<1> QED BY <1>2, <1>4, <1>5

\* What an owner's field looks like: proper records, one after the other.
Tidy(locks) ==
    /\ locks \in Seq(Ranges) /\ \A i \in DOMAIN locks : Proper(locks[i])
    /\ \A i, j \in DOMAIN locks : i < j => locks[i].end < locks[j].start

\* Byte b is in a record of mode m.
Marks(r, b, m) == Covers(r, b) /\ r.type = m

\* One round: a record that follows the others joins the last one or becomes
\* the last one, and no byte changes its mode.
LEMMA OneRound ==
    ASSUME NEW locks, Tidy(locks), NEW lock \in Ranges, Proper(lock),
           locks # <<>> => Last(locks).end < lock.start
    PROVE  /\ Tidy(Coalesce(locks, lock))
           /\ Coalesce(locks, lock) # <<>>
           /\ Last(Coalesce(locks, lock)).end = lock.end
           /\ \A b \in Bytes, m \in Modes :
                (\E i \in DOMAIN Coalesce(locks, lock) : Marks(Coalesce(locks, lock)[i], b, m))
                  <=> (\E i \in DOMAIN locks : Marks(locks[i], b, m)) \/ Marks(lock, b, m)
<1> DEFINE new == Coalesce(locks, lock)  n == Len(locks)
<1>0. /\ locks \in Seq(Ranges) /\ n \in Nat /\ DOMAIN locks = 1..n
      /\ \A i \in 1..n : locks[i] \in Ranges /\ Proper(locks[i])
      /\ \A i, j \in 1..n : i < j => locks[i].end < locks[j].start
      /\ locks # <<>> => n \in 1..n /\ Last(locks) = locks[n]
  BY DEF Tidy, Last
<1>n. \A r \in Ranges : r.start \in Nat /\ r.end \in Nat /\ r.start \in Bytes /\ r.end \in Bytes
  BY MaxByteAssumption DEF Ranges, Bytes
<1>1. CASE /\ locks # <<>> /\ Last(locks).type = lock.type
           /\ lock.start <= NextLockStart(Last(locks).end)
  <2> DEFINE last == locks[n]
             joined == [last EXCEPT !.end = lock.end]
  <2>1. last \in Ranges /\ Proper(last) /\ last.end < lock.start /\ last.type = lock.type
    BY <1>0, <1>1
  <2>2. lock.start = last.end + 1
    <3> DEFINE e == last.end  s == lock.start
    <3>1. e \in Nat /\ s \in Nat /\ e <= MaxByte /\ s <= MaxByte /\ e < s
      BY <1>n, <2>1, MaxByteAssumption DEF Bytes
    <3>2. s <= IF e = MaxByte THEN e ELSE e + 1
      BY <1>0, <1>1 DEF NextLockStart
    <3> HIDE DEF e, s
    <3>3. s = e + 1
      BY <3>1, <3>2, MaxByteAssumption
    <3> QED BY <3>3 DEF e, s
  <2>3. lock.end > last.end /\ last.start <= lock.end
    BY <1>n, <2>1, <2>2 DEF Proper
  <2>4. new = [locks EXCEPT ![n].end = lock.end]
    BY <1>0, <1>1, <2>3 DEF Coalesce
  <2>5. joined \in Ranges /\ joined.start = last.start /\ joined.end = lock.end
        /\ joined.type = last.type
    BY <1>n, <2>1 DEF Ranges
  <2>6. /\ new \in Seq(Ranges) /\ DOMAIN new = 1..n /\ new[n] = joined /\ Len(new) = n
        /\ \A i \in 1..n : i # n => new[i] = locks[i]
    BY <1>0, <1>1, <2>4, <2>5
  <2> HIDE DEF new, joined, last
  <2>7. Tidy(new)
    <3>1. ASSUME NEW i \in 1..n PROVE new[i] \in Ranges /\ Proper(new[i])
      BY <1>0, <2>3, <2>5, <2>6 DEF Proper
    <3>2. ASSUME NEW i \in 1..n, NEW j \in 1..n, i < j PROVE new[i].end < new[j].start
      <4>1. i # n
        <5>1. n \in Nat
          BY <1>0
        <5> HIDE DEF n
        <5> QED BY <3>2, <5>1
      <4>2. new[j].start = locks[j].start
        BY <2>5, <2>6 DEF last
      <4> QED BY <1>0, <2>6, <3>2, <4>1, <4>2
    <3> QED BY <2>6, <3>1, <3>2 DEF Tidy
  <2>8. new # <<>> /\ Last(new).end = lock.end
    <3>1. n \in 1..n
      BY <1>0, <1>1
    <3>2. new # <<>>
      <4>1. n # 0
        <5>1. n \in Nat
          BY <1>0
        <5> HIDE DEF n
        <5> QED BY <3>1, <5>1
      <4>2. Len(new) # 0
        BY <2>6, <4>1
      <4> QED BY <4>2
    <3>3. Last(new) = new[n]
      BY <2>6 DEF Last
    <3> QED BY <2>5, <2>6, <3>2, <3>3
  <2>9. ASSUME NEW b \in Bytes, NEW m \in Modes
        PROVE  (\E i \in 1..n : Marks(new[i], b, m))
                 <=> (\E i \in 1..n : Marks(locks[i], b, m)) \/ Marks(lock, b, m)
    <3>1. Marks(joined, b, m) <=> Marks(last, b, m) \/ Marks(lock, b, m)
      <4>1. b \in Nat
        BY MaxByteAssumption DEF Bytes
      <4>2. /\ last.start \in Nat /\ last.end \in Nat /\ lock.end \in Nat
            /\ last.start <= last.end
        BY <1>n, <2>1 DEF Proper
      <4>3. Covers(joined, b) <=> Covers(last, b) \/ Covers(lock, b)
        BY <2>2, <2>3, <2>5, <4>1, <4>2 DEF Covers
      <4> QED BY <2>1, <2>5, <4>3 DEF Marks
    <3>2. \A i \in 1..n : i # n => (Marks(new[i], b, m) <=> Marks(locks[i], b, m))
      BY <2>6
    <3>3. n \in 1..n /\ locks[n] = last /\ new[n] = joined
      BY <1>0, <1>1, <2>6 DEF last
    <3> QED BY <3>1, <3>2, <3>3
  <2> QED BY <1>0, <2>6, <2>7, <2>8, <2>9 DEF new
<1>2. CASE ~(/\ locks # <<>> /\ Last(locks).type = lock.type
             /\ lock.start <= NextLockStart(Last(locks).end))
  <2>1. new = Append(locks, lock)
    BY <1>2 DEF Coalesce
  <2>2. /\ new \in Seq(Ranges) /\ Len(new) = n + 1 /\ DOMAIN new = 1..(n + 1)
        /\ new[n + 1] = lock /\ \A i \in 1..n : new[i] = locks[i]
    BY <1>0, <2>1
  <2> HIDE DEF new
  <2>3. Tidy(new)
    <3>1. ASSUME NEW i \in 1..(n + 1) PROVE new[i] \in Ranges /\ Proper(new[i])
      BY <1>0, <2>2
    <3>2. ASSUME NEW i \in 1..(n + 1), NEW j \in 1..(n + 1), i < j
          PROVE  new[i].end < new[j].start
      <4>1. i \in 1..n /\ new[i] = locks[i]
        BY <1>0, <2>2, <3>2
      <4>2. CASE j \in 1..n
        BY <1>0, <2>2, <3>2, <4>1, <4>2
      <4>3. CASE j = n + 1
        <5>1. locks # <<>> /\ locks[n].end < lock.start
          BY <1>0, <4>1
        <5>2. i = n \/ locks[i].end < locks[n].start
          <6>1. n \in Nat /\ n \in 1..n
            BY <1>0, <5>1
          <6>2. \A p, q \in 1..n : p < q => locks[p].end < locks[q].start
            BY <1>0
          <6> HIDE DEF n
          <6>3. i = n \/ i < n
            BY <4>1, <6>1
          <6> QED BY <4>1, <6>1, <6>2, <6>3
        <5> DEFINE a == locks[i].end  c == locks[n].start  d == locks[n].end  s == lock.start
        <5>3. a \in Nat /\ c \in Nat /\ d \in Nat /\ s \in Nat /\ c <= d
          BY <1>0, <1>n, <4>1 DEF Proper
        <5>4. (i = n /\ a = d) \/ a < c
          BY <5>2
        <5>5. d < s
          BY <5>1
        <5> HIDE DEF a, c, d, s
        <5>6. a < s
          BY <5>3, <5>4, <5>5
        <5> QED BY <2>2, <4>1, <4>3, <5>6 DEF a, s
      <4> QED BY <1>0, <4>2, <4>3
    <3> QED BY <2>2, <3>1, <3>2 DEF Tidy
  <2>4. new # <<>> /\ Last(new).end = lock.end
    BY <1>0, <2>2 DEF Last
  <2>5. ASSUME NEW b \in Bytes, NEW m \in Modes
        PROVE  (\E i \in 1..(n + 1) : Marks(new[i], b, m))
                 <=> (\E i \in 1..n : Marks(locks[i], b, m)) \/ Marks(lock, b, m)
    <3>1. \A i \in 1..(n + 1) : i \in 1..n \/ i = n + 1
      BY <1>0
    <3>2. n + 1 \in 1..(n + 1) /\ \A i \in 1..n : i \in 1..(n + 1)
      BY <1>0
    <3> QED BY <2>2, <3>1, <3>2
  <2> QED BY <1>0, <2>2, <2>3, <2>4, <2>5 DEF new
<1> QED BY <1>1, <1>2

\* The loop over sorted records that do not overlap: the records that come
\* out are in order and mean the same.
LEMMA LoopKeepsModes ==
    ASSUME NEW n \in Nat, NEW seq \in [1..n -> Ranges],
           \A i \in 1..n : Proper(seq[i]),
           \A i, j \in 1..n : i < j => seq[i].end < seq[j].start
    PROVE  /\ Tidy(FoldLeft(Coalesce, <<>>, seq))
           /\ \A b \in Bytes, m \in Modes :
                (\E i \in DOMAIN FoldLeft(Coalesce, <<>>, seq) :
                    Marks(FoldLeft(Coalesce, <<>>, seq)[i], b, m))
                  <=> \E i \in 1..n : Marks(seq[i], b, m)
<1>1. PICK out : /\ out[0] = <<>>
                 /\ \A k \in 1..n : out[k] = Coalesce(out[k - 1], seq[k])
                 /\ out[n] = FoldLeft(Coalesce, <<>>, seq)
  BY Rounds
<1> DEFINE Same(k) == \A b \in Bytes, m \in Modes :
                         (\E i \in DOMAIN out[k] : Marks(out[k][i], b, m))
                           <=> \E i \in 1..k : Marks(seq[i], b, m)
           J(k) == /\ Tidy(out[k]) /\ Same(k)
                   /\ out[k] # <<>> => k # 0 /\ Last(out[k]).end = seq[k].end
           T == {k \in 0..n : ~J(k)}
<1>2. J(0)
  BY <1>1 DEF Tidy
<1>3. ASSUME NEW k \in 1..n, J(k - 1) PROVE J(k)
  <2>1. Tidy(out[k - 1]) /\ seq[k] \in Ranges /\ Proper(seq[k])
    BY <1>3
  <2>2. out[k - 1] # <<>> => Last(out[k - 1]).end < seq[k].start
    <3> SUFFICES ASSUME out[k - 1] # <<>> PROVE Last(out[k - 1]).end < seq[k].start
      OBVIOUS
    <3>1. k - 1 # 0 /\ Last(out[k - 1]).end = seq[k - 1].end
      BY <1>3
    <3>2. k - 1 \in 1..n /\ k - 1 < k
      BY <3>1
    <3>3. seq[k - 1].end < seq[k].start
      BY <3>2
    <3> QED BY <3>1, <3>3
  <2>3. out[k] = Coalesce(out[k - 1], seq[k])
    BY <1>1
  <2>4. /\ Tidy(out[k]) /\ Last(out[k]).end = seq[k].end
        /\ \A b \in Bytes, m \in Modes :
             (\E i \in DOMAIN out[k] : Marks(out[k][i], b, m))
               <=> (\E i \in DOMAIN out[k - 1] : Marks(out[k - 1][i], b, m))
                     \/ Marks(seq[k], b, m)
    BY <2>1, <2>2, <2>3, OneRound
  <2>5. \A i : i \in 1..k <=> i \in 1..(k - 1) \/ i = k
    OBVIOUS
  <2>6. Same(k)
    BY <1>3, <2>4, <2>5
  <2> QED BY <2>4, <2>6
<1>4. T = {}
  <2> SUFFICES ASSUME T # {} PROVE FALSE
    OBVIOUS
  <2>1. PICK m \in T : \A k \in T : m <= k
    <3> HIDE DEF T
    <3>1. T \subseteq Nat
      BY DEF T
    <3> QED BY <3>1, LeastNumber
  <2>2. m \in 0..n /\ ~J(m)
    BY <2>1
  <2> HIDE DEF J
  <2>3. m # 0
    BY <1>2, <2>2
  <2>4. m \in 1..n /\ m - 1 \in 0..n /\ m - 1 \notin T
    BY <2>1, <2>2, <2>3
  <2> QED BY <1>3, <2>2, <2>4
<1>5. J(n)
  <2> HIDE DEF J
  <2> QED BY <1>4
<1> QED BY <1>1, <1>5

\* Records that do not overlap keep every byte's mode when they are brought
\* into order and joined.
LEMMA NormalizeKeepsModes ==
    ASSUME NEW S, IsFiniteSet(S), Disjoint(S)
    PROVE  /\ Tidy(NormalizeFileLocks(S))
           /\ \A b \in Bytes, m \in Modes :
                (\E i \in DOMAIN NormalizeFileLocks(S) : Marks(NormalizeFileLocks(S)[i], b, m))
                  <=> \E r \in S : Marks(r, b, m)
<1> DEFINE n == Cardinality(S)  seq == Sorted(S)
<1>1. /\ n \in Nat /\ seq \in [1..n -> S]
      /\ \A i, j \in 1..n : i < j => seq[i].end < seq[j].start
      /\ \A r \in S : \E i \in 1..n : seq[i] = r
  BY SortedSorts
<1>2. \A r \in S : r \in Ranges /\ Proper(r)
  BY DEF Disjoint
<1>3. NormalizeFileLocks(S) = FoldLeft(Coalesce, <<>>, seq)
  BY DEF NormalizeFileLocks
<1> HIDE DEF n, seq
<1>4. seq \in [1..n -> Ranges] /\ \A i \in 1..n : Proper(seq[i])
  BY <1>1, <1>2
<1>5. \A b \in Bytes, m \in Modes :
        (\E i \in 1..n : Marks(seq[i], b, m)) <=> \E r \in S : Marks(r, b, m)
  BY <1>1
<1>6. /\ Tidy(FoldLeft(Coalesce, <<>>, seq))
      /\ \A b \in Bytes, m \in Modes :
           (\E i \in DOMAIN FoldLeft(Coalesce, <<>>, seq) :
               Marks(FoldLeft(Coalesce, <<>>, seq)[i], b, m))
             <=> \E i \in 1..n : Marks(seq[i], b, m)
  BY <1>1, <1>4, LoopKeepsModes
<1> QED BY <1>3, <1>5, <1>6

-----------------------------------------------------------------------------
(* One request.                                                            *)

\* The set that a request hands to normalizeFileLocks.
Handed(existing, requested) ==
    Pieces(existing, requested) \cup {r \in {requested} : r.type # "none"}

\* The pieces of a record lie in it, beside the request and apart.
LEMMA SplitApart ==
    ASSUME NEW current \in Ranges, NEW requested \in Requests,
           Proper(current), Proper(requested),
           NEW r \in Split(current, requested)
    PROVE  /\ current.start <= r.start /\ r.end <= current.end
           /\ ~LockRangesOverlap(r, requested) /\ ~LockRangesOverlap(requested, r)
           /\ \A q \in Split(current, requested) : q # r => ~LockRangesOverlap(q, r)
<1> USE MaxByteAssumption DEF Ranges, Requests, Proper, Bytes
<1>1. CASE ~LockRangesOverlap(current, requested)
  <2>1. Split(current, requested) = {current}
    BY <1>1 DEF Split
  <2> QED BY <1>1, <2>1 DEF LockRangesOverlap
<1>2. CASE LockRangesOverlap(current, requested)
  <2> DEFINE left == Lock(current.start, requested.start - 1, current.type)
             right == Lock(requested.end + 1, current.end, current.type)
  <2>1. Split(current, requested) =
            {p \in {left} : current.start < requested.start}
            \cup {p \in {right} : requested.end < current.end}
    BY <1>2 DEF Split
  <2>2. /\ left.start = current.start /\ left.end = requested.start - 1
        /\ right.start = requested.end + 1 /\ right.end = current.end
    BY DEF Lock
  <2> HIDE DEF left, right
  <2>3. current.start <= requested.end /\ requested.start <= current.end
    BY <1>2 DEF LockRangesOverlap
  <2>4. ASSUME r = left, current.start < requested.start
        PROVE  /\ current.start <= r.start /\ r.end <= current.end
               /\ ~LockRangesOverlap(r, requested) /\ ~LockRangesOverlap(requested, r)
    BY <2>2, <2>3, <2>4 DEF LockRangesOverlap
  <2>5. ASSUME r = right, requested.end < current.end
        PROVE  /\ current.start <= r.start /\ r.end <= current.end
               /\ ~LockRangesOverlap(r, requested) /\ ~LockRangesOverlap(requested, r)
    BY <2>2, <2>3, <2>5 DEF LockRangesOverlap
  <2>6. ~LockRangesOverlap(left, right) /\ ~LockRangesOverlap(right, left)
    BY <2>2 DEF LockRangesOverlap
  <2> QED BY <2>1, <2>4, <2>5, <2>6
<1> QED BY <1>1, <1>2

\* What is handed over is a finite set of ranges that do not overlap.
LEMMA HandedDisjoint ==
    ASSUME NEW existing, Tidy(existing), NEW requested \in Requests, Proper(requested)
    PROVE  IsFiniteSet(Handed(existing, requested)) /\ Disjoint(Handed(existing, requested))
<1> DEFINE n == Len(existing)
           split == [i \in 1..n |-> Split(existing[i], requested)]
           parts == {Split(existing[i], requested) : i \in 1..n}
           extra == {r \in {requested} : r.type # "none"}
<1>1. /\ existing \in Seq(Ranges) /\ n \in Nat /\ DOMAIN existing = 1..n
      /\ \A i \in 1..n : existing[i] \in Ranges /\ Proper(existing[i])
      /\ \A i, j \in 1..n : i < j => existing[i].end < existing[j].start
  BY DEF Tidy
<1>2. Handed(existing, requested) = (UNION parts) \cup extra
  <2>1. DOMAIN existing = 1..n
    BY <1>1
  <2> HIDE DEF n
  <2>2. {Split(existing[i], requested) : i \in DOMAIN existing} = parts
    BY <2>1
  <2> QED BY <2>2 DEF Handed, Pieces
<1>p. /\ \A r \in UNION parts : \E i \in 1..n : r \in Split(existing[i], requested)
      /\ \A r \in extra : r = requested /\ r \in Ranges /\ Proper(r)
  BY DEF Requests, Ranges, RequestTypes
<1>3. IsFiniteSet(Handed(existing, requested))
  <2>1. IsFiniteSet(1..n)
    BY <1>1, FS_Interval
  <2>2. split \in Surjection(1..n, parts)
    BY DEF Surjection
  <2>3. IsFiniteSet(parts)
    <3> HIDE DEF split, parts
    <3> QED BY <2>1, <2>2, FS_Surjection
  <2>4. ASSUME NEW s \in parts PROVE IsFiniteSet(s)
    <3>1. PICK i \in 1..n : s = Split(existing[i], requested)
      OBVIOUS
    <3> DEFINE c == existing[i]
               a == Lock(c.start, requested.start - 1, c.type)
               b == Lock(requested.end + 1, c.end, c.type)
    <3>2. s \subseteq {c} \cup {a} \cup {b}
      BY <3>1 DEF Split
    <3>3. IsFiniteSet({c} \cup {a} \cup {b})
      BY FS_Singleton, FS_Union
    <3> HIDE DEF a, b, c
    <3> QED BY <3>2, <3>3, FS_Subset
  <2>5. IsFiniteSet(UNION parts)
    <3> HIDE DEF parts
    <3> QED BY <2>3, <2>4, FS_UNION
  <2>6. IsFiniteSet(extra)
    <3>1. extra \in SUBSET {requested} /\ IsFiniteSet({requested})
      BY FS_Singleton
    <3> QED BY <3>1, FS_Subset
  <2> HIDE DEF parts, extra
  <2> QED BY <1>2, <2>5, <2>6, FS_Union
<1>4. ASSUME NEW i \in 1..n, NEW r \in Split(existing[i], requested)
      PROVE  /\ r \in Ranges /\ Proper(r)
             /\ existing[i].start <= r.start /\ r.end <= existing[i].end
             /\ ~LockRangesOverlap(r, requested) /\ ~LockRangesOverlap(requested, r)
             /\ \A q \in Split(existing[i], requested) : q # r => ~LockRangesOverlap(q, r)
  <2>1. existing[i] \in Ranges /\ Proper(existing[i])
    BY <1>1
  <2> QED BY <1>4, <2>1, SplitTyped, SplitApart
<1>5. ASSUME NEW i \in 1..n, NEW j \in 1..n, i < j,
             NEW q \in Split(existing[i], requested), NEW r \in Split(existing[j], requested)
      PROVE  ~LockRangesOverlap(q, r) /\ ~LockRangesOverlap(r, q)
  <2> DEFINE x == existing[i]  y == existing[j]
  <2>1. /\ q \in Ranges /\ r \in Ranges /\ x \in Ranges /\ y \in Ranges
        /\ x.start <= q.start /\ q.end <= x.end /\ y.start <= r.start /\ r.end <= y.end
        /\ x.end < y.start
    BY <1>1, <1>4, <1>5
  <2> HIDE DEF x, y
  <2> QED BY <2>1, MaxByteAssumption DEF LockRangesOverlap, Ranges, Bytes
<1> HIDE DEF n, parts, extra
<1>7. ASSUME NEW q \in (UNION parts) \cup extra, NEW r \in (UNION parts) \cup extra, q # r
      PROVE  ~LockRangesOverlap(q, r)
  <2>1. CASE q \in extra
    <3>1. r \in UNION parts
      BY <1>p, <1>7, <2>1
    <3> QED BY <1>4, <1>p, <2>1, <3>1
  <2>2. CASE r \in extra
    <3>1. q \in UNION parts
      BY <1>p, <1>7, <2>2
    <3> QED BY <1>4, <1>p, <2>2, <3>1
  <2>3. CASE q \in UNION parts /\ r \in UNION parts
    <3>1. PICK i \in 1..n : q \in Split(existing[i], requested)
      BY <1>p, <2>3
    <3>2. PICK j \in 1..n : r \in Split(existing[j], requested)
      BY <1>p, <2>3
    <3>3. CASE i = j
      BY <1>4, <1>7, <3>1, <3>2, <3>3
    <3>4. CASE i # j
      <4>1. i < j \/ j < i
        BY <1>1, <3>4
      <4> QED BY <1>5, <3>1, <3>2, <4>1
    <3> QED BY <3>3, <3>4
  <2> QED BY <1>7, <2>1, <2>2, <2>3
<1>8. ASSUME NEW r \in (UNION parts) \cup extra PROVE r \in Ranges /\ Proper(r)
  BY <1>4, <1>p, <1>8
<1> QED BY <1>2, <1>3, <1>7, <1>8 DEF Disjoint

\* The records of an owner that do not overlap say for every byte at most one
\* mode, and ModeOf finds it.
LEMMA ModeFound ==
    ASSUME NEW S, Disjoint(S), NEW b \in Bytes
    PROVE  /\ \A m \in Modes : ModeOf(S, b) = m <=> \E r \in S : Marks(r, b, m)
           /\ ModeOf(S, b) = "none" <=> ~ \E r \in S : Covers(r, b)
           /\ ModeOf(S, b) \in Modes \cup {"none"}
<1>1. \A r \in S : r \in Ranges /\ r.type \in Modes /\ r.type # "none"
  BY DEF Disjoint, Ranges, Modes
<1>2. ASSUME NEW q \in S, NEW r \in S, Covers(q, b), Covers(r, b) PROVE q = r
  <2>1. LockRangesOverlap(q, r)
    BY <1>1, <1>2, MaxByteAssumption DEF Covers, LockRangesOverlap, Ranges, Bytes
  <2> QED BY <2>1 DEF Disjoint
<1>3. ASSUME NEW r \in S, Covers(r, b) PROVE ModeOf(S, b) = r.type
  <2>1. \A q \in S : Covers(q, b) => q = r
    BY <1>2, <1>3
  <2>2. (CHOOSE q \in S : Covers(q, b)) = r
    BY <1>3, <2>1
  <2> QED BY <1>3, <2>2 DEF ModeOf
<1>4. (~ \E r \in S : Covers(r, b)) => ModeOf(S, b) = "none"
  BY DEF ModeOf
<1>5. CASE \E r \in S : Covers(r, b)
  <2>1. PICK r \in S : Covers(r, b)
    BY <1>5
  <2>2. ModeOf(S, b) = r.type /\ r.type \in Modes /\ r.type # "none"
    BY <1>1, <1>3, <2>1
  <2>3. \A q \in S : Covers(q, b) => q = r
    BY <1>2, <2>1
  <2> QED BY <2>1, <2>2, <2>3 DEF Marks
<1>6. CASE ~ \E r \in S : Covers(r, b)
  BY <1>4, <1>6 DEF Marks, Modes
<1> QED BY <1>5, <1>6

\* A tidy field is a set of records that do not overlap.
LEMMA TidyDisjoint ==
    ASSUME NEW locks, Tidy(locks)
    PROVE  Disjoint(ToSet(locks))
<1>1. /\ DOMAIN locks = 1..Len(locks) /\ Len(locks) \in Nat
      /\ \A i \in DOMAIN locks : locks[i] \in Ranges /\ Proper(locks[i])
      /\ \A i, j \in DOMAIN locks : i < j => locks[i].end < locks[j].start
      /\ ToSet(locks) = {locks[i] : i \in DOMAIN locks}
  BY DEF Tidy, ToSet
<1>2. ASSUME NEW i \in DOMAIN locks, NEW j \in DOMAIN locks, i < j
      PROVE  ~LockRangesOverlap(locks[i], locks[j]) /\ ~LockRangesOverlap(locks[j], locks[i])
  <2> DEFINE x == locks[i]  y == locks[j]
  <2>1. x \in Ranges /\ y \in Ranges /\ x.end < y.start
    BY <1>1, <1>2
  <2> HIDE DEF x, y
  <2>2. ~LockRangesOverlap(x, y) /\ ~LockRangesOverlap(y, x)
    BY <2>1, MaxByteAssumption DEF LockRangesOverlap, Ranges, Bytes
  <2> QED BY <2>2 DEF x, y
<1>3. ASSUME NEW i \in DOMAIN locks, NEW j \in DOMAIN locks, locks[i] # locks[j]
      PROVE  ~LockRangesOverlap(locks[i], locks[j])
  <2>1. i < j \/ j < i
    BY <1>1, <1>3
  <2> QED BY <1>2, <2>1
<1> QED BY <1>1, <1>3 DEF Disjoint

\* applyFileLock leaves an owner's field tidy, and every byte has the mode it
\* had, but those the request covers, which have the request's.
THEOREM RequestsAreRecorded ==
    ASSUME NEW existing, Tidy(existing), NEW requested \in Requests, Proper(requested)
    PROVE  /\ Tidy(ApplyFileLock(existing, requested))
           /\ ByteModes(ApplyFileLock(existing, requested))
                = Updated(ByteModes(existing), requested)
<1> DEFINE new == Handed(existing, requested)
           field == ApplyFileLock(existing, requested)
<1>1. IsFiniteSet(new) /\ Disjoint(new)
  BY HandedDisjoint
<1>2. field = NormalizeFileLocks(new)
  BY DEF ApplyFileLock, Handed
<1>3. /\ Tidy(field)
      /\ \A b \in Bytes, m \in Modes :
            (\E i \in DOMAIN field : Marks(field[i], b, m)) <=> \E r \in new : Marks(r, b, m)
  <2> HIDE DEF new, field
  <2> QED BY <1>1, <1>2, NormalizeKeepsModes
<1>4. /\ existing \in Seq(Ranges)
      /\ \A i \in DOMAIN existing : Proper(existing[i])
      /\ \A i, j \in DOMAIN existing : i # j => ~LockRangesOverlap(existing[i], existing[j])
  <2>1. /\ DOMAIN existing = 1..Len(existing) /\ Len(existing) \in Nat
        /\ existing \in Seq(Ranges) /\ \A i \in DOMAIN existing : existing[i] \in Ranges
        /\ \A i \in DOMAIN existing : Proper(existing[i])
        /\ \A i, j \in DOMAIN existing : i < j => existing[i].end < existing[j].start
    BY DEF Tidy
  <2>2. ASSUME NEW i \in DOMAIN existing, NEW j \in DOMAIN existing, i # j
        PROVE  ~LockRangesOverlap(existing[i], existing[j])
    <3> DEFINE x == existing[i]  y == existing[j]
    <3>1. i < j \/ j < i
      BY <2>1, <2>2
    <3>2. x \in Ranges /\ y \in Ranges /\ (x.end < y.start \/ y.end < x.start)
      BY <2>1, <3>1
    <3> HIDE DEF x, y
    <3>3. ~LockRangesOverlap(x, y)
      BY <3>2, MaxByteAssumption DEF LockRangesOverlap, Ranges, Bytes
    <3> QED BY <3>3 DEF x, y
  <2> QED BY <2>1, <2>2
<1>5. ToSet(existing) = {existing[i] : i \in DOMAIN existing}
      /\ ToSet(field) = {field[i] : i \in DOMAIN field}
  BY DEF ToSet
<1>6. ASSUME NEW b \in Bytes
      PROVE  ModeOf(ToSet(field), b) = Updated(ByteModes(existing), requested)[b]
  <2>1. ModeOf(new, b) = IF Covers(requested, b) THEN requested.type
                         ELSE ModeOf(ToSet(existing), b)
    BY <1>4, <1>5, PiecesExact DEF Handed
  <2>2. Updated(ByteModes(existing), requested)[b] = ModeOf(new, b)
    BY <2>1 DEF Updated, ByteModes
  <2> HIDE DEF new, field
  <2>3. Disjoint(ToSet(field))
    BY <1>3, TidyDisjoint
  <2>4. \A m \in Modes : (\E r \in ToSet(field) : Marks(r, b, m)) <=> \E r \in new : Marks(r, b, m)
    BY <1>3, <1>5
  <2>5. \A m \in Modes : ModeOf(ToSet(field), b) = m <=> ModeOf(new, b) = m
    BY <1>1, <2>3, <2>4, ModeFound
  <2>6. ModeOf(ToSet(field), b) \in Modes \cup {"none"} /\ ModeOf(new, b) \in Modes \cup {"none"}
    BY <1>1, <2>3, ModeFound
  <2> QED BY <2>2, <2>5, <2>6
<1>7. ByteModes(field) = [b \in Bytes |-> ModeOf(ToSet(field), b)]
  BY DEF ByteModes
<1>8. Updated(ByteModes(existing), requested)
        = [b \in Bytes |-> Updated(ByteModes(existing), requested)[b]]
  BY DEF Updated
<1>9. ByteModes(field) = Updated(ByteModes(existing), requested)
  <2> HIDE DEF field
  <2> QED BY <1>6, <1>7, <1>8
<1> QED BY <1>3, <1>9
=============================================================================
