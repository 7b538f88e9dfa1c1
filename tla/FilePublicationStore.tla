-------------------------- MODULE FilePublicationStore ------------------------
(***************************************************************************)
(* Why the directory stays sound, its counters exact and its journal true, *)
(* and why clients, scripts and network implement FileStore, for every     *)
(* number of clients, names, retransmissions and restores.                 *)
(***************************************************************************)
EXTENDS FilePublicationProofs, WellFoundedInduction

USE DEF InodeIds

-----------------------------------------------------------------------------
(***************************************************************************)
(* Sums over finite sets.  MapThenSumSet is the choice of one recursive    *)
(* function over the subsets; what it adds up does not depend on the order.*)
(***************************************************************************)
\* Every set of numbers has a least one: induction by least counterexample.
LEMMA LeastNumber ==
    ASSUME NEW T, T \subseteq Nat, T # {}
    PROVE  \E m \in T : \A k \in T : m <= k
<1>1. PICK x \in T : \A y \in T : <<y, x>> \notin OpToRel(<, Nat)
  BY NatLessThanWellFounded, WFMin
<1>2. \A y \in T : ~(y < x)
  BY <1>1 DEF OpToRel
<1>3. \A y \in T : x <= y
  <2> SUFFICES ASSUME NEW y \in T PROVE x <= y
    OBVIOUS
  <2>1. x \in Nat /\ y \in Nat
    OBVIOUS
  <2> QED BY <1>2, <2>1
<1> QED
  BY <1>3


\* The summation of FiniteSetsExt, in the form the lemmas need.
Some(s) == CHOOSE x \in s : TRUE
Sums(f, S, g) == f = [s \in SUBSET S |-> IF s = {} THEN 0 ELSE g[Some(s)] + f[s \ {Some(s)}]]
Sum(S, g) == (CHOOSE f : Sums(f, S, g))[S]

\* The function that MapThenSumSet chooses exists, and is built up by size.
LEMMA SumsExists ==
    ASSUME NEW S, IsFiniteSet(S), NEW g, \A x \in S : g[x] \in Int
    PROVE  \E f \in [SUBSET S -> Int] : Sums(f, S, g)
<1> DEFINE Small(n) == {s \in SUBSET S : Cardinality(s) <= n}
           Partial(f, n) == /\ f \in [Small(n) -> Int]
                            /\ \A s \in Small(n) :
                                 f[s] = IF s = {} THEN 0 ELSE g[Some(s)] + f[s \ {Some(s)}]
           T == {n \in Nat : ~ \E f : Partial(f, n)}
<1>f. ASSUME NEW s \in SUBSET S
      PROVE  /\ IsFiniteSet(s) /\ Cardinality(s) \in Nat /\ Cardinality(s) <= Cardinality(S)
             /\ s # {} => /\ Some(s) \in s /\ s \ {Some(s)} \in SUBSET S
                          /\ Cardinality(s \ {Some(s)}) = Cardinality(s) - 1
             /\ Cardinality(s) = 0 <=> s = {}
  <2>1. IsFiniteSet(s) /\ Cardinality(s) <= Cardinality(S)
    BY FS_Subset
  <2>2. Cardinality(s) \in Nat /\ (Cardinality(s) = 0 <=> s = {})
    BY <2>1, FS_CardinalityType, FS_EmptySet
  <2>3. s # {} => Some(s) \in s
    BY DEF Some
  <2> QED
    BY <2>1, <2>2, <2>3, FS_RemoveElement
<1>1. \E f : Partial(f, 0)
  <2> DEFINE f == [s \in Small(0) |-> 0]
  <2>1. ASSUME NEW s \in Small(0) PROVE s = {}
    <3>1. s \in SUBSET S /\ Cardinality(s) <= 0
      OBVIOUS
    <3>2. Cardinality(s) \in Nat /\ (Cardinality(s) = 0 <=> s = {})
      BY <3>1, <1>f
    <3> QED BY <3>1, <3>2
  <2>2. Partial(f, 0)
    BY <2>1
  <2> QED BY <2>2
<1>2. ASSUME NEW n \in Nat, NEW f, Partial(f, n)
      PROVE  \E h : Partial(h, n + 1)
  <2> DEFINE h == [s \in Small(n + 1) |->
                      IF s = {} THEN 0 ELSE g[Some(s)] + f[s \ {Some(s)}]]
  <2>1. ASSUME NEW s \in Small(n + 1), s # {}
        PROVE  s \ {Some(s)} \in Small(n) /\ s \ {Some(s)} \in Small(n + 1) /\ Some(s) \in S
    BY <2>1, <1>f
  <2>2. h \in [Small(n + 1) -> Int]
    BY <2>1, <1>2
  <2>3. ASSUME NEW s \in Small(n) PROVE s \in Small(n + 1) /\ h[s] = f[s]
    <3>1. s \in SUBSET S /\ Cardinality(s) <= n
      OBVIOUS
    <3>2. Cardinality(s) \in Nat
      BY <3>1, <1>f
    <3>3. s \in Small(n + 1)
      BY <3>1, <3>2
    <3>4. f[s] = IF s = {} THEN 0 ELSE g[Some(s)] + f[s \ {Some(s)}]
      BY <1>2
    <3> QED BY <3>3, <3>4
  <2>4. Partial(h, n + 1)
    <3> SUFFICES ASSUME NEW s \in Small(n + 1)
                 PROVE  h[s] = IF s = {} THEN 0 ELSE g[Some(s)] + h[s \ {Some(s)}]
      BY <2>2
    <3>1. CASE s = {}
      BY <3>1
    <3>2. CASE s # {}
      BY <3>2, <2>1, <2>3
    <3> QED BY <3>1, <3>2
  <2> QED BY <2>4
<1>3. T = {}
  <2> SUFFICES ASSUME T # {} PROVE FALSE
    OBVIOUS
  <2>1. PICK m \in T : \A k \in T : m <= k
    <3> HIDE DEF T
    <3>1. T \subseteq Nat
      BY DEF T
    <3> QED BY <3>1, LeastNumber
  <2>2. m \in Nat /\ ~ \E f : Partial(f, m)
    BY <2>1
  <2> HIDE DEF Partial
  <2>3. m # 0
    BY <1>1, <2>2
  <2>4. m - 1 \in Nat /\ m - 1 \notin T
    BY <2>1, <2>2, <2>3
  <2>5. PICK f : Partial(f, m - 1)
    BY <2>4
  <2>6. \E h : Partial(h, (m - 1) + 1)
    BY <2>4, <2>5, <1>2
  <2>7. (m - 1) + 1 = m
    BY <2>2
  <2> QED BY <2>2, <2>6, <2>7
<1>4. Cardinality(S) \in Nat /\ Small(Cardinality(S)) = SUBSET S
  BY <1>f
<1>5. PICK f : Partial(f, Cardinality(S))
  <2> HIDE DEF Partial
  <2> QED BY <1>3, <1>4
<1>6. f \in [SUBSET S -> Int]
  BY <1>4, <1>5
<1>7. Sums(f, S, g)
  BY <1>4, <1>5 DEF Sums
<1> QED BY <1>6, <1>7


\* Finite sets are well-founded by size.
LEMMA SmallestSet ==
    ASSUME NEW S, IsFiniteSet(S), NEW X, X \subseteq SUBSET S, X # {}
    PROVE  \E m \in X : \A y : y \in SUBSET S /\ (\E x \in m : y = m \ {x}) => y \notin X
<1> DEFINE T == {Cardinality(y) : y \in X}
<1>1. \A y \in X : IsFiniteSet(y) /\ Cardinality(y) \in Nat
  BY FS_Subset, FS_CardinalityType
<1>2. PICK c \in T : \A k \in T : c <= k
  <2>1. T \subseteq Nat /\ T # {}
    BY <1>1
  <2> HIDE DEF T
  <2> QED BY <2>1, LeastNumber
<1>3. PICK m \in X : c = Cardinality(m)
  OBVIOUS
<1>4. ASSUME NEW x \in m, m \ {x} \in X PROVE FALSE
  <2>1. Cardinality(m \ {x}) = Cardinality(m) - 1
    BY <1>1, FS_RemoveElement
  <2>2. c <= Cardinality(m \ {x})
    BY <1>2, <1>4
  <2> QED BY <1>1, <1>3, <2>1, <2>2
<1> QED BY <1>4

\* Two summations agree wherever their summands do.
LEMMA SumsAgree ==
    ASSUME NEW S, IsFiniteSet(S), NEW T \in SUBSET S, NEW f, NEW h, NEW g, NEW k,
           Sums(f, S, g), Sums(h, T, k), \A x \in T : g[x] = k[x]
    PROVE  \A s \in SUBSET T : f[s] = h[s]
<1> DEFINE X == {s \in SUBSET T : f[s] # h[s]}
<1>0. IsFiniteSet(T)
  BY FS_Subset
<1>1. SUFFICES ASSUME X # {} PROVE FALSE
  OBVIOUS
<1>2. PICK m \in X : \A y : y \in SUBSET T /\ (\E x \in m : y = m \ {x}) => y \notin X
  <2> HIDE DEF X
  <2>1. X \subseteq SUBSET T
    BY DEF X
  <2> QED BY <1>0, <1>1, <2>1, SmallestSet
<1>3. m \in SUBSET T /\ f[m] # h[m] /\ m \in SUBSET S
  OBVIOUS
<1>4. /\ f[m] = IF m = {} THEN 0 ELSE g[Some(m)] + f[m \ {Some(m)}]
      /\ h[m] = IF m = {} THEN 0 ELSE k[Some(m)] + h[m \ {Some(m)}]
  BY <1>3 DEF Sums
<1>5. m # {}
  BY <1>3, <1>4
<1>6. Some(m) \in m
  BY <1>5 DEF Some
<1>7. f[m \ {Some(m)}] = h[m \ {Some(m)}]
  BY <1>2, <1>3, <1>6
<1> QED BY <1>3, <1>4, <1>5, <1>6, <1>7

\* The sum takes out one element after the other.
LEMMA SumUnfolds ==
    ASSUME NEW S, IsFiniteSet(S), NEW g, \A x \in S : g[x] \in Int
    PROVE  /\ Sum(S, g) \in Int
           /\ S = {} => Sum(S, g) = 0
           /\ S # {} => Some(S) \in S /\ Sum(S, g) = g[Some(S)] + Sum(S \ {Some(S)}, g)
<1> DEFINE F(s) == CHOOSE f : Sums(f, s, g)
<1>1. PICK f \in [SUBSET S -> Int] : Sums(f, S, g)
  BY SumsExists
<1>2. Sums(F(S), S, g) /\ Sum(S, g) = F(S)[S]
  BY <1>1 DEF Sum
<1>3. F(S)[S] = f[S]
  <2> HIDE DEF F
  <2> QED BY <1>1, <1>2, SumsAgree
<1>4. f[S] = IF S = {} THEN 0 ELSE g[Some(S)] + f[S \ {Some(S)}]
  BY <1>1 DEF Sums
<1>5. CASE S = {}
  BY <1>1, <1>2, <1>3, <1>4, <1>5
<1>6. CASE S # {}
  <2> DEFINE y == Some(S)  R == S \ {y}
  <2>1. y \in S
    BY <1>6 DEF Some
  <2>2. IsFiniteSet(R) /\ (\A x \in R : g[x] \in Int) /\ R \in SUBSET S
    BY FS_Subset
  <2>4. \E h \in [SUBSET R -> Int] : Sums(h, R, g)
    <3> HIDE DEF R
    <3> QED BY <2>2, SumsExists
  <2>5. Sums(F(R), R, g) /\ Sum(R, g) = F(R)[R]
    BY <2>4 DEF Sum
  <2>6. F(R)[R] = f[R]
    <3> HIDE DEF F, R
    <3> QED BY <1>1, <2>2, <2>5, SumsAgree
  <2> HIDE DEF F
  <2> QED BY <1>1, <1>2, <1>3, <1>4, <1>6, <2>1, <2>5, <2>6
<1> QED BY <1>5, <1>6

\* A sum depends on its summands only.
LEMMA SumSame ==
    ASSUME NEW S, IsFiniteSet(S), NEW g, NEW k, \A x \in S : g[x] \in Int /\ g[x] = k[x]
    PROVE  Sum(S, g) = Sum(S, k)
<1>1. PICK f \in [SUBSET S -> Int] : Sums(f, S, g)
  BY SumsExists
<1>2. PICK h \in [SUBSET S -> Int] : Sums(h, S, k)
  BY SumsExists
<1>3. \A s \in SUBSET S : f[s] = h[s]
  BY <1>1, <1>2, SumsAgree
<1>4. Sum(S, g) = f[S]
  <2> DEFINE u == CHOOSE w : Sums(w, S, g)
  <2>1. Sums(u, S, g) /\ Sum(S, g) = u[S]
    BY <1>1 DEF Sum
  <2> HIDE DEF u
  <2> QED BY <1>1, <2>1, SumsAgree
<1>5. Sum(S, k) = h[S]
  <2> DEFINE u == CHOOSE w : Sums(w, S, k)
  <2>1. Sums(u, S, k) /\ Sum(S, k) = u[S]
    BY <1>2 DEF Sum
  <2> HIDE DEF u
  <2> QED BY <1>2, <2>1, SumsAgree
<1> QED
  BY <1>3, <1>4, <1>5

\* The summand of any element can be taken out.
LEMMA SumTakeOut ==
    ASSUME NEW S, IsFiniteSet(S), NEW g, \A x \in S : g[x] \in Int
    PROVE  \A x \in S : Sum(S, g) = g[x] + Sum(S \ {x}, g)
<1> DEFINE X == {s \in SUBSET S : \E x \in s : Sum(s, g) # g[x] + Sum(s \ {x}, g)}
<1>u. ASSUME NEW s \in SUBSET S
      PROVE  /\ Sum(s, g) \in Int
             /\ s # {} => Some(s) \in s /\ Sum(s, g) = g[Some(s)] + Sum(s \ {Some(s)}, g)
  BY FS_Subset, SumUnfolds
<1>1. SUFFICES ASSUME X # {} PROVE FALSE
  <2>1. S \in SUBSET S
    OBVIOUS
  <2> QED BY <2>1
<1>2. PICK m \in X : \A y : y \in SUBSET S /\ (\E x \in m : y = m \ {x}) => y \notin X
  <2> HIDE DEF X
  <2>1. X \subseteq SUBSET S
    BY DEF X
  <2> QED BY <1>1, <2>1, SmallestSet
<1>3. PICK x \in m : Sum(m, g) # g[x] + Sum(m \ {x}, g)
  OBVIOUS
<1> DEFINE y == Some(m)
<1>4. m \in SUBSET S /\ y \in m /\ Sum(m, g) = g[y] + Sum(m \ {y}, g)
  BY <1>3, <1>u
<1>5. x # y
  BY <1>3, <1>4
<1>6. Sum(m \ {y}, g) = g[x] + Sum((m \ {y}) \ {x}, g)
  BY <1>2, <1>3, <1>4, <1>5
<1>7. Sum(m \ {x}, g) = g[y] + Sum((m \ {x}) \ {y}, g)
  BY <1>2, <1>3, <1>4, <1>5
<1>8. (m \ {y}) \ {x} = (m \ {x}) \ {y}
  OBVIOUS
<1>9. g[x] \in Int /\ g[y] \in Int /\ Sum((m \ {x}) \ {y}, g) \in Int
  BY <1>3, <1>4, <1>u
<1> DEFINE A == Sum((m \ {x}) \ {y}, g)
<1>10. Sum(m, g) = g[y] + (g[x] + A) /\ Sum(m \ {x}, g) = g[y] + A
  BY <1>4, <1>6, <1>7, <1>8
<1>11. A \in Int /\ g[x] \in Int /\ g[y] \in Int
  BY <1>9
<1> HIDE DEF y, A, X
<1> QED BY <1>3, <1>10, <1>11

\* A sum of ones counts.
LEMMA SumOfOnes ==
    ASSUME NEW S, IsFiniteSet(S), NEW g, \A x \in S : g[x] = 1
    PROVE  Sum(S, g) = Cardinality(S)
<1> DEFINE X == {s \in SUBSET S : Sum(s, g) # Cardinality(s)}
<1>1. SUFFICES ASSUME X # {} PROVE FALSE
  OBVIOUS
<1>2. PICK m \in X : \A y : y \in SUBSET S /\ (\E x \in m : y = m \ {x}) => y \notin X
  <2> HIDE DEF X
  <2>1. X \subseteq SUBSET S
    BY DEF X
  <2> QED BY <1>1, <2>1, SmallestSet
<1>3. m \in SUBSET S /\ IsFiniteSet(m) /\ Cardinality(m) \in Nat /\ Sum(m, g) # Cardinality(m)
  BY FS_Subset, FS_CardinalityType
<1>u. /\ m = {} => Sum(m, g) = 0
      /\ m # {} => Some(m) \in m /\ Sum(m, g) = g[Some(m)] + Sum(m \ {Some(m)}, g)
  BY <1>3, SumUnfolds
<1>4. m # {}
  BY <1>3, <1>u, FS_EmptySet
<1>5. Sum(m \ {Some(m)}, g) = Cardinality(m \ {Some(m)})
  BY <1>2, <1>3, <1>4, <1>u
<1>6. Cardinality(m \ {Some(m)}) = Cardinality(m) - 1
  BY <1>3, <1>4, <1>u, FS_RemoveElement
<1> QED BY <1>3, <1>4, <1>5, <1>6, <1>u

-----------------------------------------------------------------------------
(***************************************************************************)
(* What one commit does to the tree.                                       *)
(***************************************************************************)
\* A stage is the caller's own once patched, and gone once discarded.
Staged ==
    \A o \in Ops :
      /\ pc[o] \in {"idle", "observed", "done"} => stage[o] = NoKey
      /\ stage[o] # NoKey /\ pc[o] # "copied" => stage[o].by = o

\* The commit of o, entry by entry.
Commits(o) ==
    LET r == req[o] IN
    /\ CommitFacts(o) /\ (line[o] \/ late[o] > 0) /\ UNCHANGED <<req, sends>>
    /\ r.name \in Names /\ r.size \in Nat
    /\ r.kind # "write" => ~r.create
    /\ dirents[r.name] = IF r.create THEN 0 ELSE r.id
    /\ dirents' = [dirents EXCEPT ![r.name] = IF r.kind = "delete" THEN 0 ELSE r.id]
    /\ inode[r.id] = NoKey <=> r.create
    /\ \A i \in InodeIds : i # r.id => content'[i] = content[i]
    /\ \A p \in Ops : p # o => stage'[p] = stage[p]
    /\ journal' = Append(journal, [op |-> o, kind |-> r.kind, name |-> r.name,
                                   id |-> r.id, epoch |-> epoch])
    /\ \/ /\ Publishing(o) /\ stage[o] # NoKey /\ stage'[o] = NoKey
          /\ inode'[r.id] = [rev |-> o, size |-> r.size]
          /\ content'[r.id] = IF r.size = 0 THEN NoKey ELSE stage[o]
          /\ files' = IF r.create THEN files + 1 ELSE files
          /\ total' = total + r.size - PreviousSize(r.id)
       \/ /\ r.kind = "update"
          /\ inode'[r.id] \in InodeRecord
          /\ inode'[r.id].rev = o /\ inode'[r.id].size = inode[r.id].size
          /\ UNCHANGED <<content, stage, files, total>>
       \/ /\ r.kind = "delete"
          /\ inode'[r.id] = NoKey /\ content'[r.id] = NoKey
          /\ files' = files - 1 /\ total' = total - inode[r.id].size
          /\ UNCHANGED stage

\* A script that commits does exactly that.
LEMMA CommitsWhole ==
    ASSUME AnswerInv, NEW o \in Ops, line[o] \/ late[o] > 0, Run(o), Reply(o) = "commit",
           UNCHANGED <<req, sends>>
    PROVE  Commits(o)
<1> DEFINE r == req[o]
<1> USE IdsAssumption, BoundsAssumption
<1>t. /\ CommitInv /\ ServerTypeOK /\ ClientTypeOK /\ WellFormed /\ FreshIds
  BY DEF AnswerInv, CommitInv, TypeInv, TypeOK
<1>1. CommitFacts(o)
  BY <1>t, CommitStep
<1>2. /\ r \in Request /\ r.id \in InodeIds /\ r.name \in Names /\ r.size \in Nat
      /\ r # NoRequest /\ pc[o] # "idle"
      /\ r.kind # "write" => ~r.create
  <2>1. r \in Request /\ r.id \in InodeIds /\ r # NoRequest
    BY <1>1 DEF CommitFacts, NoRequest
  <2>2. pc[o] # "idle" /\ (r.kind # "write" => ~r.create)
    BY <2>1, <1>t DEF WellFormed
  <2> QED
    BY <2>1, <2>2 DEF Request
<1>3. /\ dirents[r.name] = IF r.create THEN 0 ELSE r.id
      /\ ~r.create => inode[r.id] # NoKey
  BY <1>1 DEF CommitFacts, AsExpected
<1>4. r.create => inode[r.id] = NoKey
  <2>1. o \notin Committed /\ ~Fenced(o)
    BY <1>1 DEF CommitFacts
  <2>2. Allocated(o)
    BY <2>1, <1>2 DEF Allocated
  <2> QED
    BY <2>1, <2>2, <1>t DEF FreshIds
<1>5. Effect(o) /\ journal' = Append(journal, [op |-> o, kind |-> r.kind, name |-> r.name,
                                               id |-> r.id, epoch |-> epoch])
  BY DEF Run
<1>6. /\ dirents \in [Names -> 0..MaxInode] /\ inode \in [InodeIds -> InodeRecord \cup {NoKey}]
      /\ content \in [InodeIds -> Bytes \cup {NoKey}] /\ stage \in [Ops -> Bytes \cup {NoKey}]
  BY <1>t DEF ServerTypeOK
<1>7. CASE r.kind \in {"write", "delta"}
  <2>1. PublishEffect(o) /\ stage[o] # NoKey /\ Publishing(o)
    BY <1>2, <1>5, <1>7 DEF Effect, Reply, PublishReply, StageGone, Publishing
  <2>2. dirents' = [dirents EXCEPT ![r.name] = r.id]
    BY <2>1, <1>2, <1>3, <1>6 DEF PublishEffect
  <2>3. /\ stage'[o] = NoKey /\ \A p \in Ops : p # o => stage'[p] = stage[p]
        /\ inode'[r.id] = [rev |-> o, size |-> r.size]
        /\ content'[r.id] = IF r.size = 0 THEN NoKey ELSE stage[o]
        /\ \A i \in InodeIds : i # r.id => content'[i] = content[i]
    BY <2>1, <1>2, <1>6 DEF PublishEffect
  <2>4. /\ files' = IF r.create THEN files + 1 ELSE files
        /\ total' = total + r.size - PreviousSize(r.id)
    BY <2>1 DEF PublishEffect
  <2> QED
    BY <1>1, <1>2, <1>3, <1>4, <1>5, <1>7, <2>1, <2>2, <2>3, <2>4 DEF Commits
<1>8. CASE r.kind = "update"
  <2>1. UpdateEffect(o) /\ ~r.create
    BY <1>2, <1>5, <1>8 DEF Effect
  <2>2. dirents' = [dirents EXCEPT ![r.name] = r.id]
    BY <2>1, <1>2, <1>3, <1>6 DEF UpdateEffect
  <2>3. /\ inode'[r.id] \in InodeRecord
        /\ inode'[r.id].rev = o /\ inode'[r.id].size = inode[r.id].size
    <3>1. inode[r.id] \in InodeRecord /\ inode' = [inode EXCEPT ![r.id] = [@ EXCEPT !.rev = o]]
      BY <2>1, <1>2, <1>3, <1>6 DEF UpdateEffect
    <3> QED
      BY <3>1, <1>2, <1>6 DEF InodeRecord, Revs
  <2> QED
    BY <1>1, <1>2, <1>3, <1>4, <1>5, <1>8, <2>1, <2>2, <2>3 DEF Commits, UpdateEffect
<1>9. CASE r.kind = "delete"
  <2>1. DeleteEffect(o) /\ ~r.create
    BY <1>2, <1>5, <1>9 DEF Effect
  <2>2. /\ inode'[r.id] = NoKey /\ content'[r.id] = NoKey
        /\ \A i \in InodeIds : i # r.id => content'[i] = content[i]
        /\ dirents' = [dirents EXCEPT ![r.name] = 0] /\ files' = files - 1
        /\ total' = total - inode[r.id].size /\ UNCHANGED stage
    BY <2>1, <1>2, <1>6 DEF DeleteEffect
  <2> QED
    BY <1>1, <1>2, <1>3, <1>4, <1>5, <1>9, <2>1, <2>2 DEF Commits
<1> QED
  BY <1>2, <1>7, <1>8, <1>9 DEF Request

\* Apart from commits, only the end of the directory and a restore change the tree.
TreeStill == UNCHANGED <<epoch, open, dirents, inode, content, files, total, journal>>

\* What a step does to the tree.
LEMMA TreeSteps ==
    ASSUME AnswerInv, [Next]_vars
    PROVE  \/ TreeStill /\ (UNCHANGED parent \/ Linked = {})
           \/ \E o \in Ops : Commits(o)
           \/ StartRestore \/ FinishRestore
<1>1. ASSUME NEW o \in Ops, ExecuteAndReply(o) \/ ExecuteSilently(o) \/ ExecuteLate(o)
      PROVE  (TreeStill /\ UNCHANGED parent) \/ Commits(o)
  <2>1. (line[o] \/ late[o] > 0) /\ Run(o) /\ UNCHANGED <<req, sends>>
    BY <1>1 DEF ExecuteAndReply, ExecuteSilently, ExecuteLate
  <2>2. CASE Reply(o) = "commit"
    BY <2>1, <2>2, CommitsWhole
  <2>3. CASE Reply(o) # "commit"
    BY <2>1, <2>3 DEF Run, server, tree, TreeStill
  <2> QED
    BY <2>2, <2>3
<1>2. ASSUME NEW o \in Ops, NEW n \in Names, NEW k \in Kinds, NEW s \in Sizes, Observe(o, n, k, s)
      PROVE  TreeStill /\ UNCHANGED parent
  BY <1>2 DEF Observe, server, tree, TreeStill
<1>3. ASSUME NEW o \in Ops,
             \/ RefuseEarly(o) \/ Send(o) \/ LoseRequest(o) \/ Retransmit(o) \/ GiveUp(o)
             \/ ReadReceipt(o)
      PROVE  TreeStill /\ UNCHANGED parent
  BY <1>3 DEF RefuseEarly, Send, LoseRequest, Retransmit, GiveUp, ReadReceipt, server, tree,
     TreeStill
<1>4. ASSUME NEW o \in Ops,
             \/ StageFull(o) \/ CopyLive(o) \/ PatchStage(o) \/ Finish(o) \/ ExpireStage(o)
             \/ ExpireLease(o)
      PROVE  TreeStill /\ UNCHANGED parent
  BY <1>4 DEF StageFull, CopyLive, PatchStage, Finish, ExpireStage, ExpireLease, tree, TreeStill
<1>5. CASE RemoveParent
  BY <1>5 DEF RemoveParent, TreeStill
<1>6. CASE UNCHANGED vars
  BY <1>6 DEF vars, server, tree, TreeStill
<1> QED
  BY <1>1, <1>2, <1>3, <1>4, <1>5, <1>6 DEF Next
-----------------------------------------------------------------------------
(***************************************************************************)
(* Entries, inodes and content keys describe the same files.               *)
(***************************************************************************)
\* Every step keeps the stages in their owners' hands.
LEMMA StagedPreserved ==
    ASSUME AnswerInv, Staged, [Next]_vars
    PROVE  Staged'
<1> USE IdsAssumption
<1>t. ServerTypeOK /\ ClientTypeOK /\ WellFormed
  BY DEF AnswerInv, CommitInv, TypeInv, TypeOK
<1>1. ASSUME NEW o \in Ops, NEW n \in Names, NEW k \in Kinds, NEW s \in Sizes, Observe(o, n, k, s)
      PROVE  Staged'
  BY <1>1, <1>t DEF Observe, server, Staged, ClientTypeOK
<1>2. ASSUME NEW o \in Ops, RefuseEarly(o) \/ Send(o) \/ ReadReceipt(o) PROVE Staged'
  BY <1>2, <1>t DEF RefuseEarly, Send, ReadReceipt, Return, server, Staged, ClientTypeOK
<1>3. ASSUME NEW o \in Ops, StageFull(o) \/ PatchStage(o) PROVE Staged'
  <2>1. /\ pc'[o] = "staged" /\ stage'[o].by = o
        /\ \A p \in Ops : p # o => pc'[p] = pc[p] /\ stage'[p] = stage[p]
    <3>1. CASE StageFull(o)
      BY <3>1, <1>t DEF StageFull, ClientTypeOK, ServerTypeOK
    <3>2. CASE PatchStage(o)
      BY <3>2, <1>t DEF PatchStage, ClientTypeOK, ServerTypeOK
    <3> QED
      BY <1>3, <3>1, <3>2
  <2> QED
    BY <2>1 DEF Staged
<1>4. ASSUME NEW o \in Ops, CopyLive(o) PROVE Staged'
  BY <1>4, <1>t DEF CopyLive, Return, Staged, ClientTypeOK, ServerTypeOK
<1>5. ASSUME NEW o \in Ops, ExecuteAndReply(o) \/ ExecuteSilently(o) \/ ExecuteLate(o)
      PROVE  Staged'
  <2>1. (line[o] \/ late[o] > 0) /\ Run(o) /\ UNCHANGED <<req, sends>>
    BY <1>5 DEF ExecuteAndReply, ExecuteSilently, ExecuteLate
  <2>2. \A p \in Ops : stage'[p] \in {NoKey, stage[p]}
    <3>1. CASE Reply(o) = "commit"
      BY <2>1, <3>1, CommitsWhole DEF Commits
    <3>2. CASE Reply(o) # "commit"
      BY <2>1, <3>2 DEF Run, server
    <3> QED
      BY <3>1, <3>2
  <2>3. \A p \in Ops : pc'[p] = pc[p] \/ (pc[p] = "sent" /\ pc'[p] = "returning")
    <3>1. CASE ExecuteAndReply(o)
      BY <3>1, <1>t DEF ExecuteAndReply, Return, ClientTypeOK
    <3>2. CASE ExecuteSilently(o) \/ ExecuteLate(o)
      BY <3>2 DEF ExecuteSilently, ExecuteLate
    <3> QED
      BY <1>5, <3>1, <3>2
  <2> QED
    BY <2>2, <2>3 DEF Staged
<1>6. ASSUME NEW o \in Ops, LoseRequest(o) \/ Retransmit(o) PROVE Staged'
  BY <1>6 DEF LoseRequest, Retransmit, server, Staged
<1>7. ASSUME NEW o \in Ops, GiveUp(o) PROVE Staged'
  <2>1. /\ pc[o] = "sent" /\ UNCHANGED stage
        /\ pc' = [pc EXCEPT ![o] = "unsure"] \/ pc' = [pc EXCEPT ![o] = "returning"]
    BY <1>7 DEF GiveUp, Return, server
  <2> QED
    BY <2>1, <1>t DEF Staged, ClientTypeOK
<1>8. ASSUME NEW o \in Ops, Finish(o) PROVE Staged'
  BY <1>8, <1>t DEF Finish, Staged, ClientTypeOK, ServerTypeOK
<1>9. ASSUME NEW o \in Ops, ExpireStage(o) \/ ExpireLease(o) PROVE Staged'
  BY <1>9, <1>t DEF ExpireStage, ExpireLease, Staged, ServerTypeOK
<1>10. CASE RemoveParent \/ FinishRestore \/ UNCHANGED vars
  BY <1>10 DEF RemoveParent, FinishRestore, vars, server, Staged
<1>11. CASE StartRestore
  BY <1>11 DEF StartRestore, Staged
<1> QED
  BY <1>1, <1>2, <1>3, <1>4, <1>5, <1>6, <1>7, <1>8, <1>9, <1>10, <1>11 DEF Next

\* Which entries a commit leaves alone.
LEMMA OthersUntouched ==
    ASSUME ServerTypeOK, TreeSound, NEW o \in Ops, Commits(o)
    PROVE  LET r == req[o] IN
           /\ \A n \in Linked : n # r.name => dirents[n] # r.id
           /\ \A n \in Names : n # r.name =>
                /\ dirents'[n] = dirents[n]
                /\ dirents[n] # 0 => /\ inode'[dirents[n]] = inode[dirents[n]]
                                     /\ content'[dirents[n]] = content[dirents[n]]
           /\ Linked' = IF r.kind = "delete" THEN Linked \ {r.name} ELSE Linked \cup {r.name}
           /\ r.create <=> r.name \notin Linked
           /\ ~r.create => parent
<1> DEFINE r == req[o]
<1>1. /\ r.name \in Names /\ r.id \in InodeIds
      /\ dirents[r.name] = IF r.create THEN 0 ELSE r.id
      /\ dirents' = [dirents EXCEPT ![r.name] = IF r.kind = "delete" THEN 0 ELSE r.id]
      /\ (inode[r.id] = NoKey <=> r.create)
      /\ \A i \in InodeIds : i # r.id => content'[i] = content[i] /\ inode'[i] = inode[i]
  BY DEF Commits, CommitFacts
<1>2. dirents \in [Names -> 0..MaxInode]
  BY DEF ServerTypeOK
<1>3. ASSUME NEW n \in Linked, n # r.name PROVE dirents[n] # r.id
  <2>1. inode[dirents[n]] # NoKey /\ dirents[n] # 0 /\ n \in Names
    BY DEF TreeSound, Linked
  <2>2. CASE r.create
    BY <1>1, <2>1, <2>2
  <2>3. CASE ~r.create
    <3>1. r.name \in Linked
      BY <1>1, <2>3 DEF Linked
    <3> QED
      BY <1>1, <1>3, <2>3, <3>1 DEF TreeSound
  <2> QED
    BY <2>2, <2>3
<1>4. ASSUME NEW n \in Names, n # r.name
      PROVE  /\ dirents'[n] = dirents[n]
             /\ dirents[n] # 0 => /\ inode'[dirents[n]] = inode[dirents[n]]
                                  /\ content'[dirents[n]] = content[dirents[n]]
  <2>1. dirents'[n] = dirents[n]
    BY <1>1, <1>2, <1>4
  <2>2. dirents[n] # 0 => dirents[n] \in InodeIds /\ dirents[n] # r.id
    BY <1>2, <1>3, <1>4, BoundsAssumption DEF Linked
  <2> QED
    BY <1>1, <2>1, <2>2
<1>5. Linked' = IF r.kind = "delete" THEN Linked \ {r.name} ELSE Linked \cup {r.name}
  BY <1>1, <1>2 DEF Linked
<1>6. (r.create <=> r.name \notin Linked) /\ (~r.create => parent)
  BY <1>1 DEF Linked, TreeSound
<1> QED
  BY <1>3, <1>4, <1>5, <1>6

\* The checkpoint gives every name a file of its own.
LEMMA BaseSound ==
    /\ \A n \in Names : Base[n] # 0 =>
         /\ Base[n] \in InodeIds
         /\ BaseInode[Base[n]] = [rev |-> NoRev, size |-> 1] /\ BaseInode[Base[n]] # NoKey
         /\ BaseContent[Base[n]] = Imported /\ BaseContent[Base[n]] # NoKey
    /\ \A i \in InodeIds : BaseInode[i] # NoKey \/ BaseContent[i] # NoKey =>
         \E n \in Names : Base[n] = i
    /\ \A m, n \in Names : Base[m] # 0 /\ Base[m] = Base[n] => m = n
<1> USE IdsAssumption, BoundsAssumption, BaseAssumption
<1>1. [rev |-> NoRev, size |-> 1] # NoKey /\ Imported # NoKey
  BY DEF InodeRecord, Revs, Bytes, Imported
<1>2. \A n \in Names : Base[n] # 0 => Base[n] \in InodeIds
  OBVIOUS
<1> QED
  BY <1>1, <1>2 DEF BaseInode, BaseContent

\* Every step leaves the directory sound.
LEMMA TreePreserved ==
    ASSUME AnswerInv, Staged, TreeSound, [Next]_vars
    PROVE  TreeSound'
<1> USE IdsAssumption, BoundsAssumption
<1>t. ServerTypeOK /\ ClientTypeOK /\ ServerTypeOK'
  BY TypesPreserved DEF AnswerInv, CommitInv, TypeInv, TypeOK
<1>1. CASE TreeStill /\ (UNCHANGED parent \/ Linked = {})
  BY <1>1 DEF TreeStill, TreeSound, Linked
<1>2. ASSUME NEW o \in Ops, Commits(o) PROVE TreeSound'
  <2> DEFINE r == req[o]
  <2>1. /\ r.id \in InodeIds /\ r.name \in Names /\ UNCHANGED parent
        /\ dirents'[r.name] = IF r.kind = "delete" THEN 0 ELSE r.id
        /\ \A i \in InodeIds : i # r.id => inode'[i] = inode[i] /\ content'[i] = content[i]
        /\ Publishing(o) => parent
        /\ Publishing(o) \/ r.kind = "update" \/ r.kind = "delete"
        /\ r.kind # "write" => ~r.create
    BY <1>2, <1>t DEF Commits, CommitFacts, ServerTypeOK
  <2>2. /\ \A n \in Linked : n # r.name => dirents[n] # r.id
        /\ \A n \in Names : n # r.name =>
             /\ dirents'[n] = dirents[n]
             /\ dirents[n] # 0 => /\ inode'[dirents[n]] = inode[dirents[n]]
                                  /\ content'[dirents[n]] = content[dirents[n]]
        /\ Linked' = IF r.kind = "delete" THEN Linked \ {r.name} ELSE Linked \cup {r.name}
        /\ r.create <=> r.name \notin Linked
        /\ ~r.create => parent
    BY <1>2, <1>t, OthersUntouched
  <2>3. r.kind # "delete" =>
          /\ inode'[r.id] # NoKey
          /\ content'[r.id] # NoKey <=> inode'[r.id].size > 0
          /\ parent
    <3>1. CASE Publishing(o)
      <4>1. /\ stage[o] # NoKey /\ inode'[r.id] = [rev |-> o, size |-> r.size] /\ r.size \in Nat
            /\ content'[r.id] = IF r.size = 0 THEN NoKey ELSE stage[o]
        BY <1>2, <3>1 DEF Commits, Publishing
      <4>2. inode'[r.id] # NoKey
        BY <4>1 DEF InodeRecord, Revs
      <4> QED
        BY <2>1, <3>1, <4>1, <4>2
    <3>2. CASE r.kind = "update"
      <4>1. /\ inode'[r.id].size = inode[r.id].size /\ content'[r.id] = content[r.id]
            /\ ~r.create /\ dirents[r.name] = r.id /\ inode'[r.id].rev = o
        BY <1>2, <3>2 DEF Commits, Publishing
      <4>2. inode'[r.id] # NoKey
        BY <1>2, <3>2 DEF Commits, Publishing
      <4> QED
        BY <2>1, <2>2, <4>1, <4>2 DEF TreeSound
    <3> QED
      BY <2>1, <3>1, <3>2
  <2>4. r.kind = "delete" => inode'[r.id] = NoKey /\ content'[r.id] = NoKey
    BY <1>2 DEF Commits, Publishing
  <2>5. ASSUME NEW n \in Linked'
        PROVE  /\ inode'[dirents'[n]] # NoKey
               /\ content'[dirents'[n]] # NoKey <=> inode'[dirents'[n]].size > 0
               /\ parent'
    <3>1. CASE n = r.name
      BY <2>1, <2>2, <2>3, <2>5, <3>1
    <3>2. CASE n # r.name
      <4>1. n \in Linked /\ n \in Names /\ dirents[n] # 0
        BY <2>2, <2>5, <3>2 DEF Linked
      <4> QED
        BY <2>1, <2>2, <3>2, <4>1 DEF TreeSound
    <3> QED
      BY <3>1, <3>2
  <2>6. ASSUME NEW i \in InodeIds, inode'[i] # NoKey \/ content'[i] # NoKey
        PROVE  \E n \in Names : dirents'[n] = i
    <3>1. CASE i = r.id
      BY <2>1, <2>4, <2>6, <3>1
    <3>2. CASE i # r.id
      <4>1. PICK n \in Names : dirents[n] = i
        BY <2>1, <2>6, <3>2 DEF TreeSound
      <4>2. n # r.name
        BY <2>1, <3>2, <4>1, <1>2 DEF Commits
      <4> QED
        BY <2>2, <4>1, <4>2
    <3> QED
      BY <3>1, <3>2
  <2>7. ASSUME NEW m \in Linked', NEW n \in Linked', dirents'[m] = dirents'[n] PROVE m = n
    <3>1. ASSUME NEW x \in Linked', x # r.name
          PROVE  x \in Linked /\ dirents'[x] = dirents[x] /\ dirents[x] # r.id
      BY <2>2, <3>1 DEF Linked
    <3>2. r.name \in Linked' => dirents'[r.name] = r.id
      BY <2>1, <2>2
    <3> QED
      BY <2>7, <3>1, <3>2 DEF TreeSound
  <2> QED
    BY <2>5, <2>6, <2>7 DEF TreeSound
<1>3. CASE StartRestore
  BY <1>3 DEF StartRestore, TreeSound, Linked
<1>4. CASE FinishRestore
  <2>1. dirents' = Base /\ inode' = BaseInode /\ content' = BaseContent /\ parent'
    BY <1>4 DEF FinishRestore
  <2> QED
    BY <2>1, BaseSound DEF TreeSound, Linked
<1> QED
  BY <1>1, <1>2, <1>3, <1>4, TreeSteps
-----------------------------------------------------------------------------
(***************************************************************************)
(* The counters of the workspace.                                          *)
(***************************************************************************)
SizeOf == [n \in Linked |-> inode[dirents[n]].size]

Counted == files = Cardinality(Linked) /\ total = Sum(Linked, SizeOf)

\* MapThenSumSet is Sum.
LEMMA AccountingSums == (Accounting <=> Counted) /\ (Accounting' <=> Counted')
<1>1. Accounting => Counted
  BY ZenonT(30) DEF Accounting, Counted, SizeOf, MapThenSumSet, MapThenFoldSet, Sum, Sums, Some
<1>2. Counted => Accounting
  BY ZenonT(30) DEF Accounting, Counted, SizeOf, MapThenSumSet, MapThenFoldSet, Sum, Sums, Some
<1> QED
  BY <1>1, <1>2, PTL

\* There are finitely many files, and each has a size.
LEMMA SizesAreNumbers ==
    ASSUME ServerTypeOK, TreeSound
    PROVE  /\ IsFiniteSet(Linked) /\ Cardinality(Linked) \in Nat
           /\ \A n \in Linked : dirents[n] \in InodeIds /\ SizeOf[n] \in Nat
           /\ Sum(Linked, SizeOf) \in Int
<1>1. IsFiniteSet(Linked) /\ Cardinality(Linked) \in Nat
  BY BoundsAssumption, FS_Subset, FS_CardinalityType DEF Linked
<1>2. ASSUME NEW n \in Linked PROVE dirents[n] \in InodeIds /\ SizeOf[n] \in Nat
  <2>1. dirents[n] \in InodeIds /\ inode[dirents[n]] # NoKey
    BY BoundsAssumption DEF ServerTypeOK, TreeSound, Linked
  <2>2. inode[dirents[n]] \in InodeRecord
    BY <2>1 DEF ServerTypeOK
  <2> QED
    BY <2>1, <2>2 DEF SizeOf, InodeRecord
<1>3. Sum(Linked, SizeOf) \in Int
  <2>1. \A n \in Linked : SizeOf[n] \in Int
    BY <1>2
  <2> QED
    BY <1>1, <2>1, SumUnfolds
<1> QED
  BY <1>1, <1>2, <1>3

\* Every step keeps the counters exact: a commit changes one summand.
LEMMA AccountingPreserved ==
    ASSUME AnswerInv, TreeSound, TreeSound', Accounting, [Next]_vars
    PROVE  Accounting'
<1> USE IdsAssumption, BoundsAssumption
<1>t. ServerTypeOK /\ ServerTypeOK'
  BY TypesPreserved DEF AnswerInv, CommitInv, TypeInv, TypeOK
<1>s. /\ IsFiniteSet(Linked) /\ Cardinality(Linked) \in Nat
      /\ \A n \in Linked : SizeOf[n] \in Int
      /\ Sum(Linked, SizeOf) \in Int
      /\ files = Cardinality(Linked) /\ total = Sum(Linked, SizeOf)
  BY <1>t, SizesAreNumbers, AccountingSums DEF Counted
<1>p. /\ IsFiniteSet(Linked')
      /\ \A n \in Linked' : SizeOf'[n] \in Int
  <2>1. IsFiniteSet(Linked')
    BY FS_Subset DEF Linked
  <2>2. ASSUME NEW n \in Linked' PROVE SizeOf'[n] \in Int
    <3>1. dirents'[n] \in InodeIds /\ inode'[dirents'[n]] # NoKey
      BY <1>t DEF ServerTypeOK, TreeSound, Linked
    <3>2. inode'[dirents'[n]] \in InodeRecord
      BY <3>1, <1>t DEF ServerTypeOK
    <3> QED
      BY <3>1, <3>2 DEF SizeOf, InodeRecord
  <2> QED
    BY <2>1, <2>2
<1>1. CASE TreeStill
  <2>1. Linked' = Linked /\ SizeOf' = SizeOf /\ files' = files /\ total' = total
    BY <1>1 DEF TreeStill, Linked, SizeOf
  <2> QED
    BY <1>s, <2>1, AccountingSums DEF Counted
<1>2. ASSUME NEW o \in Ops, Commits(o) PROVE Accounting'
  <2> DEFINE r == req[o]
             n == r.name
             rest == Linked \ {n}
  <2>1. /\ r.id \in InodeIds /\ n \in Names /\ r.size \in Nat
        /\ dirents'[n] = IF r.kind = "delete" THEN 0 ELSE r.id
        /\ dirents[n] = IF r.create THEN 0 ELSE r.id
        /\ r.kind # "write" => ~r.create
        /\ inode[r.id] = NoKey <=> r.create
    BY <1>2, <1>t DEF Commits, CommitFacts, ServerTypeOK
  <2>2. /\ \A m \in Names : m # n => dirents'[m] = dirents[m]
        /\ \A m \in Names : m # n /\ dirents[m] # 0 => inode'[dirents[m]] = inode[dirents[m]]
        /\ Linked' = IF r.kind = "delete" THEN Linked \ {n} ELSE Linked \cup {n}
        /\ r.create <=> n \notin Linked
    BY <1>2, <1>t, OthersUntouched
  <2>3. \A m \in rest : m \in Linked' /\ SizeOf'[m] = SizeOf[m]
    BY <2>2 DEF SizeOf, Linked
  <2>4. IsFiniteSet(rest) /\ Sum(rest, SizeOf) \in Int /\ Sum(rest, SizeOf') = Sum(rest, SizeOf)
    <3>1. IsFiniteSet(rest) /\ \A m \in rest : SizeOf[m] \in Int /\ SizeOf[m] = SizeOf'[m]
      BY <1>s, <2>3, FS_Subset
    <3>2. Sum(rest, SizeOf) = Sum(rest, SizeOf')
      BY <3>1, SumSame
    <3> QED
      BY <3>1, <3>2, SumUnfolds
  <2>5. n \in Linked =>
          /\ total = inode[r.id].size + Sum(rest, SizeOf)
          /\ inode[r.id].size \in Int
          /\ Cardinality(Linked) = Cardinality(rest) + 1
    <3>1. SUFFICES ASSUME n \in Linked
                   PROVE  /\ Sum(Linked, SizeOf) = inode[r.id].size + Sum(rest, SizeOf)
                          /\ inode[r.id].size \in Int
                          /\ Cardinality(Linked) = Cardinality(rest) + 1
      BY <1>s
    <3>2. SizeOf[n] = inode[r.id].size
      BY <2>1, <2>2, <3>1 DEF SizeOf
    <3>3. Cardinality(rest) = Cardinality(Linked) - 1
      BY <1>s, <3>1, FS_RemoveElement
    <3>4. Sum(Linked, SizeOf) = SizeOf[n] + Sum(rest, SizeOf)
      BY <1>s, <3>1, SumTakeOut
    <3>5. SizeOf[n] \in Int
      BY <1>s, <3>1
    <3> QED
      BY <1>s, <3>2, <3>3, <3>4, <3>5
  <2>6. n \in Linked' => Sum(Linked', SizeOf') = inode'[r.id].size + Sum(rest, SizeOf)
    <3>1. SUFFICES ASSUME n \in Linked'
                   PROVE  Sum(Linked', SizeOf') = inode'[r.id].size + Sum(rest, SizeOf)
      OBVIOUS
    <3>2. SizeOf'[n] = inode'[r.id].size
      BY <2>1, <2>2, <3>1 DEF SizeOf
    <3>3. Linked' \ {n} = rest
      BY <2>2
    <3>4. Sum(Linked', SizeOf') = SizeOf'[n] + Sum(Linked' \ {n}, SizeOf')
      BY <1>p, <3>1, SumTakeOut
    <3> QED
      BY <2>4, <3>2, <3>3, <3>4
  <2>7. CASE r.kind = "delete"
    <3>1. n \in Linked /\ Linked' = rest
      BY <2>1, <2>2, <2>7
    <3>2. files' = files - 1 /\ total' = total - inode[r.id].size
      BY <1>2, <2>7 DEF Commits, Publishing
    <3>3. files' = Cardinality(Linked') /\ total' = Sum(Linked', SizeOf')
      <4>1. Cardinality(rest) \in Nat
        BY <2>4, FS_CardinalityType
      <4> HIDE DEF rest
      <4> QED
        BY <1>s, <2>4, <2>5, <3>1, <3>2, <4>1
    <3> QED
      BY <3>3, AccountingSums DEF Counted
  <2>8. CASE r.kind = "update"
    <3>1. /\ n \in Linked /\ Linked' = Linked
      BY <2>1, <2>2, <2>8
    <3>2. files' = files /\ total' = total /\ inode'[r.id].size = inode[r.id].size
      BY <1>2, <2>8 DEF Commits, Publishing
    <3> QED
      BY <1>s, <2>5, <2>6, <3>1, <3>2, AccountingSums DEF Counted
  <2>9. CASE r.kind \in {"write", "delta"}
    <3>1. /\ files' = IF r.create THEN files + 1 ELSE files
          /\ total' = total + r.size - PreviousSize(r.id)
          /\ inode'[r.id].size = r.size
      BY <1>2, <2>9 DEF Commits, Publishing
    <3>2. CASE r.create
      <4>1. /\ Linked' = Linked \cup {n} /\ n \notin Linked /\ rest = Linked
            /\ PreviousSize(r.id) = 0
        BY <2>1, <2>2, <2>9, <3>2 DEF PreviousSize
      <4>2. Cardinality(Linked') = Cardinality(Linked) + 1
        BY <1>s, <4>1, FS_AddElement
      <4>3. files' = Cardinality(Linked')
        BY <1>s, <3>1, <3>2, <4>2
      <4>4. total' = Sum(Linked', SizeOf')
        <5>1. total' = Sum(Linked, SizeOf) + r.size - 0
          BY <1>s, <3>1, <4>1
        <5>2. Sum(Linked', SizeOf') = r.size + Sum(Linked, SizeOf)
          BY <2>6, <3>1, <4>1
        <5> QED
          BY <1>s, <2>1, <5>1, <5>2
      <4> QED
        BY <4>3, <4>4, AccountingSums DEF Counted
    <3>3. CASE ~r.create
      <4>1. Linked' = Linked /\ n \in Linked /\ PreviousSize(r.id) = inode[r.id].size
        BY <2>1, <2>2, <2>9, <3>3 DEF PreviousSize
      <4>2. total' = Sum(Linked', SizeOf')
        <5> HIDE DEF rest
        <5> QED
          BY <1>s, <2>1, <2>4, <2>5, <2>6, <3>1, <4>1
      <4> QED
        BY <1>s, <3>1, <3>3, <4>1, <4>2, AccountingSums DEF Counted
    <3> QED
      BY <3>2, <3>3
  <2> QED
    BY <1>2, <2>7, <2>8, <2>9 DEF Commits, Publishing
<1>3. CASE StartRestore
  <2>1. Linked' = {} /\ files' = 0 /\ total' = 0
    BY <1>3 DEF StartRestore, Linked
  <2>2. Sum(Linked', SizeOf') = 0 /\ Cardinality(Linked') = 0
    BY <1>p, <2>1, SumUnfolds, FS_EmptySet
  <2> QED
    BY <2>1, <2>2, AccountingSums DEF Counted
<1>4. CASE FinishRestore
  <2>1. /\ dirents' = Base /\ inode' = BaseInode /\ files' = BaseFiles /\ total' = BaseFiles
        /\ Linked' = {n \in Names : Base[n] # 0}
    BY <1>4 DEF FinishRestore, Linked
  <2>2. \A n \in Linked' : SizeOf'[n] = 1
    BY <2>1, BaseSound DEF SizeOf
  <2>3. Sum(Linked', SizeOf') = Cardinality(Linked')
    BY <1>p, <2>2, SumOfOnes
  <2> QED
    BY <2>1, <2>3, AccountingSums DEF Counted, BaseFiles
<1> QED
  BY <1>1, <1>2, <1>3, <1>4, TreeSteps
-----------------------------------------------------------------------------
(***************************************************************************)
(* The journal.                                                            *)
(***************************************************************************)
JournalDated == \A k \in 1..Len(journal) : journal[k].epoch <= epoch

\* The entries of this generation about name n.
About(n) == {k \in 1..Len(journal) : journal[k].epoch = epoch /\ journal[k].name = n}

\* What the last entry about n says, or else the checkpoint.
Explained(n) ==
    IF About(n) = {}
    THEN /\ dirents[n] = Base[n]
         /\ Base[n] # 0 => inode[Base[n]].rev = NoRev
    ELSE LET e == journal[Max(About(n))] IN
         IF e.kind = "delete" THEN dirents[n] = 0
         ELSE dirents[n] = e.id /\ inode[e.id].rev = e.op

\* The property, name by name.
LEMMA ExplainedNames ==
    /\ JournalExplainsTree <=> (open => \A n \in Names : Explained(n))
    /\ JournalExplainsTree' <=> (open' => \A n \in Names : Explained(n)')
<1> QED
  BY DEF JournalExplainsTree, Explained, About

\* A bound that is reached is the maximum.
LEMMA MaxOfNumbers ==
    ASSUME NEW m \in Nat, NEW E, E \subseteq 1..m, m \in E
    PROVE  Max(E) = m
<1>1. \A x \in E : x \in Nat /\ x <= m
  OBVIOUS
<1>2. \E x \in E : \A y \in E : x >= y
  BY <1>1
<1>3. Max(E) \in E /\ \A y \in E : Max(E) >= y
  BY <1>2 DEF Max
<1>4. Max(E) \in Nat /\ Max(E) <= m /\ Max(E) >= m
  BY <1>1, <1>3
<1> QED
  BY <1>4

\* There is a last entry about a name if there is any.
LEMMA LastAbout ==
    ASSUME NEW n \in Names, About(n) # {}, journal \in Seq(Entry)
    PROVE  Max(About(n)) \in 1..Len(journal)
<1> DEFINE E == About(n)
<1>1. E \subseteq 1..Len(journal) /\ E # {} /\ Len(journal) \in Nat
  BY DEF About
<1> DEFINE m == Len(journal)
           T == {m - x : x \in E}
<1> HIDE DEF E
<1>2. T \subseteq Nat /\ T # {}
  <2>1. \A x \in E : x \in 1..m /\ m - x \in Nat
    BY <1>1
  <2> QED
    BY <1>1, <2>1
<1>3. PICK d \in T : \A x \in T : d <= x
  <2> HIDE DEF T
  <2> QED
    BY <1>2, LeastNumber
<1>4. PICK x \in E : d = m - x
  OBVIOUS
<1>5. ASSUME NEW y \in E PROVE x >= y
  <2>1. m - y \in T
    OBVIOUS
  <2>2. d <= m - y
    BY <1>3, <2>1
  <2> QED
    BY <1>1, <1>4, <2>2
<1>6. Max(E) \in E
  BY <1>5 DEF Max
<1> QED
  BY <1>1, <1>6 DEF E

\* Every step keeps the journal true: a commit explains its own name and leaves
\* the entry, the inode and the explanation of every other name alone.
LEMMA JournalPreserved ==
    ASSUME AnswerInv, TreeSound, JournalDated, JournalExplainsTree, [Next]_vars
    PROVE  JournalDated' /\ JournalExplainsTree'
<1> USE IdsAssumption, BoundsAssumption
<1>t. ServerTypeOK /\ journal \in Seq(Entry) /\ Len(journal) \in Nat /\ epoch \in Nat
  BY DEF AnswerInv, CommitInv, TypeInv, TypeOK, ServerTypeOK
<1>e. \A k \in 1..Len(journal) : journal[k] \in Entry /\ journal[k].epoch \in Nat
                                 /\ journal[k].id \in InodeIds
  <2> SUFFICES ASSUME NEW k \in 1..Len(journal)
               PROVE  journal[k] \in Entry
    BY DEF Entry
  <2> QED
    BY <1>t
<1>1. CASE TreeStill
  BY <1>1 DEF TreeStill, JournalDated, JournalExplainsTree
<1>2. ASSUME NEW o \in Ops, Commits(o) PROVE JournalDated' /\ JournalExplainsTree'
  <2> DEFINE r == req[o]
             e == [op |-> o, kind |-> r.kind, name |-> r.name, id |-> r.id, epoch |-> epoch]
             last == Len(journal) + 1
  <2>1. /\ r.id \in InodeIds /\ r.name \in Names /\ UNCHANGED <<epoch, open, req>>
        /\ dirents'[r.name] = IF r.kind = "delete" THEN 0 ELSE r.id
        /\ r.kind # "delete" => inode'[r.id].rev = o
        /\ ~Fenced(o) /\ r \in Request
    BY <1>2, <1>t DEF Commits, CommitFacts, ServerTypeOK, Publishing
  <2>2. \A n \in Names : n # r.name =>
          /\ dirents'[n] = dirents[n]
          /\ dirents[n] # 0 => inode'[dirents[n]] = inode[dirents[n]]
    BY <1>2, <1>t, OthersUntouched
  <2>3. /\ Len(journal') = last /\ journal'[last] = e
        /\ \A k \in 1..Len(journal) : journal'[k] = journal[k]
        /\ journal' \in Seq(Entry)
    <3>1. journal' = Append(journal, e)
      BY <1>2 DEF Commits
    <3>2. e \in Entry
      BY <2>1, <1>t DEF Entry, Request
    <3> HIDE DEF e
    <3> QED
      BY <3>1, <3>2, <1>t
  <2>4. JournalDated'
    BY <2>1, <2>3, <1>t DEF JournalDated
  <2>5. About(r.name)' = About(r.name) \cup {last}
    <3>1. \A k : k \in 1..last <=> k \in 1..Len(journal) \/ k = last
      BY <1>t
    <3>2. \A k \in 1..Len(journal) : journal'[k] = journal[k] /\ k # last
      BY <2>3, <1>t
    <3>3. journal'[last].epoch = epoch' /\ journal'[last].name = r.name
      BY <2>1, <2>3
    <3> HIDE DEF last
    <3> QED
      BY <2>1, <2>3, <3>1, <3>2, <3>3 DEF About
  <2>6. ASSUME NEW n \in Names, n # r.name PROVE About(n)' = About(n)
    BY <2>1, <2>3, <2>6, <1>t DEF About
  <2>7. Explained(r.name)'
    <3>1. About(r.name)' \subseteq 1..last /\ last \in About(r.name)' /\ last \in Nat
      BY <2>5, <1>t DEF About
    <3>2. Max(About(r.name)') = last
      BY <3>1, MaxOfNumbers
    <3>3. /\ journal'[last].kind = r.kind /\ journal'[last].id = r.id
          /\ journal'[last].op = o
      BY <2>3
    <3> HIDE DEF last
    <3> QED
      BY <2>1, <3>1, <3>2, <3>3 DEF Explained
  <2>8. ASSUME NEW n \in Names, n # r.name PROVE Explained(n)'
    <3>1. Explained(n) /\ open
      BY <2>1, ExplainedNames DEF Fenced
    <3>2. CASE About(n) = {}
      BY <2>2, <2>6, <2>8, <3>1, <3>2 DEF Explained
    <3>3. CASE About(n) # {}
      <4> DEFINE k == Max(About(n))
      <4>1. k \in 1..Len(journal) /\ journal'[k] = journal[k] /\ journal[k].id \in InodeIds
        BY <2>3, <3>3, <1>t, <1>e, LastAbout
      <4>2. About(n)' # {} /\ Max(About(n)') = k
        BY <2>6, <2>8, <3>3
      <4> HIDE DEF k
      <4>3. IF journal[k].kind = "delete" THEN dirents[n] = 0
            ELSE dirents[n] = journal[k].id /\ inode[journal[k].id].rev = journal[k].op
        BY <3>1, <3>3 DEF Explained, k
      <4>4. IF journal[k].kind = "delete" THEN dirents'[n] = 0
            ELSE dirents'[n] = journal[k].id /\ inode'[journal[k].id].rev = journal[k].op
        BY <2>2, <2>8, <4>1, <4>3
      <4> QED
        BY <4>1, <4>2, <4>4 DEF Explained
    <3> QED
      BY <3>2, <3>3
  <2>9. \A n \in Names : Explained(n)'
    BY <2>1, <2>7, <2>8
  <2> QED
    BY <2>4, <2>9, ExplainedNames
<1>3. CASE StartRestore
  BY <1>3 DEF StartRestore, JournalDated, JournalExplainsTree
<1>4. CASE FinishRestore
  <2>1. /\ epoch' = epoch + 1 /\ journal' = journal /\ dirents' = Base /\ inode' = BaseInode
    BY <1>4 DEF FinishRestore
  <2>2. JournalDated'
    BY <2>1, <1>t, <1>e DEF JournalDated
  <2>3. ASSUME NEW n \in Names PROVE Explained(n)'
    <3>1. About(n)' = {}
      BY <2>1, <1>t, <1>e DEF About, JournalDated
    <3> QED
      BY <2>1, <3>1, BaseSound DEF Explained
  <2> QED
    BY <2>2, <2>3, ExplainedNames
<1> QED
  BY <1>1, <1>2, <1>3, <1>4, TreeSteps

LEMMA JournalInitially == Init => JournalDated /\ JournalExplainsTree
<1> SUFFICES ASSUME Init PROVE JournalDated /\ JournalExplainsTree
  OBVIOUS
<1>1. \A n \in Names : About(n) = {}
  BY DEF Init, About
<1>2. \A n \in Names : Explained(n)
  BY <1>1, BaseSound DEF Init, Explained
<1> QED
  BY <1>2, ExplainedNames DEF Init, JournalDated
-----------------------------------------------------------------------------
(***************************************************************************)
(* Whose bytes a file holds.                                               *)
(***************************************************************************)
\* The request of a call is settled once its content is staged.
LEMMA RequestsSettle ==
    ASSUME ClientTypeOK, [Next]_vars, NEW o \in Ops
    PROVE  /\ pc[o] \notin {"idle", "observed"}
                => pc'[o] \notin {"idle", "observed"} /\ req'[o] = req[o]
           /\ pc[o] # "idle" => pc'[o] # "idle"
<1>1. ASSUME NEW p \in Ops, NEW n \in Names, NEW k \in Kinds, NEW s \in Sizes, Observe(p, n, k, s)
      PROVE  /\ pc[p] = "idle" /\ pc'[p] = "observed"
             /\ \A x \in Ops : x # p => req'[x] = req[x] /\ pc'[x] = pc[x]
  BY <1>1 DEF Observe, ClientTypeOK
<1>2. ASSUME NEW p \in Ops, RefuseEarly(p) \/ CopyLive(p) \/ ExecuteAndReply(p) \/ ReadReceipt(p)
                            \/ GiveUp(p)
      PROVE  UNCHANGED req /\ \A x \in Ops : pc'[x] \in {pc[x], "returning", "copied", "unsure"}
  BY <1>2 DEF RefuseEarly, CopyLive, ExecuteAndReply, ReadReceipt, GiveUp, Return, ClientTypeOK
<1>3. ASSUME NEW p \in Ops, StageFull(p)
      PROVE  /\ pc[p] = "observed" /\ pc'[p] = "staged"
             /\ \A x \in Ops : x # p => req'[x] = req[x] /\ pc'[x] = pc[x]
  BY <1>3 DEF StageFull, ClientTypeOK
<1>4. ASSUME NEW p \in Ops, PatchStage(p) \/ Send(p) \/ Finish(p)
      PROVE  UNCHANGED req /\ \A x \in Ops : pc'[x] \in {pc[x], "staged", "sent", "done", "leaked"}
  BY <1>4 DEF PatchStage, Send, Finish, ClientTypeOK
<1>5. ASSUME NEW p \in Ops, ExecuteSilently(p) \/ LoseRequest(p) \/ ExecuteLate(p) \/ Retransmit(p)
                            \/ ExpireStage(p) \/ ExpireLease(p)
      PROVE  UNCHANGED <<pc, req>>
  BY <1>5 DEF ExecuteSilently, LoseRequest, ExecuteLate, Retransmit, ExpireStage, ExpireLease
<1>6. CASE RemoveParent \/ StartRestore \/ FinishRestore \/ UNCHANGED vars
  BY <1>6 DEF RemoveParent, StartRestore, FinishRestore, vars
<1> QED
  BY <1>1, <1>2, <1>3, <1>4, <1>5, <1>6 DEF Next

\* A committed call was sent, so its request is settled and it stays committed.
LEMMA CommittedSettled ==
    ASSUME AnswerInv, [Next]_vars, NEW o \in Committed
    PROVE  /\ o \in Ops /\ o \in Committed' /\ req'[o] = req[o]
           /\ pc[o] \notin {"idle", "observed", "copied", "staged"}
<1>1. o \in Ops /\ ClientTypeOK /\ Replies
  BY CommittedOps DEF AnswerInv, CommitInv, TypeInv, TypeOK
<1>2. pc[o] \notin {"idle", "observed", "copied", "staged"}
  BY <1>1 DEF Replies
<1>3. o \in Committed'
  BY <1>1, StepKinds, QuietCommitted DEF AnswerInv, Still, Fencing, CommitFacts
<1> QED
  BY <1>1, <1>2, <1>3, RequestsSettle

\* Files are written by committed calls of their own generation.
Authorship ==
    /\ \A i \in InodeIds : content[i] # NoKey => content[i].by \in Committed \cup {NoRev}
    /\ open => \A i \in InodeIds :
         /\ inode[i] # NoKey /\ inode[i].rev \in Ops => req[inode[i].rev].epoch = epoch
         /\ content[i] # NoKey /\ content[i].by \in Ops => req[content[i].by].epoch = epoch

\* A call whose script may run is beyond copying: what it staged is its own.
LEMMA OwnStage ==
    ASSUME AnswerInv, Staged, NEW o \in Ops, Commits(o), Publishing(o)
    PROVE  /\ stage[o].by = o /\ stage[o] # NoKey
           /\ pc[o] \notin {"idle", "observed", "copied", "staged"}
<1>1. Replies /\ (line[o] \/ late[o] > 0) /\ stage[o] # NoKey
  BY DEF AnswerInv, Commits, Publishing
<1>2. ClientTypeOK /\ late[o] \in Nat
  BY DEF AnswerInv, CommitInv, TypeInv, TypeOK, ClientTypeOK
<1>3. pc[o] \notin {"idle", "observed", "copied", "staged"}
  BY <1>1, <1>2 DEF Replies
<1> QED
  BY <1>1, <1>3 DEF Staged

\* Every step keeps authors in their generation.
LEMMA AuthorshipPreserved ==
    ASSUME AnswerInv, Staged, Authorship, [Next]_vars
    PROVE  Authorship'
<1> USE IdsAssumption
<1>t. ServerTypeOK /\ ClientTypeOK /\ Marks /\ ServerTypeOK' /\ Committed \subseteq Ops
  BY TypesPreserved, CommittedOps DEF AnswerInv, CommitInv, TypeInv, TypeOK
<1>c. \A o \in Committed : o \in Committed' /\ req'[o] = req[o]
  BY CommittedSettled
<1>r. \A i \in InodeIds : inode[i] # NoKey => inode[i].rev \in Committed \cup {NoRev}
  BY <1>t DEF Marks
<1>1. CASE TreeStill
  <2>1. UNCHANGED <<epoch, open, inode, content>>
    BY <1>1 DEF TreeStill
  <2>2. \A i \in InodeIds : inode[i] # NoKey /\ inode[i].rev \in Ops =>
          req'[inode[i].rev] = req[inode[i].rev]
    BY <1>c, <1>r
  <2>3. \A i \in InodeIds : content[i] # NoKey /\ content[i].by \in Ops =>
          req'[content[i].by] = req[content[i].by]
    BY <1>c DEF Authorship
  <2> QED
    BY <2>1, <2>2, <2>3, <1>c DEF Authorship
<1>2. ASSUME NEW o \in Ops, Commits(o) PROVE Authorship'
  <2> DEFINE i == req[o].id
  <2>1. /\ i \in InodeIds /\ req[o].epoch = epoch /\ open
        /\ Committed' = Committed \cup {o} /\ UNCHANGED <<epoch, open, req>>
        /\ inode'[i] = NoKey \/ inode'[i].rev = o
        /\ \A j \in InodeIds : j # i => inode'[j] = inode[j] /\ content'[j] = content[j]
    BY <1>2 DEF Commits, CommitFacts, Fenced
  <2>2. \/ content'[i] = NoKey
        \/ content'[i] = content[i]
        \/ content'[i].by = o
    <3>1. CASE Publishing(o)
      BY <1>2, <3>1, OwnStage DEF Commits, Publishing
    <3>2. CASE ~Publishing(o)
      BY <1>2, <3>2 DEF Commits
    <3> QED
      BY <3>1, <3>2
  <2> HIDE DEF i
  <2>3. \A j \in InodeIds : content'[j] # NoKey => content'[j].by \in Committed' \cup {NoRev}
    BY <2>1, <2>2 DEF Authorship
  <2>4. ASSUME NEW j \in InodeIds, inode'[j] # NoKey, inode'[j].rev \in Ops
        PROVE  req'[inode'[j].rev].epoch = epoch'
    BY <2>1, <2>4 DEF Authorship
  <2>5. ASSUME NEW j \in InodeIds, content'[j] # NoKey, content'[j].by \in Ops
        PROVE  req'[content'[j].by].epoch = epoch'
    BY <2>1, <2>2, <2>5 DEF Authorship
  <2> QED
    BY <2>3, <2>4, <2>5 DEF Authorship
<1>3. CASE StartRestore
  BY <1>3 DEF StartRestore, Authorship
<1>4. CASE FinishRestore
  <2>1. inode' = BaseInode /\ content' = BaseContent
    BY <1>4 DEF FinishRestore
  <2> QED
    BY <2>1 DEF Authorship, BaseInode, BaseContent, Imported
<1> QED
  BY <1>1, <1>2, <1>3, <1>4, TreeSteps
-----------------------------------------------------------------------------
(***************************************************************************)
(* What a delta patches.                                                   *)
(***************************************************************************)
Author(b) == IF b = NoKey THEN NoKey ELSE b.by

\* Nothing happened to the file of o since o observed it.
StillBased(o) == ~Fenced(o) /\ inode[req[o].id] # NoKey /\ inode[req[o].id].rev = req[o].rev

\* As long as nothing happened, the copied bytes are the observed ones.
Basis(o) ==
    /\ Author(content[req[o].id]) = req[o].saw
    /\ pc[o] = "copied" => Author(stage[o]) = req[o].saw
    /\ pc[o] # "copied" /\ stage[o] # NoKey => stage[o].over = req[o].saw

DeltaBases ==
    /\ \A o \in Ops : pc[o] # "idle" /\ req[o].kind = "delta" /\ StillBased(o) => Basis(o)
    /\ \A i \in InodeIds :
         content[i] # NoKey /\ content[i].by \in Ops /\ req[content[i].by].kind = "delta"
           => content[i].over = req[content[i].by].saw

\* What most steps leave of a delta in progress.
Keeps(o) ==
    /\ req'[o] = req[o] /\ pc[o] # "idle"
    /\ \/ pc'[o] = pc[o] /\ stage'[o] = stage[o]
       \/ pc[o] # "copied" /\ pc'[o] # "copied" /\ stage'[o] \in {NoKey, stage[o]}

\* Without a stall between copy and patch, a step does that or part of the delta.
LEMMA DeltaSteps ==
    ASSUME AnswerInv, [Next]_vars, "copied" \notin Stalls,
           NEW o \in Ops, pc[o] # "idle", req[o].kind = "delta"
    PROVE  \/ Keeps(o) \/ CopyLive(o) \/ PatchStage(o) \/ StartRestore \/ FinishRestore
<1>t. ServerTypeOK /\ ClientTypeOK
  BY DEF AnswerInv, CommitInv, TypeInv, TypeOK
<1>1. ASSUME NEW p \in Ops, NEW n \in Names, NEW k \in Kinds, NEW s \in Sizes, Observe(p, n, k, s)
      PROVE  Keeps(o)
  BY <1>1, <1>t DEF Observe, server, Keeps, ClientTypeOK
<1>2. ASSUME NEW p \in Ops, RefuseEarly(p) \/ ReadReceipt(p) PROVE Keeps(o)
  BY <1>2, <1>t DEF RefuseEarly, ReadReceipt, Return, server, Keeps, ClientTypeOK
<1>3. ASSUME NEW p \in Ops, StageFull(p) PROVE Keeps(o)
  <2>1. p # o
    BY <1>3 DEF StageFull
  <2> QED
    BY <1>3, <1>t, <2>1 DEF StageFull, Keeps, ClientTypeOK, ServerTypeOK
<1>4. ASSUME NEW p \in Ops, p # o, CopyLive(p) \/ PatchStage(p) PROVE Keeps(o)
  BY <1>4, <1>t DEF CopyLive, PatchStage, Return, Keeps, ClientTypeOK, ServerTypeOK
<1>5. ASSUME NEW p \in Ops, Send(p) PROVE Keeps(o)
  BY <1>5, <1>t DEF Send, server, Keeps, ClientTypeOK
<1>6. ASSUME NEW p \in Ops, ExecuteAndReply(p) \/ ExecuteSilently(p) \/ ExecuteLate(p)
      PROVE  Keeps(o)
  <2>1. (line[p] \/ late[p] > 0) /\ Run(p) /\ UNCHANGED <<req, sends>>
    BY <1>6 DEF ExecuteAndReply, ExecuteSilently, ExecuteLate
  <2>2. \A x \in Ops : x # p => pc'[x] = pc[x]
    BY <1>6, <1>t DEF ExecuteAndReply, ExecuteSilently, ExecuteLate, Return, ClientTypeOK
  <2>3. pc'[p] = pc[p] \/ (pc[p] # "copied" /\ pc'[p] # "copied")
    BY <1>6, <1>t DEF ExecuteAndReply, ExecuteSilently, ExecuteLate, Return, ClientTypeOK
  <2>4. CASE Reply(p) = "commit"
    <3>1. pc[p] # "copied"
      BY <1>t, <2>1 DEF AnswerInv, Replies, ClientTypeOK
    <3>2. pc'[p] # "copied"
      BY <2>3, <3>1
    <3>3. \A x \in Ops : x # p => stage'[x] = stage[x]
      BY <2>1, <2>4, CommitsWhole DEF Commits
    <3>4. stage'[p] \in {NoKey, stage[p]}
      BY <2>1, <2>4, CommitsWhole DEF Commits
    <3> QED
      BY <2>1, <2>2, <3>1, <3>2, <3>3, <3>4 DEF Keeps
  <2>5. CASE Reply(p) # "commit"
    BY <2>1, <2>2, <2>3, <2>5 DEF Run, server, Keeps
  <2> QED
    BY <2>4, <2>5
<1>7. ASSUME NEW p \in Ops, LoseRequest(p) \/ Retransmit(p) \/ ExpireLease(p) PROVE Keeps(o)
  BY <1>7 DEF LoseRequest, Retransmit, ExpireLease, server, Keeps
<1>8. ASSUME NEW p \in Ops, GiveUp(p) PROVE Keeps(o)
  <2>1. /\ pc[p] = "sent" /\ UNCHANGED <<stage, req>>
        /\ pc' = [pc EXCEPT ![p] = "unsure"] \/ pc' = [pc EXCEPT ![p] = "returning"]
    BY <1>8 DEF GiveUp, Return, server
  <2> QED
    BY <2>1, <1>t DEF Keeps, ClientTypeOK
<1>9. ASSUME NEW p \in Ops, Finish(p) PROVE Keeps(o)
  BY <1>9, <1>t DEF Finish, Keeps, ClientTypeOK, ServerTypeOK
<1>10. ASSUME NEW p \in Ops, ExpireStage(p) PROVE Keeps(o)
  BY <1>10, <1>t DEF ExpireStage, Keeps, ServerTypeOK
<1>11. CASE RemoveParent \/ UNCHANGED vars
  BY <1>11 DEF RemoveParent, vars, server, Keeps
<1> QED
  BY <1>1, <1>2, <1>3, <1>4, <1>5, <1>6, <1>7, <1>8, <1>9, <1>10, <1>11 DEF Next

\* A call keeps the kind it was made with.
LEMMA RequestKindSettles ==
    ASSUME AnswerInv, [Next]_vars, NEW o \in Ops, pc[o] # "idle"
    PROVE  req'[o].kind = req[o].kind
<1>t. ClientTypeOK /\ WellFormed
  BY DEF AnswerInv, CommitInv, TypeInv, TypeOK
<1>1. ASSUME NEW p \in Ops, StageFull(p) PROVE req'[o].kind = req[o].kind
  <2>1. req[o] \in Request
    BY <1>t DEF WellFormed, ClientTypeOK
  <2>2. req'[o] = req[o] \/ req'[o] = [req[o] EXCEPT !.id = next + 1]
    BY <1>1, <1>t DEF StageFull, ClientTypeOK
  <2> QED
    BY <2>1, <2>2 DEF Request
<1>2. ASSUME NEW p \in Ops, NEW n \in Names, NEW k \in Kinds, NEW s \in Sizes, Observe(p, n, k, s)
      PROVE  req'[o] = req[o]
  BY <1>2, <1>t DEF Observe, ClientTypeOK
<1>3. \/ \E p \in Ops : \/ StageFull(p)
                         \/ \E n \in Names, k \in Kinds, s \in Sizes : Observe(p, n, k, s)
      \/ UNCHANGED req
  BY DEF Next, RefuseEarly, CopyLive, PatchStage, Send, ExecuteAndReply, ExecuteSilently,
     LoseRequest, ExecuteLate, Retransmit, GiveUp, ReadReceipt, Finish, ExpireStage,
     ExpireLease, RemoveParent, StartRestore, FinishRestore, vars
<1> QED
  BY <1>1, <1>2, <1>3

\* Every step keeps the basis of every delta.
LEMMA DeltaPreserved ==
    ASSUME AnswerInv, Staged, Authorship, DeltaBases, [Next]_vars, "copied" \notin Stalls
    PROVE  DeltaBases'
<1> USE IdsAssumption, BoundsAssumption
<1>t. /\ ServerTypeOK /\ ClientTypeOK /\ WellFormed /\ Marks /\ Committed \subseteq Ops
  BY CommittedOps DEF AnswerInv, CommitInv, TypeInv, TypeOK
<1>d. ASSUME NEW o \in Ops, pc[o] # "idle", req[o].kind = "delta"
      PROVE  req[o] \in Request /\ req[o].id \in InodeIds /\ ~req[o].create /\ req[o] # NoRequest
  BY <1>d, <1>t DEF WellFormed, ClientTypeOK, Request
<1>1. ASSUME NEW o \in Ops, Keeps(o), req[o].kind = "delta", StillBased(o)',
             TreeStill \/ \E q \in Ops : Commits(q)
      PROVE  Basis(o)'
  <2>1. req'[o] = req[o] /\ pc[o] # "idle" /\ req[o].id \in InodeIds /\ req[o] # NoRequest
    BY <1>1, <1>d DEF Keeps
  <2>2. UNCHANGED <<epoch, open>>
    BY <1>1 DEF TreeStill, Commits, CommitFacts
  <2>3. inode'[req[o].id] = inode[req[o].id] /\ content'[req[o].id] = content[req[o].id]
    <3>1. ASSUME NEW q \in Ops, Commits(q) PROVE req[q].id # req[o].id
      <4>1. q \notin Committed /\ (inode'[req[q].id] = NoKey \/ inode'[req[q].id].rev = q)
        BY <3>1 DEF Commits, CommitFacts
      <4>2. req[o].rev # q
        BY <2>1, <4>1, <1>t DEF Marks
      <4> QED
        BY <1>1, <2>1, <4>1, <4>2 DEF StillBased
    <3>2. ASSUME NEW q \in Ops, Commits(q)
          PROVE  inode'[req[o].id] = inode[req[o].id] /\ content'[req[o].id] = content[req[o].id]
      BY <2>1, <3>1, <3>2 DEF Commits, CommitFacts
    <3> QED
      BY <1>1, <3>2 DEF TreeStill
  <2>4. StillBased(o)
    BY <1>1, <2>1, <2>2, <2>3 DEF StillBased, Fenced
  <2>5. Basis(o)
    BY <1>1, <2>1, <2>4 DEF DeltaBases
  <2> QED
    BY <1>1, <2>1, <2>3, <2>5 DEF Basis, Keeps
<1>2. ASSUME NEW o \in Ops, CopyLive(o), StillBased(o)' PROVE Basis(o)'
  <2>1. /\ UNCHANGED <<req, inode, content, epoch, open>> /\ pc[o] = "observed"
        /\ req[o].kind = "delta"
    BY <1>2 DEF CopyLive, tree
  <2>2. Basis(o)
    BY <1>2, <2>1 DEF DeltaBases, StillBased, Fenced
  <2>3. \/ pc'[o] = "copied" /\ stage'[o] = content[req[o].id]
        \/ pc'[o] = "returning" /\ stage'[o] = stage[o]
    BY <1>2, <1>t DEF CopyLive, Return, ClientTypeOK, ServerTypeOK
  <2> QED
    BY <2>1, <2>2, <2>3 DEF Basis
<1>3. ASSUME NEW o \in Ops, req[o].kind = "delta", PatchStage(o), StillBased(o)' PROVE Basis(o)'
  <2>1. UNCHANGED <<req, inode, content, epoch, open>> /\ pc[o] = "copied" /\ pc'[o] = "staged"
    BY <1>3, <1>t DEF PatchStage, tree, ClientTypeOK
  <2>2. Basis(o)
    BY <1>3, <2>1 DEF DeltaBases, StillBased, Fenced
  <2>3. stage'[o].over = Author(stage[o])
    BY <1>3, <1>t DEF PatchStage, Author, ServerTypeOK
  <2> QED
    BY <2>1, <2>2, <2>3 DEF Basis
<1>4. ASSUME NEW o \in Ops, NEW n \in Names, NEW s \in Sizes, Observe(o, n, "delta", s)
      PROVE  Basis(o)'
  <2>1. /\ dirents[n] # 0 /\ dirents[n] \in InodeIds /\ pc[o] = "idle"
        /\ UNCHANGED <<content, stage>>
    BY <1>4, <1>t DEF Observe, server, tree, ServerTypeOK
  <2>2. /\ req'[o].id = dirents[n] /\ pc'[o] = "observed"
        /\ req'[o].saw = IF content[dirents[n]] = NoKey THEN NoKey ELSE content[dirents[n]].by
    BY <1>4, <2>1, <1>t DEF Observe, ClientTypeOK
  <2>3. stage'[o] = NoKey
    BY <2>1 DEF Staged
  <2> QED
    BY <2>1, <2>2, <2>3 DEF Basis, Author
<1>5. ASSUME NEW o \in Ops, pc'[o] # "idle", req'[o].kind = "delta", StillBased(o)' PROVE Basis(o)'
  <2>1. CASE pc[o] = "idle"
    <3>1. PICK n \in Names, k \in Kinds, s \in Sizes : Observe(o, n, k, s)
      <4>1. ASSUME NEW p \in Ops,
                   p # o \/ ~\E n \in Names, k \in Kinds, s \in Sizes : Observe(o, n, k, s),
                   \/ \E n \in Names, k \in Kinds, s \in Sizes : Observe(p, n, k, s)
                   \/ RefuseEarly(p) \/ StageFull(p) \/ CopyLive(p) \/ PatchStage(p)
                   \/ Send(p)
                   \/ ExecuteAndReply(p) \/ ExecuteSilently(p) \/ LoseRequest(p) \/ ExecuteLate(p)
                   \/ Retransmit(p) \/ GiveUp(p) \/ ReadReceipt(p) \/ Finish(p)
                   \/ ExpireStage(p) \/ ExpireLease(p)
            PROVE  pc'[o] = "idle"
        BY <2>1, <4>1, <1>t DEF Observe, RefuseEarly, StageFull, CopyLive, PatchStage, Send,
           ExecuteAndReply, ExecuteSilently, LoseRequest, ExecuteLate, Retransmit, GiveUp,
           ReadReceipt, Finish, ExpireStage, ExpireLease, Return, ClientTypeOK
      <4>2. RemoveParent \/ StartRestore \/ FinishRestore \/ UNCHANGED vars => pc'[o] = "idle"
        BY <2>1 DEF RemoveParent, StartRestore, FinishRestore, vars
      <4> QED
        BY <1>5, <4>1, <4>2 DEF Next
    <3>2. req'[o].kind = k
      BY <3>1, <1>t DEF Observe, ClientTypeOK
    <3> QED
      BY <1>4, <1>5, <3>1, <3>2
  <2>2. CASE pc[o] # "idle"
    <3>1. req[o].kind = "delta"
      BY <1>5, <2>2, RequestKindSettles
    <3>2. CASE StartRestore \/ FinishRestore
      <4>1. req[o] # NoRequest /\ req'[o] = req[o]
        BY <2>2, <3>1, <3>2, <1>d DEF StartRestore, FinishRestore
      <4>2. Fenced(o)'
        BY <4>1, <3>2, <1>t DEF StartRestore, FinishRestore, Fenced, Marks, ServerTypeOK
      <4> QED
        BY <1>5, <4>2 DEF StillBased
    <3>3. CASE Keeps(o) /\ ~(StartRestore \/ FinishRestore)
      BY <1>1, <1>5, <3>1, <3>3, TreeSteps
    <3> QED
      BY <1>2, <1>3, <1>5, <2>2, <3>1, <3>2, <3>3, DeltaSteps
  <2> QED
    BY <2>1, <2>2
<1>6. ASSUME NEW i \in InodeIds, content'[i] # NoKey, content'[i].by \in Ops,
             req'[content'[i].by].kind = "delta"
      PROVE  content'[i].over = req'[content'[i].by].saw
  <2>1. CASE content'[i] = content[i]
    <3>1. content[i].by \in Committed
      BY <1>6, <2>1 DEF Authorship
    <3>2. req'[content[i].by] = req[content[i].by]
      BY <3>1, CommittedSettled
    <3> QED
      BY <1>6, <2>1, <3>2 DEF DeltaBases
  <2>2. CASE content'[i] # content[i]
    <3>1. CASE StartRestore \/ FinishRestore
      BY <1>6, <3>1 DEF StartRestore, FinishRestore, BaseContent, Imported
    <3>2. ASSUME NEW o \in Ops, Commits(o) PROVE content'[i].over = req'[content'[i].by].saw
      <4>1. Publishing(o) /\ content'[i] = stage[o] /\ i = req[o].id
        BY <1>6, <2>2, <3>2 DEF Commits
      <4>2. /\ stage[o].by = o /\ stage[o] # NoKey
            /\ pc[o] \notin {"idle", "observed", "copied", "staged"}
        BY <3>2, <4>1, OwnStage
      <4>3. req'[o] = req[o] /\ req[o].kind = "delta"
        BY <1>6, <3>2, <4>1, <4>2 DEF Commits
      <4>4. StillBased(o)
        BY <3>2, <4>2, <4>3, <1>d DEF Commits, CommitFacts, AsExpected, StillBased
      <4> QED
        BY <4>1, <4>2, <4>3, <4>4 DEF DeltaBases, Basis
    <3> QED
      BY <2>2, <3>1, <3>2, TreeSteps DEF TreeStill
  <2> QED
    BY <2>1, <2>2
<1> QED
  BY <1>5, <1>6 DEF DeltaBases
-----------------------------------------------------------------------------
(***************************************************************************)
(* The theorems about the directory.                                       *)
(***************************************************************************)
TreeInv == /\ AnswerInv /\ Staged /\ TreeSound /\ Accounting
           /\ JournalDated /\ JournalExplainsTree /\ Authorship

LEMMA TreeInitially == Init => TreeInv
<1> SUFFICES ASSUME Init PROVE TreeInv
  OBVIOUS
<1>1. AnswerInv
  BY AnswersInitially
<1>2. Staged
  BY DEF Init, Staged
<1>3. TreeSound
  BY BaseSound DEF Init, TreeSound, Linked
<1>4. Accounting
  <2>1. Linked = {n \in Names : Base[n] # 0} /\ files = BaseFiles /\ total = BaseFiles
    BY DEF Init, Linked
  <2>2. IsFiniteSet(Linked) /\ \A n \in Linked : SizeOf[n] = 1
    BY <2>1, BaseSound, BoundsAssumption, FS_Subset DEF Init, SizeOf
  <2>3. Sum(Linked, SizeOf) = Cardinality(Linked)
    BY <2>2, SumOfOnes
  <2> QED
    BY <2>1, <2>3, AccountingSums DEF Counted, BaseFiles
<1>5. Authorship
  BY IdsAssumption DEF Init, Authorship, BaseInode, BaseContent, Imported
<1> QED
  BY <1>1, <1>2, <1>3, <1>4, <1>5, JournalInitially DEF TreeInv

LEMMA TreeInvPreserved == TreeInv /\ [Next]_vars => TreeInv'
<1> SUFFICES ASSUME TreeInv, [Next]_vars PROVE TreeInv'
  OBVIOUS
<1>1. AnswerInv'
  BY CommitPreserved, FreshPreserved, RepliesPreserved, TruthPreserved DEF TreeInv, AnswerInv
<1>2. Staged' /\ TreeSound'
  BY StagedPreserved, TreePreserved DEF TreeInv
<1>3. Accounting' /\ JournalDated' /\ JournalExplainsTree' /\ Authorship'
  BY <1>2, AccountingPreserved, JournalPreserved, AuthorshipPreserved DEF TreeInv
<1> QED
  BY <1>1, <1>2, <1>3 DEF TreeInv

LEMMA TreeInvariant == Spec => []TreeInv
<1> QED
  BY TreeInitially, TreeInvPreserved, PTL DEF Spec

\* No script, restore or removal of the directory ever leaves a dangling entry,
\* an orphaned inode or content key, two names for a file, or a file without a parent.
THEOREM TreeStaysSound == Spec => []TreeSound
<1>1. TreeInv => TreeSound
  BY DEF TreeInv
<1> QED
  BY <1>1, TreeInvariant, PTL

\* info.files and info.total_data_bytes never drift from the files they count,
\* whatever is published, replaced, deleted or restored in whatever order.
THEOREM CountersAreExact == Spec => []Accounting
<1>1. TreeInv => Accounting
  BY DEF TreeInv
<1> QED
  BY <1>1, TreeInvariant, PTL

\* The last journal entry of this generation about a name says what is there.
THEOREM JournalIsTrue == Spec => []JournalExplainsTree
<1>1. TreeInv => JournalExplainsTree
  BY DEF TreeInv
<1> QED
  BY <1>1, TreeInvariant, PTL

\* No call that observed an earlier generation ever writes into a later one,
\* though inode ids and absent revisions recur after a restore.
THEOREM GenerationsStayApart == Spec => []OwnGeneration
<1>1. TreeInv => OwnGeneration
  <2> SUFFICES ASSUME TreeInv, open, NEW n \in Linked
               PROVE  dirents[n] \in InodeIds /\ inode[dirents[n]] # NoKey
    BY DEF OwnGeneration, TreeInv, Authorship
  <2> QED
    BY BoundsAssumption DEF TreeInv, AnswerInv, CommitInv, TypeInv, TypeOK, ServerTypeOK,
       TreeSound, Linked
<1> QED
  BY <1>1, TreeInvariant, PTL

\* As long as no call stalls between copying and patching its stage for longer
\* than staged keys live, a published delta patched the bytes it expected,
\* though COPY reads whatever is live by then.
THEOREM DeltasPatchExpected ==
    ASSUME "copied" \notin Stalls
    PROVE  Spec => []DeltaPatchesExpected
<1>1. Init => DeltaBases
  BY IdsAssumption DEF Init, DeltaBases, BaseContent, Imported
<1>2. TreeInv /\ DeltaBases /\ [Next]_vars => DeltaBases'
  BY DeltaPreserved DEF TreeInv
<1>3. TreeInv /\ DeltaBases => DeltaPatchesExpected
  <2> SUFFICES ASSUME TreeInv, DeltaBases, NEW n \in Linked
               PROVE  dirents[n] \in InodeIds
    BY DEF DeltaPatchesExpected, DeltaBases
  <2> QED
    BY BoundsAssumption DEF TreeInv, AnswerInv, CommitInv, TypeInv, TypeOK, ServerTypeOK, Linked
<1> QED
  BY <1>1, <1>2, <1>3, TreeInvariant, PTL DEF Spec

\* A publication that returned and discarded its stage never happens afterwards:
\* every commit of a publication consumes the stage the client took away.
THEOREM ReturnIsFinal == Spec => NothingAfterReturn
<1>1. TreeInv /\ [Next]_vars =>
        \A o \in Ops : Publishing(o) /\ pc[o] = "done" => (o \in Committed)' = (o \in Committed)
  <2> SUFFICES ASSUME TreeInv, [Next]_vars, NEW o \in Ops, Publishing(o), pc[o] = "done"
               PROVE  o \in Committed' <=> o \in Committed
    OBVIOUS
  <2>1. stage[o] = NoKey
    BY DEF TreeInv, Staged
  <2>2. ASSUME NEW q \in Ops, Commits(q) PROVE q # o /\ Committed' = Committed \cup {q}
    BY <2>1, <2>2 DEF Commits, CommitFacts, Publishing
  <2>3. UNCHANGED journal => Committed' = Committed
    BY DEF Committed
  <2> QED
    BY <2>2, <2>3, TreeSteps DEF TreeInv, TreeStill, StartRestore, FinishRestore
<1> QED
  BY <1>1, TreeInvariant, PTL DEF Spec, NothingAfterReturn
-----------------------------------------------------------------------------
(***************************************************************************)
(* Clients, scripts, receipts and network implement FileStore.             *)
(***************************************************************************)
Heads == [n \in Names |-> IF dirents[n] = 0 THEN NoKey ELSE inode[dirents[n]].rev]
Wanted == [o \in Ops |-> IF req[o] = NoRequest THEN NoKey ELSE Wish(req[o])]
Verb(k) == CASE k = "delete" -> "remove" [] k = "update" -> "touch" [] OTHER -> "put"

\* The steps of the store in terms of the protocol's state.
Stutters == UNCHANGED <<epoch, open, Heads, Wanted, Committed, answer>>

Asks(o, n, k) ==
    /\ open /\ Wanted[o] = NoKey
    /\ Heads[n] = NoKey => k = "put"
    /\ Wanted' = [Wanted EXCEPT ![o] = [name |-> n, kind |-> k, over |-> Heads[n], epoch |-> epoch]]
    /\ UNCHANGED <<epoch, open, Heads, Committed, answer>>

Takes(o) ==
    LET w == Wanted[o] IN
    /\ w # NoKey /\ o \notin Committed
    /\ open /\ w.epoch = epoch /\ Heads[w.name] = w.over
    /\ answer[o] \in Refusals /\ w.kind = "put" => answer[o] = "conflict" /\ w.over = NoKey
    /\ Heads' = [Heads EXCEPT ![w.name] = IF w.kind = "remove" THEN NoKey ELSE o]
    /\ Committed' = Committed \cup {o}
    /\ UNCHANGED <<epoch, open, Wanted>>

Says(o, a) ==
    /\ Wanted[o] # NoKey /\ answer[o] = "none" /\ a \in Answers \ {"none"}
    /\ a = "ok" => \/ o \in Committed
                   \/ Wanted[o].kind = "remove" /\ Heads[Wanted[o].name] # Wanted[o].over
    /\ a \in Refusals /\ Wanted[o].kind = "put" => o \notin Committed
    /\ answer' = [answer EXCEPT ![o] = a]
    /\ UNCHANGED <<epoch, open, Heads, Wanted, Committed>>

\* They are the steps of FileStore under the refinement mapping.
LEMMA StoreMoves ==
    /\ Stutters => UNCHANGED Store!storeVars
    /\ \A o \in Ops, n \in Names, k \in {"put", "touch", "remove"} : Asks(o, n, k) => Store!StoreNext
    /\ \A o \in Ops : Takes(o) /\ UNCHANGED answer => Store!StoreNext
    /\ \A o \in Ops : Takes(o) /\ answer[o] = "none" /\ answer' = [answer EXCEPT ![o] = "ok"]
         => Store!StoreNext
    /\ \A o \in Ops, a \in Answers : Says(o, a) => Store!StoreNext
    /\ StartRestore => Store!StoreNext
    /\ FinishRestore => Store!StoreNext
<1>1. Stutters => UNCHANGED Store!storeVars
  BY DEF Stutters, Store!storeVars, Heads, Wanted
<1>2. ASSUME NEW o \in Ops, NEW n \in Names, NEW k \in {"put", "touch", "remove"}, Asks(o, n, k)
      PROVE  Store!StoreNext
  <2>1. Store!Ask(o, n, k)
    BY <1>2 DEF Asks, Store!Ask, Heads, Wanted
  <2> QED
    BY <2>1 DEF Store!StoreNext
<1>3. ASSUME NEW o \in Ops, Takes(o) PROVE Store!TakeEffect(o)
  BY <1>3 DEF Takes, Store!TakeEffect, Heads, Wanted, Refusals
<1>4. ASSUME NEW o \in Ops, Takes(o), UNCHANGED answer PROVE Store!StoreNext
  BY <1>3, <1>4 DEF Store!StoreNext, Store!Commit
<1>5. ASSUME NEW o \in Ops, Takes(o), answer[o] = "none", answer' = [answer EXCEPT ![o] = "ok"]
      PROVE  Store!StoreNext
  BY <1>3, <1>5 DEF Store!StoreNext, Store!CommitAndAnswer
<1>6. ASSUME NEW o \in Ops, NEW a \in Answers, Says(o, a) PROVE Store!StoreNext
  <2>1. Store!Answer(o, a)
    BY <1>6 DEF Says, Store!Answer, Store!Gone, Heads, Wanted, Refusals
  <2>2. a \in {"ok", "conflict", "changed", "lost", "error"}
    BY <1>6 DEF Says, Answers
  <2> QED
    BY <2>1, <2>2 DEF Store!StoreNext
<1>7. ASSUME StartRestore PROVE Store!StoreNext
  <2>1. Store!Close
    BY <1>7 DEF StartRestore, Store!Close, Store!Empty, Committed
  <2> QED
    BY <2>1 DEF Store!StoreNext
<1>8. ASSUME FinishRestore PROVE Store!StoreNext
  <2>1. Store!Reopen
    BY <1>8, BaseSound DEF FinishRestore, Store!Reopen, Store!Imported, Committed
  <2> QED
    BY <2>1 DEF Store!StoreNext
<1> QED
  BY <1>1, <1>2, <1>4, <1>5, <1>6, <1>7, <1>8

\* The wish that a request maps to.
LEMMA WantedFacts ==
    ASSUME ClientTypeOK, NEW o \in Ops, req[o] # NoRequest
    PROVE  /\ Wanted[o] = Wish(req[o]) /\ Wanted[o] # NoKey
           /\ Wanted[o].name = req[o].name /\ Wanted[o].epoch = req[o].epoch
           /\ Wanted[o].over = IF req[o].create THEN NoKey ELSE req[o].rev
           /\ Wanted[o].kind = Verb(req[o].kind)
           /\ Wanted[o].kind = "put" <=> Publishing(o)
           /\ Wanted[o].kind = "remove" <=> req[o].kind = "delete"
<1>1. req[o] \in Request
  BY DEF ClientTypeOK
<1>2. Wish(req[o]) = [name |-> req[o].name, over |-> IF req[o].create THEN NoKey ELSE req[o].rev,
                      epoch |-> req[o].epoch, kind |-> Verb(req[o].kind)]
  BY <1>1 DEF Wish, Verb, Request
<1>3. Verb(req[o].kind) \in {"put", "touch", "remove"}
  BY <1>1 DEF Verb, Request
<1>4. Wish(req[o]) \in Wishes
  BY <1>1, <1>2, <1>3 DEF Wishes, Request
<1>5. Wish(req[o]) # NoKey
  BY <1>4, IdsAssumption
<1>6. /\ Verb(req[o].kind) = "put" <=> Publishing(o)
      /\ Verb(req[o].kind) = "remove" <=> req[o].kind = "delete"
  BY <1>1 DEF Verb, Publishing, Request
<1>7. Wanted[o] = Wish(req[o])
  BY DEF Wanted
<1> QED
  BY <1>2, <1>5, <1>6, <1>7

\* Nothing that the store sees.
LEMMA QuietStutters ==
    ASSUME UNCHANGED <<epoch, open, dirents, inode, req, journal, answer>>
    PROVE  Stutters
<1> QED
  BY DEF Stutters, Heads, Wanted, Committed

\* A call returns without touching Redis.
LEMMA ReturnSays ==
    ASSUME TreeInv, NEW o \in Ops, NEW a \in Answers \ {"none"}, Return(o, a),
           pc[o] \notin Returned, pc[o] # "idle",
           UNCHANGED <<epoch, open, dirents, inode, req, journal>>,
           a = "ok" => \/ o \in Committed
                       \/ req[o].kind = "delete" /\ dirents[req[o].name] = 0,
           a \in Refusals /\ Publishing(o) => o \notin Committed
    PROVE  Says(o, a)
<1>t. ClientTypeOK /\ WellFormed /\ Replies /\ ServerTypeOK
  BY DEF TreeInv, AnswerInv, CommitInv, TypeInv, TypeOK
<1>1. req[o] # NoRequest /\ answer[o] = "none" /\ req[o] \in Request
  BY <1>t DEF WellFormed, Replies, ClientTypeOK
<1>2. req[o].kind = "delete" /\ dirents[req[o].name] = 0 => Heads[Wanted[o].name] # Wanted[o].over
  <2> SUFFICES ASSUME req[o].kind = "delete", dirents[req[o].name] = 0
               PROVE  Heads[Wanted[o].name] # Wanted[o].over
    OBVIOUS
  <2>1. ~req[o].create /\ req[o].rev \in Revs /\ req[o].name \in Names
    BY <1>1, <1>t DEF WellFormed, Request
  <2>2. Wanted[o].over = req[o].rev /\ Wanted[o].name = req[o].name
    BY <1>1, <1>t, <2>1, WantedFacts
  <2>3. Heads[req[o].name] = NoKey
    BY <2>1 DEF Heads
  <2> QED
    BY <2>1, <2>2, <2>3, IdsAssumption
<1>3. UNCHANGED <<epoch, open, Heads, Wanted, Committed>>
  BY DEF Heads, Wanted, Committed
<1>4. answer' = [answer EXCEPT ![o] = a]
  BY DEF Return
<1>5. /\ Wanted[o] # NoKey
      /\ Wanted[o].kind = "put" <=> Publishing(o)
      /\ Wanted[o].kind = "remove" <=> req[o].kind = "delete"
  BY <1>1, <1>t, WantedFacts
<1> QED
  BY <1>1, <1>2, <1>3, <1>4, <1>5 DEF Says

\* A commit takes effect in the store, over the version its caller observed.
LEMMA CommitTakes ==
    ASSUME TreeInv, NEW o \in Ops, Commits(o)
    PROVE  Takes(o)
<1> DEFINE r == req[o]
<1> USE IdsAssumption, BoundsAssumption
<1>t. ClientTypeOK /\ WellFormed /\ Replies /\ ServerTypeOK /\ TreeSound /\ Marks /\ Truth(o)
  BY DEF TreeInv, AnswerInv, CommitInv, TypeInv, TypeOK
<1>1. /\ o \notin Committed /\ ~Fenced(o) /\ ~LeaseGone(o) /\ AsExpected(o)
      /\ r \in Request /\ r.id \in InodeIds /\ r.name \in Names /\ r # NoRequest
      /\ (line[o] \/ late[o] > 0) /\ UNCHANGED <<req, epoch, open>>
      /\ Committed' = Committed \cup {o}
      /\ Publishing(o) => parent
      /\ r.kind # "delete" => inode'[r.id].rev = o
      /\ dirents' = [dirents EXCEPT ![r.name] = IF r.kind = "delete" THEN 0 ELSE r.id]
  BY DEF Commits, CommitFacts, NoRequest, Publishing
<1>2. /\ Wanted[o] # NoKey /\ Wanted[o].name = r.name /\ Wanted[o].epoch = r.epoch
      /\ Wanted[o].over = IF r.create THEN NoKey ELSE r.rev
      /\ Wanted[o].kind = "put" <=> Publishing(o)
      /\ Wanted[o].kind = "remove" <=> r.kind = "delete"
  BY <1>1, <1>t, WantedFacts
<1>3. Heads[r.name] = IF r.create THEN NoKey ELSE r.rev
  BY <1>1 DEF Heads, AsExpected
<1>4. ASSUME answer[o] \in Refusals, Publishing(o) PROVE answer[o] = "conflict" /\ r.create
  <2>1. sends[o] # 0
    BY <1>1, <1>t DEF Replies, ClientTypeOK
  <2>2. ~Dead(o)
    BY <1>1, <1>4, <2>1 DEF Dead, ParentGone
  <2> QED
    BY <1>4, <1>t, <2>2 DEF Truth, Refusals
<1>5. Heads' = [Heads EXCEPT ![r.name] = IF r.kind = "delete" THEN NoKey ELSE o]
  <2>1. \A n \in Names : n # r.name =>
          /\ dirents'[n] = dirents[n]
          /\ dirents[n] # 0 => inode'[dirents[n]] = inode[dirents[n]]
    BY <1>t, OthersUntouched
  <2>2. dirents'[r.name] = IF r.kind = "delete" THEN 0 ELSE r.id
    BY <1>1, <1>t DEF ServerTypeOK
  <2>3. ASSUME NEW n \in Names
        PROVE  Heads'[n] = [Heads EXCEPT ![r.name] = IF r.kind = "delete" THEN NoKey ELSE o][n]
    <3>1. CASE n = r.name
      BY <1>1, <2>2, <3>1 DEF Heads
    <3>2. CASE n # r.name
      BY <2>1, <3>2 DEF Heads
    <3> QED
      BY <3>1, <3>2
  <2> QED
    BY <2>3 DEF Heads
<1>6. UNCHANGED Wanted
  BY <1>1 DEF Wanted
<1> QED
  BY <1>1, <1>2, <1>3, <1>4, <1>5, <1>6 DEF Takes, Fenced

\* Every step of the protocol is a step of the store or none.
LEMMA StepsImplement ==
    ASSUME TreeInv, [Next]_vars
    PROVE  Store!StoreNext \/ UNCHANGED Store!storeVars
<1> USE IdsAssumption, BoundsAssumption
<1>t. /\ ClientTypeOK /\ WellFormed /\ Replies /\ ServerTypeOK /\ TreeSound /\ Marks
      /\ AnswerInv /\ CommitInv
  BY DEF TreeInv, AnswerInv, CommitInv, TypeInv, TypeOK
<1> DEFINE Implements == \/ Stutters
                         \/ \E o \in Ops, n \in Names, k \in {"put", "touch", "remove"} : Asks(o, n, k)
                         \/ \E o \in Ops : Takes(o) /\ UNCHANGED answer
                         \/ \E o \in Ops : /\ Takes(o) /\ answer[o] = "none"
                                           /\ answer' = [answer EXCEPT ![o] = "ok"]
                         \/ \E o \in Ops, a \in Answers : Says(o, a)
                         \/ StartRestore \/ FinishRestore
<1>1. ASSUME NEW o \in Ops, NEW n \in Names, NEW k \in Kinds, NEW s \in Sizes, Observe(o, n, k, s)
      PROVE  Asks(o, n, Verb(k)) /\ Verb(k) \in {"put", "touch", "remove"}
  <2>1. /\ open /\ UNCHANGED <<epoch, open, dirents, inode, journal, answer>>
        /\ dirents[n] = 0 => k = "write"
        /\ req[o] = NoRequest
    BY <1>1, <1>t DEF Observe, server, tree, WellFormed
  <2>2. /\ \A x \in Ops : x # o => req'[x] = req[x]
        /\ req'[o].kind = k /\ req'[o].name = n /\ req'[o].epoch = epoch
        /\ (req'[o].create <=> dirents[n] = 0)
        /\ dirents[n] # 0 => req'[o].rev = inode[dirents[n]].rev
        /\ req'[o] # NoRequest
    <3>1. req'[o] # NoRequest
      <4>1. TypeInv' /\ pc'[o] # "idle"
        BY <1>1, <1>t, TypesPreserved DEF CommitInv, Observe, ClientTypeOK
      <4> QED
        BY <4>1 DEF TypeInv, WellFormed
    <3> QED
      BY <1>1, <1>t, <3>1 DEF Observe, ClientTypeOK
  <2>3. Wish(req'[o]) = [name |-> n, kind |-> Verb(k), over |-> Heads[n], epoch |-> epoch]
    BY <2>1, <2>2 DEF Wish, Verb, Heads
  <2>4. Wanted' = [Wanted EXCEPT ![o] = [name |-> n, kind |-> Verb(k), over |-> Heads[n], epoch |-> epoch]]
    <3>1. ASSUME NEW x \in Ops PROVE Wanted'[x] = IF x = o THEN Wish(req'[o]) ELSE Wanted[x]
      BY <2>2 DEF Wanted
    <3> QED
      BY <2>3, <3>1 DEF Wanted
  <2>5. Wanted[o] = NoKey /\ (Heads[n] = NoKey => Verb(k) = "put")
    <3>1. dirents[n] # 0 => inode[dirents[n]] \in InodeRecord
      BY <1>1, <1>t DEF Observe, ServerTypeOK
    <3>2. dirents[n] # 0 => Heads[n] # NoKey
      BY <3>1 DEF Heads, InodeRecord
    <3> QED
      BY <2>1, <3>2 DEF Wanted, Verb
  <2>6. UNCHANGED <<epoch, open, Heads, Committed, answer>>
    BY <2>1 DEF Heads, Committed
  <2>7. Verb(k) \in {"put", "touch", "remove"}
    BY DEF Verb
  <2> QED
    BY <2>1, <2>4, <2>5, <2>6, <2>7 DEF Asks
<1>2. ASSUME NEW o \in Ops, RefuseEarly(o) \/ (CopyLive(o) /\ Return(o, "conflict"))
      PROVE  Says(o, "conflict")
  <2>1. /\ Return(o, "conflict") /\ pc[o] = "observed"
        /\ UNCHANGED <<epoch, open, dirents, inode, req, journal>>
    BY <1>2 DEF RefuseEarly, CopyLive, server, tree
  <2>2. o \notin Committed
    BY <2>1, <1>t DEF Replies
  <2> QED
    BY <2>1, <2>2, ReturnSays DEF Answers, Returned
<1>3. ASSUME NEW o \in Ops, StageFull(o) PROVE Stutters
  <2>1. UNCHANGED <<epoch, open, dirents, inode, journal, answer>> /\ req[o] # NoRequest
    BY <1>3, <1>t DEF StageFull, tree, WellFormed
  <2>2. /\ \A x \in Ops : x # o => req'[x] = req[x]
        /\ req'[o] = req[o] \/ req'[o] = [req[o] EXCEPT !.id = next + 1]
    BY <1>3, <1>t DEF StageFull, ClientTypeOK
  <2>3. req'[o] # NoRequest
    <3>1. TypeInv' /\ pc'[o] # "idle"
      BY <1>3, <1>t, TypesPreserved DEF CommitInv, StageFull, ClientTypeOK
    <3> QED
      BY <3>1 DEF TypeInv, WellFormed
  <2>4. Wish(req'[o]) = Wish(req[o])
    <3>1. req[o] \in Request
      BY <2>1, <1>t DEF ClientTypeOK
    <3> QED
      BY <2>2, <3>1 DEF Wish, Request
  <2>5. Wanted' = Wanted
    BY <2>1, <2>2, <2>3, <2>4 DEF Wanted
  <2> QED
    BY <2>1, <2>5 DEF Stutters, Heads, Committed
<1>4. ASSUME NEW o \in Ops,
             \/ (CopyLive(o) /\ UNCHANGED answer) \/ PatchStage(o) \/ Finish(o)
             \/ ExpireStage(o) \/ ExpireLease(o)
      PROVE  Stutters
  BY <1>4, QuietStutters DEF CopyLive, PatchStage, Finish, ExpireStage, ExpireLease, tree
<1>5. ASSUME NEW o \in Ops, Send(o) \/ LoseRequest(o) \/ Retransmit(o) PROVE Stutters
  BY <1>5, QuietStutters DEF Send, LoseRequest, Retransmit, server, tree
<1>6. ASSUME NEW o \in Ops, ExecuteAndReply(o) PROVE Implements
  <2> DEFINE a == IF Reply(o) = "commit" THEN "ok" ELSE Reply(o)
  <2>1. line[o] /\ Run(o) /\ Return(o, a) /\ UNCHANGED <<req, sends>> /\ pc[o] = "sent"
    BY <1>6 DEF ExecuteAndReply
  <2>2. answer[o] = "none"
    BY <2>1, <1>t DEF Replies, ClientTypeOK, Returned
  <2>3. CASE Reply(o) = "commit"
    <3>1. Takes(o)
      BY <2>1, <2>3, <1>t, CommitsWhole, CommitTakes
    <3>2. answer' = [answer EXCEPT ![o] = "ok"]
      BY <2>1, <2>3 DEF Return
    <3> QED
      BY <2>2, <3>1, <3>2
  <2>4. CASE Reply(o) # "commit"
    <3>1. /\ Reply(o) = "ok" /\ req[o].kind # "delete" => o \in Committed
          /\ Reply(o) \in Refusals /\ Publishing(o) => o \notin Committed
      BY <2>1, <2>4, <1>t, ReplyIsTrue
    <3>2. Reply(o) = "ok" /\ req[o].kind = "delete" => dirents[req[o].name] = 0
      BY DEF Reply, DeleteReply
    <3>3. UNCHANGED <<epoch, open, dirents, inode, req, journal>> /\ Return(o, Reply(o))
      BY <2>1, <2>4 DEF Run, server, tree
    <3>4. Reply(o) \in Answers \ {"none"}
      BY <2>4 DEF Reply, UpdateReply, DeleteReply, PublishReply, Answers
    <3>5. Says(o, Reply(o))
      BY <2>1, <3>1, <3>2, <3>3, <3>4, ReturnSays DEF Returned
    <3> QED
      BY <3>4, <3>5
  <2> QED
    BY <2>3, <2>4
<1>7. ASSUME NEW o \in Ops, ExecuteSilently(o) \/ ExecuteLate(o) PROVE Implements
  <2>1. (line[o] \/ late[o] > 0) /\ Run(o) /\ UNCHANGED <<req, sends, answer>>
    BY <1>7 DEF ExecuteSilently, ExecuteLate
  <2>2. CASE Reply(o) = "commit"
    BY <2>1, <2>2, <1>t, CommitsWhole, CommitTakes
  <2>3. CASE Reply(o) # "commit"
    BY <2>1, <2>3, QuietStutters DEF Run, server, tree
  <2> QED
    BY <2>2, <2>3
<1>8. ASSUME NEW o \in Ops, GiveUp(o) PROVE Implements
  <2>1. UNCHANGED <<epoch, open, dirents, inode, req, journal>> /\ pc[o] = "sent"
    BY <1>8 DEF GiveUp, server, tree
  <2>2. CASE UNCHANGED answer
    BY <2>1, <2>2, QuietStutters
  <2>3. CASE Return(o, "error")
    <3>1. Says(o, "error")
      BY <2>1, <2>3, ReturnSays DEF Answers, Returned, Refusals
    <3> QED
      BY <3>1 DEF Answers
  <2> QED
    BY <1>8, <2>2, <2>3 DEF GiveUp
<1>9. ASSUME NEW o \in Ops, ReadReceipt(o) PROVE Implements
  <2>1. UNCHANGED <<epoch, open, dirents, inode, req, journal>> /\ pc[o] = "unsure"
    BY <1>9 DEF ReadReceipt, server, tree
  <2>2. PICK a \in {"ok", "error"} : Return(o, a) /\ (a = "ok" => o \in receipts)
    BY <1>9 DEF ReadReceipt
  <2>3. a = "ok" => o \in Committed
    BY <2>2, <1>t DEF Marks
  <2>4. Says(o, a)
    BY <2>1, <2>2, <2>3, ReturnSays DEF Answers, Returned, Refusals
  <2> QED
    BY <2>2, <2>4 DEF Answers
<1>10. ASSUME RemoveParent PROVE Stutters
  BY <1>10, QuietStutters DEF RemoveParent
<1>11. ASSUME UNCHANGED vars PROVE Stutters
  BY <1>11, QuietStutters DEF vars, server, tree
<1>12. Implements
  <2>1. ASSUME NEW o \in Ops, CopyLive(o) PROVE Implements
    BY <1>2, <1>4, <2>1 DEF CopyLive, Answers
  <2>2. ASSUME NEW o \in Ops, RefuseEarly(o) PROVE Implements
    BY <1>2, <2>2 DEF Answers
  <2>3. ASSUME NEW o \in Ops, NEW n \in Names, NEW k \in Kinds, NEW s \in Sizes, Observe(o, n, k, s)
        PROVE  Implements
    BY <1>1, <2>3
  <2>4. ASSUME NEW o \in Ops,
               \/ StageFull(o) \/ PatchStage(o) \/ Finish(o) \/ ExpireStage(o) \/ ExpireLease(o)
               \/ Send(o) \/ LoseRequest(o) \/ Retransmit(o)
        PROVE  Implements
    BY <1>3, <1>4, <1>5, <2>4
  <2>5. StartRestore \/ FinishRestore => Implements
    OBVIOUS
  <2>6. RemoveParent \/ UNCHANGED vars => Implements
    BY <1>10, <1>11
  <2> HIDE DEF Implements
  <2> QED
    BY <1>6, <1>7, <1>8, <1>9, <2>1, <2>2, <2>3, <2>4, <2>5, <2>6 DEF Next
<1> QED
  BY <1>12, StoreMoves

LEMMA StoreInitially == Init => Store!StoreInit
<1> SUFFICES ASSUME Init PROVE Store!StoreInit
  OBVIOUS
<1>1. Committed = {}
  BY DEF Init, Committed
<1> QED
  BY <1>1, BaseSound DEF Init, Store!StoreInit, Store!Imported

\* With every delay, loss, repetition, expiry and restore, the clients of a
\* directory behave like a store that performs every call at most once, atomically
\* and only over the version it observed, and answers truthfully.
THEOREM StoreImplemented == Spec => ImplementsStore
<1>1. TreeInv /\ [Next]_vars => [Store!StoreNext]_Store!storeVars
  BY StepsImplement
<1> QED
  BY <1>1, StoreInitially, TreeInvariant, PTL DEF Spec, ImplementsStore, Store!StoreSpec
=============================================================================
