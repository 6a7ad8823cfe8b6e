---------------------------- MODULE Traversal_proofs ----------------------------
(***************************************************************************)
(* Proofs about the walks over the graph, for any finite graph, any        *)
(* question and any order of rows: each answer has what it should.         *)
(*                                                                         *)
(* What the answers are measured by, Within(n, k), is recursive; the       *)
(* lemmas that open this module find for it a sequence of growing sets,    *)
(* least among those closed under a step.  The invariant Kept has one part *)
(* for each way to walk: what a recursive walk has yet to enter is found   *)
(* below the frames of its stack (Walked), a chain of containers below its *)
(* last link (Chained), a queue holds the paths of one level and then of   *)
(* the next (Searched, and PathKept and BfsKept for what they hand back),  *)
(* and the search for cycles has settled every dependency of a file that   *)
(* is done (Trailed, Tangled).                                             *)
(***************************************************************************)
EXTENDS MCWalks, FunctionTheorems, FiniteSetTheorems, WellFoundedInduction, TLAPS

(* A finite set of numbers that is not empty has a greatest element.        *)
LEMMA GreatestElement ==
  ASSUME NEW S, S \subseteq Nat, IsFiniteSet(S), S # {}
  PROVE  \E m \in S : \A y \in S : y <= m
<1> DEFINE HasMax(A) == \E x \in A : \A y \in A : y <= x
           R   == StrictSubsetOrdering(S)
           Bad == {A \in SUBSET S : A # {} /\ ~HasMax(A)}
<1>1. SUFFICES ASSUME Bad # {} PROVE FALSE
  OBVIOUS
<1>2. Bad \subseteq FiniteSubsetsOf(S)
  BY FS_Subset DEF FiniteSubsetsOf
<1>3. IsWellFoundedOn(R, FiniteSubsetsOf(S))
  BY FS_StrictSubsetOrderingWellFounded
<1>4. PICK A \in Bad : \A B \in Bad : <<B, A>> \notin R
  <2> HIDE DEF Bad, R
  <2> QED
    BY <1>1, <1>2, <1>3, WFMin
<1>5. PICK a \in A : TRUE
  BY <1>4
<1>6. A \ {a} \notin Bad
  BY <1>4, <1>5 DEF StrictSubsetOrdering
<1>7. A \ {a} = {} => HasMax(A)
  BY <1>4, <1>5
<1>8. ASSUME NEW m \in A \ {a}, \A y \in A \ {a} : y <= m PROVE HasMax(A)
  BY <1>4, <1>5, <1>8
<1> QED
  BY <1>4, <1>6, <1>7, <1>8

(* A finite set of numbers that is not empty has a least element.        *)
LEMMA LeastElement ==
  ASSUME NEW S, S \subseteq Nat, IsFiniteSet(S), S # {}
  PROVE  \E m \in S : \A y \in S : m <= y
<1> DEFINE HasMin(A) == \E x \in A : \A y \in A : x <= y
           R   == StrictSubsetOrdering(S)
           Bad == {A \in SUBSET S : A # {} /\ ~HasMin(A)}
<1>1. SUFFICES ASSUME Bad # {} PROVE FALSE
  OBVIOUS
<1>2. Bad \subseteq FiniteSubsetsOf(S)
  BY FS_Subset DEF FiniteSubsetsOf
<1>3. IsWellFoundedOn(R, FiniteSubsetsOf(S))
  BY FS_StrictSubsetOrderingWellFounded
<1>4. PICK A \in Bad : \A B \in Bad : <<B, A>> \notin R
  <2> HIDE DEF Bad, R
  <2> QED
    BY <1>1, <1>2, <1>3, WFMin
<1>5. PICK a \in A : TRUE
  BY <1>4
<1>6. A \ {a} \notin Bad
  BY <1>4, <1>5 DEF StrictSubsetOrdering
<1>7. A \ {a} = {} => HasMin(A)
  BY <1>4, <1>5
<1>8. ASSUME NEW m \in A \ {a}, \A y \in A \ {a} : m <= y PROVE HasMin(A)
  BY <1>4, <1>5, <1>8
<1> QED
  BY <1>4, <1>6, <1>7, <1>8

LEMMA Elements ==
  ASSUME NEW S, NEW s \in Seq(S)
  PROVE  Len(s) \in Nat /\ DOMAIN s = 1..Len(s) /\ \A i \in 1..Len(s) : s[i] \in S
OBVIOUS

LEMMA Wider ==
  ASSUME NEW S, NEW T, S \subseteq T, NEW s \in Seq(S)
  PROVE  s \in Seq(T)
OBVIOUS

LEMMA Joined ==
  ASSUME NEW S, NEW a \in Seq(S), NEW b \in Seq(S)
  PROVE  /\ a \o b \in Seq(S) /\ Len(a \o b) = Len(a) + Len(b)
         /\ \A i \in 1..Len(a) : (a \o b)[i] = a[i]
         /\ \A i \in 1..Len(b) : (a \o b)[Len(a) + i] = b[i]
OBVIOUS

LEMMA Extended ==
  ASSUME NEW S, NEW a \in Seq(S), NEW x \in S
  PROVE  /\ a \o <<x>> \in Seq(S) /\ Len(a \o <<x>>) = Len(a) + 1
         /\ \A i \in 1..Len(a) : (a \o <<x>>)[i] = a[i]
         /\ (a \o <<x>>)[Len(a) + 1] = x
OBVIOUS

LEMMA Rest ==
  ASSUME NEW S, NEW s \in Seq(S), s # <<>>
  PROVE  /\ Tail(s) \in Seq(S) /\ Len(Tail(s)) = Len(s) - 1 /\ Len(s) \in Nat \ {0}
         /\ \A i \in 1..Len(s) - 1 : Tail(s)[i] = s[i + 1]
OBVIOUS

-----------------------------------------------------------------------------
(* The walks over the graph                                                  *)

USE AskedAssumption

(* A set of numbers with 0 in it and closed under successor has all numbers. *)
LEMMA AllNumbers ==
  ASSUME NEW P, 0 \in P, \A n \in Nat : n \in P => n + 1 \in P
  PROVE  \A n \in Nat : n \in P
<1>1. SUFFICES ASSUME NEW n \in Nat, n \notin P PROVE FALSE
  OBVIOUS
<1> DEFINE Out == {k \in 0 .. n : k \notin P}
<1>2. Out \subseteq Nat /\ IsFiniteSet(Out) /\ Out # {}
  <2>1. IsFiniteSet(0 .. n)
    BY FS_Interval
  <2>2. IsFiniteSet(Out)
    BY <2>1, FS_Subset
  <2> QED
    BY <1>1, <2>2
<1>3. PICK m \in Out : \A y \in Out : m <= y
  BY <1>2, LeastElement
<1>4. m # 0 /\ m \in Nat /\ m <= n /\ m - 1 \in Nat /\ m - 1 \notin Out
  BY <1>3
<1>5. m - 1 \in P
  BY <1>4
<1> QED
  BY <1>3, <1>4, <1>5

(* A set of numbers that is not empty has a least one.                       *)
LEMMA LeastNumber ==
  ASSUME NEW S, S \subseteq Nat, S # {}
  PROVE  \E m \in S : \A y \in S : m <= y
<1>1. PICK n \in S : TRUE
  OBVIOUS
<1> DEFINE Low == S \cap (0 .. n)
<1>2. Low \subseteq Nat /\ IsFiniteSet(Low) /\ Low # {}
  <2>1. IsFiniteSet(0 .. n)
    BY FS_Interval
  <2>2. IsFiniteSet(Low)
    BY <2>1, FS_Subset
  <2> QED
    BY <1>1, <2>2
<1>3. PICK m \in Low : \A y \in Low : m <= y
  BY <1>2, LeastElement
<1>4. ASSUME NEW y \in S PROVE m <= y
  <2>1. CASE y <= n
    BY <1>3, <2>1
  <2>2. CASE y > n
    BY <1>1, <1>3, <2>2
  <2> QED
    BY <1>1, <2>1, <2>2
<1> QED
  BY <1>3, <1>4

-----------------------------------------------------------------------------
(* What Spread computes *)

\* g holds the first k rounds of growing S by f
IsRing(g, S, f, k) ==
  /\ g \in [0 .. k -> SUBSET Nodes] /\ g[0] = S
  /\ \A j \in 0 .. k - 1 : g[j + 1] = g[j] \cup UNION {f[n] : n \in g[j]}

\* W holds all the rounds of growing S by f
IsGrowth(W, S, f) ==
  /\ W \in [Nat -> SUBSET Nodes] /\ W[0] = S
  /\ \A j \in Nat : W[j + 1] = W[j] \cup UNION {f[n] : n \in W[j]}

Leads == [Nodes -> SUBSET Nodes]

(* Each set of nodes has its rings: what it leads to in so many steps.      *)
LEMMA RingExists ==
  ASSUME NEW S \in SUBSET Nodes, NEW f \in Leads
  PROVE  \A k \in Nat : \E g : IsRing(g, S, f, k)
<1> DEFINE P == {k \in Nat : \E g : IsRing(g, S, f, k)}
<1>1. 0 \in P
  <2> DEFINE g == [j \in 0 .. 0 |-> S]
  <2>1. IsRing(g, S, f, 0)
    BY DEF IsRing
  <2> QED
    BY <2>1
<1>2. ASSUME NEW k \in Nat, k \in P PROVE k + 1 \in P
  <2>1. PICK g : IsRing(g, S, f, k)
    BY <1>2
  <2> DEFINE more == g[k] \cup UNION {f[n] : n \in g[k]}
             h == [j \in 0 .. k + 1 |-> IF j = k + 1 THEN more ELSE g[j]]
  <2>2. more \in SUBSET Nodes
    BY <2>1 DEF IsRing, Leads
  <2> HIDE DEF more
  <2>3. h \in [0 .. k + 1 -> SUBSET Nodes] /\ h[0] = S
    BY <2>1, <2>2 DEF IsRing
  <2>4. ASSUME NEW j \in 0 .. (k + 1) - 1
        PROVE  h[j + 1] = h[j] \cup UNION {f[n] : n \in h[j]}
    <3>1. h[j] = g[j]
      OBVIOUS
    <3>2. CASE j = k
      BY <3>1, <3>2 DEF more
    <3>3. CASE j # k
      <4>1. j \in 0 .. k - 1 /\ h[j + 1] = g[j + 1]
        BY <3>3
      <4> QED
        BY <3>1, <4>1, <2>1 DEF IsRing
    <3> QED
      BY <3>2, <3>3
  <2>5. IsRing(h, S, f, k + 1)
    BY <2>3, <2>4 DEF IsRing
  <2> QED
    BY <2>5
<1> HIDE DEF P
<1>3. \A k \in Nat : k \in P
  BY <1>1, <1>2, AllNumbers
<1> QED
  BY <1>3 DEF P

(* Two rings of one set agree as far as both go.                            *)
LEMMA RingsAgree ==
  ASSUME NEW S \in SUBSET Nodes, NEW f \in Leads, NEW k \in Nat, NEW m \in Nat,
         NEW g, NEW h, IsRing(g, S, f, k), IsRing(h, S, f, m)
  PROVE  \A j \in Nat : j <= k /\ j <= m => g[j] = h[j]
<1> DEFINE P == {j \in Nat : j <= k /\ j <= m => g[j] = h[j]}
<1>1. 0 \in P
  BY DEF IsRing
<1>2. ASSUME NEW j \in Nat, j \in P PROVE j + 1 \in P
  <2>1. SUFFICES ASSUME j + 1 <= k, j + 1 <= m PROVE g[j + 1] = h[j + 1]
    OBVIOUS
  <2>2. j \in 0 .. k - 1 /\ j \in 0 .. m - 1
    BY <2>1
  <2>3. g[j] = h[j]
    BY <1>2, <2>1
  <2>4. g[j + 1] = g[j] \cup UNION {f[n] : n \in g[j]}
    BY <2>2 DEF IsRing
  <2>5. h[j + 1] = h[j] \cup UNION {f[n] : n \in h[j]}
    BY <2>2 DEF IsRing
  <2> QED
    BY <2>3, <2>4, <2>5
<1> HIDE DEF P
<1>3. \A j \in Nat : j \in P
  BY <1>1, <1>2, AllNumbers
<1> QED
  BY <1>3 DEF P

(* The rings of a set are the beginnings of one sequence without end.       *)
LEMMA GrowthExists ==
  ASSUME NEW S \in SUBSET Nodes, NEW f \in Leads
  PROVE  \E W : IsGrowth(W, S, f) /\ \A g : \A k \in Nat : IsRing(g, S, f, k) => g[k] = W[k]
<1> DEFINE R(k) == CHOOSE g : IsRing(g, S, f, k)
           W == [k \in Nat |-> R(k)[k]]
<1>1. \A k \in Nat : IsRing(R(k), S, f, k)
  BY RingExists
<1> HIDE DEF R
<1>2. W \in [Nat -> SUBSET Nodes] /\ W[0] = S
  <2>1. \A k \in Nat : R(k) \in [0 .. k -> SUBSET Nodes]
    BY <1>1 DEF IsRing
  <2>2. \A k \in Nat : R(k)[k] \in SUBSET Nodes
    BY <2>1
  <2>3. R(0)[0] = S
    BY <1>1 DEF IsRing
  <2> QED
    BY <2>2, <2>3
<1>3. ASSUME NEW j \in Nat PROVE W[j + 1] = W[j] \cup UNION {f[n] : n \in W[j]}
  <2>1. j + 1 \in Nat /\ j \in 0 .. (j + 1) - 1 /\ j <= j + 1 /\ j <= j
    OBVIOUS
  <2>2. R(j + 1)[j + 1] = R(j + 1)[j] \cup UNION {f[n] : n \in R(j + 1)[j]}
    BY <1>1, <2>1 DEF IsRing
  <2>3. IsRing(R(j + 1), S, f, j + 1) /\ IsRing(R(j), S, f, j)
    BY <1>1, <2>1
  <2>4. R(j + 1)[j] = R(j)[j]
    <3>1. PICK g, h : g = R(j + 1) /\ h = R(j)
      OBVIOUS
    <3>2. IsRing(g, S, f, j + 1) /\ IsRing(h, S, f, j)
      BY <2>3, <3>1
    <3>3. \A i \in Nat : i <= j + 1 /\ i <= j => g[i] = h[i]
      <4> HIDE DEF W
      <4> QED
        BY <2>1, <3>2, RingsAgree
    <3> QED
      BY <2>1, <3>1, <3>3
  <2> QED
    BY <2>1, <2>2, <2>4
<1>4. ASSUME NEW k \in Nat, NEW g, IsRing(g, S, f, k) PROVE g[k] = W[k]
  <2>1. g[k] = R(k)[k]
    BY <1>1, <1>4, RingsAgree
  <2> QED
    BY <2>1
<1> HIDE DEF W
<1>5. IsGrowth(W, S, f)
  BY <1>2, <1>3 DEF IsGrowth
<1> QED
  BY <1>4, <1>5

-----------------------------------------------------------------------------
(* What a growth keeps *)

(* A growth never loses a node.                                             *)
LEMMA GrowthGrows ==
  ASSUME NEW S \in SUBSET Nodes, NEW f \in Leads, NEW W, IsGrowth(W, S, f)
  PROVE  \A i \in Nat : \A j \in Nat : i <= j => W[i] \subseteq W[j]
<1> SUFFICES ASSUME NEW i \in Nat PROVE \A j \in Nat : i <= j => W[i] \subseteq W[j]
  OBVIOUS
<1> DEFINE P == {j \in Nat : i <= j => W[i] \subseteq W[j]}
<1>1. 0 \in P
  BY DEF IsGrowth
<1>2. ASSUME NEW j \in Nat, j \in P PROVE j + 1 \in P
  <2>1. W[j] \subseteq W[j + 1]
    BY DEF IsGrowth
  <2>2. CASE i <= j
    BY <1>2, <2>1, <2>2
  <2>3. CASE i > j
    <3>1. i <= j + 1 => i = j + 1
      BY <2>3
    <3> QED
      BY <3>1
  <2> QED
    BY <2>2, <2>3
<1> HIDE DEF P
<1>3. \A j \in Nat : j \in P
  BY <1>1, <1>2, AllNumbers
<1> QED
  BY <1>3 DEF P

(* Nothing outside a set that has S and all it leads to is ever reached.     *)
LEMMA GrowthLeast ==
  ASSUME NEW S \in SUBSET Nodes, NEW f \in Leads, NEW W, IsGrowth(W, S, f),
         NEW T, S \subseteq T, \A n \in T \cap Nodes : f[n] \subseteq T
  PROVE  \A k \in Nat : W[k] \subseteq T
<1> DEFINE P == {k \in Nat : W[k] \subseteq T}
<1>1. 0 \in P
  BY DEF IsGrowth
<1>2. ASSUME NEW k \in Nat, k \in P PROVE k + 1 \in P
  <2>1. W[k] \subseteq T /\ W[k] \subseteq Nodes
    BY <1>2 DEF IsGrowth
  <2>2. W[k + 1] = W[k] \cup UNION {f[n] : n \in W[k]}
    BY DEF IsGrowth
  <2> QED
    BY <2>1, <2>2
<1> HIDE DEF P
<1>3. \A k \in Nat : k \in P
  BY <1>1, <1>2, AllNumbers
<1> QED
  BY <1>3 DEF P

(* As many rounds as there are nodes are enough.                             *)
LEMMA GrowthCloses ==
  ASSUME NEW S \in SUBSET Nodes, NEW f \in Leads, NEW W, IsGrowth(W, S, f)
  PROVE  \A n \in W[Cardinality(Nodes)] : f[n] \subseteq W[Cardinality(Nodes)]
<1> DEFINE N == Cardinality(Nodes)
           P == {j \in Nat : W[j + 1] = W[j] \/ Cardinality(W[j]) >= j}
<1>n. N \in Nat
  BY FS_CardinalityType
<1>w. \A j \in Nat : /\ W[j] \in SUBSET Nodes /\ IsFiniteSet(W[j]) /\ Cardinality(W[j]) \in Nat
                     /\ Cardinality(W[j]) <= N
  <2> TAKE j \in Nat
  <2>1. W[j] \in SUBSET Nodes
    BY DEF IsGrowth
  <2>2. IsFiniteSet(W[j]) /\ Cardinality(W[j]) <= N
    BY <2>1, FS_Subset
  <2> QED
    BY <2>1, <2>2, FS_CardinalityType
<1>g. \A j \in Nat : W[j + 1] = W[j] \cup UNION {f[n] : n \in W[j]}
  BY DEF IsGrowth
<1>1. ASSUME NEW j \in Nat, W[j + 1] # W[j]
      PROVE  Cardinality(W[j + 1]) >= Cardinality(W[j]) + 1
  <2>1. j + 1 \in Nat /\ W[j] \subseteq W[j + 1]
    BY <1>g
  <2>2. Cardinality(W[j]) <= Cardinality(W[j + 1]) /\ Cardinality(W[j + 1]) # Cardinality(W[j])
    BY <1>1, <1>w, <2>1, FS_Subset
  <2> QED
    BY <1>w, <2>1, <2>2
<1>2. 0 \in P
  BY <1>w
<1>3. ASSUME NEW j \in Nat, j \in P PROVE j + 1 \in P
  <2>1. CASE W[j + 1] = W[j]
    <3>1. W[(j + 1) + 1] = W[j + 1] \cup UNION {f[n] : n \in W[j + 1]}
      BY <1>g
    <3>2. W[(j + 1) + 1] = W[j] \cup UNION {f[n] : n \in W[j]}
      BY <2>1, <3>1
    <3>3. W[(j + 1) + 1] = W[j + 1]
      BY <1>g, <3>2
    <3> QED
      BY <3>3
  <2>2. CASE W[j + 1] # W[j]
    <3>1. Cardinality(W[j]) >= j
      BY <1>3, <2>2
    <3>2. Cardinality(W[j + 1]) >= j + 1
      BY <1>1, <1>w, <2>2, <3>1
    <3> QED
      BY <3>2
  <2> QED
    BY <2>1, <2>2
<1>4. \A j \in Nat : j \in P
  <2> HIDE DEF P
  <2> QED
    BY <1>2, <1>3, AllNumbers
<1>5. W[N + 1] = W[N]
  <2>1. SUFFICES ASSUME W[N + 1] # W[N] PROVE FALSE
    OBVIOUS
  <2>2. Cardinality(W[N]) >= N
    BY <1>4, <1>n, <2>1
  <2>3. Cardinality(W[N + 1]) >= Cardinality(W[N]) + 1
    BY <1>1, <1>n, <2>1
  <2>4. Cardinality(W[N + 1]) <= N /\ Cardinality(W[N + 1]) \in Nat /\ Cardinality(W[N]) \in Nat
    BY <1>w, <1>n
  <2> QED
    BY <1>n, <2>2, <2>3, <2>4
<1>6. W[N] = W[N] \cup UNION {f[n] : n \in W[N]}
  BY <1>g, <1>n, <1>5
<1> QED
  BY <1>6

GraphOK ==
  /\ graph \in [uses : SUBSET (Nodes \X Nodes), holds : SUBSET (Nodes \X Nodes)]
  /\ asked \in Asked

(* Rows lead to nodes, the neighbours of a node are some of them.           *)
LEMMA RowsAreNodes ==
  ASSUME GraphOK
  PROVE  \A n \in Nodes :
           /\ Used(n) \subseteq Nodes /\ Users(n) \subseteq Nodes
           /\ Held(n) \subseteq Nodes /\ Above(n) \subseteq Nodes
           /\ AdjacentHeld(n) \subseteq Nodes /\ AdjacentUsed(n) \subseteq Nodes
           /\ Adjacent(n) = AdjacentHeld(n) \cup AdjacentUsed(n)
           /\ Adjacent(n) \subseteq Nodes /\ Neighbours(n) \subseteq Nodes /\ Members(n) \subseteq Nodes
<1> SUFFICES ASSUME NEW n \in Nodes
             PROVE  /\ Used(n) \subseteq Nodes /\ Users(n) \subseteq Nodes
                    /\ Held(n) \subseteq Nodes /\ Above(n) \subseteq Nodes
                    /\ AdjacentHeld(n) \subseteq Nodes /\ AdjacentUsed(n) \subseteq Nodes
                    /\ Adjacent(n) = AdjacentHeld(n) \cup AdjacentUsed(n)
                    /\ Adjacent(n) \subseteq Nodes /\ Neighbours(n) \subseteq Nodes /\ Members(n) \subseteq Nodes
  OBVIOUS
<1>1. /\ Used(n) \subseteq Nodes /\ Users(n) \subseteq Nodes
      /\ Held(n) \subseteq Nodes /\ Above(n) \subseteq Nodes
  BY DEF Used, Users, Held, Above
<1>2. asked.direction \in {"outgoing", "incoming", "both"}
  BY DEF GraphOK
<1>3. AdjacentHeld(n) \subseteq Nodes /\ AdjacentUsed(n) \subseteq Nodes
  BY <1>1, <1>2 DEF AdjacentHeld, AdjacentUsed, Side
<1>4. Adjacent(n) = AdjacentHeld(n) \cup AdjacentUsed(n)
  BY DEF Adjacent
<1>5. asked.what \in Walks \cup {"bfs", "path", "ancestors", "cycles"}
  BY DEF GraphOK
<1>6. Adjacent(n) \subseteq Nodes
  BY <1>3, <1>4
<1>7. Neighbours(n) \subseteq Nodes
  BY <1>1, <1>5, <1>6 DEF Neighbours, Walks
<1>8. Members(n) \subseteq Nodes
  BY <1>1 DEF Members
<1> QED
  BY <1>1, <1>3, <1>4, <1>6, <1>7, <1>8

(* Spread over Members is a ring.                                           *)
LEMMA SpreadOfMembers ==
  ASSUME GraphOK, NEW S \in SUBSET Nodes, NEW k \in Nat,
         NEW f \in Leads, \A n \in Nodes : f[n] = Members(n)
  PROVE  \E g : IsRing(g, S, f, k) /\ Spread(S, Members, k) = g[k]
<1> DEFINE Body(h) == [j \in 0 .. k |-> IF j = 0 THEN S ELSE h[j - 1] \cup UNION {Members(n) : n \in h[j - 1]}]
           near == CHOOSE h : h = Body(h)
<1>1. Spread(S, Members, k) = near[k]
  BY DEF Spread
<1>2. PICK g : IsRing(g, S, f, k)
  BY RingExists
<1>3. g = Body(g)
  <2>1. g \in [0 .. k -> SUBSET Nodes] /\ g[0] = S
    BY <1>2 DEF IsRing
  <2>2. ASSUME NEW j \in 0 .. k, j # 0
        PROVE  g[j] = g[j - 1] \cup UNION {Members(n) : n \in g[j - 1]}
    <3>1. j - 1 \in 0 .. k - 1 /\ (j - 1) + 1 = j /\ j - 1 \in 0 .. k
      BY <2>2
    <3>2. g[j] = g[j - 1] \cup UNION {f[n] : n \in g[j - 1]}
      BY <1>2, <3>1 DEF IsRing
    <3>3. g[j - 1] \subseteq Nodes
      BY <2>1, <3>1
    <3> QED
      BY <3>2, <3>3
  <2> QED
    BY <2>1, <2>2
<1>4. near = Body(near)
  BY <1>3
<1> HIDE DEF near
<1> DEFINE P == {j \in Nat : j <= k => near[j] = g[j]}
<1>5. 0 \in P
  <2>1. 0 \in 0 .. k
    OBVIOUS
  <2>2. near[0] = S /\ g[0] = S
    BY <1>2, <1>4, <2>1 DEF IsRing
  <2> QED
    BY <2>2
<1>6. ASSUME NEW j \in Nat, j \in P PROVE j + 1 \in P
  <2>1. SUFFICES ASSUME j + 1 <= k PROVE near[j + 1] = g[j + 1]
    OBVIOUS
  <2>2. j + 1 \in 0 .. k /\ (j + 1) - 1 = j /\ j + 1 # 0 /\ near[j] = g[j]
    BY <1>6, <2>1
  <2>3. near[j + 1] = near[j] \cup UNION {Members(n) : n \in near[j]}
    BY <1>4, <2>2
  <2>4. g[j + 1] = g[j] \cup UNION {Members(n) : n \in g[j]}
    BY <1>3, <2>2
  <2> QED
    BY <2>2, <2>3, <2>4
<1>7. near[k] = g[k]
  <2> HIDE DEF P
  <2>1. \A j \in Nat : j \in P
    BY <1>5, <1>6, AllNumbers
  <2> QED
    BY <2>1 DEF P
<1> QED
  BY <1>1, <1>2, <1>7

(* Spread over Step is a ring.                                              *)
LEMMA SpreadOfSteps ==
  ASSUME GraphOK, NEW S \in SUBSET Nodes, NEW k \in Nat,
         NEW f \in Leads, \A n \in Nodes : f[n] = Step(n)
  PROVE  \E g : IsRing(g, S, f, k) /\ Spread(S, Step, k) = g[k]
<1> DEFINE Body(h) == [j \in 0 .. k |-> IF j = 0 THEN S ELSE h[j - 1] \cup UNION {Step(n) : n \in h[j - 1]}]
           near == CHOOSE h : h = Body(h)
<1>1. Spread(S, Step, k) = near[k]
  BY DEF Spread
<1>2. PICK g : IsRing(g, S, f, k)
  BY RingExists
<1>3. g = Body(g)
  <2>1. g \in [0 .. k -> SUBSET Nodes] /\ g[0] = S
    BY <1>2 DEF IsRing
  <2>2. ASSUME NEW j \in 0 .. k, j # 0
        PROVE  g[j] = g[j - 1] \cup UNION {Step(n) : n \in g[j - 1]}
    <3>1. j - 1 \in 0 .. k - 1 /\ (j - 1) + 1 = j /\ j - 1 \in 0 .. k
      BY <2>2
    <3>2. g[j] = g[j - 1] \cup UNION {f[n] : n \in g[j - 1]}
      BY <1>2, <3>1 DEF IsRing
    <3>3. g[j - 1] \subseteq Nodes
      BY <2>1, <3>1
    <3> QED
      BY <3>2, <3>3
  <2> QED
    BY <2>1, <2>2
<1>4. near = Body(near)
  BY <1>3
<1> HIDE DEF near
<1> DEFINE P == {j \in Nat : j <= k => near[j] = g[j]}
<1>5. 0 \in P
  <2>1. 0 \in 0 .. k
    OBVIOUS
  <2>2. near[0] = S /\ g[0] = S
    BY <1>2, <1>4, <2>1 DEF IsRing
  <2> QED
    BY <2>2
<1>6. ASSUME NEW j \in Nat, j \in P PROVE j + 1 \in P
  <2>1. SUFFICES ASSUME j + 1 <= k PROVE near[j + 1] = g[j + 1]
    OBVIOUS
  <2>2. j + 1 \in 0 .. k /\ (j + 1) - 1 = j /\ j + 1 # 0 /\ near[j] = g[j]
    BY <1>6, <2>1
  <2>3. near[j + 1] = near[j] \cup UNION {Step(n) : n \in near[j]}
    BY <1>4, <2>2
  <2>4. g[j + 1] = g[j] \cup UNION {Step(n) : n \in g[j]}
    BY <1>3, <2>2
  <2> QED
    BY <2>2, <2>3, <2>4
<1>7. near[k] = g[k]
  <2> HIDE DEF P
  <2>1. \A j \in Nat : j \in P
    BY <1>5, <1>6, AllNumbers
  <2> QED
    BY <2>1 DEF P
<1> QED
  BY <1>1, <1>2, <1>7

-----------------------------------------------------------------------------
(* What the walks are measured against *)

(* WithMembers adds all members, at any depth, and no more than that.        *)
LEMMA MembersFacts ==
  ASSUME GraphOK
  PROVE  \A S \in SUBSET Nodes :
           /\ S \subseteq WithMembers(S) /\ WithMembers(S) \subseteq Nodes
           /\ \A n \in WithMembers(S) : Members(n) \subseteq WithMembers(S)
           /\ \A T : S \subseteq T /\ (\A n \in T \cap Nodes : Members(n) \subseteq T) => WithMembers(S) \subseteq T
<1> SUFFICES ASSUME NEW S \in SUBSET Nodes
             PROVE  /\ S \subseteq WithMembers(S) /\ WithMembers(S) \subseteq Nodes
                    /\ \A n \in WithMembers(S) : Members(n) \subseteq WithMembers(S)
                    /\ \A T : S \subseteq T /\ (\A n \in T \cap Nodes : Members(n) \subseteq T) => WithMembers(S) \subseteq T
  OBVIOUS
<1> DEFINE N == Cardinality(Nodes)
           f == [n \in Nodes |-> Members(n)]
<1>1. CASE asked.what # "impact"
  <2>1. WithMembers(S) = S /\ \A n : Members(n) = {}
    BY <1>1 DEF WithMembers, Members
  <2> QED
    BY <2>1
<1>2. CASE asked.what = "impact"
  <2>1. N \in Nat /\ 0 <= N
    BY FS_CardinalityType
  <2>2. f \in Leads /\ \A n \in Nodes : f[n] = Members(n)
    BY RowsAreNodes DEF Leads
  <2> HIDE DEF f
  <2>3. PICK W : IsGrowth(W, S, f) /\ \A g : \A k \in Nat : IsRing(g, S, f, k) => g[k] = W[k]
    BY <2>2, GrowthExists
  <2>4. WithMembers(S) = W[N]
    <3>1. WithMembers(S) = Spread(S, Members, N)
      BY <1>2 DEF WithMembers
    <3>2. PICK g : IsRing(g, S, f, N) /\ Spread(S, Members, N) = g[N]
      BY <2>1, <2>2, SpreadOfMembers
    <3> QED
      BY <2>1, <2>3, <3>1, <3>2
  <2>5. W[0] = S /\ W[0] \subseteq W[N] /\ W[N] \subseteq Nodes
    <3>1. W[0] = S /\ W[N] \subseteq Nodes
      BY <2>1, <2>3 DEF IsGrowth
    <3>2. W[0] \subseteq W[N]
      BY <2>1, <2>2, <2>3, GrowthGrows
    <3> QED
      BY <3>1, <3>2
  <2>6. \A n \in W[N] : f[n] \subseteq W[N]
    BY <2>2, <2>3, GrowthCloses
  <2>7. ASSUME NEW T, S \subseteq T, \A n \in T \cap Nodes : Members(n) \subseteq T
        PROVE  W[N] \subseteq T
    <3>1. \A n \in T \cap Nodes : f[n] \subseteq T
      BY <2>2, <2>7
    <3>2. IsGrowth(W, S, f) /\ S \subseteq T /\ f \in Leads
      BY <2>2, <2>3, <2>7
    <3>3. \A k \in Nat : W[k] \subseteq T
      BY <3>1, <3>2, GrowthLeast
    <3> QED
      BY <2>1, <3>3
  <2> QED
    BY <2>2, <2>4, <2>5, <2>6, <2>7
<1> QED
  BY <1>1, <1>2

StepsLead == [n \in Nodes |-> Step(n)]

(* A step leads to the neighbours of a node and to all that these hold.     *)
LEMMA StepFacts ==
  ASSUME GraphOK
  PROVE  /\ StepsLead \in Leads
         /\ \A n \in Nodes : /\ StepsLead[n] = Step(n) /\ Step(n) \subseteq Nodes
                             /\ Neighbours(n) \subseteq Step(n)
                             /\ \A m \in Step(n) : Members(m) \subseteq Step(n)
<1>1. ASSUME NEW n \in Nodes
      PROVE  /\ Step(n) \subseteq Nodes /\ Neighbours(n) \subseteq Step(n)
             /\ \A m \in Step(n) : Members(m) \subseteq Step(n)
  <2>1. Neighbours(n) \in SUBSET Nodes
    BY RowsAreNodes
  <2> QED
    BY <2>1, MembersFacts DEF Step
<1> QED
  BY <1>1 DEF StepsLead, Leads

\* the nodes 0, 1, ... steps from n
IsNear(W, n) == /\ IsGrowth(W, WithMembers({n}), StepsLead)
                /\ \A k \in Nat : Within(n, k) = W[k]

(* What is within so many steps of a node is a growth.                      *)
LEMMA NearExists ==
  ASSUME GraphOK, NEW n \in Nodes
  PROVE  WithMembers({n}) \in SUBSET Nodes /\ \E W : IsNear(W, n)
<1>1. WithMembers({n}) \in SUBSET Nodes
  BY MembersFacts
<1>2. StepsLead \in Leads /\ \A m \in Nodes : StepsLead[m] = Step(m)
  BY StepFacts
<1>3. PICK W : /\ IsGrowth(W, WithMembers({n}), StepsLead)
               /\ \A g : \A k \in Nat : IsRing(g, WithMembers({n}), StepsLead, k) => g[k] = W[k]
  BY <1>1, <1>2, GrowthExists
<1>4. ASSUME NEW k \in Nat PROVE Within(n, k) = W[k]
  <2>1. PICK g : IsRing(g, WithMembers({n}), StepsLead, k) /\ Spread(WithMembers({n}), Step, k) = g[k]
    BY <1>1, <1>2, SpreadOfSteps
  <2> QED
    BY <1>3, <2>1 DEF Within
<1> QED
  BY <1>1, <1>3, <1>4 DEF IsNear

(* The nodes k steps away: n itself at none, members with their containers,  *)
(* the neighbours one step farther, and in the end all there is to reach.    *)
LEMMA WithinFacts ==
  ASSUME GraphOK, NEW n \in Nodes
  PROVE  /\ Within(n, 0) = WithMembers({n}) /\ n \in Within(n, 0)
         /\ \A k \in Nat : /\ n \in Within(n, k) /\ Within(n, k) \subseteq Nodes
                           /\ Within(n, k + 1) = Within(n, k) \cup UNION {Step(x) : x \in Within(n, k)}
                           /\ \A x \in Within(n, k) : Neighbours(x) \subseteq Within(n, k + 1)
         /\ \A j \in Nat : \A k \in Nat : j <= k => Within(n, j) \subseteq Within(n, k)
<1>1. PICK W : IsNear(W, n)
  BY NearExists
<1>2. WithMembers({n}) \in SUBSET Nodes /\ n \in WithMembers({n})
  BY MembersFacts
<1>3. \A k \in Nat : Within(n, k) = W[k] /\ W[k] \in SUBSET Nodes
  BY <1>1 DEF IsNear, IsGrowth
<1>4. StepsLead \in Leads /\ \A m \in Nodes : StepsLead[m] = Step(m) /\ Neighbours(m) \subseteq Step(m)
  BY StepFacts
<1>5. W[0] = WithMembers({n})
  BY <1>1 DEF IsNear, IsGrowth
<1>6. \A j \in Nat : \A k \in Nat : j <= k => W[j] \subseteq W[k]
  BY <1>1, <1>2, <1>4, GrowthGrows DEF IsNear
<1>7. ASSUME NEW k \in Nat
      PROVE  /\ n \in Within(n, k) /\ Within(n, k) \subseteq Nodes
             /\ Within(n, k + 1) = Within(n, k) \cup UNION {Step(x) : x \in Within(n, k)}
             /\ \A x \in Within(n, k) : Neighbours(x) \subseteq Within(n, k + 1)
  <2>1. W[0] \subseteq W[k] /\ k + 1 \in Nat
    BY <1>6
  <2>2. W[k + 1] = W[k] \cup UNION {StepsLead[x] : x \in W[k]}
    BY <1>1 DEF IsNear, IsGrowth
  <2>3. W[k + 1] = W[k] \cup UNION {Step(x) : x \in W[k]}
    BY <1>3, <1>4, <2>2
  <2>4. \A x \in W[k] : Neighbours(x) \subseteq W[k + 1]
    BY <1>3, <1>4, <2>3
  <2>5. Within(n, k) = W[k] /\ Within(n, k + 1) = W[k + 1] /\ W[k] \subseteq Nodes
    BY <1>3, <2>1
  <2> QED
    BY <1>2, <1>5, <2>1, <2>3, <2>4, <2>5
<1>8. Within(n, 0) = WithMembers({n})
  BY <1>3, <1>5
<1> QED
  BY <1>2, <1>3, <1>6, <1>7, <1>8

(* What a container holds is as near as the container.                      *)
LEMMA WithinHoldsMembers ==
  ASSUME GraphOK, NEW n \in Nodes
  PROVE  \A k \in Nat : \A x \in Within(n, k) : Members(x) \subseteq Within(n, k)
<1> DEFINE P == {k \in Nat : \A x \in Within(n, k) : Members(x) \subseteq Within(n, k)}
<1>1. 0 \in P
  <2>1. {n} \in SUBSET Nodes
    OBVIOUS
  <2>2. \A x \in WithMembers({n}) : Members(x) \subseteq WithMembers({n})
    BY <2>1, MembersFacts
  <2> QED
    BY <2>2, WithinFacts
<1>2. ASSUME NEW k \in Nat, k \in P PROVE k + 1 \in P
  <2>1. /\ Within(n, k + 1) = Within(n, k) \cup UNION {Step(x) : x \in Within(n, k)}
        /\ Within(n, k) \subseteq Nodes
    BY WithinFacts
  <2>2. \A x \in Nodes : \A m \in Step(x) : Members(m) \subseteq Step(x)
    BY StepFacts
  <2>3. \A x \in Within(n, k + 1) : Members(x) \subseteq Within(n, k + 1)
    BY <1>2, <2>1, <2>2
  <2> QED
    BY <2>3
<1> HIDE DEF P
<1>3. \A k \in Nat : k \in P
  BY <1>1, <1>2, AllNumbers
<1> QED
  BY <1>3 DEF P

(* A set with n, and closed under members and neighbours, has all of it.     *)
LEMMA WithinLeast ==
  ASSUME GraphOK, NEW n \in Nodes, NEW T, n \in T,
         \A x \in T \cap Nodes : Members(x) \subseteq T /\ Neighbours(x) \subseteq T
  PROVE  \A k \in Nat : Within(n, k) \subseteq T
<1>1. PICK W : IsNear(W, n)
  BY NearExists
<1>2. {n} \in SUBSET Nodes /\ WithMembers({n}) \in SUBSET Nodes
  BY MembersFacts
<1>3. WithMembers({n}) \subseteq T
  BY <1>2, MembersFacts
<1>4. StepsLead \in Leads
  BY StepFacts
<1>5. ASSUME NEW x \in T \cap Nodes PROVE StepsLead[x] \subseteq T
  <2>1. StepsLead[x] = WithMembers(Neighbours(x))
    BY StepFacts DEF Step
  <2>2. Neighbours(x) \in SUBSET Nodes /\ Neighbours(x) \subseteq T
    BY RowsAreNodes
  <2>3. WithMembers(Neighbours(x)) \subseteq T
    BY <2>2, MembersFacts
  <2> QED
    BY <2>1, <2>3
<1>6. \A k \in Nat : W[k] \subseteq T
  <2>1. PICK S \in SUBSET Nodes : S = WithMembers({n})
    BY <1>2
  <2>2. PICK f \in Leads : f = StepsLead
    BY <1>4
  <2>3. IsGrowth(W, S, f)
    BY <1>1, <2>1, <2>2 DEF IsNear
  <2>4. S \subseteq T /\ \A x \in T \cap Nodes : f[x] \subseteq T
    BY <1>3, <1>5, <2>1, <2>2
  <2> QED
    BY <2>3, <2>4, GrowthLeast
<1> QED
  BY <1>1, <1>6 DEF IsNear

\* all that n leads to
All(n) == Within(n, Cardinality(Nodes))

(* Within as many steps as there are nodes lies all there is to find.       *)
LEMMA AllFacts ==
  ASSUME GraphOK, NEW n \in Nodes
  PROVE  /\ n \in All(n) /\ All(n) \subseteq Nodes
         /\ \A x \in All(n) : Members(x) \subseteq All(n) /\ Neighbours(x) \subseteq All(n)
         /\ \A k \in Nat : Within(n, k) \subseteq All(n)
<1> DEFINE N == Cardinality(Nodes)
<1>1. N \in Nat
  BY FS_CardinalityType
<1>2. PICK W : IsNear(W, n)
  BY NearExists
<1>3. WithMembers({n}) \in SUBSET Nodes /\ StepsLead \in Leads
  BY NearExists, StepFacts
<1>4. \A x \in W[N] : StepsLead[x] \subseteq W[N]
  BY <1>2, <1>3, GrowthCloses DEF IsNear
<1>5. All(n) = W[N] /\ W[N] \subseteq Nodes
  BY <1>1, <1>2 DEF IsNear, IsGrowth, All
<1>6. n \in All(n)
  BY <1>1, WithinFacts DEF All
<1>7. \A x \in Nodes : Neighbours(x) \subseteq StepsLead[x]
  BY StepFacts
<1>8. \A x \in All(n) : Members(x) \subseteq All(n)
  BY <1>1, WithinHoldsMembers DEF All
<1>9. \A x \in All(n) : Neighbours(x) \subseteq All(n)
  BY <1>4, <1>5, <1>7
<1>10. \A k \in Nat : Within(n, k) \subseteq All(n)
  BY <1>6, <1>8, <1>9, WithinLeast
<1> QED
  BY <1>5, <1>6, <1>8, <1>9, <1>10

(* What leads on, leads on to no more.                                       *)
LEMMA AllOfAll ==
  ASSUME GraphOK, NEW n \in Nodes, NEW m \in All(n)
  PROVE  All(m) \subseteq All(n)
<1>1. m \in Nodes /\ Cardinality(Nodes) \in Nat
  BY AllFacts, FS_CardinalityType
<1>2. \A x \in All(n) \cap Nodes : Members(x) \subseteq All(n) /\ Neighbours(x) \subseteq All(n)
  BY AllFacts
<1>3. \A k \in Nat : Within(m, k) \subseteq All(n)
  BY <1>1, <1>2, WithinLeast
<1> QED
  BY <1>1, <1>3 DEF All

Paths  == Seq(Nodes) \ {<<>>}
Frames == [at : Nodes, depth : Nat, members : SUBSET Nodes, rows : SUBSET Nodes]
Queued == {"bfs", "path", "ancestors"}

Shape ==
  /\ GraphOK
  /\ leg \in {"up", "down"} /\ answered \in BOOLEAN
  /\ visited \subseteq Nodes /\ found \subseteq Nodes
  /\ links \subseteq Nodes \X Nodes /\ reports \subseteq Seq(Nodes)
  /\ queue \in Seq(Paths) /\ stack \in Seq(Frames)
  /\ asked.what \in Queued => stack = <<>>
  /\ asked.what \notin Queued => queue = <<>>
  /\ asked.what = "ancestors" => queue # <<>>
  /\ asked.what = "hierarchy" => Start \in visited
  /\ leg = "down" => asked.what = "hierarchy" /\ stack = <<>>

FramesApart ==
  /\ \A i \in 1 .. Len(stack) : stack[i].at \in visited /\ stack[i].depth <= Len(stack) - i
  /\ \A i, j \in 1 .. Len(stack) : stack[i].at = stack[j].at => i = j

-----------------------------------------------------------------------------
(* The queue *)

\* T is what is left of q without its head
HeadGone(T, q) ==
  /\ T \in Seq(Paths) /\ Len(T) = Len(q) - 1
  /\ \A k \in 1 .. Len(T) : T[k] = q[k] \/ T[k] = q[k + 1]
  /\ \A j \in 2 .. Len(q) : \E k \in 1 .. Len(T) : T[k] = q[j]

\* H has the paths that go on from p to each of M
Hopped(H, p, M) ==
  /\ H \in Seq(Paths)
  /\ \A k \in 1 .. Len(H) : \E m \in M : H[k] = Append(p, m)
  /\ \A m \in M : \E k \in 1 .. Len(H) : H[k] = Append(p, m)

(* A path with one more node.                                               *)
LEMMA LongerPath ==
  ASSUME NEW p \in Paths, NEW m \in Nodes
  PROVE  /\ Append(p, m) \in Paths /\ Len(Append(p, m)) = Len(p) + 1 /\ Len(p) \in Nat \ {0}
         /\ Append(p, m)[Len(p) + 1] = m /\ Last(Append(p, m)) = m
         /\ \A i \in 1 .. Len(p) : Append(p, m)[i] = p[i]
BY DEF Paths, Last

(* The tail of a queue is the queue without its head.                       *)
LEMMA TailGone ==
  ASSUME NEW q \in Seq(Paths), q # <<>>
  PROVE  HeadGone(Tail(q), q)
<1>1. /\ Tail(q) \in Seq(Paths) /\ Len(Tail(q)) = Len(q) - 1 /\ Len(q) \in Nat \ {0}
      /\ \A i \in 1 .. Len(q) - 1 : Tail(q)[i] = q[i + 1]
  BY Rest
<1>2. ASSUME NEW j \in 2 .. Len(q) PROVE \E k \in 1 .. Len(Tail(q)) : Tail(q)[k] = q[j]
  <2>1. j - 1 \in 1 .. Len(q) - 1 /\ (j - 1) + 1 = j
    BY <1>1
  <2> QED
    BY <1>1, <2>1
<1> QED
  BY <1>1, <1>2 DEF HeadGone

(* PathRest, too, is the queue without its head.                            *)
LEMMA RestGone ==
  ASSUME NEW q \in Seq(Paths), q # <<>>
  PROVE  HeadGone(PathRest(q), q)
<1> DEFINE i == CHOOSE i \in DOMAIN q : q[i] = PathNext(q)
<1>1. Len(q) \in Nat \ {0} /\ DOMAIN q = 1 .. Len(q) /\ PathNext(q) = q[1] /\ 1 \in DOMAIN q
  BY Elements DEF PathNext
<1>2. i \in 1 .. Len(q) /\ q[i] = q[1]
  BY <1>1
<1>3. PathRest(q) = RemoveAt(q, i)
  BY DEF PathRest
<1> HIDE DEF i
<1> DEFINE a == SubSeq(q, 1, i - 1)
           b == SubSeq(q, i + 1, Len(q))
<1>4. /\ a \in Seq(Paths) /\ Len(a) = i - 1
      /\ \A k \in 1 .. i - 1 : a[k] = q[k]
  BY <1>1, <1>2
<1>5. /\ b \in Seq(Paths) /\ Len(b) = Len(q) - i
      /\ \A k \in 1 .. Len(q) - i : b[k] = q[i + k]
  <2>1. b = [k \in 1 .. Len(q) - i |-> q[i + k]] /\ Len(q) - i \in Nat
    BY <1>1, <1>2
  <2> HIDE DEF b
  <2>2. \A k \in 1 .. Len(q) - i : i + k \in 1 .. Len(q)
    BY <1>1, <1>2
  <2>3. \A k \in 1 .. Len(q) : q[k] \in Paths
    BY Elements
  <2>4. b \in [1 .. Len(q) - i -> Paths]
    BY <2>1, <2>2, <2>3
  <2>5. b \in Seq(Paths) /\ Len(b) = Len(q) - i
    BY <2>1, <2>4
  <2> QED
    BY <2>1, <2>5
<1>6. PathRest(q) = a \o b
  BY <1>3 DEF RemoveAt
<1> HIDE DEF a, b
<1> DEFINE T == a \o b
<1>7. /\ T \in Seq(Paths) /\ Len(T) = Len(a) + Len(b)
      /\ \A k \in 1 .. Len(a) : T[k] = a[k]
      /\ \A k \in 1 .. Len(b) : T[Len(a) + k] = b[k]
  <2>1. a \in Seq(Paths) /\ b \in Seq(Paths)
    BY <1>4, <1>5
  <2> QED
    BY <2>1, Joined
<1> HIDE DEF T
<1>8. Len(T) = Len(q) - 1
  BY <1>1, <1>2, <1>4, <1>5, <1>7
<1>9. \A k \in 1 .. i - 1 : T[k] = q[k]
  BY <1>2, <1>4, <1>7
<1>10. ASSUME NEW k \in i .. Len(q) - 1 PROVE T[k] = q[k + 1]
  <2>1. k - (i - 1) \in 1 .. Len(q) - i /\ Len(a) + (k - (i - 1)) = k /\ i + (k - (i - 1)) = k + 1
    BY <1>1, <1>2, <1>4
  <2>2. T[Len(a) + (k - (i - 1))] = b[k - (i - 1)] /\ b[k - (i - 1)] = q[i + (k - (i - 1))]
    BY <1>5, <1>7, <2>1
  <2> QED
    BY <2>1, <2>2
<1>11. \A k \in 1 .. Len(T) : T[k] = q[k] \/ T[k] = q[k + 1]
  BY <1>1, <1>2, <1>8, <1>9, <1>10
<1>12. ASSUME NEW j \in 2 .. Len(q) PROVE \E k \in 1 .. Len(T) : T[k] = q[j]
  <2>1. CASE j < i
    <3>1. j \in 1 .. i - 1 /\ j \in 1 .. Len(T)
      BY <1>1, <1>2, <1>8, <2>1
    <3> QED
      BY <1>9, <3>1
  <2>2. CASE j = i
    <3>1. 1 \in 1 .. i - 1 /\ 1 \in 1 .. Len(T)
      BY <1>1, <1>2, <1>8, <2>2
    <3> QED
      BY <1>2, <1>9, <2>2, <3>1
  <2>3. CASE j > i
    <3>1. j - 1 \in i .. Len(q) - 1 /\ j - 1 \in 1 .. Len(T) /\ (j - 1) + 1 = j
      BY <1>1, <1>2, <1>8, <2>3
    <3>2. T[j - 1] = q[(j - 1) + 1]
      BY <1>10, <3>1
    <3> QED
      BY <3>1, <3>2
  <2> QED
    BY <1>1, <1>2, <2>1, <2>2, <2>3
<1> QED
  BY <1>6, <1>7, <1>8, <1>11, <1>12 DEF HeadGone, T

(* An order of a set has its elements, all of them.                         *)
LEMMA OrderOfSet ==
  ASSUME NEW X, X \subseteq Nodes, NEW a \in SetToSeqs(X)
  PROVE  /\ a \in Seq(X) /\ \A m \in X : \E k \in 1 .. Len(a) : a[k] = m
<1> DEFINE D == 1 .. Cardinality(X)
<1>1. IsFiniteSet(X) /\ Cardinality(X) \in Nat
  BY FS_Subset, FS_CardinalityType
<1>2. a \in [D -> X] /\ \A i, j \in D : i # j => a[i] # a[j]
  BY DEF SetToSeqs
<1>3. a \in Injection(D, X)
  BY <1>2 DEF Injection, IsInjective
<1>4. IsFiniteSet(D) /\ Cardinality(D) = Cardinality(X)
  <2>1. 1 \in Int /\ Cardinality(X) \in Int
    BY <1>1
  <2>2. IsFiniteSet(D) /\ Cardinality(D) = IF 1 > Cardinality(X) THEN 0 ELSE Cardinality(X) - 1 + 1
    BY <2>1, FS_Interval
  <2> QED
    BY <1>1, <2>2
<1>5. a \in Surjection(D, X)
  <2> HIDE DEF D
  <2> QED
    BY <1>1, <1>3, <1>4, FS_Injection
<1>6. a \in Seq(X) /\ Len(a) = Cardinality(X)
  BY <1>1, <1>2
<1>7. \A m \in X : \E k \in D : a[k] = m
  BY <1>5 DEF Surjection
<1> QED
  BY <1>6, <1>7

(* An order by structure has the neighbours not seen, all of them.          *)
LEMMA OrderOfStructure ==
  ASSUME GraphOK, NEW n \in Nodes, NEW seen, NEW order \in StructureFirst(n, seen)
  PROVE  /\ order \in Seq(Adjacent(n) \ seen)
         /\ \A m \in Adjacent(n) \ seen : \E k \in 1 .. Len(order) : order[k] = m
<1> DEFINE X == AdjacentHeld(n) \ seen
           Y == AdjacentUsed(n) \ seen
<1>x. X \subseteq Nodes /\ Y \subseteq Nodes /\ X \cup Y = Adjacent(n) \ seen
  BY RowsAreNodes
<1>p. \E a \in SetToSeqs(X), b \in SetToSeqs(Y) : order = a \o b
  BY DEF StructureFirst
<1> HIDE DEF X, Y
<1>q. PICK a \in SetToSeqs(X), b \in SetToSeqs(Y) : order = a \o b
  BY <1>p
<1>1. a \in Seq(X) /\ \A m \in X : \E k \in 1 .. Len(a) : a[k] = m
  BY <1>x, OrderOfSet
<1>2. b \in Seq(Y) /\ \A m \in Y : \E k \in 1 .. Len(b) : b[k] = m
  BY <1>x, OrderOfSet
<1>3. a \in Seq(X \cup Y) /\ b \in Seq(X \cup Y)
  BY <1>1, <1>2, Wider
<1>4. /\ a \o b \in Seq(X \cup Y) /\ Len(a \o b) = Len(a) + Len(b)
      /\ \A i \in 1 .. Len(a) : (a \o b)[i] = a[i]
      /\ \A i \in 1 .. Len(b) : (a \o b)[Len(a) + i] = b[i]
  BY <1>3, Joined
<1>5. Len(a) \in Nat /\ Len(b) \in Nat
  BY <1>1, <1>2
<1>6. ASSUME NEW m \in X PROVE \E k \in 1 .. Len(order) : order[k] = m
  <2>1. PICK k \in 1 .. Len(a) : a[k] = m
    BY <1>1
  <2>2. k \in 1 .. Len(a \o b)
    BY <1>4, <1>5
  <2> QED
    BY <1>q, <1>4, <2>1, <2>2
<1>7. ASSUME NEW m \in Y PROVE \E k \in 1 .. Len(order) : order[k] = m
  <2>1. PICK k \in 1 .. Len(b) : b[k] = m
    BY <1>2
  <2>2. Len(a) + k \in 1 .. Len(a \o b)
    BY <1>4, <1>5
  <2> QED
    BY <1>q, <1>4, <2>1, <2>2
<1> QED
  BY <1>x, <1>q, <1>4, <1>6, <1>7

(* Hop continues a path to each node of an order.                           *)
LEMMA HopOver ==
  ASSUME NEW p \in Paths, NEW M, M \subseteq Nodes, NEW order \in Seq(M),
         \A m \in M : \E k \in 1 .. Len(order) : order[k] = m
  PROVE  Hopped(Hop(p, order), p, M)
<1>1. Len(order) \in Nat /\ DOMAIN order = 1 .. Len(order) /\ \A k \in 1 .. Len(order) : order[k] \in M
  BY Elements
<1>2. \A m \in M : Append(p, m) \in Paths
  BY LongerPath
<1>3. Hop(p, order) = [i \in 1 .. Len(order) |-> Append(p, order[i])]
  BY <1>1 DEF Hop
<1>4. Hop(p, order) \in Seq(Paths) /\ Len(Hop(p, order)) = Len(order)
  BY <1>1, <1>2, <1>3
<1>5. \A i \in 1 .. Len(order) : Hop(p, order)[i] = Append(p, order[i])
  BY <1>3
<1> QED
  BY <1>1, <1>4, <1>5 DEF Hopped

(* A question is of one of the nine kinds.                                   *)
LEMMA Question ==
  ASSUME GraphOK
  PROVE  /\ asked.what \in {"dfs", "callers", "callees", "impact", "hierarchy", "bfs", "path", "ancestors", "cycles"}
         /\ asked.depth \in Nat /\ asked.limit \in Nat /\ asked.goal \in Nodes
BY DEF GraphOK, Walks

(* The rows a recursive walk reads are the neighbours.                      *)
LEMMA RowsAreNeighbours ==
  ASSUME GraphOK, asked.what \in Walks \cup {"cycles"}, leg = "up"
  PROVE  \A n : Rows(n) = Neighbours(n)
BY DEF Rows, Neighbours, Walks

-----------------------------------------------------------------------------
(* The frames *)

\* s is the stack with M off the members of the innermost frame, and R off its rows
Shrunk(s, M, R) ==
  /\ s \in Seq(Frames) /\ Len(s) = Len(stack) /\ Len(stack) \in Nat \ {0}
  /\ \A i \in 1 .. Len(stack) : s[i].at = stack[i].at /\ s[i].depth = stack[i].depth
  /\ \A i \in 2 .. Len(stack) : s[i] = stack[i]
  /\ s[1].members = stack[1].members \ M /\ s[1].rows = stack[1].rows \ R

\* t is s with one more frame, innermost
Stacked(t, s, frame) ==
  /\ t \in Seq(Frames) /\ Len(t) = Len(s) + 1 /\ t[1] = frame
  /\ \A i \in 1 .. Len(s) : t[i + 1] = s[i]

(* A frame pushed is on top, the others below it as they were.              *)
LEMMA PushGrows ==
  ASSUME NEW s \in Seq(Frames), NEW frame \in Frames
  PROVE  Stacked(<<frame>> \o s, s, frame)
<1>1. <<frame>> \in Seq(Frames) /\ Len(<<frame>>) = 1 /\ <<frame>>[1] = frame
  OBVIOUS
<1>2. /\ <<frame>> \o s \in Seq(Frames) /\ Len(<<frame>> \o s) = Len(<<frame>>) + Len(s)
      /\ \A i \in 1 .. Len(<<frame>>) : (<<frame>> \o s)[i] = <<frame>>[i]
      /\ \A i \in 1 .. Len(s) : (<<frame>> \o s)[Len(<<frame>>) + i] = s[i]
  BY <1>1, Joined
<1>3. Len(s) \in Nat
  OBVIOUS
<1>4. \A i \in 1 .. Len(s) : 1 + i = i + 1
  OBVIOUS
<1> QED
  BY <1>1, <1>2, <1>3, <1>4 DEF Stacked

(* Under replaces the innermost frame.                                      *)
LEMMA UnderFacts ==
  ASSUME stack \in Seq(Frames), stack # <<>>, NEW frame \in Frames
  PROVE  /\ Under(frame) \in Seq(Frames) /\ Len(Under(frame)) = Len(stack) /\ Len(stack) \in Nat \ {0}
         /\ Under(frame)[1] = frame /\ \A i \in 2 .. Len(stack) : Under(frame)[i] = stack[i]
<1>1. /\ Tail(stack) \in Seq(Frames) /\ Len(Tail(stack)) = Len(stack) - 1 /\ Len(stack) \in Nat \ {0}
      /\ \A i \in 1 .. Len(stack) - 1 : Tail(stack)[i] = stack[i + 1]
  BY Rest
<1>2. Stacked(Under(frame), Tail(stack), frame)
  BY <1>1, PushGrows DEF Under
<1>3. ASSUME NEW i \in 2 .. Len(stack) PROVE Under(frame)[i] = stack[i]
  <2>1. i - 1 \in 1 .. Len(stack) - 1 /\ (i - 1) + 1 = i
    BY <1>1
  <2> QED
    BY <1>1, <1>2, <2>1 DEF Stacked
<1> QED
  BY <1>1, <1>2, <1>3 DEF Stacked

(* One row, or one member, is taken off the innermost frame.                *)
LEMMA UnderShrinks ==
  ASSUME stack \in Seq(Frames), stack # <<>>, NEW m
  PROVE  /\ Shrunk(Under([Top EXCEPT !.rows = @ \ {m}]), {}, {m})
         /\ Shrunk(Under([Top EXCEPT !.members = @ \ {m}]), {m}, {})
<1>1. Len(stack) \in Nat \ {0} /\ Top \in Frames /\ Top = stack[1]
  BY Elements DEF Top
<1>2. ASSUME NEW frame \in Frames, frame.at = Top.at, frame.depth = Top.depth, NEW M, NEW R,
             frame.members = Top.members \ M, frame.rows = Top.rows \ R
      PROVE  Shrunk(Under(frame), M, R)
  <2>1. /\ Under(frame) \in Seq(Frames) /\ Len(Under(frame)) = Len(stack)
        /\ Under(frame)[1] = frame /\ \A i \in 2 .. Len(stack) : Under(frame)[i] = stack[i]
    BY UnderFacts
  <2>2. ASSUME NEW i \in 1 .. Len(stack)
        PROVE  Under(frame)[i].at = stack[i].at /\ Under(frame)[i].depth = stack[i].depth
    <3>1. i = 1 \/ i \in 2 .. Len(stack)
      BY <1>1
    <3> QED
      BY <1>1, <1>2, <2>1, <3>1
  <2> QED
    BY <1>1, <1>2, <2>1, <2>2 DEF Shrunk
<1>3. /\ [Top EXCEPT !.rows = @ \ {m}] \in Frames
      /\ [Top EXCEPT !.rows = @ \ {m}].at = Top.at
      /\ [Top EXCEPT !.rows = @ \ {m}].depth = Top.depth
      /\ [Top EXCEPT !.rows = @ \ {m}].members = Top.members \ {}
      /\ [Top EXCEPT !.rows = @ \ {m}].rows = Top.rows \ {m}
  BY <1>1 DEF Frames
<1>4. /\ [Top EXCEPT !.members = @ \ {m}] \in Frames
      /\ [Top EXCEPT !.members = @ \ {m}].at = Top.at
      /\ [Top EXCEPT !.members = @ \ {m}].depth = Top.depth
      /\ [Top EXCEPT !.members = @ \ {m}].members = Top.members \ {m}
      /\ [Top EXCEPT !.members = @ \ {m}].rows = Top.rows \ {}
  BY <1>1 DEF Frames
<1>5. Shrunk(Under([Top EXCEPT !.rows = @ \ {m}]), {}, {m})
  BY <1>2, <1>3
<1>6. Shrunk(Under([Top EXCEPT !.members = @ \ {m}]), {m}, {})
  BY <1>2, <1>4
<1> QED
  BY <1>5, <1>6

(* A new frame has all members and all neighbours still to take.            *)
LEMMA FrameFacts ==
  ASSUME GraphOK, asked.what \in Walks \cup {"cycles"}, leg = "up", NEW n \in Nodes, NEW d \in Nat
  PROVE  /\ Frame(n, d) \in Frames /\ Frame(n, d).at = n /\ Frame(n, d).depth = d
         /\ Frame(n, d).members = Members(n) /\ Frame(n, d).rows = Neighbours(n)
<1>1. Rows(n) = Neighbours(n) /\ Neighbours(n) \subseteq Nodes /\ Members(n) \subseteq Nodes
  BY RowsAreNeighbours, RowsAreNodes
<1> QED
  BY <1>1 DEF Frame, Frames

-----------------------------------------------------------------------------
(* The steps of the recursive walks *)

\* the innermost call takes m, its next member or its next row
Took(m, s, d) ==
  /\ asked.what \in Walks /\ leg = "up" /\ Len(stack) \in Nat \ {0}
  /\ \/ /\ asked.what = "impact" /\ m \in stack[1].members
        /\ Shrunk(s, {m}, {}) /\ d = stack[1].depth
     \/ /\ m \in stack[1].rows
        /\ asked.what \in {"impact", "hierarchy"} => stack[1].members = {}
        /\ Shrunk(s, {}, {m}) /\ d = stack[1].depth + 1
  /\ \/ /\ stack' = s /\ UNCHANGED <<visited, found, links>>
        /\ \/ m \in visited
           \/ m \in found /\ Shrunk(s, {}, {m})
     \/ /\ stack' = s /\ UNCHANGED visited /\ ~Enters(m, d, found')
        /\ found' = found \cup {m} /\ links' = links \cup {<<stack[1].at, m>>}
     \/ /\ Stacked(stack', s, Frame(m, d)) /\ visited' = visited \cup {m} /\ Enters(m, d, found')
        /\ found' = found \cup {m} /\ links' = links \cup {<<stack[1].at, m>>}
  /\ UNCHANGED <<graph, asked, queue, reports, leg, answered>>

(* TakeMember, TakeUnvisited and TakeUnknown are one kind of step.          *)
LEMMA Takes ==
  ASSUME Shape, NEW m \in Nodes, TakeMember(m) \/ TakeUnvisited(m) \/ TakeUnknown(m)
  PROVE  \E s \in Seq(Frames), d \in Nat : Took(m, s, d)
<1>1. asked.what \in Walks /\ stack # <<>> /\ UNCHANGED <<graph, asked, queue, reports, leg, answered>>
  BY DEF TakeMember, TakeUnvisited, TakeUnknown, Walks
<1>2. leg = "up" /\ GraphOK /\ stack \in Seq(Frames)
  BY <1>1 DEF Shape
<1>3. Len(stack) \in Nat \ {0} /\ Top = stack[1] /\ Top \in Frames
  BY <1>1, <1>2, Elements DEF Top
<1>4. Top.depth \in Nat /\ Top.depth + 1 \in Nat
  BY <1>3 DEF Frames
<1>5. ASSUME NEW s \in Seq(Frames), NEW d \in Nat, Take(s, m, d)
      PROVE  \/ /\ stack' = s /\ UNCHANGED visited /\ ~Enters(m, d, found')
                /\ found' = found \cup {m} /\ links' = links \cup {<<stack[1].at, m>>}
             \/ /\ Stacked(stack', s, Frame(m, d)) /\ visited' = visited \cup {m} /\ Enters(m, d, found')
                /\ found' = found \cup {m} /\ links' = links \cup {<<stack[1].at, m>>}
  <2>1. Stacked(<<Frame(m, d)>> \o s, s, Frame(m, d))
    BY <1>1, <1>2, FrameFacts, PushGrows
  <2>2. found' = found \cup {m} /\ links' = links \cup {<<stack[1].at, m>>} /\ Enter(s, m, d, found')
    BY <1>3, <1>5 DEF Take
  <2>3. CASE Enters(m, d, found')
    BY <2>1, <2>2, <2>3 DEF Enter
  <2>4. CASE ~Enters(m, d, found')
    BY <2>2, <2>4 DEF Enter
  <2> QED
    BY <2>3, <2>4
<1>6. CASE TakeMember(m)
  <2> DEFINE s == Under([Top EXCEPT !.members = @ \ {m}])
  <2>1. Shrunk(s, {m}, {}) /\ s \in Seq(Frames)
    BY <1>1, <1>2, UnderShrinks DEF Shrunk
  <2>2. /\ asked.what = "impact" /\ m \in stack[1].members
        /\ IF PassedMember(m) THEN PassOver(s) ELSE Take(s, m, Top.depth)
    BY <1>3, <1>6 DEF TakeMember
  <2> HIDE DEF s
  <2>3. CASE m \in visited
    <3>1. stack' = s /\ UNCHANGED <<visited, found, links>>
      BY <2>2, <2>3 DEF PassedMember, PassOver
    <3>2. asked.what = "impact" /\ m \in stack[1].members /\ Shrunk(s, {m}, {}) /\ Top.depth = stack[1].depth
      BY <1>3, <2>1, <2>2
    <3>3. Took(m, s, Top.depth)
      BY <1>1, <1>2, <1>3, <2>3, <3>1, <3>2 DEF Took
    <3> QED
      BY <1>4, <2>1, <3>3
  <2>4. CASE m \notin visited
    <3>1. Take(s, m, Top.depth)
      BY <2>2, <2>4 DEF PassedMember
    <3>2. Took(m, s, Top.depth)
      BY <1>1, <1>2, <1>3, <1>4, <1>5, <2>1, <2>2, <3>1 DEF Took
    <3> QED
      BY <1>4, <2>1, <3>2
  <2> QED
    BY <2>3, <2>4
<1>7. CASE TakeUnvisited(m) \/ TakeUnknown(m)
  <2> DEFINE s == Under([Top EXCEPT !.rows = @ \ {m}])
  <2>1. Shrunk(s, {}, {m}) /\ s \in Seq(Frames)
    BY <1>1, <1>2, UnderShrinks DEF Shrunk
  <2>2. /\ m \in stack[1].rows
        /\ asked.what \in {"impact", "hierarchy"} => stack[1].members = {}
        /\ \/ (m \in visited \/ m \in found) /\ PassOver(s)
           \/ Take(s, m, Top.depth + 1)
    <3>1. CASE TakeUnvisited(m)
      BY <1>3, <3>1 DEF TakeUnvisited
    <3>2. CASE TakeUnknown(m)
      BY <1>3, <3>2 DEF TakeUnknown
    <3> QED
      BY <1>7, <3>1, <3>2
  <2> HIDE DEF s
  <2>3. CASE (m \in visited \/ m \in found) /\ PassOver(s)
    <3>1. Took(m, s, Top.depth + 1)
      BY <1>1, <1>2, <1>3, <2>1, <2>2, <2>3 DEF Took, PassOver
    <3> QED
      BY <1>4, <2>1, <3>1
  <2>4. CASE Take(s, m, Top.depth + 1)
    <3>1. Took(m, s, Top.depth + 1)
      BY <1>1, <1>2, <1>3, <1>4, <1>5, <2>1, <2>2, <2>4 DEF Took
    <3> QED
      BY <1>4, <2>1, <3>1
  <2> QED
    BY <2>2, <2>3, <2>4
<1> QED
  BY <1>6, <1>7

\* the innermost call returns
CallOver ==
  /\ asked.what \in Walks \cup {"cycles"} /\ leg = "up" /\ Len(stack) \in Nat \ {0}
  /\ stack[1].members = {} /\ stack[1].rows = {}
  /\ stack' \in Seq(Frames) /\ Len(stack') = Len(stack) - 1
  /\ \A i \in 1 .. Len(stack) - 1 : stack'[i] = stack[i + 1]
  /\ UNCHANGED <<graph, asked, queue, visited, found, links, reports, leg, answered>>

(* Return pops the innermost frame, which has nothing left to take.         *)
LEMMA CallEnds ==
  ASSUME Shape, Return
  PROVE  CallOver
<1>1. stack # <<>> /\ stack \in Seq(Frames) /\ stack' = Tail(stack)
  BY DEF Shape, Return
<1>2. asked.what \in Walks \cup {"cycles"} /\ leg = "up"
  BY <1>1, Question DEF Shape, Queued, Walks
<1>3. /\ Tail(stack) \in Seq(Frames) /\ Len(Tail(stack)) = Len(stack) - 1 /\ Len(stack) \in Nat \ {0}
      /\ \A i \in 1 .. Len(stack) - 1 : Tail(stack)[i] = stack[i + 1]
  BY <1>1, Rest
<1> QED
  BY <1>1, <1>2, <1>3 DEF Return, CallOver, Top

\* a walk over, or turned to the descendants: nothing of it moves
Lingered ==
  /\ asked.what \in Walks /\ stack = <<>>
  /\ UNCHANGED <<graph, asked, queue, stack, visited, found, links, reports>>
  /\ \/ answered' = answered /\ asked.what = "hierarchy" /\ leg = "up" /\ leg' = "down"
     \/ answered' /\ answered' \in BOOLEAN /\ leg' = leg /\ (asked.what = "hierarchy" => leg = "down")

(* Descend enters nothing: the node asked about has been visited.           *)
LEMMA Lingers ==
  ASSUME Shape, Descend \/ WalkEnd
  PROVE  Lingered
<1>1. CASE Descend
  <2>1. Start \in visited /\ ~Enters(Start, 0, found)
    BY <1>1 DEF Descend, Shape, Enters
  <2> QED
    BY <1>1, <2>1 DEF Descend, Enter, Lingered, Walks
<1>2. CASE WalkEnd
  BY <1>2 DEF WalkEnd, Lingered
<1> QED
  BY <1>1, <1>2

-----------------------------------------------------------------------------
(* The steps of the cycle search *)

\* the search enters a file, on the stack s
Opened(m, s) ==
  /\ asked.what = "cycles" /\ leg = "up" /\ m \in Nodes /\ m \notin visited
  /\ \/ stack = <<>> /\ s = <<>>
     \/ Len(stack) \in Nat \ {0} /\ m \in stack[1].rows /\ Shrunk(s, {}, {m})
  /\ Stacked(stack', s, Frame(m, 0)) /\ visited' = visited \cup {m}
  /\ UNCHANGED <<graph, asked, queue, found, links, reports, leg, answered>>

\* the innermost file depends on one the search has seen
Looked(m, s) ==
  /\ asked.what = "cycles" /\ leg = "up" /\ m \in Nodes /\ Len(stack) \in Nat \ {0}
  /\ m \in stack[1].rows /\ Shrunk(s, {}, {m}) /\ stack' = s
  /\ \/ m \in OnStack /\ reports' = reports \cup {PathFrom(m)}
     \/ m \notin OnStack /\ m \in visited /\ UNCHANGED reports
  /\ UNCHANGED <<graph, asked, queue, visited, found, links, leg, answered>>

(* The steps of the cycle search open a file or look at one.                *)
LEMMA Searches ==
  ASSUME Shape, NEW m \in Nodes, NextFile(m) \/ TakeDependency(m)
  PROVE  \E s \in Seq(Frames) : Opened(m, s) \/ Looked(m, s)
<1>1. asked.what = "cycles" /\ stack \in Seq(Frames) /\ GraphOK
  BY DEF NextFile, TakeDependency, Shape
<1>2. leg = "up" /\ Frame(m, 0) \in Frames
  <2>1. leg = "up"
    BY <1>1 DEF Shape
  <2> QED
    BY <1>1, <2>1, FrameFacts
<1>3. CASE NextFile(m)
  <2>1. <<>> \in Seq(Frames)
    OBVIOUS
  <2>2. Stacked(<<Frame(m, 0)>>, <<>>, Frame(m, 0))
    BY <1>2 DEF Stacked
  <2>3. /\ stack = <<>> /\ m \notin visited /\ stack' = <<Frame(m, 0)>> /\ visited' = visited \cup {m}
        /\ UNCHANGED <<graph, asked, queue, found, links, reports, leg, answered>>
    BY <1>3 DEF NextFile
  <2>4. Stacked(stack', <<>>, Frame(m, 0))
    BY <2>2, <2>3
  <2>5. Opened(m, <<>>)
    BY <1>1, <1>2, <2>3, <2>4 DEF Opened
  <2> QED
    BY <2>1, <2>5
<1>4. CASE TakeDependency(m)
  <2> DEFINE s == Under([Top EXCEPT !.rows = @ \ {m}])
  <2>1. stack # <<>> /\ Len(stack) \in Nat \ {0} /\ Top = stack[1]
    BY <1>1, <1>4, Elements DEF TakeDependency, Top
  <2>2. Shrunk(s, {}, {m}) /\ s \in Seq(Frames)
    <3>1. Shrunk(s, {}, {m})
      BY <1>1, <2>1, UnderShrinks
    <3> QED
      BY <3>1 DEF Shrunk
  <2>3. /\ m \in stack[1].rows /\ UNCHANGED <<graph, asked, queue, found, links, leg, answered>>
        /\ \/ Closes(m) /\ reports' = reports \cup {PathFrom(m)} /\ stack' = s /\ UNCHANGED visited
           \/ ~Closes(m) /\ m \in visited /\ stack' = s /\ UNCHANGED <<visited, reports>>
           \/ /\ ~Closes(m) /\ m \notin visited /\ stack' = <<Frame(m, 0)>> \o s
              /\ visited' = visited \cup {m} /\ UNCHANGED reports
    BY <1>4, <2>1 DEF TakeDependency
  <2> HIDE DEF s
  <2>4. CASE m \notin visited /\ stack' = <<Frame(m, 0)>> \o s /\ visited' = visited \cup {m} /\ UNCHANGED reports
    <3>1. Stacked(stack', s, Frame(m, 0))
      BY <1>2, <2>2, <2>4, PushGrows
    <3>2. Opened(m, s)
      BY <1>1, <1>2, <2>1, <2>2, <2>3, <2>4, <3>1 DEF Opened
    <3> QED
      BY <2>2, <3>2
  <2>5. CASE \/ Closes(m) /\ reports' = reports \cup {PathFrom(m)} /\ stack' = s /\ UNCHANGED visited
             \/ ~Closes(m) /\ m \in visited /\ stack' = s /\ UNCHANGED <<visited, reports>>
    <3>1. Looked(m, s)
      BY <1>1, <1>2, <2>1, <2>2, <2>3, <2>5 DEF Looked, Closes
    <3> QED
      BY <2>2, <3>1
  <2> QED
    BY <2>3, <2>4, <2>5
<1> QED
  BY <1>3, <1>4

-----------------------------------------------------------------------------
(* The steps of the queues *)

\* the head p of the queue, which ends at n, leaves it; nothing else comes of it
Dropped(p, n) ==
  /\ asked.what \in {"bfs", "path"} /\ ~answered /\ queue # <<>> /\ p = queue[1] /\ n = Last(p)
  /\ HeadGone(queue', queue) /\ n \in visited
  /\ UNCHANGED <<graph, asked, stack, visited, found, links, reports, leg, answered>>

\* the node n is visited, and the paths on from it are queued, or it is too far
Visited(p, n, T, H) ==
  /\ asked.what \in {"bfs", "path"} /\ ~answered /\ queue # <<>> /\ p = queue[1] /\ n = Last(p)
  /\ HeadGone(T, queue) /\ n \notin visited /\ visited' = visited \cup {n}
  /\ \/ /\ asked.what = "bfs" /\ DeepEnough(p) /\ queue' = T /\ UNCHANGED found
     \/ /\ asked.what = "bfs" => ~DeepEnough(p)
        /\ Hopped(H, p, Neighbours(n) \ (visited \cup {n})) /\ queue' = T \o H
        /\ found' = IF asked.what = "bfs" THEN found \cup (Neighbours(n) \ (visited \cup {n})) ELSE found
  /\ links' = IF asked.what = "bfs" THEN links \cup Behind(p) ELSE links
  /\ asked.what = "path" => n # asked.goal
  /\ UNCHANGED <<graph, asked, stack, reports, leg, answered>>

\* the path at the head of the queue is the answer
Arrived(p) ==
  /\ asked.what = "path" /\ ~answered /\ queue # <<>> /\ p = queue[1] /\ Last(p) = asked.goal
  /\ reports' = {p} /\ answered' /\ answered' \in BOOLEAN
  /\ UNCHANGED <<graph, asked, queue, stack, visited, found, links, leg>>

(* A turn of traverseBFS drops the head of the queue or visits its end.     *)
LEMMA BfsSteps ==
  ASSUME Shape, BfsStep
  PROVE  \E p \in Paths, n \in Nodes :
           \/ Dropped(p, n)
           \/ \E T \in Seq(Paths), H \in Seq(Paths) : Visited(p, n, T, H)
<1> DEFINE p == Head(queue)
           n == Last(p)
           seen == visited \cup {n}
<1>1. /\ asked.what = "bfs" /\ ~answered /\ queue # <<>> /\ queue \in Seq(Paths) /\ GraphOK
      /\ UNCHANGED <<graph, asked, stack, reports, leg, answered>>
  BY DEF BfsStep, Shape
<1>2. p = queue[1] /\ p \in Paths /\ n \in Nodes
  <2>1. p = queue[1] /\ p \in Paths
    BY <1>1
  <2> QED
    BY <2>1 DEF Last, Paths
<1>3. HeadGone(Tail(queue), queue) /\ Tail(queue) \in Seq(Paths)
  BY <1>1, TailGone DEF HeadGone
<1>4. CASE n \in visited
  <2>1. queue' = Tail(queue) /\ UNCHANGED <<visited, found, links>>
    BY <1>4 DEF BfsStep
  <2>2. Dropped(p, n)
    BY <1>1, <1>2, <1>3, <1>4, <2>1 DEF Dropped
  <2> QED
    BY <1>2, <2>2
<1>5. CASE n \notin visited
  <2>1. visited' = seen /\ links' = links \cup Behind(p)
    BY <1>5 DEF BfsStep
  <2>2. CASE DeepEnough(p)
    <3>1. queue' = Tail(queue) /\ UNCHANGED found
      BY <1>5, <2>2 DEF BfsStep
    <3>2. Visited(p, n, Tail(queue), <<>>)
      BY <1>1, <1>2, <1>3, <1>5, <2>1, <2>2, <3>1 DEF Visited
    <3>3. <<>> \in Seq(Paths)
      OBVIOUS
    <3> QED
      BY <1>2, <1>3, <3>2, <3>3
  <2>3. CASE ~DeepEnough(p)
    <3>1. PICK order \in StructureFirst(n, seen) : queue' = Tail(queue) \o Hop(p, order)
      BY <1>5, <2>3 DEF BfsStep
    <3>2. found' = found \cup (Adjacent(n) \ seen)
      BY <1>5, <2>3 DEF BfsStep
    <3>4. Neighbours(n) = Adjacent(n) /\ Neighbours(n) \subseteq Nodes
      <4>1. Neighbours(n) = Adjacent(n)
        BY <1>1 DEF Neighbours
      <4> QED
        BY <1>1, <1>2, <4>1, RowsAreNodes
    <3> DEFINE M == Neighbours(n) \ seen
    <3>5. M \subseteq Nodes
      BY <3>4
    <3>6. order \in Seq(M) /\ \A m \in M : \E k \in 1 .. Len(order) : order[k] = m
      <4>1. ASSUME NEW x \in Nodes, NEW z, NEW o \in StructureFirst(x, z)
            PROVE  /\ o \in Seq(Adjacent(x) \ z)
                   /\ \A m \in Adjacent(x) \ z : \E k \in 1 .. Len(o) : o[k] = m
        BY <1>1, <4>1, OrderOfStructure
      <4>2. M = Adjacent(n) \ seen
        BY <3>4
      <4>3. order \in StructureFirst(n, seen)
        BY <3>1
      <4> HIDE DEF M, n, seen
      <4>4. /\ order \in Seq(Adjacent(n) \ seen)
            /\ \A m \in Adjacent(n) \ seen : \E k \in 1 .. Len(order) : order[k] = m
        BY <1>2, <4>1, <4>3
      <4> QED
        BY <4>2, <4>4
    <3>7. Hopped(Hop(p, order), p, M)
      <4> HIDE DEF M, p
      <4> QED
        BY <1>2, <3>5, <3>6, HopOver
    <3>8. Visited(p, n, Tail(queue), Hop(p, order))
      BY <1>1, <1>2, <1>3, <1>5, <2>1, <2>3, <3>1, <3>2, <3>4, <3>7 DEF Visited
    <3>9. Hop(p, order) \in Seq(Paths)
      BY <3>7 DEF Hopped
    <3> QED
      BY <1>2, <1>3, <3>8, <3>9
  <2> QED
    BY <2>2, <2>3
<1> QED
  BY <1>4, <1>5

(* A turn of findPath drops the head of the queue, visits its end, or       *)
(* arrives.                                                                 *)
LEMMA PathSteps ==
  ASSUME Shape, PathStep
  PROVE  \E p \in Paths, n \in Nodes :
           \/ Arrived(p) \/ Dropped(p, n)
           \/ \E T \in Seq(Paths), H \in Seq(Paths) : Visited(p, n, T, H)
<1> DEFINE p == PathNext(queue)
           n == Last(p)
           seen == visited \cup {n}
<1>1. /\ asked.what = "path" /\ ~answered /\ queue # <<>> /\ queue \in Seq(Paths) /\ GraphOK
      /\ UNCHANGED <<graph, asked, stack, found, links, leg>>
  BY DEF PathStep, Shape
<1>2. p = queue[1] /\ p \in Paths /\ n \in Nodes
  <2>1. p = queue[1] /\ p \in Paths
    BY <1>1 DEF PathNext
  <2> QED
    BY <2>1 DEF Last, Paths
<1>3. HeadGone(PathRest(queue), queue) /\ PathRest(queue) \in Seq(Paths)
  BY <1>1, RestGone DEF HeadGone
<1>4. \/ n = asked.goal /\ reports' = {p} /\ answered' = TRUE /\ UNCHANGED <<queue, visited>>
      \/ n # asked.goal /\ n \in visited /\ queue' = PathRest(queue) /\ UNCHANGED <<visited, reports, answered>>
      \/ /\ n # asked.goal /\ n \notin visited /\ visited' = seen /\ UNCHANGED <<reports, answered>>
         /\ \E order \in SetToSeqs((Used(n) \cup Held(n)) \ seen) : queue' = PathRest(queue) \o Hop(p, order)
  BY DEF PathStep
<1>5. CASE n = asked.goal /\ reports' = {p} /\ answered' = TRUE /\ UNCHANGED <<queue, visited>>
  <2>1. Arrived(p)
    BY <1>1, <1>2, <1>5 DEF Arrived
  <2> QED
    BY <1>2, <2>1
<1>6. CASE n # asked.goal /\ n \in visited /\ queue' = PathRest(queue) /\ UNCHANGED <<visited, reports, answered>>
  <2>1. Dropped(p, n)
    BY <1>1, <1>2, <1>3, <1>6 DEF Dropped
  <2> QED
    BY <1>2, <2>1
<1>7. CASE /\ n # asked.goal /\ n \notin visited /\ visited' = seen /\ UNCHANGED <<reports, answered>>
           /\ \E order \in SetToSeqs((Used(n) \cup Held(n)) \ seen) : queue' = PathRest(queue) \o Hop(p, order)
  <2> DEFINE M == Neighbours(n) \ seen
  <2>1. (Used(n) \cup Held(n)) \ seen = M
    BY <1>1 DEF Neighbours
  <2>2. PICK order \in SetToSeqs(M) : queue' = PathRest(queue) \o Hop(p, order)
    BY <1>7, <2>1
  <2>3. M \subseteq Nodes
    BY <1>1, <1>2, RowsAreNodes
  <2>4. order \in Seq(M) /\ \A m \in M : \E k \in 1 .. Len(order) : order[k] = m
    <3> HIDE DEF M
    <3> QED
      BY <2>3, OrderOfSet
  <2>5. Hopped(Hop(p, order), p, M)
    <3> HIDE DEF M, p
    <3> QED
      BY <1>2, <2>3, <2>4, HopOver
  <2>6. Visited(p, n, PathRest(queue), Hop(p, order))
    BY <1>1, <1>2, <1>3, <1>7, <2>2, <2>5 DEF Visited
  <2>7. Hop(p, order) \in Seq(Paths)
    BY <2>5 DEF Hopped
  <2> QED
    BY <1>2, <1>3, <2>6, <2>7
<1> QED
  BY <1>4, <1>5, <1>6, <1>7

\* bfs, path, cycles: nothing is left to do
Over ==
  /\ asked.what \in {"bfs", "path", "cycles"} /\ ~answered /\ answered' /\ answered' \in BOOLEAN
  /\ asked.what = "bfs" => queue = <<>> \/ Cardinality(found) >= asked.limit
  /\ asked.what = "path" => queue = <<>>
  /\ asked.what = "cycles" => stack = <<>> /\ visited = Nodes
  /\ UNCHANGED <<graph, asked, queue, stack, visited, found, links, reports, leg>>

\* the chain of containers is at n
Climbed(n) ==
  /\ asked.what = "ancestors" /\ ~answered /\ n = Last(queue[1]) /\ visited' = visited \cup {n}
  /\ \/ /\ n \in visited \/ Above(n) = {}
        /\ answered' /\ answered' \in BOOLEAN /\ UNCHANGED <<queue, found, links>>
     \/ /\ \E m \in Above(n) : /\ queue' = <<<<m>>>> /\ found' = found \cup {m}
                               /\ links' = links \cup {<<n, m>>}
        /\ UNCHANGED answered
  /\ UNCHANGED <<graph, asked, stack, reports, leg>>

Stepped ==
  \/ \E p \in Paths, n \in Nodes : Dropped(p, n)
  \/ \E p \in Paths, n \in Nodes, T \in Seq(Paths), H \in Seq(Paths) : Visited(p, n, T, H)
  \/ \E p \in Paths : Arrived(p)
  \/ \E m \in Nodes, s \in Seq(Frames), d \in Nat : Took(m, s, d)
  \/ CallOver
  \/ Lingered
  \/ \E m \in Nodes, s \in Seq(Frames) : Opened(m, s)
  \/ \E m \in Nodes, s \in Seq(Frames) : Looked(m, s)
  \/ \E n \in Nodes : Climbed(n)
  \/ Over

(* A turn of getAncestors.                                                  *)
LEMMA Climbs ==
  ASSUME Shape, Climb
  PROVE  \E n \in Nodes : Climbed(n)
<1> DEFINE n == Last(Head(queue))
<1>1. asked.what = "ancestors" /\ ~answered /\ queue # <<>> /\ queue \in Seq(Paths)
  BY DEF Climb, Shape
<1>2. Head(queue) = queue[1] /\ queue[1] \in Paths
  BY <1>1
<1>3. n \in Nodes
  BY <1>2 DEF Last, Paths
<1>4. /\ visited' = visited \cup {n} /\ UNCHANGED <<graph, asked, stack, reports, leg>>
      /\ IF n \in visited \/ Above(n) = {}
         THEN answered' = TRUE /\ UNCHANGED <<queue, found, links>>
         ELSE /\ \E m \in Above(n) : /\ queue' = <<<<m>>>> /\ found' = found \cup {m}
                                     /\ links' = links \cup {<<n, m>>}
              /\ UNCHANGED answered
  BY DEF Climb, SeenBefore
<1>5. n = Last(queue[1])
  BY <1>2
<1> HIDE DEF n
<1>6. Climbed(n)
  BY <1>1, <1>4, <1>5 DEF Climbed
<1> QED
  BY <1>3, <1>6

(* Each action is one of the steps above.                                   *)
LEMMA NextSteps ==
  ASSUME Shape, Next
  PROVE  Stepped
<1>1. CASE BfsStep
  BY <1>1, BfsSteps DEF Stepped
<1>2. CASE PathStep
  BY <1>2, PathSteps DEF Stepped
<1>3. CASE BfsEnd \/ PathEnd \/ CyclesEnd
  <2>1. Over
    BY <1>3 DEF BfsEnd, PathEnd, CyclesEnd, Over
  <2> QED
    BY <2>1 DEF Stepped
<1>4. ASSUME NEW m \in Nodes, TakeMember(m) \/ TakeUnvisited(m) \/ TakeUnknown(m)
      PROVE  Stepped
  BY <1>4, Takes DEF Stepped
<1>5. ASSUME NEW m \in Nodes, NextFile(m) \/ TakeDependency(m)
      PROVE  Stepped
  BY <1>5, Searches DEF Stepped
<1>6. CASE Return
  BY <1>6, CallEnds DEF Stepped
<1>7. CASE Descend \/ WalkEnd
  BY <1>7, Lingers DEF Stepped
<1>8. CASE Climb
  BY <1>8, Climbs DEF Stepped
<1> QED
  BY <1>1, <1>2, <1>3, <1>4, <1>5, <1>6, <1>7, <1>8 DEF Next

-----------------------------------------------------------------------------
(* Types *)

(* The types hold at first.                                                 *)
LEMMA ShapeInit ==
  ASSUME Init
  PROVE  Shape
<1>1. GraphOK
  BY DEF Init, GraphOK
<1>2. <<Start>> \in Paths /\ <<<<Start>>>> \in Seq(Paths) /\ <<<<Start>>>> # <<>>
  BY DEF Paths
<1>3. <<>> \in Seq(Paths) /\ <<>> \in Seq(Frames)
  OBVIOUS
<1>4. queue \in Seq(Paths) /\ (asked.what \notin Queued => queue = <<>>) /\ (asked.what = "ancestors" => queue # <<>>)
  BY <1>2, <1>3 DEF Init, Queued
<1>5. leg = "up" /\ visited \subseteq Nodes /\ found \subseteq Nodes /\ links = {} /\ reports = {} /\ answered = FALSE
  BY DEF Init
<1>6. /\ stack \in Seq(Frames) /\ (asked.what \in Queued => stack = <<>>)
      /\ asked.what = "hierarchy" => Start \in visited
  <2>1. CASE /\ asked.what \in Walks
             /\ asked.what = "hierarchy" \/ asked.depth > 0
             /\ asked.what = "dfs" => asked.limit > 1
    <3>1. stack = <<Frame(Start, 0)>> /\ visited = {Start}
      BY <2>1 DEF Init
    <3>2. Frame(Start, 0) \in Frames
      BY <1>1, <1>5, <2>1, FrameFacts
    <3>3. asked.what \notin Queued
      BY <2>1 DEF Walks, Queued
    <3> QED
      BY <3>1, <3>2, <3>3
  <2>2. CASE ~(/\ asked.what \in Walks
               /\ asked.what = "hierarchy" \/ asked.depth > 0
               /\ asked.what = "dfs" => asked.limit > 1)
    <3>1. stack = <<>>
      BY <2>2 DEF Init
    <3>2. asked.what # "hierarchy"
      BY <2>2 DEF Walks
    <3> QED
      BY <1>3, <3>1, <3>2
  <2> QED
    BY <2>1, <2>2
<1> QED
  BY <1>1, <1>4, <1>5, <1>6 DEF Shape

(* The types of a frame.                                                    *)
LEMMA FrameTypes ==
  ASSUME NEW s \in Seq(Frames), NEW i \in 1 .. Len(s)
  PROVE  s[i].at \in Nodes /\ s[i].depth \in Nat /\ s[i].members \subseteq Nodes /\ s[i].rows \subseteq Nodes
<1>1. s[i] \in Frames
  BY Elements
<1> QED
  BY <1>1 DEF Frames

(* The edge a path came by is between nodes.                                *)
LEMMA BehindIsLink ==
  ASSUME NEW p \in Paths
  PROVE  Behind(p) \subseteq Nodes \X Nodes
BY DEF Paths, Behind

(* Every step keeps the types.                                              *)
LEMMA ShapeStep ==
  ASSUME Shape, Stepped
  PROVE  Shape'
<1> USE DEF Shape
<1>1. ASSUME NEW p \in Paths, NEW n \in Nodes, Dropped(p, n) PROVE Shape'
  BY <1>1 DEF Dropped, HeadGone, GraphOK, Queued
<1>2. ASSUME NEW p \in Paths, NEW n \in Nodes, NEW T \in Seq(Paths), NEW H \in Seq(Paths), Visited(p, n, T, H)
      PROVE  Shape'
  <2>1. T \o H \in Seq(Paths)
    BY Joined
  <2>2. queue' \in Seq(Paths) /\ asked' = asked /\ graph' = graph
    BY <1>2, <2>1 DEF Visited
  <2>3. Neighbours(n) \subseteq Nodes
    BY RowsAreNodes
  <2>4. found' \subseteq Nodes /\ visited' \subseteq Nodes
    BY <1>2, <2>3 DEF Visited
  <2>5. links' \subseteq Nodes \X Nodes
    BY <1>2, BehindIsLink DEF Visited
  <2> QED
    BY <1>2, <2>2, <2>4, <2>5 DEF Visited, GraphOK, Queued
<1>3. ASSUME NEW p \in Paths, Arrived(p) PROVE Shape'
  BY <1>3 DEF Arrived, GraphOK, Queued, Paths
<1>4. ASSUME NEW m \in Nodes, NEW s \in Seq(Frames), NEW d \in Nat, Took(m, s, d) PROVE Shape'
  <2>1. stack[1].at \in Nodes
    <3>1. 1 \in 1 .. Len(stack)
      BY <1>4 DEF Took
    <3> QED
      BY <3>1, FrameTypes
  <2>2. stack' \in Seq(Frames) /\ visited' \subseteq Nodes /\ found' \subseteq Nodes /\ visited \subseteq visited'
    BY <1>4 DEF Took, Stacked
  <2>3. links' \subseteq Nodes \X Nodes
    BY <1>4, <2>1 DEF Took
  <2>4. asked.what \notin Queued
    BY <1>4 DEF Took, Walks, Queued
  <2> QED
    BY <1>4, <2>2, <2>3, <2>4 DEF Took, GraphOK
<1>5. CASE CallOver
  <2>1. asked.what \notin Queued
    BY <1>5 DEF CallOver, Walks, Queued
  <2> QED
    BY <1>5, <2>1 DEF CallOver, GraphOK
<1>6. CASE Lingered
  BY <1>6 DEF Lingered, GraphOK
<1>7. ASSUME NEW m \in Nodes, NEW s \in Seq(Frames), Opened(m, s) PROVE Shape'
  BY <1>7 DEF Opened, Stacked, GraphOK, Queued
<1>8. ASSUME NEW m \in Nodes, NEW s \in Seq(Frames), Looked(m, s) PROVE Shape'
  <2>1. ASSUME m \in OnStack PROVE PathFrom(m) \in Seq(Nodes)
    <3> DEFINE i == CHOOSE i \in DOMAIN stack : stack[i].at = m
    <3>1. DOMAIN stack = 1 .. Len(stack) /\ Len(stack) \in Nat
      BY Elements
    <3>2. i \in 1 .. Len(stack)
      BY <2>1, <3>1 DEF OnStack
    <3>3. PathFrom(m) = [k \in 1 .. i |-> stack[i + 1 - k].at]
      BY DEF PathFrom
    <3> HIDE DEF i
    <3>4. ASSUME NEW k \in 1 .. i PROVE stack[i + 1 - k].at \in Nodes
      <4>1. i + 1 - k \in 1 .. Len(stack)
        BY <3>1, <3>2
      <4> QED
        BY <4>1, FrameTypes
    <3>5. i \in Nat
      BY <3>1, <3>2
    <3>6. PathFrom(m) \in [1 .. i -> Nodes]
      BY <3>3, <3>4
    <3> QED
      BY <3>5, <3>6
  <2> QED
    BY <1>8, <2>1 DEF Looked, GraphOK, Queued
<1>9. ASSUME NEW n \in Nodes, Climbed(n) PROVE Shape'
  <2>1. \A m \in Above(n) : m \in Nodes /\ <<<<m>>>> \in Seq(Paths) /\ <<<<m>>>> # <<>>
    <3> TAKE m \in Above(n)
    <3>1. m \in Nodes
      BY RowsAreNodes
    <3> QED
      BY <3>1 DEF Paths
  <2>2. queue' \in Seq(Paths) /\ queue' # <<>> /\ found' \subseteq Nodes /\ links' \subseteq Nodes \X Nodes
    <3>1. CASE UNCHANGED <<queue, found, links>>
      BY <1>9, <3>1 DEF Climbed
    <3>2. ASSUME NEW m \in Above(n), queue' = <<<<m>>>>, found' = found \cup {m}, links' = links \cup {<<n, m>>}
          PROVE  queue' \in Seq(Paths) /\ queue' # <<>> /\ found' \subseteq Nodes /\ links' \subseteq Nodes \X Nodes
      BY <2>1, <3>2
    <3> QED
      BY <1>9, <3>1, <3>2 DEF Climbed
  <2>3. /\ visited' = visited \cup {n} /\ answered' \in BOOLEAN /\ UNCHANGED <<graph, asked, stack, reports, leg>>
        /\ asked.what = "ancestors"
    BY <1>9 DEF Climbed
  <2> QED
    BY <2>2, <2>3 DEF GraphOK, Queued
<1>10. CASE Over
  BY <1>10 DEF Over, GraphOK
<1> QED
  BY <1>1, <1>2, <1>3, <1>4, <1>5, <1>6, <1>7, <1>8, <1>9, <1>10 DEF Stepped

(* A walk reads the graph and its question, and changes neither.             *)
LEMMA SameRows ==
  ASSUME UNCHANGED <<graph, asked>>
  PROVE  \A n : /\ Used(n)' = Used(n) /\ Users(n)' = Users(n) /\ Held(n)' = Held(n) /\ Above(n)' = Above(n)
                /\ Adjacent(n)' = Adjacent(n) /\ Neighbours(n)' = Neighbours(n) /\ Members(n)' = Members(n)
<1>1. \A n : Used(n)' = Used(n) /\ Users(n)' = Users(n) /\ Held(n)' = Held(n) /\ Above(n)' = Above(n)
  BY DEF Used, Users, Held, Above
<1>2. \A n : Adjacent(n)' = Adjacent(n)
  BY <1>1 DEF Adjacent, AdjacentHeld, AdjacentUsed, Side
<1>3. \A n : Neighbours(n)' = Neighbours(n) /\ Members(n)' = Members(n)
  BY <1>1, <1>2 DEF Neighbours, Members
<1> QED
  BY <1>1, <1>2, <1>3

(* Nor does the reach of a node change.                                     *)
LEMMA SameWithin ==
  ASSUME UNCHANGED <<graph, asked>>
  PROVE  /\ \A n, k : Within(n, k)' = Within(n, k)
         /\ \A n : All(n)' = All(n)
<1>1. ASSUME NEW n, NEW k PROVE Within(n, k)' = Within(n, k)
  BY DEF Within, Spread, WithMembers, Step, Members, Neighbours, Adjacent, AdjacentHeld, AdjacentUsed, Side,
         Used, Users, Held, Above
<1> QED
  BY <1>1 DEF All

(* No step changes graph or question.                                       *)
LEMMA StepKeepsGraph ==
  ASSUME Stepped
  PROVE  UNCHANGED <<graph, asked>>
BY DEF Stepped, Dropped, Visited, Arrived, Took, CallOver, Lingered, Opened, Looked, Climbed, Over

-----------------------------------------------------------------------------
(* The frames are of distinct nodes                                          *)

(* Frames are of distinct nodes at first.                                   *)
LEMMA FramesInit ==
  ASSUME Init
  PROVE  FramesApart
<1>1. leg = "up" /\ GraphOK
  BY DEF Init, GraphOK
<1>2. CASE stack = <<>>
  BY <1>2 DEF FramesApart
<1>3. CASE stack = <<Frame(Start, 0)>> /\ visited = {Start} /\ asked.what \in Walks
  <2>1. Frame(Start, 0).at = Start /\ Frame(Start, 0).depth = 0
    BY <1>1, <1>3, FrameFacts
  <2>2. Len(stack) = 1 /\ stack[1] = Frame(Start, 0)
    BY <1>3
  <2> QED
    BY <1>3, <2>1, <2>2 DEF FramesApart
<1> QED
  BY <1>2, <1>3 DEF Init

(* Frames stay of distinct nodes when a call enters a node not visited.     *)
LEMMA StackedApart ==
  ASSUME Shape, FramesApart, NEW m \in Nodes, NEW d \in Nat, NEW s \in Seq(Frames),
         leg = "up", asked.what \in Walks \cup {"cycles"}, m \notin visited, visited' = visited \cup {m},
         Stacked(stack', s, Frame(m, d)), Len(s) = Len(stack), d <= Len(stack),
         \A i \in 1 .. Len(stack) : s[i].at = stack[i].at /\ s[i].depth = stack[i].depth
  PROVE  FramesApart'
<1>0. Len(stack) \in Nat /\ GraphOK
  BY DEF Shape
<1>1. Len(stack') = Len(stack) + 1 /\ stack'[1].at = m /\ stack'[1].depth = d
  BY <1>0, FrameFacts DEF Stacked
<1>2. \A i \in 1 .. Len(stack) : /\ stack'[i + 1].at = stack[i].at /\ stack'[i + 1].depth = stack[i].depth
                                 /\ stack[i].at \in visited /\ stack[i].depth <= Len(stack) - i
  BY DEF Stacked, FramesApart
<1>3. \A i \in 2 .. Len(stack) + 1 : /\ i - 1 \in 1 .. Len(stack) /\ stack'[i].at = stack[i - 1].at
                                     /\ stack'[i].depth <= Len(stack) + 1 - i /\ stack'[i].at \in visited
  <2> TAKE i \in 2 .. Len(stack) + 1
  <2>1. i - 1 \in 1 .. Len(stack) /\ (i - 1) + 1 = i
    BY <1>0
  <2>2. stack'[i].depth <= Len(stack) - (i - 1) /\ stack'[i].depth \in Nat
    <3>1. stack[i - 1].depth \in Nat
      BY <2>1, FrameTypes DEF Shape
    <3> QED
      BY <1>2, <2>1, <3>1
  <2>3. stack'[i].depth <= Len(stack) + 1 - i
    BY <1>0, <2>2
  <2>4. stack'[i].at = stack[i - 1].at /\ stack'[i].at \in visited
    <3>1. stack'[(i - 1) + 1].at = stack[i - 1].at /\ stack[i - 1].at \in visited
      BY <1>2, <2>1
    <3> QED
      BY <2>1, <3>1
  <2> QED
    BY <2>1, <2>3, <2>4
<1>4. \A i \in 1 .. Len(stack') : i = 1 \/ i \in 2 .. Len(stack) + 1
  BY <1>0, <1>1
<1>5. ASSUME NEW i \in 1 .. Len(stack'), NEW j \in 1 .. Len(stack'), stack'[i].at = stack'[j].at
      PROVE  i = j
  <2>1. CASE i = 1 /\ j = 1
    BY <2>1
  <2>2. CASE i = 1 /\ j # 1
    BY <1>1, <1>3, <1>4, <1>5, <2>2
  <2>3. CASE i # 1 /\ j = 1
    BY <1>1, <1>3, <1>4, <1>5, <2>3
  <2>4. CASE i # 1 /\ j # 1
    <3>1. i - 1 \in 1 .. Len(stack) /\ j - 1 \in 1 .. Len(stack) /\ stack[i - 1].at = stack[j - 1].at
      BY <1>3, <1>4, <1>5, <2>4
    <3>2. i - 1 = j - 1
      BY <3>1 DEF FramesApart
    <3> QED
      BY <3>2
  <2> QED
    BY <2>1, <2>2, <2>3, <2>4
<1>6. \A i \in 1 .. Len(stack') : stack'[i].at \in visited' /\ stack'[i].depth <= Len(stack') - i
  <2> TAKE i \in 1 .. Len(stack')
  <2>1. CASE i = 1
    BY <1>0, <1>1, <2>1
  <2>2. CASE i # 1
    BY <1>0, <1>1, <1>3, <1>4, <2>2
  <2> QED
    BY <2>1, <2>2
<1> QED
  BY <1>5, <1>6 DEF FramesApart

(* Frames stay of distinct nodes when a row is taken.                       *)
LEMMA ShrunkApart ==
  ASSUME FramesApart, NEW s, Len(s) = Len(stack), stack' = s, visited' = visited,
         \A i \in 1 .. Len(stack) : s[i].at = stack[i].at /\ s[i].depth = stack[i].depth
  PROVE  FramesApart'
<1>1. Len(stack') = Len(stack)
  OBVIOUS
<1>2. \A i \in 1 .. Len(stack') : stack'[i].at = stack[i].at /\ stack'[i].depth = stack[i].depth
  BY <1>1
<1>3. ASSUME NEW i \in 1 .. Len(stack')
      PROVE  stack'[i].at \in visited' /\ stack'[i].depth <= Len(stack') - i
  <2>1. i \in 1 .. Len(stack) /\ stack[i].at \in visited /\ stack[i].depth <= Len(stack) - i
    BY <1>1, <1>3 DEF FramesApart
  <2> QED
    BY <1>1, <1>2, <2>1
<1>4. ASSUME NEW i \in 1 .. Len(stack'), NEW j \in 1 .. Len(stack'), stack'[i].at = stack'[j].at
      PROVE  i = j
  <2>1. i \in 1 .. Len(stack) /\ j \in 1 .. Len(stack) /\ stack[i].at = stack[j].at
    BY <1>1, <1>2, <1>4
  <2> QED
    BY <2>1 DEF FramesApart
<1> QED
  BY <1>3, <1>4 DEF FramesApart

(* Every step keeps the frames of distinct nodes.                           *)
LEMMA FramesStep ==
  ASSUME Shape, FramesApart, Stepped
  PROVE  FramesApart'
<1>0. Len(stack) \in Nat
  BY DEF Shape
<1>1. ASSUME UNCHANGED stack, visited \subseteq visited' PROVE FramesApart'
  BY <1>1 DEF FramesApart
<1>2. ASSUME NEW p \in Paths, NEW n \in Nodes, Dropped(p, n) PROVE FramesApart'
  BY <1>1, <1>2 DEF Dropped
<1>3. ASSUME NEW p \in Paths, NEW n \in Nodes, NEW T \in Seq(Paths), NEW H \in Seq(Paths), Visited(p, n, T, H)
      PROVE  FramesApart'
  BY <1>1, <1>3 DEF Visited
<1>4. ASSUME NEW p \in Paths, Arrived(p) PROVE FramesApart'
  BY <1>1, <1>4 DEF Arrived
<1>5. ASSUME NEW m \in Nodes, NEW s \in Seq(Frames), NEW d \in Nat, Took(m, s, d) PROVE FramesApart'
  <2>1. /\ Len(s) = Len(stack) /\ Len(stack) \in Nat \ {0}
        /\ \A i \in 1 .. Len(stack) : s[i].at = stack[i].at /\ s[i].depth = stack[i].depth
    BY <1>5 DEF Took, Shrunk
  <2>2. CASE stack' = s /\ UNCHANGED visited
    BY <2>1, <2>2, ShrunkApart
  <2>3. CASE Stacked(stack', s, Frame(m, d)) /\ visited' = visited \cup {m} /\ Enters(m, d, found')
    <3>1. stack[1].depth <= Len(stack) - 1 /\ stack[1].depth \in Nat
      <4>1. 1 \in 1 .. Len(stack)
        BY <2>1
      <4> QED
        BY <4>1, FrameTypes DEF FramesApart, Shape
    <3>2. d <= Len(stack)
      BY <1>5, <2>1, <3>1 DEF Took
    <3>3. leg = "up" /\ asked.what \in Walks \cup {"cycles"} /\ m \notin visited
      BY <1>5, <2>3 DEF Took, Enters
    <3> QED
      BY <2>1, <2>3, <3>2, <3>3, StackedApart
  <2> QED
    BY <1>5, <2>2, <2>3 DEF Took
<1>6. CASE CallOver
  <2>1. /\ Len(stack') = Len(stack) - 1 /\ Len(stack) \in Nat \ {0} /\ UNCHANGED visited
        /\ \A i \in 1 .. Len(stack) - 1 : stack'[i] = stack[i + 1] /\ i + 1 \in 1 .. Len(stack)
    BY <1>6 DEF CallOver
  <2>2. ASSUME NEW i \in 1 .. Len(stack) - 1
        PROVE  stack'[i].at \in visited' /\ stack'[i].depth <= Len(stack') - i
    <3>1. /\ stack[i + 1].at \in visited /\ stack[i + 1].depth <= Len(stack) - (i + 1)
          /\ stack[i + 1].depth \in Nat
      BY <2>1, FrameTypes DEF FramesApart, Shape
    <3> QED
      BY <2>1, <3>1
  <2>3. ASSUME NEW i \in 1 .. Len(stack) - 1, NEW j \in 1 .. Len(stack) - 1, stack'[i].at = stack'[j].at
        PROVE  i = j
    <3>1. stack[i + 1].at = stack[j + 1].at /\ i + 1 \in 1 .. Len(stack) /\ j + 1 \in 1 .. Len(stack)
      BY <2>1, <2>3
    <3>2. i + 1 = j + 1
      BY <3>1 DEF FramesApart
    <3> QED
      BY <3>2
  <2> QED
    BY <2>1, <2>2, <2>3 DEF FramesApart
<1>7. CASE Lingered
  BY <1>1, <1>7 DEF Lingered
<1>8. ASSUME NEW m \in Nodes, NEW s \in Seq(Frames), Opened(m, s) PROVE FramesApart'
  <2>1. /\ Len(s) = Len(stack)
        /\ \A i \in 1 .. Len(stack) : s[i].at = stack[i].at /\ s[i].depth = stack[i].depth
    BY <1>8 DEF Opened, Shrunk
  <2>2. /\ leg = "up" /\ asked.what \in Walks \cup {"cycles"} /\ m \notin visited
        /\ visited' = visited \cup {m} /\ Stacked(stack', s, Frame(m, 0))
    BY <1>8 DEF Opened
  <2>3. 0 \in Nat /\ 0 <= Len(stack)
    BY <1>0
  <2> QED
    BY <2>1, <2>2, <2>3, StackedApart
<1>9. ASSUME NEW m \in Nodes, NEW s \in Seq(Frames), Looked(m, s) PROVE FramesApart'
  <2>1. /\ Len(s) = Len(stack) /\ stack' = s /\ UNCHANGED visited
        /\ \A i \in 1 .. Len(stack) : s[i].at = stack[i].at /\ s[i].depth = stack[i].depth
    BY <1>9 DEF Looked, Shrunk
  <2> QED
    BY <2>1, ShrunkApart
<1>10. ASSUME NEW n \in Nodes, Climbed(n) PROVE FramesApart'
  BY <1>1, <1>10 DEF Climbed
<1>11. CASE Over
  BY <1>1, <1>11 DEF Over
<1> QED
  BY <1>2, <1>3, <1>4, <1>5, <1>6, <1>7, <1>8, <1>9, <1>10, <1>11 DEF Stepped

(* As the frames are of distinct nodes, there are no more frames than nodes. *)
LEMMA StackIsShort ==
  ASSUME Shape, FramesApart
  PROVE  /\ Len(stack) <= Cardinality(Nodes) /\ Len(stack) \in Nat /\ Cardinality(Nodes) \in Nat
         /\ \A m \in Nodes \ visited : Len(stack) < Cardinality(Nodes)
<1>1. Len(stack) \in Nat /\ stack \in Seq(Frames)
  BY DEF Shape
<1> DEFINE f == [i \in 1 .. Len(stack) |-> stack[i].at]
<1>2. f \in Injection(1 .. Len(stack), visited)
  BY DEF FramesApart, Injection, IsInjective
<1>3. Cardinality(1 .. Len(stack)) = Len(stack)
  <2>1. Cardinality(1 .. Len(stack)) = IF 1 > Len(stack) THEN 0 ELSE Len(stack) - 1 + 1
    BY <1>1, FS_Interval
  <2> QED
    BY <1>1, <2>1
<1>4. IsFiniteSet(visited) /\ Cardinality(visited) <= Cardinality(Nodes) /\ visited \subseteq Nodes
  BY FS_Subset DEF Shape
<1>5. Len(stack) <= Cardinality(visited)
  <2> HIDE DEF f
  <2> QED
    BY <1>2, <1>3, <1>4, FS_Injection
<1>6. Cardinality(Nodes) \in Nat /\ Cardinality(visited) \in Nat
  BY <1>4, FS_CardinalityType
<1>7. ASSUME NEW m \in Nodes \ visited PROVE Cardinality(visited) # Cardinality(Nodes)
  BY <1>4, <1>7, FS_Subset
<1> QED
  BY <1>1, <1>4, <1>5, <1>6, <1>7

(* The type invariant follows.                                              *)
LEMMA TypesHold ==
  ASSUME Shape, FramesApart
  PROVE  TypeOK
<1>1. /\ DOMAIN queue = 1 .. Len(queue) /\ \A i \in 1 .. Len(queue) : queue[i] \in Paths
      /\ DOMAIN stack = 1 .. Len(stack)
  BY Elements DEF Shape
<1>2. \A r \in reports : r \in Seq(Nodes)
  BY DEF Shape
<1>3. Len(stack) <= Cardinality(Nodes) /\ Len(stack) \in Nat /\ Cardinality(Nodes) \in Nat
  BY StackIsShort
<1>4. ASSUME NEW i \in 1 .. Len(stack)
      PROVE  /\ stack[i].at \in visited /\ stack[i].depth \in 0 .. Cardinality(Nodes)
             /\ stack[i].members \subseteq Nodes /\ stack[i].rows \subseteq Nodes
             /\ \A j \in DOMAIN stack : stack[i].at = stack[j].at => i = j
  <2>1. /\ stack[i].at \in Nodes /\ stack[i].depth \in Nat
        /\ stack[i].members \subseteq Nodes /\ stack[i].rows \subseteq Nodes
    BY FrameTypes DEF Shape
  <2>2. /\ stack[i].at \in visited /\ stack[i].depth <= Len(stack) - i
        /\ \A j \in DOMAIN stack : stack[i].at = stack[j].at => i = j
    BY <1>1 DEF FramesApart
  <2>3. stack[i].depth \in 0 .. Cardinality(Nodes)
    BY <1>3, <2>1, <2>2
  <2> QED
    BY <2>1, <2>2, <2>3
<1>5. \A i \in DOMAIN queue : queue[i] \in Seq(Nodes) /\ queue[i] # <<>>
  BY <1>1 DEF Paths
<1>6. \A i \in DOMAIN stack :
        /\ stack[i].at \in visited /\ stack[i].depth \in 0 .. Cardinality(Nodes)
        /\ stack[i].members \subseteq Nodes /\ stack[i].rows \subseteq Nodes
        /\ \A j \in DOMAIN stack : stack[i].at = stack[j].at => i = j
  BY <1>1, <1>4
<1> QED
  BY <1>2, <1>5, <1>6 DEF Shape, TypeOK, GraphOK

\* a pending call: how far it is, and what it has still to take
GoodFrame(frame) ==
  /\ frame.at \in Within(Start, frame.depth)
  /\ asked.what # "hierarchy" => frame.depth < asked.depth
  /\ frame.members \subseteq Members(frame.at) /\ frame.rows \subseteq Neighbours(frame.at)

Reach == IF asked.what = "hierarchy" THEN All(Start) ELSE Within(Start, asked.depth) \cup {Start}

MemberWaits(v, m) == \E i \in 1 .. Len(stack) : stack[i].at = v /\ m \in stack[i].members
RowWaits(v, m)    == \E i \in 1 .. Len(stack) : stack[i].at = v /\ m \in stack[i].rows

Deep == Unlimited /\ (Bounded => asked.depth >= Cardinality(Nodes))

\* what holds at every moment of a recursive walk
Walked ==
  asked.what \in Walks =>
    /\ \A i \in 1 .. Len(stack) : GoodFrame(stack[i])
    /\ found \subseteq Reach /\ visited \subseteq found \cup {Start}
    /\ \A v \in visited : \A m \in Members(v) : m \in visited \/ MemberWaits(v, m)
    /\ \A v \in visited : \A m \in Neighbours(v) : m \in found \cup {Start} \/ RowWaits(v, m)
    /\ Unlimited /\ (asked.depth > 0 \/ asked.what = "hierarchy") => Start \in visited
    /\ Deep => found \subseteq visited
    /\ answered => stack = <<>>

(* What makes a frame good depends on the graph and the question only.      *)
LEMMA SameGoodFrames ==
  ASSUME UNCHANGED <<graph, asked>>
  PROVE  (\A frame : GoodFrame(frame)' <=> GoodFrame(frame)) /\ Reach' = Reach
<1>1. \A frame : GoodFrame(frame)' <=> GoodFrame(frame)
  BY SameRows, SameWithin DEF GoodFrame
<1>2. Reach' = Reach
  BY SameWithin DEF Reach
<1> QED
  BY <1>1, <1>2

(* A recursive walk begins well.                                            *)
LEMMA WalkedInit ==
  ASSUME Init
  PROVE  Walked
<1>1. SUFFICES ASSUME asked.what \in Walks
               PROVE  /\ \A i \in 1 .. Len(stack) : GoodFrame(stack[i])
                      /\ found \subseteq Reach /\ visited \subseteq found \cup {Start}
                      /\ \A v \in visited : \A m \in Members(v) : m \in visited \/ MemberWaits(v, m)
                      /\ \A v \in visited : \A m \in Neighbours(v) : m \in found \cup {Start} \/ RowWaits(v, m)
                      /\ Unlimited /\ (asked.depth > 0 \/ asked.what = "hierarchy") => Start \in visited
                      /\ Deep => found \subseteq visited
                      /\ answered => stack = <<>>
  BY DEF Walked
<1>2. GraphOK /\ leg = "up" /\ answered = FALSE /\ asked.depth \in Nat /\ asked.limit \in Nat
  <2>1. GraphOK /\ leg = "up" /\ answered = FALSE
    BY DEF Init, GraphOK
  <2> QED
    BY <2>1, Question
<1>3. found \subseteq {Start} /\ (asked.what = "dfs" => found = {Start}) /\ visited \subseteq {Start}
  BY DEF Init
<1>4. Start \in Within(Start, 0) /\ Start \in All(Start)
  BY <1>2, WithinFacts, AllFacts
<1>5. found \subseteq Reach
  BY <1>3, <1>4 DEF Reach
<1>6. CASE /\ asked.what = "hierarchy" \/ asked.depth > 0
           /\ asked.what = "dfs" => asked.limit > 1
  <2>1. stack = <<Frame(Start, 0)>> /\ visited = {Start}
    BY <1>1, <1>6 DEF Init
  <2>2. Len(stack) = 1 /\ stack[1] = Frame(Start, 0)
    BY <2>1
  <2>3. /\ Frame(Start, 0).at = Start /\ Frame(Start, 0).depth = 0
        /\ Frame(Start, 0).members = Members(Start) /\ Frame(Start, 0).rows = Neighbours(Start)
    BY <1>1, <1>2, FrameFacts
  <2>4. GoodFrame(Frame(Start, 0))
    BY <1>2, <1>4, <1>6, <2>3 DEF GoodFrame
  <2>5. \A m \in Members(Start) : MemberWaits(Start, m)
    BY <2>2, <2>3 DEF MemberWaits
  <2>6. \A m \in Neighbours(Start) : RowWaits(Start, m)
    BY <2>2, <2>3 DEF RowWaits
  <2> QED
    BY <1>2, <1>3, <1>5, <2>1, <2>2, <2>4, <2>5, <2>6
<1>7. CASE ~(/\ asked.what = "hierarchy" \/ asked.depth > 0
             /\ asked.what = "dfs" => asked.limit > 1)
  <2>1. stack = <<>> /\ visited = {} /\ asked.what # "hierarchy"
    BY <1>1, <1>7 DEF Init
  <2>2. asked.depth > 0 => asked.what = "dfs" /\ asked.limit <= 1
    BY <1>2, <1>7
  <2>3. Cardinality({Start}) = 1
    BY FS_Singleton
  <2>4. Unlimited => ~(asked.depth > 0)
    BY <1>2, <1>3, <2>2, <2>3 DEF Unlimited
  <2>5. Cardinality(Nodes) \in Nat /\ Cardinality(Nodes) # 0
    BY FS_CardinalityType, FS_EmptySet
  <2>6. ~Deep
    BY <1>1, <1>2, <2>1, <2>4, <2>5 DEF Deep, Bounded, Walks
  <2> QED
    BY <1>3, <1>5, <2>1, <2>4, <2>6
<1> QED
  BY <1>6, <1>7

\* the frames of the stack after a move, by the frames before it
LEMMA TookFrames ==
  ASSUME Shape, NEW m \in Nodes, NEW s \in Seq(Frames), NEW d \in Nat, Took(m, s, d)
  PROVE  /\ \A i \in 1 .. Len(stack) : \E j \in 1 .. Len(stack') : stack'[j] = s[i]
         /\ \A j \in 1 .. Len(stack') :
              \/ \E i \in 1 .. Len(stack) : stack'[j] = s[i]
              \/ stack'[j] = Frame(m, d) /\ Enters(m, d, found')
         /\ \/ visited' = visited
            \/ visited' = visited \cup {m} /\ \E j \in 1 .. Len(stack') : stack'[j] = Frame(m, d)
<1>1. Len(s) = Len(stack) /\ Len(stack) \in Nat \ {0}
  BY DEF Took, Shrunk
<1>2. CASE stack' = s /\ UNCHANGED visited
  BY <1>1, <1>2
<1>3. CASE Stacked(stack', s, Frame(m, d)) /\ visited' = visited \cup {m} /\ Enters(m, d, found')
  <2>1. /\ Len(stack') = Len(stack) + 1 /\ stack'[1] = Frame(m, d)
        /\ \A i \in 1 .. Len(stack) : stack'[i + 1] = s[i]
    BY <1>1, <1>3 DEF Stacked
  <2>2. \A i \in 1 .. Len(stack) : i + 1 \in 1 .. Len(stack')
    BY <1>1, <2>1
  <2>3. ASSUME NEW j \in 1 .. Len(stack'), j # 1
        PROVE  \E i \in 1 .. Len(stack) : stack'[j] = s[i]
    <3>1. j - 1 \in 1 .. Len(stack) /\ (j - 1) + 1 = j
      BY <1>1, <2>1, <2>3
    <3> QED
      BY <2>1, <3>1
  <2>4. 1 \in 1 .. Len(stack')
    BY <1>1, <2>1
  <2> QED
    BY <1>3, <2>1, <2>2, <2>3, <2>4
<1> QED
  BY <1>2, <1>3 DEF Took

(* A step to a member or a row keeps what holds of a recursive walk.        *)
LEMMA WalkedMove ==
  ASSUME Shape, FramesApart, Walked, NEW m \in Nodes, NEW s \in Seq(Frames), NEW d \in Nat, Took(m, s, d)
  PROVE  Walked'
<1>1. /\ asked.what \in Walks /\ leg = "up" /\ GraphOK /\ UNCHANGED <<graph, asked>> /\ answered' = answered
      /\ Len(stack) \in Nat \ {0} /\ 1 \in 1 .. Len(stack) /\ stack # <<>>
  BY DEF Took, Shape
<1>2. /\ \A i \in 1 .. Len(stack) : GoodFrame(stack[i])
      /\ found \subseteq Reach /\ visited \subseteq found \cup {Start}
      /\ \A v \in visited : \A k \in Members(v) : k \in visited \/ MemberWaits(v, k)
      /\ \A v \in visited : \A k \in Neighbours(v) : k \in found \cup {Start} \/ RowWaits(v, k)
      /\ Unlimited /\ (asked.depth > 0 \/ asked.what = "hierarchy") => Start \in visited
      /\ Deep => found \subseteq visited
      /\ answered => stack = <<>>
  BY <1>1 DEF Walked
<1>3. /\ stack[1].at \in Within(Start, stack[1].depth) /\ stack[1].depth \in Nat /\ stack[1].at \in Nodes
      /\ asked.what # "hierarchy" => stack[1].depth < asked.depth
      /\ stack[1].members \subseteq Members(stack[1].at) /\ stack[1].rows \subseteq Neighbours(stack[1].at)
  BY <1>1, <1>2, FrameTypes DEF GoodFrame, Shape
<1>4. asked.depth \in Nat /\ asked.limit \in Nat
  BY <1>1, Question
<1>5. m \in Within(Start, d) /\ (asked.what # "hierarchy" => d <= asked.depth)
  <2>1. CASE m \in stack[1].members /\ d = stack[1].depth
    BY <1>1, <1>3, <1>4, <2>1, WithinHoldsMembers
  <2>2. CASE m \in stack[1].rows /\ d = stack[1].depth + 1
    <3>1. \A x \in Within(Start, stack[1].depth) : Neighbours(x) \subseteq Within(Start, stack[1].depth + 1)
      BY <1>1, <1>3, WithinFacts
    <3>2. m \in Within(Start, d)
      BY <1>3, <2>2, <3>1
    <3>3. asked.what # "hierarchy" => d <= asked.depth
      BY <1>3, <1>4, <2>2
    <3> QED
      BY <3>2, <3>3
  <2> QED
    BY <2>1, <2>2 DEF Took
<1>6. m \in Reach
  <2>1. CASE asked.what = "hierarchy"
    BY <1>1, <1>5, <2>1, AllFacts DEF Reach
  <2>2. CASE asked.what # "hierarchy"
    <3>1. Within(Start, d) \subseteq Within(Start, asked.depth)
      BY <1>1, <1>4, <1>5, <2>2, WithinFacts
    <3> QED
      BY <1>5, <2>2, <3>1 DEF Reach
  <2> QED
    BY <2>1, <2>2
<1>7. /\ Frame(m, d).at = m /\ Frame(m, d).depth = d
      /\ Frame(m, d).members = Members(m) /\ Frame(m, d).rows = Neighbours(m)
  BY <1>1, FrameFacts
<1>8. /\ \A i \in 1 .. Len(stack) : s[i].at = stack[i].at /\ s[i].depth = stack[i].depth
      /\ \A i \in 2 .. Len(stack) : s[i] = stack[i]
      /\ \/ /\ s[1].members = stack[1].members \ {m} /\ s[1].rows = stack[1].rows
            /\ asked.what = "impact" /\ d = stack[1].depth
         \/ s[1].members = stack[1].members /\ s[1].rows = stack[1].rows \ {m} /\ d = stack[1].depth + 1
  BY DEF Took, Shrunk
<1>9. /\ \A i \in 1 .. Len(stack) : s[i].members \subseteq stack[i].members /\ s[i].rows \subseteq stack[i].rows
      /\ \A i \in 1 .. Len(stack) : \A k \in stack[i].members : k \in s[i].members \/ (i = 1 /\ k = m /\ k \notin s[1].members)
      /\ \A i \in 1 .. Len(stack) : \A k \in stack[i].rows : k \in s[i].rows \/ (i = 1 /\ k = m)
  <2>1. \A i \in 1 .. Len(stack) : i = 1 \/ i \in 2 .. Len(stack)
    BY <1>1
  <2> QED
    BY <1>8, <2>1
<1>10. \A i \in 1 .. Len(stack) : GoodFrame(s[i])
  BY <1>2, <1>8, <1>9 DEF GoodFrame
<1>11. /\ \A i \in 1 .. Len(stack) : \E j \in 1 .. Len(stack') : stack'[j] = s[i]
       /\ \A j \in 1 .. Len(stack') :
            \/ \E i \in 1 .. Len(stack) : stack'[j] = s[i]
            \/ stack'[j] = Frame(m, d) /\ Enters(m, d, found')
       /\ \/ visited' = visited
          \/ visited' = visited \cup {m} /\ \E j \in 1 .. Len(stack') : stack'[j] = Frame(m, d)
  BY TookFrames
<1>12. \A j \in 1 .. Len(stack') : GoodFrame(stack'[j])
  <2>1. Enters(m, d, found') => GoodFrame(Frame(m, d))
    BY <1>5, <1>7 DEF Enters, GoodFrame
  <2> QED
    BY <1>10, <1>11, <2>1
<1>13. /\ found \subseteq found' /\ found' \subseteq found \cup {m}
       /\ visited \subseteq visited'
       /\ m \in found' \/ m \in visited
  BY DEF Took
<1>14. found' \subseteq Reach /\ visited' \subseteq found' \cup {Start}
  BY <1>2, <1>6, <1>11, <1>13 DEF Took
<1>15. m \notin s[1].members /\ m \in stack[1].members => m \in visited'
  <2> SUFFICES ASSUME m \notin s[1].members, m \in stack[1].members PROVE m \in visited'
    OBVIOUS
  <2>1. s[1].members = stack[1].members \ {m} /\ s[1].rows = stack[1].rows /\ asked.what = "impact" /\ d = stack[1].depth
    BY <1>8
  <2>2. ~Enters(m, d, found') => m \in visited
    BY <1>3, <2>1 DEF Enters
  <2>3. Shrunk(s, {}, {m}) => FALSE
    BY <2>1 DEF Shrunk
  <2> QED
    BY <2>2, <2>3 DEF Took
<1>16. ASSUME NEW v \in visited', NEW k \in Members(v) PROVE k \in visited' \/ MemberWaits(v, k)'
  <2>1. CASE v \in visited
    <3>1. CASE MemberWaits(v, k)
      <4>1. PICK i \in 1 .. Len(stack) : stack[i].at = v /\ k \in stack[i].members
        BY <3>1 DEF MemberWaits
      <4>2. CASE k \in s[i].members
        <5>1. PICK j \in 1 .. Len(stack') : stack'[j] = s[i]
          BY <1>11
        <5>2. stack'[j].at = v /\ k \in stack'[j].members
          BY <1>8, <4>1, <4>2, <5>1
        <5> QED
          BY <5>2 DEF MemberWaits
      <4>3. CASE k \notin s[i].members
        BY <1>9, <1>15, <4>1, <4>3
      <4> QED
        BY <4>2, <4>3
    <3>2. CASE k \in visited
      BY <1>13, <3>2 DEF Took
    <3> QED
      BY <1>2, <2>1, <3>1, <3>2
  <2>2. CASE v \notin visited
    <3>1. v = m /\ \E j \in 1 .. Len(stack') : stack'[j] = Frame(m, d)
      BY <1>11, <2>2
    <3>2. PICK j \in 1 .. Len(stack') : stack'[j] = Frame(m, d)
      BY <3>1
    <3>3. stack'[j].at = v /\ k \in stack'[j].members
      BY <1>7, <3>1, <3>2
    <3> QED
      BY <3>3 DEF MemberWaits
  <2> QED
    BY <2>1, <2>2
<1>17. ASSUME NEW v \in visited', NEW k \in Neighbours(v) PROVE k \in found' \cup {Start} \/ RowWaits(v, k)'
  <2>1. CASE v \in visited
    <3>1. CASE RowWaits(v, k)
      <4>1. PICK i \in 1 .. Len(stack) : stack[i].at = v /\ k \in stack[i].rows
        BY <3>1 DEF RowWaits
      <4>2. CASE k \in s[i].rows
        <5>1. PICK j \in 1 .. Len(stack') : stack'[j] = s[i]
          BY <1>11
        <5>2. stack'[j].at = v /\ k \in stack'[j].rows
          BY <1>8, <4>1, <4>2, <5>1
        <5> QED
          BY <5>2 DEF RowWaits
      <4>3. CASE k = m
        <5>1. m \in found' \/ m \in visited
          BY DEF Took
        <5> QED
          BY <1>2, <4>3, <5>1, <1>13
      <4> QED
        BY <1>9, <4>1, <4>2, <4>3
    <3>2. CASE k \in found \cup {Start}
      BY <1>13, <3>2
    <3> QED
      BY <1>2, <2>1, <3>1, <3>2
  <2>2. CASE v \notin visited
    <3>1. v = m /\ \E j \in 1 .. Len(stack') : stack'[j] = Frame(m, d)
      BY <1>11, <2>2
    <3>2. PICK j \in 1 .. Len(stack') : stack'[j] = Frame(m, d)
      BY <3>1
    <3>3. stack'[j].at = v /\ k \in stack'[j].rows
      BY <1>7, <3>1, <3>2
    <3> QED
      BY <3>3 DEF RowWaits
  <2> QED
    BY <2>1, <2>2
<1>18. Unlimited' => Unlimited
  <2>1. found \subseteq found' /\ IsFiniteSet(found') /\ IsFiniteSet(found)
    BY <1>13, FS_Subset DEF Shape, Took
  <2>2. Cardinality(found) <= Cardinality(found') /\ Cardinality(found) \in Nat /\ Cardinality(found') \in Nat
    BY <2>1, FS_Subset, FS_CardinalityType
  <2> QED
    BY <1>1, <1>4, <2>2 DEF Unlimited
<1>19. visited \subseteq visited'
  BY <1>11
<1>20. Deep' => Deep
  BY <1>1, <1>18 DEF Deep, Bounded
<1>21. Deep' => found' \subseteq visited'
  <2> SUFFICES ASSUME Deep' PROVE found' \subseteq visited'
    OBVIOUS
  <2>1. found \subseteq visited
    BY <1>2, <1>20
  <2>2. m \in found' => m \in visited' \/ m \in found
    <3>1. SUFFICES ASSUME ~Enters(m, d, found'), m \notin visited PROVE FALSE
      BY DEF Took
    <3>2. Len(stack) < Cardinality(Nodes) /\ Cardinality(Nodes) \in Nat
      BY <3>1, StackIsShort
    <3>3. stack[1].depth <= Len(stack) - 1
      BY <1>1 DEF FramesApart
    <3>4. d <= Len(stack)
      BY <1>1, <1>3, <1>8, <3>3
    <3>5. asked.what # "hierarchy" => asked.depth >= Cardinality(Nodes)
      BY <1>1 DEF Deep, Bounded, Walks
    <3>6. asked.what = "dfs" => Cardinality(found') < asked.limit
      BY <1>1 DEF Deep, Unlimited
    <3> QED
      BY <1>1, <1>4, <3>1, <3>2, <3>4, <3>5, <3>6 DEF Enters
  <2> QED
    BY <1>13, <1>19, <2>1, <2>2
<1>22. answered' => stack' = <<>>
  BY <1>1, <1>2
<1>23. Unlimited' /\ (asked.depth > 0 \/ asked.what = "hierarchy") => Start \in visited'
  BY <1>2, <1>18, <1>19
<1>24. /\ \A frame : GoodFrame(frame)' <=> GoodFrame(frame)
       /\ Reach' = Reach /\ \A n : Members(n)' = Members(n) /\ Neighbours(n)' = Neighbours(n)
  BY <1>1, SameGoodFrames, SameRows
<1> QED
  BY <1>1, <1>12, <1>14, <1>16, <1>17, <1>21, <1>22, <1>23, <1>24 DEF Walked

(* Every step keeps what holds of a recursive walk.                         *)
LEMMA WalkedStep ==
  ASSUME Shape, FramesApart, Walked, Stepped
  PROVE  Walked'
<1>1. ASSUME NEW m \in Nodes, NEW s \in Seq(Frames), NEW d \in Nat, Took(m, s, d) PROVE Walked'
  BY <1>1, WalkedMove
<1>2. UNCHANGED <<graph, asked>>
  BY StepKeepsGraph
<1>3. /\ \A frame : GoodFrame(frame)' <=> GoodFrame(frame)
      /\ Reach' = Reach /\ \A n : Members(n)' = Members(n) /\ Neighbours(n)' = Neighbours(n)
  BY <1>2, SameGoodFrames, SameRows
<1>4. CASE CallOver /\ asked.what \in Walks
  <2>1. /\ Len(stack) \in Nat \ {0} /\ stack[1].members = {} /\ stack[1].rows = {}
        /\ Len(stack') = Len(stack) - 1 /\ \A i \in 1 .. Len(stack) - 1 : stack'[i] = stack[i + 1]
        /\ UNCHANGED <<visited, found, answered>>
    BY <1>4 DEF CallOver
  <2>2. \A i \in 1 .. Len(stack') : i + 1 \in 1 .. Len(stack) /\ stack'[i] = stack[i + 1]
    BY <2>1
  <2>3. \A i \in 1 .. Len(stack) : i = 1 \/ \E j \in 1 .. Len(stack') : stack'[j] = stack[i]
    <3> TAKE i \in 1 .. Len(stack)
    <3>1. CASE i # 1
      <4>1. i - 1 \in 1 .. Len(stack') /\ (i - 1) + 1 = i
        BY <2>1, <3>1
      <4> QED
        BY <2>2, <4>1
    <3> QED
      BY <3>1
  <2>4. ASSUME NEW v, NEW k, MemberWaits(v, k) PROVE MemberWaits(v, k)'
    <3>1. PICK i \in 1 .. Len(stack) : stack[i].at = v /\ k \in stack[i].members
      BY <2>4 DEF MemberWaits
    <3>2. i # 1
      BY <2>1, <3>1
    <3>3. PICK j \in 1 .. Len(stack') : stack'[j] = stack[i]
      BY <2>3, <3>2
    <3> QED
      BY <3>1, <3>3 DEF MemberWaits
  <2>5. ASSUME NEW v, NEW k, RowWaits(v, k) PROVE RowWaits(v, k)'
    <3>1. PICK i \in 1 .. Len(stack) : stack[i].at = v /\ k \in stack[i].rows
      BY <2>5 DEF RowWaits
    <3>2. i # 1
      BY <2>1, <3>1
    <3>3. PICK j \in 1 .. Len(stack') : stack'[j] = stack[i]
      BY <2>3, <3>2
    <3> QED
      BY <3>1, <3>3 DEF RowWaits
  <2>6. \A i \in 1 .. Len(stack') : GoodFrame(stack'[i])
    BY <1>4, <2>2 DEF Walked
  <2>7. stack # <<>>
    BY <2>1
  <2>8. Unlimited' = Unlimited /\ Deep' = Deep
    BY <1>2, <2>1 DEF Unlimited, Deep, Bounded
  <2> QED
    BY <1>2, <1>3, <1>4, <2>1, <2>4, <2>5, <2>6, <2>7, <2>8 DEF Walked
<1>5. CASE Lingered
  <2>1. asked.what \in Walks /\ stack = <<>> /\ UNCHANGED <<stack, visited, found>>
    BY <1>5 DEF Lingered
  <2>2. \A v, k : (MemberWaits(v, k)' <=> MemberWaits(v, k)) /\ (RowWaits(v, k)' <=> RowWaits(v, k))
    BY <2>1 DEF MemberWaits, RowWaits
  <2>3. Unlimited' = Unlimited /\ Deep' = Deep
    BY <1>2, <2>1 DEF Unlimited, Deep, Bounded
  <2> QED
    BY <1>2, <1>3, <2>1, <2>2, <2>3 DEF Walked
<1>6. CASE asked.what \notin Walks
  BY <1>2, <1>6 DEF Walked
<1> QED
  BY <1>1, <1>4, <1>5, <1>6
  DEF Stepped, Dropped, Visited, Arrived, Opened, Looked, Climbed, Over, Walks

-----------------------------------------------------------------------------
(* What follows when a walk has answered                                     *)

(* A recursive walk finds nothing out of reach.                             *)
LEMMA WalkedReach ==
  ASSUME Shape, Walked, asked.what \in Walks
  PROVE  AnswerIsInReach /\ found \subseteq All(Start)
<1>1. GraphOK /\ found \subseteq Reach
  BY DEF Shape, Walked
<1>2. asked.depth \in Nat
  BY <1>1, Question
<1>3. AnswerIsInReach
  BY <1>1 DEF AnswerIsInReach, Bounded, Reach
<1>4. Reach \subseteq All(Start)
  BY <1>1, <1>2, AllFacts DEF Reach
<1> QED
  BY <1>1, <1>3, <1>4

\* all calls returned: what has been entered has been taken whole
LEMMA AllTaken ==
  ASSUME Shape, Walked, asked.what \in Walks, answered
  PROVE  /\ \A v \in visited : Members(v) \subseteq visited /\ Neighbours(v) \subseteq found \cup {Start}
         /\ visited \subseteq found \cup {Start}
<1>1. stack = <<>>
  BY DEF Walked
<1>2. \A v, m : ~MemberWaits(v, m) /\ ~RowWaits(v, m)
  BY <1>1 DEF MemberWaits, RowWaits
<1> QED
  BY <1>2 DEF Walked

(* A recursive walk loses nothing that is nearest.                          *)
LEMMA WalkedNearest ==
  ASSUME Shape, Walked
  PROVE  NearestAreComplete
<1>1. SUFFICES ASSUME answered, asked.what \in Walks, asked.depth > 0, Unlimited
               PROVE  LET near == WithMembers({Start})
                      IN near \cup UNION {Neighbours(n) : n \in near} \subseteq found \cup {Start}
  BY DEF NearestAreComplete
<1>2. Start \in visited /\ visited \subseteq Nodes /\ GraphOK
  BY <1>1 DEF Walked, Shape
<1>3. /\ \A v \in visited : Members(v) \subseteq visited /\ Neighbours(v) \subseteq found \cup {Start}
      /\ visited \subseteq found \cup {Start}
  BY <1>1, AllTaken
<1>4. WithMembers({Start}) \subseteq visited
  <2>1. {Start} \in SUBSET Nodes /\ {Start} \subseteq visited
    BY <1>2
  <2>2. \A n \in visited \cap Nodes : Members(n) \subseteq visited
    BY <1>3
  <2> QED
    BY <1>2, <2>1, <2>2, MembersFacts
<1> QED
  BY <1>3, <1>4

(* A recursive walk that no limit stops finds all.                          *)
LEMMA WalkedWhole ==
  ASSUME Shape, Walked, answered, asked.what \in Walks, Deep
  PROVE  found \cup {Start} = Whole
<1>1. GraphOK /\ visited \subseteq Nodes /\ found \subseteq visited /\ found \subseteq All(Start)
  BY WalkedReach DEF Shape, Walked
<1>2. Start \in visited
  <2>1. asked.depth \in Nat /\ Cardinality(Nodes) \in Nat /\ Cardinality(Nodes) # 0
    BY <1>1, Question, FS_CardinalityType, FS_EmptySet
  <2>2. asked.depth > 0 \/ asked.what = "hierarchy"
    BY <2>1 DEF Deep, Bounded, Walks
  <2> QED
    BY <2>2 DEF Walked, Deep
<1>3. /\ \A v \in visited : Members(v) \subseteq visited /\ Neighbours(v) \subseteq found \cup {Start}
      /\ visited \subseteq found \cup {Start}
  BY AllTaken
<1>4. \A v \in visited \cap Nodes : Members(v) \subseteq visited /\ Neighbours(v) \subseteq visited
  BY <1>1, <1>2, <1>3
<1>5. \A k \in Nat : Within(Start, k) \subseteq visited
  BY <1>1, <1>2, <1>4, WithinLeast
<1>6. Whole \subseteq visited /\ Whole = All(Start)
  BY <1>5, FS_CardinalityType DEF Whole, All
<1>7. Start \in All(Start)
  BY <1>1, AllFacts
<1> QED
  BY <1>1, <1>3, <1>6, <1>7

\* the end of the chain so far
Cur == Last(queue[1])
OneAbove == \A n \in Nodes : Cardinality(Above(n)) <= 1

\* what holds at every moment of getAncestors
Chained ==
  asked.what = "ancestors" =>
    /\ Cur \in found \cup {Start} /\ found \cup {Start} \subseteq visited \cup {Cur}
    /\ found \subseteq All(Start) /\ visited \subseteq found \cup {Start}
    /\ OneAbove => \A v \in visited : Above(v) \subseteq found \cup {Start}
    /\ answered => Cur \in visited

(* A chain of containers begins well.                                       *)
LEMMA ChainedInit ==
  ASSUME Init
  PROVE  Chained
<1>1. SUFFICES ASSUME asked.what = "ancestors" PROVE Chained
  BY DEF Chained
<1>2. queue = <<<<Start>>>> /\ visited = {} /\ found = {} /\ answered = FALSE
  BY <1>1 DEF Init, Walks
<1>3. Cur = Start
  BY <1>2 DEF Cur, Last
<1> QED
  BY <1>2, <1>3 DEF Chained

(* Every step keeps what holds of a chain.                                  *)
LEMMA ChainedStep ==
  ASSUME Shape, Chained, Stepped
  PROVE  Chained'
<1>1. UNCHANGED <<graph, asked>> /\ \A n : Above(n)' = Above(n) /\ Neighbours(n)' = Neighbours(n) /\ All(n)' = All(n)
  BY StepKeepsGraph, SameRows, SameWithin
<1>2. OneAbove' = OneAbove
  BY <1>1 DEF OneAbove
<1>3. ASSUME NEW n \in Nodes, Climbed(n) PROVE Chained'
  <2>1. asked.what = "ancestors" /\ ~answered /\ n = Cur /\ visited' = visited \cup {n} /\ GraphOK
    BY <1>3 DEF Climbed, Cur, Shape
  <2>2. /\ n \in found \cup {Start} /\ found \cup {Start} \subseteq visited \cup {n}
        /\ found \subseteq All(Start) /\ visited \subseteq found \cup {Start}
        /\ OneAbove => \A v \in visited : Above(v) \subseteq found \cup {Start}
    BY <2>1 DEF Chained
  <2>3. CASE (n \in visited \/ Above(n) = {}) /\ answered' /\ UNCHANGED <<queue, found, links>>
    <3>1. Cur' = n
      BY <2>1, <2>3 DEF Cur
    <3> QED
      BY <1>1, <1>2, <2>1, <2>2, <2>3, <3>1 DEF Chained
  <2>4. ASSUME NEW m \in Above(n), queue' = <<<<m>>>>, found' = found \cup {m}, UNCHANGED answered
        PROVE  Chained'
    <3>1. Cur' = m
      BY <2>4 DEF Cur, Last
    <3>2. Above(n) = Neighbours(n)
      BY <2>1 DEF Neighbours
    <3>3. m \in All(Start)
      <4>1. n \in All(Start)
        BY <2>1, <2>2, AllFacts
      <4> QED
        BY <2>1, <3>2, <4>1, AllFacts
    <3>4. OneAbove => Above(n) = {m}
      <4>1. IsFiniteSet(Above(n))
        <5>1. Above(n) \subseteq Nodes
          BY <2>1, RowsAreNodes
        <5> QED
          BY <5>1, FS_Subset
      <4>2. Cardinality({m}) = 1 /\ {m} \subseteq Above(n) /\ Cardinality(Above(n)) \in Nat
        BY <4>1, FS_Singleton, FS_CardinalityType
      <4>3. Cardinality({m}) <= Cardinality(Above(n)) /\ (Cardinality(Above(n)) = Cardinality({m}) => Above(n) = {m})
        BY <4>1, <4>2, FS_Subset
      <4> QED
        BY <4>2, <4>3 DEF OneAbove
    <3> QED
      BY <1>1, <1>2, <2>1, <2>2, <2>4, <3>1, <3>3, <3>4 DEF Chained
  <2> QED
    BY <1>3, <2>3, <2>4 DEF Climbed
<1>4. CASE asked.what # "ancestors"
  BY <1>1, <1>4 DEF Chained
<1> QED
  BY <1>3, <1>4
  DEF Stepped, Dropped, Visited, Arrived, Took, CallOver, Lingered, Opened, Looked, Over, Walks

(* A chain in a tree of containers finds all of them.                       *)
LEMMA ChainedWhole ==
  ASSUME Shape, Chained, answered, asked.what = "ancestors", OneAbove
  PROVE  found \cup {Start} = Whole
<1>1. /\ found \cup {Start} \subseteq visited /\ visited \subseteq found \cup {Start} /\ found \subseteq All(Start)
      /\ \A v \in visited : Above(v) \subseteq found \cup {Start}
  BY DEF Chained
<1>2. GraphOK /\ visited \subseteq Nodes /\ Cardinality(Nodes) \in Nat
  BY FS_CardinalityType DEF Shape
<1>3. \A v \in visited \cap Nodes : Members(v) \subseteq visited /\ Neighbours(v) \subseteq visited
  BY <1>1 DEF Members, Neighbours
<1>4. \A k \in Nat : Within(Start, k) \subseteq visited
  BY <1>1, <1>2, <1>3, WithinLeast
<1>5. Start \in All(Start) /\ Whole = All(Start)
  BY <1>2, AllFacts DEF Whole, All
<1> QED
  BY <1>1, <1>2, <1>4, <1>5 DEF Whole

(* So every walk that no limit stops finds all.                             *)
LEMMA WholeHolds ==
  ASSUME Shape, Walked, Chained
  PROVE  WholeWhenDeep
<1>0. found \cup {Start} = Whole => WholeWhenDeep
  BY DEF WholeWhenDeep
<1>1. CASE asked.what \in Walks
  <2>1. CASE answered /\ Deep
    BY <1>0, <1>1, <2>1, WalkedWhole
  <2>2. CASE ~(answered /\ Deep)
    BY <1>1, <2>2 DEF WholeWhenDeep, Deep, Walks
  <2> QED
    BY <2>1, <2>2
<1>2. CASE asked.what = "ancestors"
  <2>1. CASE answered /\ OneAbove
    BY <1>0, <1>2, <2>1, ChainedWhole
  <2>2. CASE ~(answered /\ OneAbove)
    BY <1>2, <2>2 DEF WholeWhenDeep, OneAbove
  <2> QED
    BY <2>1, <2>2
<1> QED
  BY <1>1, <1>2 DEF WholeWhenDeep

Far(l) == asked.what = "bfs" /\ l >= asked.depth

Sorted(q) ==
  /\ \A i, j \in 1 .. Len(q) : i <= j => Len(q[i]) <= Len(q[j])
  /\ \A j \in 1 .. Len(q) : Len(q[j]) <= Len(q[1]) + 1

\* lvl is the length of the path by which a node was visited
Layered(lvl) ==
  /\ lvl \in [Nodes -> Nat] /\ Sorted(queue)
  /\ \A v \in visited : \A i \in 1 .. Len(queue) : lvl[v] <= Len(queue[i]) - 1
  /\ \A v \in visited : Far(lvl[v]) \/ \A m \in Neighbours(v) :
       \/ m \in visited /\ lvl[m] <= lvl[v] + 1
       \/ \E i \in 1 .. Len(queue) : Last(queue[i]) = m /\ Len(queue[i]) <= lvl[v] + 2
  /\ \/ Start \in visited /\ lvl[Start] = 0
     \/ visited = {} /\ queue = <<<<Start>>>>

(* The types of a queue of paths.                                           *)
LEMMA PathTypes ==
  ASSUME NEW q \in Seq(Paths)
  PROVE  Len(q) \in Nat /\ \A i \in 1 .. Len(q) : q[i] \in Paths /\ Len(q[i]) \in Nat \ {0} /\ Last(q[i]) \in Nodes
<1>1. Len(q) \in Nat /\ \A i \in 1 .. Len(q) : q[i] \in Paths
  BY Elements
<1>2. ASSUME NEW p \in Paths PROVE Len(p) \in Nat \ {0} /\ Last(p) \in Nodes
  BY DEF Paths, Last
<1> QED
  BY <1>1, <1>2

(* A queue sorted by length stays so without its head.                      *)
LEMMA RestSorted ==
  ASSUME NEW q \in Seq(Paths), NEW T \in Seq(Paths), q # <<>>, HeadGone(T, q), Sorted(q)
  PROVE  /\ Sorted(T)
         /\ \A k \in 1 .. Len(T) : \E i \in 1 .. Len(q) : T[k] = q[i]
         /\ \A k \in 1 .. Len(T) : Len(q[1]) <= Len(T[k]) /\ Len(T[k]) <= Len(q[1]) + 1
         /\ \A i \in 1 .. Len(q) : i = 1 \/ \E k \in 1 .. Len(T) : T[k] = q[i]
<1>1. Len(q) \in Nat \ {0} /\ Len(T) = Len(q) - 1 /\ Len(T) \in Nat
  BY PathTypes DEF HeadGone
<1>2. /\ \A i \in 1 .. Len(q) : Len(q[i]) \in Nat
      /\ \A i \in 1 .. Len(T) : Len(T[i]) \in Nat
  BY PathTypes
<1>3. \A k \in 1 .. Len(T) : k \in 1 .. Len(q) /\ k + 1 \in 1 .. Len(q) /\ (T[k] = q[k] \/ T[k] = q[k + 1])
  <2> TAKE k \in 1 .. Len(T)
  <2>1. k \in 1 .. Len(q) /\ k + 1 \in 1 .. Len(q)
    BY <1>1
  <2> QED
    BY <2>1 DEF HeadGone
<1>4. \A k \in 1 .. Len(T) : Len(q[k]) <= Len(T[k]) /\ Len(T[k]) <= Len(q[k + 1])
  <2> TAKE k \in 1 .. Len(T)
  <2>1. k \in 1 .. Len(q) /\ k + 1 \in 1 .. Len(q) /\ k <= k + 1 /\ (T[k] = q[k] \/ T[k] = q[k + 1])
    BY <1>3
  <2>2. Len(q[k]) <= Len(q[k + 1]) /\ Len(q[k]) \in Nat /\ Len(q[k + 1]) \in Nat
    BY <1>2, <2>1 DEF Sorted
  <2> QED
    BY <2>1, <2>2
<1>5. ASSUME NEW k \in 1 .. Len(T), NEW l \in 1 .. Len(T), k <= l PROVE Len(T[k]) <= Len(T[l])
  <2>1. CASE k = l
    BY <1>2, <2>1
  <2>2. CASE k # l
    <3>1. k + 1 \in 1 .. Len(q) /\ l \in 1 .. Len(q) /\ k + 1 <= l
      BY <1>3, <1>5, <2>2
    <3>2. Len(q[k + 1]) <= Len(q[l])
      BY <3>1 DEF Sorted
    <3>3. Len(T[k]) <= Len(q[k + 1]) /\ Len(q[l]) <= Len(T[l])
      BY <1>4
    <3>4. Len(T[k]) \in Nat /\ Len(T[l]) \in Nat /\ Len(q[k + 1]) \in Nat /\ Len(q[l]) \in Nat
      BY <1>2, <3>1
    <3> QED
      BY <3>2, <3>3, <3>4
  <2> QED
    BY <2>1, <2>2
<1>6. ASSUME NEW k \in 1 .. Len(T) PROVE Len(q[1]) <= Len(T[k]) /\ Len(T[k]) <= Len(q[1]) + 1
  <2>1. PICK i \in 1 .. Len(q) : T[k] = q[i]
    BY <1>3
  <2>2. 1 \in 1 .. Len(q) /\ 1 <= i
    BY <1>1
  <2> QED
    BY <2>1, <2>2 DEF Sorted
<1>7. \A k \in 1 .. Len(T) : Len(T[k]) <= Len(T[1]) + 1
  <2> TAKE k \in 1 .. Len(T)
  <2>1. 1 \in 1 .. Len(T) /\ 1 \in 1 .. Len(q)
    BY <1>1
  <2>2. Len(q[1]) <= Len(T[1]) /\ Len(T[k]) <= Len(q[1]) + 1
    BY <1>6, <2>1
  <2>3. Len(T[1]) \in Nat /\ Len(T[k]) \in Nat /\ Len(q[1]) \in Nat
    BY <1>2, <2>1
  <2> QED
    BY <2>2, <2>3
<1>8. \A i \in 1 .. Len(q) : i = 1 \/ i \in 2 .. Len(q)
  BY <1>1
<1>9. \A i \in 1 .. Len(q) : i = 1 \/ \E k \in 1 .. Len(T) : T[k] = q[i]
  BY <1>8 DEF HeadGone
<1>10. Sorted(T)
  BY <1>5, <1>7 DEF Sorted
<1> QED
  BY <1>3, <1>6, <1>9, <1>10

\* the paths of T have length c or c + 1, those of H the latter
Levels(T, H, c) ==
  /\ Sorted(T) /\ \A k \in 1 .. Len(T) : c <= Len(T[k]) /\ Len(T[k]) <= c + 1
  /\ \A k \in 1 .. Len(H) : Len(H[k]) = c + 1

\* Q is a queue of the paths of T and those of H
Joint(Q, T, H) ==
  /\ Q \in Seq(Paths) /\ Sorted(Q)
  /\ \A k \in 1 .. Len(Q) : \/ \E i \in 1 .. Len(T) : Q[k] = T[i]
                            \/ \E i \in 1 .. Len(H) : Q[k] = H[i]
  /\ \A i \in 1 .. Len(T) : \E k \in 1 .. Len(Q) : Q[k] = T[i]
  /\ \A i \in 1 .. Len(H) : \E k \in 1 .. Len(Q) : Q[k] = H[i]

(* A sorted queue stays so when paths one longer than its head are added.   *)
LEMMA MoreSorted ==
  ASSUME NEW T \in Seq(Paths), NEW H \in Seq(Paths), NEW c \in Nat, Levels(T, H, c)
  PROVE  Joint(T \o H, T, H)
<1>q. PICK Q : Q = T \o H
  OBVIOUS
<1>0. /\ Sorted(T) /\ \A k \in 1 .. Len(T) : c <= Len(T[k]) /\ Len(T[k]) <= c + 1
      /\ \A k \in 1 .. Len(H) : Len(H[k]) = c + 1
  BY DEF Levels
<1>1. /\ Q \in Seq(Paths) /\ Len(Q) = Len(T) + Len(H)
      /\ \A i \in 1 .. Len(T) : Q[i] = T[i]
      /\ \A i \in 1 .. Len(H) : Q[Len(T) + i] = H[i]
  BY <1>q, Joined
<1>2. Len(T) \in Nat /\ Len(H) \in Nat
  BY PathTypes
<1>3. \A k \in 1 .. Len(Q) : /\ k <= Len(T) => k \in 1 .. Len(T)
                             /\ k > Len(T) => k - Len(T) \in 1 .. Len(H) /\ Len(T) + (k - Len(T)) = k
  BY <1>1, <1>2
<1>4. \A k \in 1 .. Len(Q) : /\ k <= Len(T) => k \in 1 .. Len(T) /\ Q[k] = T[k]
                             /\ k > Len(T) => k - Len(T) \in 1 .. Len(H) /\ Q[k] = H[k - Len(T)] /\ Len(Q[k]) = c + 1
  <2> TAKE k \in 1 .. Len(Q)
  <2>1. CASE k <= Len(T)
    BY <1>1, <1>2, <1>3, <2>1
  <2>2. CASE k > Len(T)
    <3>1. k - Len(T) \in 1 .. Len(H) /\ Q[Len(T) + (k - Len(T))] = H[k - Len(T)] /\ Len(T) + (k - Len(T)) = k
      BY <1>1, <1>3, <2>2
    <3> QED
      BY <1>0, <1>2, <2>2, <3>1
  <2> QED
    BY <1>2, <2>1, <2>2
<1>5. \A k \in 1 .. Len(Q) : c <= Len(Q[k]) /\ Len(Q[k]) <= c + 1 /\ Len(Q[k]) \in Nat
  <2> TAKE k \in 1 .. Len(Q)
  <2>1. k <= Len(T) \/ k > Len(T)
    BY <1>2
  <2>2. c <= c + 1 /\ c + 1 <= c + 1
    OBVIOUS
  <2>3. Len(Q[k]) \in Nat
    BY <1>1, PathTypes
  <2> QED
    BY <1>0, <1>4, <2>1, <2>2, <2>3
<1>6. ASSUME NEW i \in 1 .. Len(Q), NEW j \in 1 .. Len(Q), i <= j PROVE Len(Q[i]) <= Len(Q[j])
  <2>1. CASE j <= Len(T)
    <3>1. i <= Len(T)
      BY <1>2, <1>6, <2>1
    <3>2. i \in 1 .. Len(T) /\ j \in 1 .. Len(T) /\ Q[i] = T[i] /\ Q[j] = T[j]
      BY <1>4, <2>1, <3>1
    <3> QED
      BY <1>0, <1>6, <3>2 DEF Sorted
  <2>2. CASE j > Len(T)
    BY <1>4, <1>5, <2>2
  <2> QED
    BY <1>2, <2>1, <2>2
<1>7. \A j \in 1 .. Len(Q) : Len(Q[j]) <= Len(Q[1]) + 1
  <2> TAKE j \in 1 .. Len(Q)
  <2>1. 1 \in 1 .. Len(Q)
    BY <1>1, <1>2
  <2>2. c <= Len(Q[1]) /\ Len(Q[j]) <= c + 1 /\ Len(Q[1]) \in Nat /\ Len(Q[j]) \in Nat
    BY <1>5, <2>1
  <2>3. \A a, b \in Nat : c <= a /\ b <= c + 1 => b <= a + 1
    OBVIOUS
  <2> QED
    BY <2>2, <2>3
<1>8. Sorted(Q)
  BY <1>6, <1>7 DEF Sorted
<1>9. \A k \in 1 .. Len(Q) : \/ \E i \in 1 .. Len(T) : Q[k] = T[i]
                             \/ \E i \in 1 .. Len(H) : Q[k] = H[i]
  BY <1>2, <1>4
<1>10. \A i \in 1 .. Len(T) : \E k \in 1 .. Len(Q) : Q[k] = T[i]
  <2> TAKE i \in 1 .. Len(T)
  <2>1. i \in 1 .. Len(Q)
    BY <1>1, <1>2
  <2> QED
    BY <1>1, <2>1
<1>11. \A i \in 1 .. Len(H) : \E k \in 1 .. Len(Q) : Q[k] = H[i]
  <2> TAKE i \in 1 .. Len(H)
  <2>1. Len(T) + i \in 1 .. Len(Q)
    BY <1>1, <1>2
  <2> QED
    BY <1>1, <2>1
<1>12. Joint(Q, T, H)
  BY <1>1, <1>8, <1>9, <1>10, <1>11 DEF Joint
<1> QED
  BY <1>q, <1>12

\* what holds at every moment of a search by breadth
Searched == asked.what \in {"bfs", "path"} => \E lvl : Layered(lvl)

(* A search begins with levels.                                             *)
LEMMA SearchedInit ==
  ASSUME Init
  PROVE  Searched
<1>1. SUFFICES ASSUME asked.what \in {"bfs", "path"} PROVE \E lvl : Layered(lvl)
  BY DEF Searched
<1>2. queue = <<<<Start>>>> /\ visited = {}
  BY <1>1 DEF Init, Walks
<1> DEFINE lvl == [n \in Nodes |-> 0]
<1>3. Len(queue) = 1 /\ queue[1] = <<Start>> /\ Len(queue[1]) = 1
  BY <1>2
<1>4. Sorted(queue)
  <2>0. Len(queue) = 1 /\ Len(queue[1]) = 1
    BY <1>3
  <2>1. ASSUME NEW i \in 1 .. Len(queue) PROVE i = 1
    BY <2>0
  <2>2. ASSUME NEW i \in 1 .. Len(queue) PROVE Len(queue[i]) = 1
    <3>1. i = 1
      BY <2>1
    <3> QED
      BY <2>0, <3>1
  <2>3. \A i, j \in 1 .. Len(queue) : Len(queue[i]) <= Len(queue[j])
    <3> TAKE i, j \in 1 .. Len(queue)
    <3>1. Len(queue[i]) = 1 /\ Len(queue[j]) = 1
      BY <2>2
    <3> QED
      BY <3>1
  <2>4. \A j \in 1 .. Len(queue) : Len(queue[j]) <= Len(queue[1]) + 1
    <3> TAKE j \in 1 .. Len(queue)
    <3>1. Len(queue[j]) = 1
      BY <2>2
    <3> QED
      BY <2>0, <3>1
  <2> QED
    BY <2>3, <2>4 DEF Sorted
<1>5. Layered(lvl)
  BY <1>2, <1>4 DEF Layered
<1> QED
  BY <1>5

(* The levels stay when the head of the queue is dropped.                   *)
LEMMA LayeredDrop ==
  ASSUME Shape, NEW lvl, Layered(lvl), NEW p \in Paths, NEW n \in Nodes, Dropped(p, n)
  PROVE  Layered(lvl)'
<1>1. /\ UNCHANGED <<graph, asked, visited>> /\ HeadGone(queue', queue) /\ queue # <<>> /\ p = queue[1]
      /\ n = Last(p) /\ n \in visited /\ queue \in Seq(Paths) /\ queue' \in Seq(Paths)
  BY DEF Dropped, HeadGone, Shape
<1>2. /\ lvl \in [Nodes -> Nat] /\ Sorted(queue)
      /\ \A v \in visited : \A i \in 1 .. Len(queue) : lvl[v] <= Len(queue[i]) - 1
      /\ \A v \in visited : Far(lvl[v]) \/ \A m \in Neighbours(v) :
           \/ m \in visited /\ lvl[m] <= lvl[v] + 1
           \/ \E i \in 1 .. Len(queue) : Last(queue[i]) = m /\ Len(queue[i]) <= lvl[v] + 2
      /\ \/ Start \in visited /\ lvl[Start] = 0
         \/ visited = {} /\ queue = <<<<Start>>>>
  BY DEF Layered
<1> DEFINE T == queue'
<1>3. /\ Sorted(T)
      /\ \A k \in 1 .. Len(T) : \E i \in 1 .. Len(queue) : T[k] = queue[i]
      /\ \A i \in 1 .. Len(queue) : i = 1 \/ \E k \in 1 .. Len(T) : T[k] = queue[i]
  BY <1>1, <1>2, RestSorted
<1>4. \A v \in visited : \A k \in 1 .. Len(T) : lvl[v] <= Len(T[k]) - 1
  BY <1>2, <1>3
<1>5. visited \subseteq Nodes /\ Len(queue[1]) \in Nat /\ 1 \in 1 .. Len(queue)
  <2>1. Len(queue) \in Nat /\ Len(queue) # 0
    BY <1>1
  <2>2. 1 \in 1 .. Len(queue)
    BY <2>1
  <2>3. Len(queue[1]) \in Nat
    BY <1>1, <2>2, PathTypes
  <2> QED
    BY <2>2, <2>3 DEF Shape
<1>6. ASSUME NEW v \in visited, ~Far(lvl[v]), NEW m \in Neighbours(v)
      PROVE  \/ m \in visited /\ lvl[m] <= lvl[v] + 1
             \/ \E k \in 1 .. Len(T) : Last(T[k]) = m /\ Len(T[k]) <= lvl[v] + 2
  <2>1. ASSUME NEW i \in 1 .. Len(queue), Last(queue[i]) = m, Len(queue[i]) <= lvl[v] + 2
        PROVE  \/ m \in visited /\ lvl[m] <= lvl[v] + 1
               \/ \E k \in 1 .. Len(T) : Last(T[k]) = m /\ Len(T[k]) <= lvl[v] + 2
    <3>1. CASE i = 1
      <4>1. m = n /\ m \in visited /\ lvl[m] <= Len(queue[1]) - 1 /\ Len(queue[1]) <= lvl[v] + 2
        BY <1>1, <1>2, <1>5, <2>1, <3>1
      <4>2. lvl[m] \in Nat /\ lvl[v] \in Nat
        BY <1>2, <1>5, <4>1
      <4>3. lvl[m] <= lvl[v] + 1
        BY <1>5, <4>1, <4>2
      <4> QED
        BY <4>1, <4>3
    <3>2. CASE i # 1
      BY <1>3, <2>1, <3>2
    <3> QED
      BY <3>1, <3>2
  <2> QED
    BY <1>2, <1>6, <2>1
<1>7. Start \in visited /\ lvl[Start] = 0
  BY <1>1, <1>2
<1>8. (\A v : Neighbours(v)' = Neighbours(v)) /\ (\A l : Far(l)' <=> Far(l))
  BY <1>1, SameRows DEF Far
<1> QED
  BY <1>1, <1>2, <1>3, <1>4, <1>6, <1>7, <1>8 DEF Layered

(* The levels stay when a node is visited: it is as far as its path is      *)
(* long.                                                                    *)
LEMMA LayeredVisit ==
  ASSUME Shape, NEW lvl, Layered(lvl), NEW p \in Paths, NEW n \in Nodes,
         NEW T \in Seq(Paths), NEW H \in Seq(Paths), Visited(p, n, T, H)
  PROVE  Layered([lvl EXCEPT ![n] = Len(p) - 1])'
<1>1. /\ UNCHANGED <<graph, asked>> /\ HeadGone(T, queue) /\ queue # <<>> /\ p = queue[1]
      /\ n = Last(p) /\ n \notin visited /\ visited' = visited \cup {n} /\ queue \in Seq(Paths)
  BY DEF Visited, Shape
<1>2. /\ lvl \in [Nodes -> Nat] /\ Sorted(queue)
      /\ \A v \in visited : \A i \in 1 .. Len(queue) : lvl[v] <= Len(queue[i]) - 1
      /\ \A v \in visited : Far(lvl[v]) \/ \A m \in Neighbours(v) :
           \/ m \in visited /\ lvl[m] <= lvl[v] + 1
           \/ \E i \in 1 .. Len(queue) : Last(queue[i]) = m /\ Len(queue[i]) <= lvl[v] + 2
      /\ \/ Start \in visited /\ lvl[Start] = 0
         \/ visited = {} /\ queue = <<<<Start>>>>
  BY DEF Layered
<1>3. visited \subseteq Nodes /\ Len(p) \in Nat \ {0} /\ 1 \in 1 .. Len(queue) /\ Len(p) - 1 \in Nat
  <2>1. Len(queue) \in Nat /\ Len(queue) # 0
    BY <1>1
  <2>2. 1 \in 1 .. Len(queue)
    BY <2>1
  <2>3. Len(p) \in Nat \ {0}
    BY <1>1, <2>2, PathTypes
  <2>4. Len(p) - 1 \in Nat
    BY <2>3
  <2> QED
    BY <2>2, <2>3, <2>4 DEF Shape
<1>4. /\ Sorted(T)
      /\ \A k \in 1 .. Len(T) : \E i \in 1 .. Len(queue) : T[k] = queue[i]
      /\ \A k \in 1 .. Len(T) : Len(p) <= Len(T[k]) /\ Len(T[k]) <= Len(p) + 1
      /\ \A i \in 1 .. Len(queue) : i = 1 \/ \E k \in 1 .. Len(T) : T[k] = queue[i]
  BY <1>1, <1>2, RestSorted
<1> DEFINE new == [lvl EXCEPT ![n] = Len(p) - 1]
           M == Neighbours(n) \ (visited \cup {n})
<1>5. new \in [Nodes -> Nat] /\ new[n] = Len(p) - 1 /\ \A v \in visited : new[v] = lvl[v] /\ new[v] \in Nat
  BY <1>1, <1>2, <1>3
<1> HIDE DEF new
<1>6. /\ queue' \in Seq(Paths) /\ Sorted(queue')
      /\ \A k \in 1 .. Len(queue') : \/ \E i \in 1 .. Len(T) : queue'[k] = T[i]
                                     \/ Len(queue'[k]) = Len(p) + 1
      /\ \A i \in 1 .. Len(T) : \E k \in 1 .. Len(queue') : queue'[k] = T[i]
      /\ Far(Len(p) - 1) \/ \A m \in M : \E k \in 1 .. Len(queue') : Last(queue'[k]) = m /\ Len(queue'[k]) = Len(p) + 1
  <2>1. CASE asked.what = "bfs" /\ DeepEnough(p) /\ queue' = T
    BY <1>3, <1>4, <2>1 DEF Far, DeepEnough
  <2>2. CASE Hopped(H, p, M) /\ queue' = T \o H
    <3>1. \A m \in M : Len(Append(p, m)) = Len(p) + 1 /\ Last(Append(p, m)) = m
      <4> TAKE m \in M
      <4>1. m \in Nodes
        BY RowsAreNodes DEF Shape
      <4> QED
        BY <4>1, LongerPath
    <3>2. \A k \in 1 .. Len(H) : Len(H[k]) = Len(p) + 1
      BY <2>2, <3>1 DEF Hopped
    <3>3. PICK Q : Q = T \o H
      OBVIOUS
    <3>4. /\ Q \in Seq(Paths) /\ Sorted(Q)
          /\ \A k \in 1 .. Len(Q) : \/ \E i \in 1 .. Len(T) : Q[k] = T[i]
                                    \/ \E i \in 1 .. Len(H) : Q[k] = H[i]
          /\ \A i \in 1 .. Len(T) : \E k \in 1 .. Len(Q) : Q[k] = T[i]
          /\ \A i \in 1 .. Len(H) : \E k \in 1 .. Len(Q) : Q[k] = H[i]
      <4>1. PICK c \in Nat : c = Len(p)
        BY <1>3
      <4>2. Levels(T, H, c)
        BY <1>4, <3>2, <4>1 DEF Levels
      <4>3. Joint(T \o H, T, H)
        BY <4>2, MoreSorted
      <4> QED
        BY <3>3, <4>3 DEF Joint
    <3>5. \A k \in 1 .. Len(Q) : \/ \E i \in 1 .. Len(T) : Q[k] = T[i]
                                 \/ Len(Q[k]) = Len(p) + 1
      <4> TAKE k \in 1 .. Len(Q)
      <4>1. \/ \E i \in 1 .. Len(T) : Q[k] = T[i]
            \/ \E i \in 1 .. Len(H) : Q[k] = H[i]
        BY <3>4
      <4>2. ASSUME NEW i \in 1 .. Len(H), Q[k] = H[i] PROVE Len(Q[k]) = Len(p) + 1
        BY <3>2, <4>2
      <4> QED
        BY <4>1, <4>2
    <3>6. ASSUME NEW m \in M PROVE \E k \in 1 .. Len(Q) : Last(Q[k]) = m /\ Len(Q[k]) = Len(p) + 1
      <4>1. PICK i \in 1 .. Len(H) : H[i] = Append(p, m)
        BY <2>2 DEF Hopped
      <4>2. PICK k \in 1 .. Len(Q) : Q[k] = H[i]
        BY <3>4
      <4>3. Last(Q[k]) = m /\ Len(Q[k]) = Len(p) + 1
        BY <3>1, <4>1, <4>2
      <4> QED
        BY <4>3
    <3>7. queue' = Q
      BY <2>2, <3>3
    <3> HIDE DEF M
    <3> QED
      BY <3>4, <3>5, <3>6, <3>7
  <2> QED
    BY <2>1, <2>2 DEF Visited
<1> HIDE DEF M
<1>7. \A v \in visited' : \A k \in 1 .. Len(queue') : new[v] <= Len(queue'[k]) - 1
  <2> SUFFICES ASSUME NEW v \in visited', NEW k \in 1 .. Len(queue') PROVE new[v] <= Len(queue'[k]) - 1
    OBVIOUS
  <2>1. Len(queue'[k]) \in Nat /\ Len(p) <= Len(queue'[k])
    <3>1. Len(queue'[k]) \in Nat
      BY <1>6, PathTypes
    <3>2. CASE \E i \in 1 .. Len(T) : queue'[k] = T[i]
      BY <1>4, <3>1, <3>2
    <3>3. CASE Len(queue'[k]) = Len(p) + 1
      BY <1>3, <3>3
    <3> QED
      BY <1>6, <3>1, <3>2, <3>3
  <2>2. new[v] <= Len(p) - 1 /\ new[v] \in Nat
    <3>1. CASE v = n
      BY <1>3, <1>5, <3>1
    <3>2. CASE v \in visited
      BY <1>1, <1>2, <1>3, <1>5, <3>2
    <3> QED
      BY <1>1, <3>1, <3>2
  <2> QED
    BY <1>3, <2>1, <2>2
<1>8. ASSUME NEW v \in visited', ~Far(new[v]), NEW m \in Neighbours(v)
      PROVE  \/ m \in visited' /\ new[m] <= new[v] + 1
             \/ \E k \in 1 .. Len(queue') : Last(queue'[k]) = m /\ Len(queue'[k]) <= new[v] + 2
  <2>0. v = n \/ v \in visited
    BY <1>1
  <2>1. CASE v = n
    <3>1. CASE m = n
      BY <1>1, <1>3, <1>5, <2>1, <3>1
    <3>2. CASE m \in visited
      <4>1. lvl[m] <= Len(p) - 1 /\ new[m] = lvl[m] /\ lvl[m] \in Nat
        BY <1>1, <1>2, <1>3, <1>5, <3>2
      <4> QED
        BY <1>1, <1>3, <1>5, <2>1, <3>2, <4>1
    <3>3. CASE m \in M
      <4>1. PICK k \in 1 .. Len(queue') : Last(queue'[k]) = m /\ Len(queue'[k]) = Len(p) + 1
        BY <1>5, <1>6, <1>8, <2>1, <3>3
      <4>2. Len(queue'[k]) <= new[v] + 2
        BY <1>3, <1>5, <2>1, <4>1
      <4> QED
        BY <4>1, <4>2
    <3> QED
      BY <1>8, <2>1, <3>1, <3>2, <3>3 DEF M
  <2>2. CASE v \in visited
    <3>0. new[v] = lvl[v] /\ new[v] \in Nat
      BY <1>5, <2>2
    <3>1. CASE m \in visited /\ lvl[m] <= lvl[v] + 1
      BY <1>1, <1>5, <2>2, <3>1
    <3>2. ASSUME NEW i \in 1 .. Len(queue), Last(queue[i]) = m, Len(queue[i]) <= lvl[v] + 2
          PROVE  \/ m \in visited' /\ new[m] <= new[v] + 1
                 \/ \E k \in 1 .. Len(queue') : Last(queue'[k]) = m /\ Len(queue'[k]) <= new[v] + 2
      <4>1. CASE i = 1
        <5>1. m = n /\ Len(p) <= new[v] + 2
          BY <1>1, <3>0, <3>2, <4>1
        <5>2. new[m] <= new[v] + 1
          BY <1>3, <1>5, <3>0, <5>1
        <5> QED
          BY <1>1, <5>1, <5>2
      <4>2. CASE i # 1
        <5>1. PICK j \in 1 .. Len(T) : T[j] = queue[i]
          BY <1>4, <4>2
        <5>2. PICK k \in 1 .. Len(queue') : queue'[k] = T[j]
          BY <1>6
        <5> QED
          BY <3>0, <3>2, <5>1, <5>2
      <4> QED
        BY <4>1, <4>2
    <3> QED
      BY <1>2, <1>8, <2>2, <3>0, <3>1, <3>2
  <2> QED
    BY <2>0, <2>1, <2>2
<1>9. Start \in visited' /\ new[Start] = 0
  <2>1. CASE Start \in visited /\ lvl[Start] = 0
    BY <1>1, <1>5, <2>1
  <2>2. CASE visited = {} /\ queue = <<<<Start>>>>
    <3>1. p = <<Start>> /\ n = Start /\ Len(p) = 1
      BY <1>1, <2>2 DEF Last
    <3>2. new[Start] = 0
      BY <1>5, <3>1
    <3> QED
      BY <1>1, <3>1, <3>2
  <2> QED
    BY <1>2, <2>1, <2>2
<1>10. (\A v : Neighbours(v)' = Neighbours(v)) /\ (\A l : Far(l)' <=> Far(l))
  BY <1>1, SameRows DEF Far
<1>11. PICK x : x = new
  OBVIOUS
<1>12. Layered(x)'
  BY <1>1, <1>5, <1>6, <1>7, <1>8, <1>9, <1>10, <1>11 DEF Layered
<1> QED
  BY <1>11, <1>12 DEF new

(* Every step keeps the levels of a search.                                 *)
LEMMA SearchedStep ==
  ASSUME Shape, Searched, Stepped
  PROVE  Searched'
<1>1. UNCHANGED <<graph, asked>>
  BY StepKeepsGraph
<1>2. ASSUME asked.what \in {"bfs", "path"}, UNCHANGED <<queue, visited>> PROVE Searched'
  <2>1. PICK lvl : Layered(lvl)
    BY <1>2 DEF Searched
  <2>2. (\A v : Neighbours(v)' = Neighbours(v)) /\ (\A l : Far(l)' <=> Far(l))
    BY <1>1, SameRows DEF Far
  <2>3. Layered(lvl)'
    BY <1>2, <2>1, <2>2 DEF Layered
  <2> QED
    BY <2>3 DEF Searched
<1>3. ASSUME NEW p \in Paths, NEW n \in Nodes, Dropped(p, n) PROVE Searched'
  <2>1. PICK lvl : Layered(lvl)
    BY <1>3 DEF Searched, Dropped
  <2>2. Layered(lvl)'
    BY <1>3, <2>1, LayeredDrop
  <2> QED
    BY <2>2 DEF Searched
<1>4. ASSUME NEW p \in Paths, NEW n \in Nodes, NEW T \in Seq(Paths), NEW H \in Seq(Paths), Visited(p, n, T, H)
      PROVE  Searched'
  <2>1. PICK lvl : Layered(lvl)
    BY <1>4 DEF Searched, Visited
  <2>2. Layered([lvl EXCEPT ![n] = Len(p) - 1])'
    BY <1>4, <2>1, LayeredVisit
  <2>3. PICK new : new = [lvl EXCEPT ![n] = Len(p) - 1]
    OBVIOUS
  <2>4. Layered(new)'
    BY <2>2, <2>3
  <2> QED
    BY <2>4 DEF Searched
<1>5. ASSUME NEW p \in Paths, Arrived(p) PROVE Searched'
  BY <1>2, <1>5 DEF Arrived
<1>6. CASE Over /\ asked.what \in {"bfs", "path"}
  BY <1>2, <1>6 DEF Over
<1>7. CASE asked.what \notin {"bfs", "path"}
  BY <1>1, <1>7 DEF Searched
<1> QED
  BY <1>3, <1>4, <1>5, <1>6, <1>7
  DEF Stepped, Took, CallOver, Lingered, Opened, Looked, Climbed, Over, Walks

(* What is nearer than all that is queued has been visited.                  *)
LEMMA NearerIsVisited ==
  ASSUME Shape, asked.what \in {"bfs", "path"}, NEW lvl, Layered(lvl), NEW K \in Nat, visited # {},
         asked.what = "bfs" => K <= asked.depth,
         \A i \in 1 .. Len(queue) : K + 1 <= Len(queue[i]) - 1
  PROVE  \A k \in Nat : k <= K => Within(Start, k) \subseteq visited
<1> DEFINE P == {k \in Nat : k <= K => \A x \in Within(Start, k) : x \in visited /\ lvl[x] <= k}
<1>1. GraphOK /\ visited \subseteq Nodes /\ lvl \in [Nodes -> Nat] /\ queue \in Seq(Paths) /\ asked.depth \in Nat
  <2>1. GraphOK
    BY DEF Shape
  <2> QED
    BY <2>1, Question DEF Shape, Layered
<1>2. \A S : WithMembers(S) = S
  BY DEF WithMembers
<1>3. 0 \in P
  <2>1. Within(Start, 0) = {Start}
    BY <1>1, <1>2, WithinFacts
  <2>2. Start \in visited /\ lvl[Start] = 0
    BY DEF Layered
  <2> QED
    BY <2>1, <2>2
<1>4. ASSUME NEW k \in Nat, k \in P PROVE k + 1 \in P
  <2>1. SUFFICES ASSUME k + 1 <= K, NEW x \in Within(Start, k + 1) PROVE x \in visited /\ lvl[x] <= k + 1
    OBVIOUS
  <2>2. Within(Start, k + 1) = Within(Start, k) \cup UNION {Step(y) : y \in Within(Start, k)}
    BY <1>1, WithinFacts
  <2>3. \A y \in Within(Start, k) : y \in visited /\ lvl[y] <= k
    BY <1>4, <2>1
  <2>4. CASE x \in Within(Start, k)
    <3>1. x \in visited /\ lvl[x] <= k /\ lvl[x] \in Nat
      BY <1>1, <2>3, <2>4
    <3> QED
      BY <3>1
  <2>5. ASSUME NEW y \in Within(Start, k), x \in Step(y) PROVE x \in visited /\ lvl[x] <= k + 1
    <3>1. x \in Neighbours(y) /\ y \in visited /\ lvl[y] <= k /\ lvl[y] \in Nat
      BY <1>1, <1>2, <2>3, <2>5 DEF Step
    <3>2. ~Far(lvl[y])
      BY <1>1, <2>1, <3>1 DEF Far
    <3>3. \/ x \in visited /\ lvl[x] <= lvl[y] + 1
          \/ \E i \in 1 .. Len(queue) : Last(queue[i]) = x /\ Len(queue[i]) <= lvl[y] + 2
      BY <3>1, <3>2 DEF Layered
    <3>4. \A i \in 1 .. Len(queue) : ~(Len(queue[i]) <= lvl[y] + 2)
      <4> TAKE i \in 1 .. Len(queue)
      <4>1. Len(queue[i]) \in Nat /\ K + 1 <= Len(queue[i]) - 1
        BY <1>1, PathTypes
      <4> QED
        BY <2>1, <3>1, <4>1
    <3>5. x \in visited /\ lvl[x] <= lvl[y] + 1
      BY <3>3, <3>4
    <3>6. lvl[x] \in Nat
      BY <1>1, <3>5
    <3> QED
      BY <3>1, <3>5, <3>6
  <2> QED
    BY <2>1, <2>2, <2>4, <2>5
<1> HIDE DEF P
<1>5. \A k \in Nat : k \in P
  BY <1>3, <1>4, AllNumbers
<1> QED
  BY <1>5 DEF P

\* the paths of the queue after n is visited
LEMMA VisitedEntries ==
  ASSUME Shape, NEW p \in Paths, NEW n \in Nodes, NEW T \in Seq(Paths), NEW H \in Seq(Paths), Visited(p, n, T, H)
  PROVE  \A k \in 1 .. Len(queue') :
           \/ Len(queue) # 1 /\ \E i \in 1 .. Len(queue) : queue'[k] = queue[i]
           \/ /\ asked.what = "bfs" => ~DeepEnough(p)
              /\ \E m \in Neighbours(n) \ (visited \cup {n}) : queue'[k] = Append(p, m)
<1>1. HeadGone(T, queue) /\ queue # <<>> /\ queue \in Seq(Paths)
  BY DEF Visited, Shape
<1>2. Len(queue) \in Nat \ {0} /\ Len(T) = Len(queue) - 1 /\ Len(T) \in Nat /\ Len(H) \in Nat
  BY <1>1, PathTypes DEF HeadGone
<1>3. ASSUME NEW k \in 1 .. Len(T)
      PROVE  Len(queue) # 1 /\ \E i \in 1 .. Len(queue) : T[k] = queue[i]
  <2>1. k \in 1 .. Len(queue) /\ k + 1 \in 1 .. Len(queue) /\ Len(queue) # 1
    BY <1>2
  <2>2. T[k] = queue[k] \/ T[k] = queue[k + 1]
    BY <1>1 DEF HeadGone
  <2> QED
    BY <2>1, <2>2
<1>4. CASE asked.what = "bfs" /\ DeepEnough(p) /\ queue' = T
  BY <1>3, <1>4
<1>5. CASE /\ asked.what = "bfs" => ~DeepEnough(p)
           /\ Hopped(H, p, Neighbours(n) \ (visited \cup {n})) /\ queue' = T \o H
  <2>1. /\ Len(T \o H) = Len(T) + Len(H)
        /\ \A i \in 1 .. Len(T) : (T \o H)[i] = T[i]
        /\ \A i \in 1 .. Len(H) : (T \o H)[Len(T) + i] = H[i]
    BY Joined
  <2>2. SUFFICES ASSUME NEW k \in 1 .. Len(queue')
                 PROVE  \/ Len(queue) # 1 /\ \E i \in 1 .. Len(queue) : queue'[k] = queue[i]
                        \/ \E m \in Neighbours(n) \ (visited \cup {n}) : queue'[k] = Append(p, m)
    BY <1>5
  <2>3. Len(queue') = Len(T) + Len(H)
    BY <1>5, <2>1
  <2>4. CASE k <= Len(T)
    <3>1. k \in 1 .. Len(T)
      BY <1>2, <2>3, <2>4
    <3>2. queue'[k] = T[k]
      BY <1>5, <2>1, <3>1
    <3> QED
      BY <1>3, <3>1, <3>2
  <2>5. CASE k > Len(T)
    <3>1. k - Len(T) \in 1 .. Len(H) /\ Len(T) + (k - Len(T)) = k
      BY <1>2, <2>3, <2>5
    <3>2. queue'[k] = H[k - Len(T)]
      BY <1>5, <2>1, <3>1
    <3>3. \E m \in Neighbours(n) \ (visited \cup {n}) : H[k - Len(T)] = Append(p, m)
      BY <1>5, <3>1 DEF Hopped
    <3> QED
      BY <3>2, <3>3
  <2> QED
    BY <1>2, <2>3, <2>4, <2>5
<1> QED
  BY <1>4, <1>5 DEF Visited

(* The paths of the queue after its head is dropped.                        *)
LEMMA DroppedEntries ==
  ASSUME Shape, NEW p \in Paths, NEW n \in Nodes, Dropped(p, n)
  PROVE  \A k \in 1 .. Len(queue') : \E i \in 1 .. Len(queue) : queue'[k] = queue[i]
<1>1. HeadGone(queue', queue) /\ queue # <<>> /\ queue \in Seq(Paths)
  BY DEF Dropped, Shape
<1>2. Len(queue) \in Nat \ {0} /\ Len(queue') = Len(queue) - 1
  BY <1>1, PathTypes DEF HeadGone
<1> TAKE k \in 1 .. Len(queue')
<1>3. k \in 1 .. Len(queue) /\ k + 1 \in 1 .. Len(queue)
  BY <1>2
<1>4. queue'[k] = queue[k] \/ queue'[k] = queue[k + 1]
  BY <1>1 DEF HeadGone
<1> QED
  BY <1>3, <1>4

-----------------------------------------------------------------------------
(* Paths: findPath                                                           *)

WalkFrom(p) ==
  /\ p[1] = Start /\ \A k \in 1 .. Len(p) - 1 : p[k + 1] \in Neighbours(p[k])
  /\ Last(p) \in Within(Start, Len(p) - 1)

Shortest(p) ==
  /\ p \in Paths /\ WalkFrom(p) /\ Last(p) = asked.goal
  /\ \A k \in 0 .. Len(p) - 2 : asked.goal \notin Within(Start, k)

\* what holds at every moment of findPath
PathKept ==
  asked.what = "path" =>
    /\ \A i \in 1 .. Len(queue) : WalkFrom(queue[i])
    /\ asked.goal \notin visited
    /\ ~answered => reports = {}
    /\ answered => \/ reports = {} /\ queue = <<>>
                   \/ \E p \in Paths : reports = {p} /\ Shortest(p)

(* What makes a path a shortest one depends on the graph and the question   *)
(* only.                                                                    *)
LEMMA SameWalks ==
  ASSUME UNCHANGED <<graph, asked>>
  PROVE  \A p : (WalkFrom(p)' <=> WalkFrom(p)) /\ (Shortest(p)' <=> Shortest(p))
<1>1. \A p : WalkFrom(p)' <=> WalkFrom(p)
  BY SameRows, SameWithin DEF WalkFrom, Last
<1> QED
  BY <1>1, SameWithin DEF Shortest

(* findPath begins well.                                                    *)
LEMMA PathKeptInit ==
  ASSUME Init
  PROVE  PathKept
<1>1. SUFFICES ASSUME asked.what = "path" PROVE PathKept
  BY DEF PathKept
<1>2. queue = <<<<Start>>>> /\ visited = {} /\ reports = {} /\ answered = FALSE /\ GraphOK
  BY <1>1 DEF Init, Walks, GraphOK
<1>3. Len(queue) = 1 /\ queue[1] = <<Start>>
  BY <1>2
<1>4. Start \in Within(Start, 0)
  BY <1>2, WithinFacts
<1>5. WalkFrom(<<Start>>)
  BY <1>4 DEF WalkFrom, Last
<1> QED
  BY <1>2, <1>3, <1>5 DEF PathKept

(* A path along edges stays one with one more neighbour.                    *)
LEMMA LongerWalk ==
  ASSUME GraphOK, NEW p \in Paths, WalkFrom(p), NEW n, n = Last(p), n \in Nodes, NEW m \in Neighbours(n)
  PROVE  WalkFrom(Append(p, m)) /\ Append(p, m) \in Paths
<1>1. m \in Nodes /\ Len(p) \in Nat \ {0}
  BY RowsAreNodes, LongerPath
<1>2. /\ Append(p, m) \in Paths /\ Len(Append(p, m)) = Len(p) + 1
      /\ Append(p, m)[Len(p) + 1] = m /\ Last(Append(p, m)) = m
      /\ \A i \in 1 .. Len(p) : Append(p, m)[i] = p[i]
  BY <1>1, LongerPath
<1>3. PICK q : q = Append(p, m)
  OBVIOUS
<1>4. q[1] = Start
  BY <1>1, <1>2, <1>3 DEF WalkFrom
<1>5. ASSUME NEW k \in 1 .. Len(q) - 1 PROVE q[k + 1] \in Neighbours(q[k])
  <2>0. k \in 1 .. Len(p)
    BY <1>1, <1>2, <1>3
  <2>1. CASE k = Len(p)
    <3>1. q[k + 1] = m /\ q[k] = p[Len(p)]
      BY <1>2, <1>3, <2>0, <2>1
    <3> QED
      BY <3>1 DEF Last
  <2>2. CASE k # Len(p)
    <3>1. k + 1 \in 1 .. Len(p) /\ k \in 1 .. Len(p) - 1
      BY <1>1, <2>0, <2>2
    <3>2. q[k + 1] = p[k + 1] /\ q[k] = p[k]
      BY <1>2, <1>3, <2>0, <3>1
    <3> QED
      BY <3>1, <3>2 DEF WalkFrom
  <2> QED
    BY <2>1, <2>2
<1>6. Last(q) \in Within(Start, Len(q) - 1)
  <2>1. n \in Within(Start, Len(p) - 1) /\ Len(p) - 1 \in Nat /\ (Len(p) - 1) + 1 = Len(q) - 1
    BY <1>1, <1>2, <1>3 DEF WalkFrom
  <2>2. \A x \in Within(Start, Len(p) - 1) : Neighbours(x) \subseteq Within(Start, (Len(p) - 1) + 1)
    BY <2>1, WithinFacts
  <2> QED
    BY <1>2, <1>3, <2>1, <2>2
<1>7. WalkFrom(q)
  BY <1>4, <1>5, <1>6 DEF WalkFrom
<1> QED
  BY <1>2, <1>3, <1>7

(* Every step keeps what holds of findPath.                                 *)
LEMMA PathKeptStep ==
  ASSUME Shape, Searched, PathKept, Stepped
  PROVE  PathKept'
<1>1. UNCHANGED <<graph, asked>>
  BY StepKeepsGraph
<1>2. \A p : (WalkFrom(p)' <=> WalkFrom(p)) /\ (Shortest(p)' <=> Shortest(p))
  BY <1>1, SameWalks
<1>3. ASSUME NEW p \in Paths, NEW n \in Nodes, Dropped(p, n), asked.what = "path" PROVE PathKept'
  <2>1. \A i \in 1 .. Len(queue') : WalkFrom(queue'[i])
    BY <1>3, DroppedEntries DEF PathKept
  <2>2. UNCHANGED <<visited, reports, answered>> /\ ~answered
    BY <1>3 DEF Dropped
  <2> QED
    BY <1>1, <1>2, <1>3, <2>1, <2>2 DEF PathKept
<1>4. ASSUME NEW p \in Paths, NEW n \in Nodes, NEW T \in Seq(Paths), NEW H \in Seq(Paths), Visited(p, n, T, H),
             asked.what = "path"
      PROVE  PathKept'
  <2>1. /\ UNCHANGED <<reports, answered>> /\ ~answered /\ n # asked.goal /\ visited' = visited \cup {n}
        /\ p = queue[1] /\ n = Last(p) /\ queue # <<>> /\ queue \in Seq(Paths) /\ GraphOK
    BY <1>4 DEF Visited, Shape
  <2>2. 1 \in 1 .. Len(queue)
    BY <2>1
  <2>3. WalkFrom(p)
    BY <1>4, <2>1, <2>2 DEF PathKept
  <2>4. \A m \in Neighbours(n) : WalkFrom(Append(p, m))
    BY <2>1, <2>3, LongerWalk
  <2>5. \A i \in 1 .. Len(queue') : WalkFrom(queue'[i])
    <3> TAKE k \in 1 .. Len(queue')
    <3>1. \/ \E i \in 1 .. Len(queue) : queue'[k] = queue[i]
          \/ \E m \in Neighbours(n) : queue'[k] = Append(p, m)
      BY <1>4, VisitedEntries
    <3> QED
      BY <1>4, <2>4, <3>1 DEF PathKept
  <2> QED
    BY <1>1, <1>2, <1>4, <2>1, <2>5 DEF PathKept
<1>5. ASSUME NEW p \in Paths, Arrived(p) PROVE PathKept'
  <2>1. /\ asked.what = "path" /\ UNCHANGED <<queue, visited>> /\ reports' = {p} /\ answered' /\ ~answered
        /\ p = queue[1] /\ Last(p) = asked.goal /\ queue # <<>> /\ queue \in Seq(Paths)
    BY <1>5 DEF Arrived, Shape
  <2>2. 1 \in 1 .. Len(queue) /\ Len(p) \in Nat \ {0}
    BY <2>1, LongerPath DEF Paths
  <2>3. WalkFrom(p)
    BY <2>1, <2>2 DEF PathKept
  <2>4. ASSUME NEW k \in 0 .. Len(p) - 2 PROVE asked.goal \notin Within(Start, k)
    <3>1. PICK lvl : Layered(lvl)
      BY <2>1 DEF Searched
    <3>2. visited # {}
      <4>1. SUFFICES ASSUME visited = {} PROVE FALSE
        OBVIOUS
      <4>2. queue = <<<<Start>>>>
        BY <3>1, <4>1 DEF Layered
      <4>3. Len(p) = 1
        BY <2>1, <4>2
      <4> QED
        BY <2>4, <4>3
    <3>3. PICK K \in Nat : K = Len(p) - 2
      BY <2>2, <2>4
    <3>4. \A i \in 1 .. Len(queue) : K + 1 <= Len(queue[i]) - 1
      <4> TAKE i \in 1 .. Len(queue)
      <4>1. Len(queue[1]) <= Len(queue[i]) /\ Len(queue[i]) \in Nat
        <5>1. 1 <= i /\ Sorted(queue)
          BY <3>1 DEF Layered
        <5> QED
          BY <2>1, <2>2, <5>1, PathTypes DEF Sorted
      <4> QED
        BY <2>1, <2>2, <3>3, <4>1
    <3>5. \A j \in Nat : j <= K => Within(Start, j) \subseteq visited
      BY <2>1, <3>1, <3>2, <3>4, NearerIsVisited
    <3>6. Within(Start, k) \subseteq visited
      BY <3>3, <3>5
    <3> QED
      BY <2>1, <3>6 DEF PathKept
  <2>5. Shortest(p)
    BY <2>1, <2>3, <2>4 DEF Shortest
  <2> QED
    BY <1>1, <1>2, <2>1, <2>5 DEF PathKept
<1>6. CASE Over /\ asked.what = "path"
  BY <1>1, <1>2, <1>6 DEF Over, PathKept
<1>7. CASE asked.what # "path"
  BY <1>1, <1>7 DEF PathKept
<1> QED
  BY <1>3, <1>4, <1>5, <1>6, <1>7
  DEF Stepped, Took, CallOver, Lingered, Opened, Looked, Climbed, Over, Walks

(* So the path found is a shortest one, and it is found if there is any.    *)
LEMMA ShortestHolds ==
  ASSUME Shape, Searched, PathKept
  PROVE  PathIsShortest
<1>1. SUFFICES ASSUME answered, asked.what = "path"
               PROVE  /\ reports = {} <=> asked.goal \notin Whole
                      /\ \A p \in reports :
                           /\ Head(p) = Start /\ Last(p) = asked.goal
                           /\ \A i \in 1 .. Len(p) - 1 : p[i + 1] \in Neighbours(p[i])
                           /\ \A k \in 0 .. Len(p) - 2 : asked.goal \notin Within(Start, k)
  BY DEF PathIsShortest
<1>2. GraphOK /\ Cardinality(Nodes) \in Nat /\ Whole = All(Start)
  BY FS_CardinalityType DEF Shape, Whole, All
<1>3. CASE reports = {} /\ queue = <<>>
  <2>1. PICK lvl : Layered(lvl)
    BY <1>1 DEF Searched
  <2>2. visited # {} /\ Len(queue) = 0
    BY <1>3, <2>1 DEF Layered
  <2>3. \A k \in Nat : k <= Cardinality(Nodes) => Within(Start, k) \subseteq visited
    BY <1>1, <1>2, <2>1, <2>2, NearerIsVisited
  <2>4. Whole \subseteq visited
    BY <1>2, <2>3 DEF Whole
  <2>5. asked.goal \notin visited
    BY <1>1 DEF PathKept
  <2> QED
    BY <1>3, <2>4, <2>5
<1>4. ASSUME NEW p \in Paths, reports = {p}, Shortest(p)
      PROVE  /\ reports = {} <=> asked.goal \notin Whole
             /\ \A r \in reports :
                  /\ Head(r) = Start /\ Last(r) = asked.goal
                  /\ \A i \in 1 .. Len(r) - 1 : r[i + 1] \in Neighbours(r[i])
                  /\ \A k \in 0 .. Len(r) - 2 : asked.goal \notin Within(Start, k)
  <2>1. Len(p) - 1 \in Nat /\ Head(p) = p[1]
    BY DEF Paths
  <2>2. asked.goal \in Whole
    BY <1>2, <1>4, <2>1, AllFacts DEF Shortest, WalkFrom
  <2> QED
    BY <1>4, <2>1, <2>2 DEF Shortest, WalkFrom
<1> QED
  BY <1>1, <1>3, <1>4 DEF PathKept

-----------------------------------------------------------------------------
(* Breadth first: traverseBFS                                                *)

NearEnough(p) == Last(p) \in found /\ Last(p) \in Within(Start, Len(p) - 1) /\ Len(p) - 1 <= asked.depth
Led(p) == Len(p) >= 2 /\ p[Len(p) - 1] \in visited
LinksTo(v) == {l \in links : l[2] = v}

\* what holds at every moment of traverseBFS
BfsKept ==
  asked.what = "bfs" =>
    /\ Start \in found /\ visited \subseteq found /\ found \subseteq Within(Start, asked.depth)
    /\ \A i \in 1 .. Len(queue) : NearEnough(queue[i])
    /\ \/ visited = {} /\ queue = <<<<Start>>>>
       \/ Start \in visited /\ \A i \in 1 .. Len(queue) : Led(queue[i])
    /\ \A v \in visited \ {Start} : \E l : LinksTo(v) = {l}
    /\ \A l \in links : l[2] \in visited \ {Start} /\ l[1] \in visited
    /\ answered => queue = <<>> \/ Cardinality(found) >= asked.limit

(* traverseBFS begins well.                                                 *)
LEMMA BfsKeptInit ==
  ASSUME Init
  PROVE  BfsKept
<1>1. SUFFICES ASSUME asked.what = "bfs" PROVE BfsKept
  BY DEF BfsKept
<1>2. queue = <<<<Start>>>> /\ visited = {} /\ links = {} /\ answered = FALSE /\ found = {Start} /\ GraphOK
  BY <1>1 DEF Init, Walks, GraphOK
<1>3. Len(queue) = 1 /\ queue[1] = <<Start>> /\ asked.depth \in Nat
  BY <1>2, Question
<1>4. Start \in Within(Start, 0) /\ Start \in Within(Start, asked.depth)
  BY <1>2, <1>3, WithinFacts
<1>5. NearEnough(<<Start>>)
  BY <1>2, <1>3, <1>4 DEF NearEnough, Last
<1>6. \A i \in 1 .. Len(queue) : NearEnough(queue[i])
  BY <1>3, <1>5
<1> QED
  BY <1>2, <1>4, <1>6 DEF BfsKept

(* What holds of a path in the queue stays while the answer grows.          *)
LEMMA SameBfs ==
  ASSUME UNCHANGED <<graph, asked>>
  PROVE  \A p : /\ NearEnough(p) /\ found \subseteq found' => NearEnough(p)'
                /\ Led(p) /\ visited \subseteq visited' => Led(p)'
<1>1. \A k : Within(Start, k)' = Within(Start, k)
  BY SameWithin
<1> QED
  BY <1>1 DEF NearEnough, Led, Last

\* the edges of the answer after n is visited
LEMMA VisitedLinks ==
  ASSUME Shape, BfsKept, asked.what = "bfs",
         NEW p \in Paths, NEW n \in Nodes, NEW T \in Seq(Paths), NEW H \in Seq(Paths), Visited(p, n, T, H)
  PROVE  /\ \A v \in visited' \ {Start} : \E l : LinksTo(v)' = {l}
         /\ \A l \in links' : l[2] \in visited' \ {Start} /\ l[1] \in visited'
         /\ Start \in visited'
<1>1. /\ queue # <<>> /\ queue \in Seq(Paths) /\ p = queue[1] /\ n = Last(p) /\ n \notin visited
      /\ visited' = visited \cup {n} /\ links' = links \cup Behind(p)
  BY DEF Visited, Shape
<1>2. Len(p) \in Nat \ {0} /\ n = p[Len(p)] /\ 1 \in 1 .. Len(queue)
  BY <1>1, LongerPath DEF Paths, Last
<1>3. \A l \in links : l[2] \in visited \ {Start} /\ l[1] \in visited
  BY DEF BfsKept
<1>4. \A v \in visited \ {Start} : \E l : LinksTo(v) = {l}
  BY DEF BfsKept
<1>5. CASE visited = {} /\ queue = <<<<Start>>>>
  <2>1. p = <<Start>>
    BY <1>1, <1>5
  <2>2. n = Start /\ Behind(p) = {}
    BY <1>2, <2>1 DEF Behind
  <2>3. links' = {} /\ visited' = {Start}
    BY <1>1, <1>3, <1>5, <2>2
  <2> QED
    BY <2>3
<1>6. CASE Start \in visited /\ \A i \in 1 .. Len(queue) : Led(queue[i])
  <2>1. Len(p) > 1 /\ p[Len(p) - 1] \in visited
    BY <1>1, <1>2, <1>6 DEF Led
  <2>2. PICK y : y = <<p[Len(p) - 1], n>>
    OBVIOUS
  <2>3. links' = links \cup {y} /\ y[1] \in visited /\ y[2] = n
    BY <1>1, <1>2, <2>1, <2>2 DEF Behind
  <2>4. LinksTo(n)' = {y}
    BY <1>1, <1>3, <2>3 DEF LinksTo
  <2>5. ASSUME NEW v \in visited \ {Start} PROVE LinksTo(v)' = LinksTo(v)
    BY <1>1, <2>3 DEF LinksTo
  <2>6. \A v \in visited' \ {Start} : \E l : LinksTo(v)' = {l}
    BY <1>1, <1>4, <2>4, <2>5
  <2> QED
    BY <1>1, <1>3, <1>6, <2>3, <2>6
<1> QED
  BY <1>5, <1>6 DEF BfsKept

(* Every step keeps what holds of traverseBFS.                              *)
LEMMA BfsKeptStep ==
  ASSUME Shape, BfsKept, Stepped
  PROVE  BfsKept'
<1>1. UNCHANGED <<graph, asked>>
  BY StepKeepsGraph
<1>2. \A p : /\ NearEnough(p) /\ found \subseteq found' => NearEnough(p)'
             /\ Led(p) /\ visited \subseteq visited' => Led(p)'
  BY <1>1, SameBfs
<1>3. Within(Start, asked.depth)' = Within(Start, asked.depth)
  BY <1>1, SameWithin
<1>4. ASSUME NEW p \in Paths, NEW n \in Nodes, Dropped(p, n), asked.what = "bfs" PROVE BfsKept'
  <2>1. UNCHANGED <<visited, found, links, answered>> /\ ~answered /\ n \in visited
    BY <1>4 DEF Dropped
  <2>2. \A i \in 1 .. Len(queue) : NearEnough(queue[i]) /\ Led(queue[i])
    BY <1>4, <2>1 DEF BfsKept
  <2>3. (\A k \in 1 .. Len(queue) : NearEnough(queue[k]) /\ Led(queue[k]))'
    <3> SUFFICES ASSUME NEW k \in 1 .. Len(queue'), NEW q, q = queue'[k]
                 PROVE  NearEnough(q)' /\ Led(q)'
      BY DEF NearEnough, Led
    <3>1. PICK i \in 1 .. Len(queue) : queue'[k] = queue[i]
      BY <1>4, DroppedEntries
    <3>2. NearEnough(q) /\ Led(q)
      BY <2>2, <3>1
    <3> QED
      BY <1>2, <2>1, <3>2
  <2>4. \A v : LinksTo(v)' = LinksTo(v)
    BY <2>1 DEF LinksTo
  <2>5. Start \in visited
    BY <1>4, <2>1 DEF BfsKept
  <2> QED
    BY <1>1, <1>3, <1>4, <2>1, <2>3, <2>4, <2>5 DEF BfsKept
<1>5. ASSUME NEW p \in Paths, NEW n \in Nodes, NEW T \in Seq(Paths), NEW H \in Seq(Paths), Visited(p, n, T, H),
             asked.what = "bfs"
      PROVE  BfsKept'
  <2>1. /\ queue # <<>> /\ queue \in Seq(Paths) /\ p = queue[1] /\ n = Last(p) /\ GraphOK
        /\ visited' = visited \cup {n} /\ ~answered /\ answered' = answered
    BY <1>5 DEF Visited, Shape
  <2>2. 1 \in 1 .. Len(queue) /\ Len(p) \in Nat \ {0} /\ asked.depth \in Nat /\ n = p[Len(p)]
    <3>1. n = p[Len(p)]
      BY <2>1 DEF Last
    <3>2. asked.depth \in Nat
      BY <2>1, Question
    <3>3. Len(p) \in Nat \ {0}
      BY DEF Paths
    <3> QED
      BY <2>1, <3>1, <3>2, <3>3
  <2>3. n \in found /\ n \in Within(Start, Len(p) - 1) /\ Len(p) - 1 <= asked.depth
    BY <1>5, <2>1, <2>2 DEF BfsKept, NearEnough
  <2>4. ~DeepEnough(p) => /\ Neighbours(n) \subseteq Within(Start, (Len(p) - 1) + 1) /\ (Len(p) - 1) + 1 <= asked.depth
                          /\ Neighbours(n) \subseteq Within(Start, asked.depth) /\ Neighbours(n) \subseteq Nodes
    <3>1. SUFFICES ASSUME ~DeepEnough(p) 
                   PROVE  /\ Neighbours(n) \subseteq Within(Start, (Len(p) - 1) + 1) /\ (Len(p) - 1) + 1 <= asked.depth
                          /\ Neighbours(n) \subseteq Within(Start, asked.depth) /\ Neighbours(n) \subseteq Nodes
      OBVIOUS
    <3>2. Len(p) - 1 \in Nat /\ (Len(p) - 1) + 1 \in Nat /\ (Len(p) - 1) + 1 <= asked.depth
      BY <2>2, <3>1 DEF DeepEnough
    <3>3. Neighbours(n) \subseteq Within(Start, (Len(p) - 1) + 1)
      BY <2>1, <2>3, <3>2, WithinFacts
    <3>4. Within(Start, (Len(p) - 1) + 1) \subseteq Within(Start, asked.depth)
      BY <2>1, <2>2, <3>2, WithinFacts
    <3> QED
      BY <2>1, <3>2, <3>3, <3>4, RowsAreNodes
  <2>5. \/ DeepEnough(p) /\ found' = found
        \/ ~DeepEnough(p) /\ found' = found \cup (Neighbours(n) \ (visited \cup {n}))
    BY <1>5 DEF Visited
  <2>6. found \subseteq found' /\ found' \subseteq Within(Start, asked.depth)
    BY <1>5, <2>4, <2>5 DEF BfsKept
  <2>7. (\A k \in 1 .. Len(queue) : NearEnough(queue[k]) /\ Led(queue[k]))'
    <3> SUFFICES ASSUME NEW k \in 1 .. Len(queue'), NEW q, q = queue'[k]
                 PROVE  NearEnough(q)' /\ Led(q)'
      BY DEF NearEnough, Led
    <3>1. CASE Len(queue) # 1 /\ \E i \in 1 .. Len(queue) : queue'[k] = queue[i]
      <4>1. PICK i \in 1 .. Len(queue) : queue'[k] = queue[i]
        BY <3>1
      <4>2. queue # <<<<Start>>>>
        BY <3>1
      <4>3. NearEnough(queue[i]) /\ Led(queue[i])
        BY <1>5, <4>2 DEF BfsKept
      <4>4. visited \subseteq visited'
        BY <2>1
      <4> QED
        BY <1>2, <2>6, <4>1, <4>3, <4>4
    <3>2. ASSUME ~DeepEnough(p), NEW m \in Neighbours(n) \ (visited \cup {n}), queue'[k] = Append(p, m)
          PROVE  NearEnough(q)' /\ Led(q)'
      <4>1. m \in Nodes /\ m \in found' /\ m \in Within(Start, (Len(p) - 1) + 1) /\ (Len(p) - 1) + 1 <= asked.depth
        BY <2>4, <2>5, <3>2
      <4>2. /\ Len(Append(p, m)) = Len(p) + 1 /\ Last(Append(p, m)) = m
            /\ \A i \in 1 .. Len(p) : Append(p, m)[i] = p[i]
        BY <4>1, LongerPath
      <4>3. q = Append(p, m)
        BY <3>2
      <4>4. Len(q) - 1 = (Len(p) - 1) + 1 /\ Len(q) - 1 = Len(p) /\ Last(q) = m /\ Len(q) >= 2
        BY <2>2, <4>2, <4>3
      <4>5. q[Len(q) - 1] = n
        BY <2>2, <4>2, <4>3, <4>4
      <4>6. Last(q)' = Last(q) /\ \A j : Within(Start, j)' = Within(Start, j)
        BY <1>1, SameWithin DEF Last
      <4>7. NearEnough(q)'
        BY <1>1, <4>1, <4>4, <4>6 DEF NearEnough
      <4>8. Led(q)'
        BY <2>1, <4>4, <4>5 DEF Led
      <4> QED
        BY <3>2, <4>3, <4>7, <4>8
    <3>3. \/ Len(queue) # 1 /\ \E i \in 1 .. Len(queue) : queue'[k] = queue[i]
          \/ ~DeepEnough(p) /\ \E m \in Neighbours(n) \ (visited \cup {n}) : queue'[k] = Append(p, m)
      BY <1>5, VisitedEntries
    <3> QED
      BY <3>1, <3>2, <3>3
  <2>8. /\ \A v \in visited' \ {Start} : \E l : LinksTo(v)' = {l}
        /\ \A l \in links' : l[2] \in visited' \ {Start} /\ l[1] \in visited'
        /\ Start \in visited'
    BY <1>5, VisitedLinks
  <2>9. Start \in found' /\ visited' \subseteq found'
    BY <1>5, <2>1, <2>3, <2>6 DEF BfsKept
  <2> QED
    BY <1>1, <1>3, <2>1, <2>6, <2>7, <2>8, <2>9 DEF BfsKept
<1>6. CASE Over /\ asked.what = "bfs"
  <2>1. /\ UNCHANGED <<queue, visited, found, links>>
        /\ queue = <<>> \/ Cardinality(found) >= asked.limit
    BY <1>6 DEF Over
  <2>2. (\A v : LinksTo(v)' = LinksTo(v)) /\ (\A p : (NearEnough(p) => NearEnough(p)') /\ (Led(p) => Led(p)'))
    BY <1>2, <2>1 DEF LinksTo
  <2> QED
    BY <1>1, <1>3, <1>6, <2>1, <2>2 DEF BfsKept
<1>7. CASE asked.what # "bfs"
  BY <1>1, <1>7 DEF BfsKept
<1> QED
  BY <1>4, <1>5, <1>6, <1>7
  DEF Stepped, Arrived, Took, CallOver, Lingered, Opened, Looked, Climbed, Over, Walks

(* traverseBFS finds nothing out of reach.                                  *)
LEMMA BfsReach ==
  ASSUME Shape, BfsKept, asked.what = "bfs"
  PROVE  AnswerIsInReach
BY DEF BfsKept, AnswerIsInReach

(* So its answer is a tree on all nodes within the depth.                   *)
LEMMA ExactHolds ==
  ASSUME Shape, Searched, BfsKept
  PROVE  BfsIsExact
<1>1. SUFFICES ASSUME answered, asked.what = "bfs", Cardinality(found) < asked.limit
               PROVE  /\ found = Within(Start, asked.depth)
                      /\ \A n \in found \ {Start} : Cardinality({l \in links : l[2] = n}) = 1
                      /\ \A l \in links : l[1] \in found
  BY DEF BfsIsExact, Unlimited
<1>2. GraphOK /\ asked.depth \in Nat /\ asked.limit \in Nat /\ IsFiniteSet(found)
  <2>1. GraphOK /\ found \subseteq Nodes
    BY DEF Shape
  <2> QED
    BY <2>1, Question, FS_Subset
<1>3. Cardinality(found) \in Nat
  BY <1>2, FS_CardinalityType
<1>4. queue = <<>>
  BY <1>1, <1>2, <1>3 DEF BfsKept
<1>5. PICK lvl : Layered(lvl)
  BY <1>1 DEF Searched
<1>6. visited # {} /\ Len(queue) = 0
  BY <1>4, <1>5 DEF Layered
<1>7. \A k \in Nat : k <= asked.depth => Within(Start, k) \subseteq visited
  BY <1>1, <1>2, <1>5, <1>6, NearerIsVisited
<1>8. Within(Start, asked.depth) \subseteq visited
  BY <1>2, <1>7
<1>9. found = Within(Start, asked.depth) /\ found = visited
  BY <1>1, <1>8 DEF BfsKept
<1>10. ASSUME NEW n \in found \ {Start} PROVE Cardinality({l \in links : l[2] = n}) = 1
  <2>1. PICK x : LinksTo(n) = {x}
    BY <1>1, <1>9 DEF BfsKept
  <2>2. Cardinality({x}) = 1
    BY FS_Singleton
  <2> QED
    BY <2>1, <2>2 DEF LinksTo
<1> QED
  BY <1>1, <1>9, <1>10 DEF BfsKept

-----------------------------------------------------------------------------
(* Cycles: findCircularDependencies                                          *)

RealCycle(c) ==
  /\ c \in Seq(Nodes) /\ IsInjective(c)
  /\ \A i \in DOMAIN c : c[IF i = Len(c) THEN 1 ELSE i + 1] \in Used(c[i])

\* the stack is a path of dependencies, and what is reported are cycles
Trailed ==
  asked.what = "cycles" =>
    /\ \A i \in 1 .. Len(stack) : stack[i].rows \subseteq Used(stack[i].at)
    /\ \A i \in 1 .. Len(stack) : \A j \in 1 .. Len(stack) : j = i + 1 => stack[i].at \in Used(stack[j].at)
    /\ \A c \in reports : RealCycle(c)
    /\ answered => stack = <<>> /\ visited = Nodes

(* The search for cycles begins well.                                       *)
LEMMA TrailedInit ==
  ASSUME Init
  PROVE  Trailed
<1>1. asked.what = "cycles" => stack = <<>> /\ reports = {} /\ answered = FALSE
  BY DEF Init, Walks
<1> QED
  BY <1>1 DEF Trailed

\* the path from m, a file on the stack, to the innermost one
LEMMA PathFromFacts ==
  ASSUME stack \in Seq(Frames), NEW m \in OnStack
  PROVE  \E i \in 1 .. Len(stack) :
           /\ stack[i].at = m /\ PathFrom(m) \in Seq(Nodes)
           /\ Len(PathFrom(m)) = i /\ DOMAIN PathFrom(m) = 1 .. i
           /\ \A k \in 1 .. i : i + 1 - k \in 1 .. i /\ PathFrom(m)[k] = stack[i + 1 - k].at
<1> DEFINE i == CHOOSE i \in DOMAIN stack : stack[i].at = m
<1>1. DOMAIN stack = 1 .. Len(stack) /\ Len(stack) \in Nat
  BY Elements
<1>2. i \in 1 .. Len(stack) /\ stack[i].at = m
  BY <1>1 DEF OnStack
<1>3. PathFrom(m) = [k \in 1 .. i |-> stack[i + 1 - k].at]
  BY DEF PathFrom
<1> HIDE DEF i
<1>4. ASSUME NEW k \in 1 .. i PROVE i + 1 - k \in 1 .. i /\ stack[i + 1 - k].at \in Nodes
  <2>1. i + 1 - k \in 1 .. i /\ i + 1 - k \in 1 .. Len(stack)
    BY <1>1, <1>2
  <2> QED
    BY <2>1, FrameTypes
<1>5. i \in Nat
  BY <1>1, <1>2
<1>6. PathFrom(m) \in [1 .. i -> Nodes]
  BY <1>3, <1>4
<1>7. PathFrom(m) \in Seq(Nodes) /\ Len(PathFrom(m)) = i /\ DOMAIN PathFrom(m) = 1 .. i
  BY <1>5, <1>6
<1>8. \A k \in 1 .. i : PathFrom(m)[k] = stack[i + 1 - k].at
  BY <1>3
<1> QED
  BY <1>2, <1>4, <1>7, <1>8

\* with a dependency of the innermost file on m that path is a cycle
LEMMA PathCloses ==
  ASSUME Shape, FramesApart, Trailed, asked.what = "cycles",
         NEW m \in OnStack, Len(stack) \in Nat \ {0}, m \in stack[1].rows
  PROVE  RealCycle(PathFrom(m))
<1>1. PICK i \in 1 .. Len(stack) :
           /\ stack[i].at = m /\ PathFrom(m) \in Seq(Nodes)
           /\ Len(PathFrom(m)) = i /\ DOMAIN PathFrom(m) = 1 .. i
           /\ \A k \in 1 .. i : i + 1 - k \in 1 .. i /\ PathFrom(m)[k] = stack[i + 1 - k].at
  BY PathFromFacts DEF Shape
<1>2. PICK c : c = PathFrom(m)
  OBVIOUS
<1>3. i \in Nat \ {0}
  OBVIOUS
<1>4. ASSUME NEW j \in 1 .. i, NEW k \in 1 .. i, c[j] = c[k] PROVE j = k
  <2>1. i + 1 - j \in 1 .. Len(stack) /\ i + 1 - k \in 1 .. Len(stack)
    BY <1>3
  <2>2. i + 1 - j = i + 1 - k
    BY <1>1, <1>2, <1>4, <2>1 DEF FramesApart
  <2> QED
    BY <1>3, <2>2
<1>5. IsInjective(c)
  BY <1>1, <1>2, <1>4 DEF IsInjective
<1>6. ASSUME NEW k \in 1 .. i PROVE c[IF k = i THEN 1 ELSE k + 1] \in Used(c[k])
  <2>1. CASE k = i
    <3>1. i + 1 - k = 1 /\ i + 1 - 1 = i /\ 1 \in 1 .. i
      BY <1>3, <2>1
    <3>2. c[k] = stack[1].at /\ c[1] = m
      BY <1>1, <1>2, <3>1
    <3>3. stack[1].rows \subseteq Used(stack[1].at)
      BY DEF Trailed
    <3> QED
      BY <2>1, <3>2, <3>3
  <2>2. CASE k # i
    <3>1. k + 1 \in 1 .. i /\ i + 1 - (k + 1) \in 1 .. Len(stack) /\ i + 1 - k \in 1 .. Len(stack)
          /\ i + 1 - k = (i + 1 - (k + 1)) + 1
      BY <1>3, <2>2
    <3>2. c[k] = stack[i + 1 - k].at /\ c[k + 1] = stack[i + 1 - (k + 1)].at
      BY <1>1, <1>2, <3>1
    <3>3. stack[i + 1 - (k + 1)].at \in Used(stack[i + 1 - k].at)
      BY <3>1 DEF Trailed
    <3> QED
      BY <2>2, <3>2, <3>3
  <2> QED
    BY <2>1, <2>2
<1> QED
  BY <1>1, <1>2, <1>5, <1>6 DEF RealCycle

(* Every step keeps the stack a path and the reports cycles.                *)
LEMMA TrailedStep ==
  ASSUME Shape, FramesApart, Trailed, Stepped
  PROVE  Trailed'
<1>1. UNCHANGED <<graph, asked>>
  BY StepKeepsGraph
<1>2. (\A n : Used(n)' = Used(n)) /\ (\A c : RealCycle(c)' <=> RealCycle(c))
  BY <1>1 DEF Used, RealCycle
<1> DEFINE Path(s) == /\ \A i \in 1 .. Len(s) : s[i].rows \subseteq Used(s[i].at)
                      /\ \A i \in 1 .. Len(s) : \A j \in 1 .. Len(s) : j = i + 1 => s[i].at \in Used(s[j].at)
<1>3. ASSUME NEW s \in Seq(Frames), NEW m, Shrunk(s, {}, {m}), Path(stack) PROVE Path(s)
  <2>1. /\ Len(s) = Len(stack) /\ Len(stack) \in Nat \ {0}
        /\ \A i \in 1 .. Len(stack) : s[i].at = stack[i].at
        /\ \A i \in 2 .. Len(stack) : s[i] = stack[i]
        /\ s[1].rows = stack[1].rows \ {m}
    BY <1>3 DEF Shrunk
  <2>2. ASSUME NEW i \in 1 .. Len(s) PROVE s[i].rows \subseteq Used(s[i].at)
    <3>1. s[i].rows \subseteq stack[i].rows
      <4>1. i = 1 \/ i \in 2 .. Len(stack)
        BY <2>1
      <4> QED
        BY <2>1, <4>1
    <3> QED
      BY <1>3, <2>1, <3>1
  <2> QED
    BY <1>3, <2>1, <2>2
<1>4. asked.what = "cycles" => Path(stack)
  BY DEF Trailed
<1>5. ASSUME NEW m \in Nodes, NEW s \in Seq(Frames), Opened(m, s) PROVE Trailed'
  <2>1. /\ asked.what = "cycles" /\ leg = "up" /\ GraphOK
        /\ \/ stack = <<>> /\ s = <<>>
           \/ Len(stack) \in Nat \ {0} /\ m \in stack[1].rows /\ Shrunk(s, {}, {m})
        /\ Stacked(stack', s, Frame(m, 0)) /\ UNCHANGED <<reports, answered>>
        /\ m \notin visited
    BY <1>5 DEF Opened, Shape
  <2>2. Frame(m, 0).at = m /\ Frame(m, 0).rows = Used(m)
    <3>1. Frame(m, 0).at = m /\ Frame(m, 0).rows = Neighbours(m)
      BY <2>1, FrameFacts
    <3> QED
      BY <2>1, <3>1 DEF Neighbours
  <2>3. Path(s)
    BY <1>3, <1>4, <2>1
  <2>4. Len(s) \in Nat /\ (Len(s) > 0 => m \in Used(s[1].at))
    <3>1. CASE s = <<>>
      BY <3>1
    <3>2. CASE Len(stack) \in Nat \ {0} /\ m \in stack[1].rows /\ Shrunk(s, {}, {m})
      <4>1. s[1].at = stack[1].at /\ stack[1].rows \subseteq Used(stack[1].at)
        BY <1>4, <2>1, <3>2 DEF Shrunk
      <4> QED
        BY <3>2, <4>1
    <3> QED
      BY <2>1, <3>1, <3>2
  <2>5. PICK t \in Seq(Frames) : t = stack' /\ Len(t) = Len(s) + 1 /\ t[1] = Frame(m, 0) /\ \A i \in 1 .. Len(s) : t[i + 1] = s[i]
    BY <2>1 DEF Stacked
  <2>6. \A i \in 1 .. Len(t) : i = 1 \/ (i - 1 \in 1 .. Len(s) /\ t[i] = s[i - 1])
    <3> TAKE i \in 1 .. Len(t)
    <3>1. CASE i # 1
      <4>1. i - 1 \in 1 .. Len(s) /\ (i - 1) + 1 = i
        BY <2>4, <2>5, <3>1
      <4> QED
        BY <2>5, <4>1
    <3> QED
      BY <3>1
  <2>7. Path(t)
    <3>1. ASSUME NEW i \in 1 .. Len(t) PROVE t[i].rows \subseteq Used(t[i].at)
      <4>1. CASE i = 1
        BY <2>2, <2>5, <4>1
      <4>2. CASE i # 1
        <5>1. i - 1 \in 1 .. Len(s) /\ t[i] = s[i - 1]
          BY <2>6, <4>2
        <5> QED
          BY <2>3, <5>1
      <4> QED
        BY <4>1, <4>2
    <3>2. ASSUME NEW i \in 1 .. Len(t), NEW j \in 1 .. Len(t), j = i + 1 PROVE t[i].at \in Used(t[j].at)
      <4>1. j # 1 /\ j - 1 \in 1 .. Len(s) /\ t[j] = s[j - 1]
        BY <2>6, <3>2
      <4>2. CASE i = 1
        BY <2>2, <2>4, <2>5, <3>2, <4>1, <4>2
      <4>3. CASE i # 1
        <5>1. i - 1 \in 1 .. Len(s) /\ t[i] = s[i - 1] /\ j - 1 = (i - 1) + 1
          BY <2>6, <3>2, <4>3
        <5> QED
          BY <2>3, <4>1, <5>1
      <4> QED
        BY <4>2, <4>3
    <3> QED
      BY <3>1, <3>2
  <2>8. ~answered
    BY <2>1, <1>5 DEF Trailed
  <2> QED
    BY <1>1, <1>2, <2>1, <2>5, <2>7, <2>8 DEF Trailed
<1>6. ASSUME NEW m \in Nodes, NEW s \in Seq(Frames), Looked(m, s) PROVE Trailed'
  <2>1. /\ asked.what = "cycles" /\ Len(stack) \in Nat \ {0} /\ m \in stack[1].rows
        /\ Shrunk(s, {}, {m}) /\ stack' = s /\ UNCHANGED answered
    BY <1>6 DEF Looked
  <2>2. Path(s)
    BY <1>3, <1>4, <2>1
  <2>3. \A c \in reports' : RealCycle(c)
    BY <1>6, <2>1, PathCloses DEF Looked, Trailed
  <2>4. ~answered
    BY <2>1 DEF Trailed
  <2> QED
    BY <1>1, <1>2, <2>1, <2>2, <2>3, <2>4 DEF Trailed
<1>7. CASE CallOver /\ asked.what = "cycles"
  <2>1. /\ Len(stack) \in Nat \ {0} /\ stack' \in Seq(Frames) /\ Len(stack') = Len(stack) - 1
        /\ \A i \in 1 .. Len(stack) - 1 : stack'[i] = stack[i + 1]
        /\ UNCHANGED <<reports, answered>>
    BY <1>7 DEF CallOver
  <2>2. PICK t \in Seq(Frames) : t = stack'
    BY <2>1
  <2>3. \A i \in 1 .. Len(t) : i + 1 \in 1 .. Len(stack) /\ t[i] = stack[i + 1]
    BY <2>1, <2>2
  <2>4. Path(t)
    <3>1. \A i \in 1 .. Len(t) : t[i].rows \subseteq Used(t[i].at)
      BY <1>4, <1>7, <2>3
    <3>2. ASSUME NEW i \in 1 .. Len(t), NEW j \in 1 .. Len(t), j = i + 1 PROVE t[i].at \in Used(t[j].at)
      <4>1. j + 1 = (i + 1) + 1
        BY <3>2
      <4> QED
        BY <1>4, <1>7, <2>3, <3>2, <4>1
    <3> QED
      BY <3>1, <3>2
  <2>5. ~answered
    BY <1>7, <2>1 DEF Trailed
  <2> QED
    BY <1>1, <1>2, <1>7, <2>1, <2>2, <2>4, <2>5 DEF Trailed
<1>8. CASE Over /\ asked.what = "cycles"
  BY <1>1, <1>2, <1>8 DEF Over, Trailed
<1>9. CASE asked.what # "cycles"
  BY <1>1, <1>9 DEF Trailed
<1> QED
  BY <1>5, <1>6, <1>7, <1>8, <1>9
  DEF Stepped, Dropped, Visited, Arrived, Took, Lingered, Climbed, Over, Walks

(* So each reported cycle is one.                                           *)
LEMMA CyclesHold ==
  ASSUME Trailed
  PROVE  CyclesAreReal
BY DEF Trailed, CyclesAreReal, RealCycle

\* the files whose search is over
Done == visited \ OnStack

\* a reported cycle of files between which v and z lie: z leads to all, all to v
Rep(v, z) == \E c \in reports : \A i \in DOMAIN c : c[i] \in All(z) /\ v \in All(c[i])

\* what became of the dependency of v on z, if the searches ended in the order fin
Settled(v, z, fin) ==
  \/ \E i \in 1 .. Len(stack) : stack[i].at = v /\ z \in stack[i].rows
  \/ Rep(v, z)
  \/ z \in Done /\ (v \in Done => fin[z] < fin[v])
  \/ \E i, j \in 1 .. Len(stack) : j = i + 1 /\ stack[j].at = v /\ stack[i].at = z

Ordered(fin, end) ==
  /\ fin \in [Nodes -> Nat] /\ end \in Nat
  /\ \A v \in Done : fin[v] < end
  /\ \A v \in visited : \A z \in Used(v) : Settled(v, z, fin)

Tangled == asked.what = "cycles" => \E fin, end : Ordered(fin, end)

(* No dependency is unsettled at first.                                     *)
LEMMA TangledInit ==
  ASSUME Init
  PROVE  Tangled
<1>1. SUFFICES ASSUME asked.what = "cycles" PROVE \E fin, end : Ordered(fin, end)
  BY DEF Tangled
<1>2. visited = {}
  BY <1>1 DEF Init, Walks
<1>3. PICK fin : fin = [n \in Nodes |-> 0]
  OBVIOUS
<1>4. Ordered(fin, 0)
  BY <1>2, <1>3 DEF Ordered, Done
<1> QED
  BY <1>4

(* The files on the stack are those of its frames.                          *)
LEMMA StackNodes ==
  ASSUME stack \in Seq(Frames)
  PROVE  \A v : v \in OnStack <=> \E i \in 1 .. Len(stack) : stack[i].at = v
<1>1. DOMAIN stack = 1 .. Len(stack)
  BY Elements
<1> QED
  BY <1>1 DEF OnStack

\* a file leads to each file outside it on the stack
LEMMA PathReports ==
  ASSUME Shape, FramesApart, Trailed, asked.what = "cycles",
         NEW m \in OnStack, Len(stack) \in Nat \ {0}, m \in stack[1].rows
  PROVE  \A i \in DOMAIN PathFrom(m) : PathFrom(m)[i] \in All(m) /\ stack[1].at \in All(PathFrom(m)[i])
<1>1. PICK i \in 1 .. Len(stack) :
           /\ stack[i].at = m /\ PathFrom(m) \in Seq(Nodes)
           /\ Len(PathFrom(m)) = i /\ DOMAIN PathFrom(m) = 1 .. i
           /\ \A k \in 1 .. i : i + 1 - k \in 1 .. i /\ PathFrom(m)[k] = stack[i + 1 - k].at
  BY PathFromFacts DEF Shape
<1>2. /\ GraphOK /\ stack \in Seq(Frames) /\ \A k \in 1 .. Len(stack) : stack[k].at \in Nodes
      /\ i \in Nat \ {0} /\ \A x : Neighbours(x) = Used(x)
  <2>1. GraphOK /\ stack \in Seq(Frames)
    BY DEF Shape
  <2> QED
    BY <2>1, FrameTypes DEF Neighbours
<1>3. \A j \in 1 .. Len(stack) : \A k \in 1 .. Len(stack) : k = j + 1 => stack[j].at \in Used(stack[k].at)
  BY DEF Trailed
\* going in from the k-th frame, d frames
<1> DEFINE P == {d \in Nat : \A k \in 1 .. Len(stack) : d < k => stack[k - d].at \in All(stack[k].at)}
<1>4. 0 \in P
  <2>1. \A k \in 1 .. Len(stack) : k - 0 = k
    OBVIOUS
  <2> QED
    BY <1>2, <2>1, AllFacts
<1>5. ASSUME NEW d \in Nat, d \in P PROVE d + 1 \in P
  <2>1. SUFFICES ASSUME NEW k \in 1 .. Len(stack), d + 1 < k PROVE stack[k - (d + 1)].at \in All(stack[k].at)
    OBVIOUS
  <2>2. /\ d < k /\ k - d \in 1 .. Len(stack) /\ k - (d + 1) \in 1 .. Len(stack)
        /\ k - d = (k - (d + 1)) + 1
    BY <2>1
  <2>3. stack[k - d].at \in All(stack[k].at)
    BY <1>5, <2>2
  <2>4. stack[k - (d + 1)].at \in Used(stack[k - d].at)
    BY <1>3, <2>2
  <2> QED
    BY <1>2, <2>3, <2>4, AllFacts
<1> HIDE DEF P
<1>6. \A d \in Nat : d \in P
  BY <1>4, <1>5, AllNumbers
<1>7. ASSUME NEW j \in 1 .. Len(stack), NEW k \in j .. Len(stack) PROVE stack[j].at \in All(stack[k].at)
  <2>1. k - j \in Nat /\ k - j < k /\ k - (k - j) = j /\ k \in 1 .. Len(stack)
    OBVIOUS
  <2> QED
    BY <1>6, <2>1 DEF P
<1>8. ASSUME NEW k \in 1 .. i
      PROVE  PathFrom(m)[k] \in All(m) /\ stack[1].at \in All(PathFrom(m)[k])
  <2>1. PICK j \in 1 .. i : j = i + 1 - k /\ PathFrom(m)[k] = stack[j].at
    BY <1>1
  <2>2. j \in 1 .. Len(stack) /\ i \in j .. Len(stack) /\ 1 \in 1 .. Len(stack) /\ j \in 1 .. Len(stack)
    BY <1>2
  <2>3. stack[j].at \in All(stack[i].at)
    BY <1>7, <2>2
  <2>4. stack[1].at \in All(stack[j].at)
    BY <1>7, <2>2
  <2> QED
    BY <1>1, <2>1, <2>3, <2>4
<1> QED
  BY <1>1, <1>8

(* A dependency once reported stays so.                                     *)
LEMMA SameReach ==
  ASSUME UNCHANGED <<graph, asked>>, reports \subseteq reports'
  PROVE  /\ \A n : Used(n)' = Used(n)
         /\ \A v, z : Rep(v, z) => Rep(v, z)'
<1>1. (\A n : Used(n)' = Used(n)) /\ (\A n : All(n)' = All(n))
  BY SameRows, SameWithin DEF All, Used
<1> QED
  BY <1>1 DEF Rep

\* the next dependency of the innermost file is taken off its rows
LEMMA TangledLooked ==
  ASSUME Shape, FramesApart, Trailed, Tangled, NEW m \in Nodes, NEW s \in Seq(Frames), Looked(m, s)
  PROVE  Tangled'
<1>1. /\ asked.what = "cycles" /\ Len(stack) \in Nat \ {0} /\ m \in stack[1].rows
      /\ stack' = s /\ visited' = visited /\ UNCHANGED <<graph, asked>>
      /\ \/ m \in OnStack /\ reports' = reports \cup {PathFrom(m)}
         \/ m \in Done /\ reports' = reports
  BY DEF Looked, Done
<1>2. /\ Len(s) = Len(stack) /\ \A i \in 1 .. Len(stack) : s[i].at = stack[i].at
      /\ \A i \in 2 .. Len(stack) : s[i] = stack[i]
      /\ s[1].rows = stack[1].rows \ {m} /\ stack \in Seq(Frames)
  BY DEF Looked, Shrunk, Shape
<1>3. OnStack' = OnStack /\ Done' = Done
  <2>1. DOMAIN stack = 1 .. Len(stack) /\ DOMAIN s = 1 .. Len(s)
    BY <1>2, Elements
  <2>2. OnStack' = OnStack
    BY <1>1, <1>2, <2>1 DEF OnStack
  <2> QED
    BY <1>1, <2>2 DEF Done
<1>4. reports \subseteq reports'
  BY <1>1
<1>5. (\A n : Used(n)' = Used(n)) /\ (\A v, z : Rep(v, z) => Rep(v, z)')
  BY <1>1, <1>4, SameReach
<1>6. PICK fin, end : Ordered(fin, end)
  BY <1>1 DEF Tangled
<1>t. stack[1].at \in OnStack /\ stack[1].at \notin Done
  <2>1. stack[1].at \in OnStack
    BY <1>1, <1>2, StackNodes
  <2> QED
    BY <2>1 DEF Done
<1>7. Settled(stack[1].at, m, fin)'
  <2>1. CASE m \in OnStack /\ reports' = reports \cup {PathFrom(m)}
    <3>1. \A i \in DOMAIN PathFrom(m) : PathFrom(m)[i] \in All(m) /\ stack[1].at \in All(PathFrom(m)[i])
      BY <1>1, <2>1, PathReports
    <3>2. PICK v, c : v = stack[1].at /\ c = PathFrom(m)
      OBVIOUS
    <3>3. \A n : All(n)' = All(n)
      BY <1>1, SameWithin DEF All
    <3>4. Rep(v, m)'
      BY <2>1, <3>1, <3>2, <3>3 DEF Rep
    <3>5. Settled(v, m, fin)'
      BY <3>4 DEF Settled
    <3>6. v = s[1].at
      BY <1>1, <1>2, <3>2
    <3> QED
      BY <1>1, <3>2, <3>5, <3>6 DEF Settled, Rep
  <2>2. CASE m \in Done
    <3>1. PICK v : v = stack[1].at
      OBVIOUS
    <3>2. Settled(v, m, fin)'
      BY <1>3, <1>t, <2>2, <3>1 DEF Settled
    <3>6. v = s[1].at
      BY <1>1, <1>2, <3>1
    <3> QED
      BY <1>1, <3>1, <3>2, <3>6 DEF Settled
  <2> QED
    BY <1>1, <2>1, <2>2
<1>8. ASSUME NEW v \in visited, NEW z \in Used(v), ~(v = stack[1].at /\ z = m) PROVE Settled(v, z, fin)'
  <2>0. Settled(v, z, fin)
    BY <1>6 DEF Ordered
  <2>1. ASSUME NEW i \in 1 .. Len(stack), stack[i].at = v, z \in stack[i].rows PROVE Settled(v, z, fin)'
    <3>1. s[i].at = v /\ z \in s[i].rows
      <4>1. i = 1 \/ i \in 2 .. Len(stack)
        BY <1>1
      <4> QED
        BY <1>2, <1>8, <2>1, <4>1
    <3> QED
      BY <1>1, <1>2, <3>1 DEF Settled
  <2>2. CASE Rep(v, z)
    BY <1>5, <2>2 DEF Settled
  <2>3. CASE z \in Done /\ (v \in Done => fin[z] < fin[v])
    BY <1>3, <2>3 DEF Settled
  <2>4. ASSUME NEW i \in 1 .. Len(stack), NEW j \in 1 .. Len(stack), j = i + 1, stack[j].at = v, stack[i].at = z
        PROVE  Settled(v, z, fin)'
    <3>1. s[j].at = v /\ s[i].at = z
      BY <1>2, <2>4
    <3> QED
      BY <1>1, <1>2, <2>4, <3>1 DEF Settled
  <2> QED
    BY <2>0, <2>1, <2>2, <2>3, <2>4 DEF Settled
<1>9. \A v \in visited' : \A z \in Used(v)' : Settled(v, z, fin)'
  <2>1. PICK t : t = stack[1].at
    OBVIOUS
  <2>2. t = s[1].at
    BY <1>1, <1>2, <2>1
  <2>3. Settled(t, m, fin)'
    BY <1>1, <1>7, <2>1, <2>2 DEF Settled
  <2> QED
    BY <1>1, <1>5, <1>8, <2>1, <2>3
<1>10. Ordered(fin, end)'
  BY <1>3, <1>6, <1>9 DEF Ordered
<1> QED
  BY <1>10 DEF Tangled

\* the search enters the file m
LEMMA TangledOpened ==
  ASSUME Shape, FramesApart, Trailed, Tangled, NEW m \in Nodes, NEW s \in Seq(Frames), Opened(m, s)
  PROVE  Tangled'
<1>1. /\ asked.what = "cycles" /\ leg = "up" /\ GraphOK
      /\ \/ stack = <<>> /\ s = <<>>
         \/ Len(stack) \in Nat \ {0} /\ m \in stack[1].rows /\ Shrunk(s, {}, {m})
      /\ Stacked(stack', s, Frame(m, 0)) /\ UNCHANGED <<graph, asked, reports>>
      /\ m \notin visited /\ visited' = visited \cup {m} /\ stack \in Seq(Frames)
  BY DEF Opened, Shape
<1>2. Frame(m, 0).at = m /\ Frame(m, 0).rows = Used(m)
  <2>1. Frame(m, 0).at = m /\ Frame(m, 0).rows = Neighbours(m)
    BY <1>1, FrameFacts
  <2> QED
    BY <1>1, <2>1 DEF Neighbours
<1>3. /\ Len(s) \in Nat /\ Len(stack) = Len(s) /\ \A i \in 1 .. Len(s) : s[i].at = stack[i].at
      /\ \A i \in 1 .. Len(s) : \A z \in stack[i].rows : z \in s[i].rows \/ (i = 1 /\ z = m)
  <2>1. CASE stack = <<>> /\ s = <<>>
    BY <2>1
  <2>2. CASE Len(stack) \in Nat \ {0} /\ m \in stack[1].rows /\ Shrunk(s, {}, {m})
    <3>1. /\ Len(s) = Len(stack) /\ \A i \in 1 .. Len(stack) : s[i].at = stack[i].at
          /\ \A i \in 2 .. Len(stack) : s[i] = stack[i]
          /\ s[1].rows = stack[1].rows \ {m}
      BY <2>2 DEF Shrunk
    <3>2. \A i \in 1 .. Len(s) : i = 1 \/ i \in 2 .. Len(stack)
      BY <2>2, <3>1
    <3> QED
      BY <2>2, <3>1, <3>2
  <2> QED
    BY <1>1, <2>1, <2>2
<1>4. PICK t \in Seq(Frames) : t = stack' /\ Len(t) = Len(s) + 1 /\ t[1] = Frame(m, 0) /\ \A i \in 1 .. Len(s) : t[i + 1] = s[i]
  BY <1>1 DEF Stacked
<1>5. \A i \in 1 .. Len(s) : i + 1 \in 1 .. Len(t)
  BY <1>3, <1>4
<1>6. 1 \in 1 .. Len(t) /\ t[1].at = m /\ t[1].rows = Used(m)
  BY <1>2, <1>3, <1>4
<1>7. OnStack' = OnStack \cup {m}
  <2>1. DOMAIN stack = 1 .. Len(stack) /\ DOMAIN t = 1 .. Len(t)
    BY <1>1, Elements
  <2>2. \A i \in 1 .. Len(t) : i = 1 \/ (i - 1 \in 1 .. Len(s) /\ (i - 1) + 1 = i)
    BY <1>3, <1>4
  <2>3. \A i \in 1 .. Len(t) : i = 1 \/ (i - 1 \in 1 .. Len(stack) /\ t[i].at = stack[i - 1].at)
    BY <1>3, <1>4, <2>2
  <2>4. ASSUME NEW x \in OnStack' PROVE x \in OnStack \cup {m}
    <3>1. PICK i \in 1 .. Len(t) : x = t[i].at
      BY <1>4, <2>1, <2>4 DEF OnStack
    <3>2. CASE i = 1
      BY <1>6, <3>1, <3>2
    <3>3. CASE i - 1 \in 1 .. Len(stack) /\ t[i].at = stack[i - 1].at
      BY <2>1, <3>1, <3>3 DEF OnStack
    <3> QED
      BY <2>3, <3>2, <3>3
  <2>5. ASSUME NEW x \in OnStack PROVE x \in OnStack'
    <3>1. PICK i \in 1 .. Len(stack) : x = stack[i].at
      BY <2>1, <2>5 DEF OnStack
    <3>2. i + 1 \in 1 .. Len(t) /\ t[i + 1].at = x
      BY <1>3, <1>4, <1>5, <3>1
    <3> QED
      BY <1>4, <2>1, <3>2 DEF OnStack
  <2>6. m \in OnStack'
    BY <1>4, <1>6, <2>1 DEF OnStack
  <2> QED
    BY <2>4, <2>5, <2>6
<1>8. Done' = Done
  <2>1. OnStack \subseteq visited
    BY <1>1, StackNodes DEF FramesApart
  <2> QED
    BY <1>1, <1>7, <2>1 DEF Done
<1>9. (\A n : Used(n)' = Used(n)) /\ (\A v, z : Rep(v, z) => Rep(v, z)')
  BY <1>1, SameReach
<1>10. PICK fin, end : Ordered(fin, end)
  BY <1>1 DEF Tangled
<1>11. \A z \in Used(m) : Settled(m, z, fin)'
  BY <1>4, <1>6 DEF Settled
<1>12. ASSUME NEW v \in visited, NEW z \in Used(v) PROVE Settled(v, z, fin)'
  <2>0. Settled(v, z, fin)
    BY <1>10 DEF Ordered
  <2>1. ASSUME NEW i \in 1 .. Len(stack), stack[i].at = v, z \in stack[i].rows PROVE Settled(v, z, fin)'
    <3>0. i + 1 \in 1 .. Len(t) /\ t[i + 1] = s[i] /\ s[i].at = v
      BY <1>3, <1>4, <1>5, <2>1
    <3>1. CASE z \in s[i].rows
      BY <1>4, <3>0, <3>1 DEF Settled
    <3>2. CASE i = 1 /\ z = m
      <4>1. t[2].at = v /\ 2 \in 1 .. Len(t) /\ 2 = 1 + 1
        BY <3>0, <3>2
      <4> QED
        BY <1>4, <1>6, <3>2, <4>1 DEF Settled
    <3> QED
      BY <1>3, <2>1, <3>1, <3>2
  <2>2. CASE Rep(v, z)
    BY <1>9, <2>2 DEF Settled
  <2>3. CASE z \in Done /\ (v \in Done => fin[z] < fin[v])
    BY <1>8, <2>3 DEF Settled
  <2>4. ASSUME NEW i \in 1 .. Len(stack), NEW j \in 1 .. Len(stack), j = i + 1, stack[j].at = v, stack[i].at = z
        PROVE  Settled(v, z, fin)'
    <3>1. i + 1 \in 1 .. Len(t) /\ j + 1 \in 1 .. Len(t) /\ t[j + 1].at = v /\ t[i + 1].at = z /\ j + 1 = (i + 1) + 1
      BY <1>3, <1>4, <1>5, <2>4
    <3> QED
      BY <1>4, <3>1 DEF Settled
  <2> QED
    BY <2>0, <2>1, <2>2, <2>3, <2>4 DEF Settled
<1>13. Ordered(fin, end)'
  BY <1>1, <1>8, <1>9, <1>10, <1>11, <1>12 DEF Ordered
<1> QED
  BY <1>13 DEF Tangled

\* the search of the innermost file is over
LEMMA TangledOver ==
  ASSUME Shape, FramesApart, Trailed, Tangled, CallOver, asked.what = "cycles"
  PROVE  Tangled'
<1>1. /\ Len(stack) \in Nat \ {0} /\ stack[1].rows = {} /\ stack \in Seq(Frames)
      /\ stack' \in Seq(Frames) /\ Len(stack') = Len(stack) - 1
      /\ \A i \in 1 .. Len(stack) - 1 : stack'[i] = stack[i + 1]
      /\ UNCHANGED <<graph, asked, visited, reports>>
  BY DEF CallOver, Shape
<1>2. PICK s, t : s \in Seq(Frames) /\ s = stack' /\ t = stack[1].at
  BY <1>1
<1>3. /\ \A i \in 1 .. Len(s) : i + 1 \in 1 .. Len(stack) /\ s[i] = stack[i + 1]
      /\ \A i \in 1 .. Len(stack) : i = 1 \/ (i - 1 \in 1 .. Len(s) /\ s[i - 1] = stack[i])
  <2>1. \A i \in 1 .. Len(s) : i + 1 \in 1 .. Len(stack) /\ s[i] = stack[i + 1]
    BY <1>1, <1>2
  <2>2. ASSUME NEW i \in 1 .. Len(stack), i # 1 PROVE i - 1 \in 1 .. Len(s) /\ s[i - 1] = stack[i]
    <3>1. i - 1 \in 1 .. Len(s) /\ (i - 1) + 1 = i
      BY <1>1, <1>2, <2>2
    <3> QED
      BY <2>1, <3>1
  <2> QED
    BY <2>1, <2>2
<1>4. /\ t \in visited /\ t \in Nodes /\ 1 \in 1 .. Len(stack)
      /\ \A i \in 1 .. Len(stack) : stack[i].at = t => i = 1
  <2>1. 1 \in 1 .. Len(stack)
    BY <1>1
  <2> QED
    BY <1>2, <2>1, FrameTypes DEF FramesApart, Shape
<1>5. OnStack' = OnStack \ {t} /\ t \in OnStack
  <2>1. DOMAIN stack = 1 .. Len(stack) /\ DOMAIN s = 1 .. Len(s)
    BY <1>1, Elements
  <2>2. OnStack' = {s[i].at : i \in 1 .. Len(s)} /\ OnStack = {stack[i].at : i \in 1 .. Len(stack)}
    BY <1>2, <2>1 DEF OnStack
  <2>3. \A i \in 1 .. Len(s) : i + 1 # 1
    OBVIOUS
  <2>4. ASSUME NEW x \in OnStack' PROVE x \in OnStack \ {t}
    <3>1. PICK i \in 1 .. Len(s) : x = s[i].at
      BY <2>2, <2>4
    <3>2. i + 1 \in 1 .. Len(stack) /\ x = stack[i + 1].at /\ i + 1 # 1
      BY <1>3, <2>3, <3>1
    <3> QED
      BY <1>4, <2>2, <3>2
  <2>5. OnStack \ {t} \subseteq OnStack'
    BY <1>2, <1>3, <2>2
  <2> QED
    BY <1>2, <1>4, <2>2, <2>4, <2>5
<1>6. Done' = Done \cup {t} /\ t \notin Done
  BY <1>1, <1>4, <1>5 DEF Done
<1>7. (\A n : Used(n)' = Used(n)) /\ (\A v, z : Rep(v, z) => Rep(v, z)')
  BY <1>1, SameReach
<1>8. PICK fin, end : Ordered(fin, end)
  BY DEF Tangled
<1>9. fin \in [Nodes -> Nat] /\ end \in Nat /\ \A v \in Done : v \in Nodes /\ fin[v] < end
  BY <1>8 DEF Ordered, Done, Shape
<1>10. PICK new : new = [fin EXCEPT ![t] = end]
  OBVIOUS
<1>11. new \in [Nodes -> Nat] /\ new[t] = end /\ \A v \in Done : new[v] = fin[v]
  BY <1>4, <1>6, <1>9, <1>10
<1>12. ASSUME NEW v \in visited, NEW z \in Used(v) PROVE Settled(v, z, new)'
  <2>0. Settled(v, z, fin)
    BY <1>8 DEF Ordered
  <2>1. ASSUME NEW i \in 1 .. Len(stack), stack[i].at = v, z \in stack[i].rows PROVE Settled(v, z, new)'
    <3>1. i - 1 \in 1 .. Len(s) /\ s[i - 1].at = v /\ z \in s[i - 1].rows
      BY <1>1, <1>3, <2>1
    <3> QED
      BY <1>2, <3>1 DEF Settled
  <2>2. CASE Rep(v, z)
    BY <1>7, <2>2 DEF Settled
  <2>3. CASE z \in Done /\ (v \in Done => fin[z] < fin[v])
    <3>1. z \in Done' /\ new[z] = fin[z] /\ fin[z] < end
      BY <1>6, <1>9, <1>11, <2>3
    <3>2. v \in Done' => new[z] < new[v]
      BY <1>6, <1>11, <2>3, <3>1
    <3> QED
      BY <3>1, <3>2 DEF Settled
  <2>4. ASSUME NEW i \in 1 .. Len(stack), NEW j \in 1 .. Len(stack), j = i + 1, stack[j].at = v, stack[i].at = z
        PROVE  Settled(v, z, new)'
    <3>0. j # 1 /\ j - 1 \in 1 .. Len(s) /\ s[j - 1].at = v
      BY <1>3, <2>4
    <3>1. CASE i = 1
      <4>1. z = t /\ v \in OnStack /\ v # t
        BY <1>1, <1>2, <1>4, <2>4, <3>0, <3>1, StackNodes
      <4>2. v \notin Done' /\ z \in Done'
        BY <1>5, <1>6, <4>1 DEF Done
      <4> QED
        BY <4>2 DEF Settled
    <3>2. CASE i # 1
      <4>1. i - 1 \in 1 .. Len(s) /\ s[i - 1].at = z /\ j - 1 = (i - 1) + 1
        BY <1>3, <2>4, <3>2
      <4> QED
        BY <1>2, <3>0, <4>1 DEF Settled
    <3> QED
      BY <3>1, <3>2
  <2> QED
    BY <2>0, <2>1, <2>2, <2>3, <2>4 DEF Settled
<1>13. \A v \in Done' : new[v] < end + 1
  BY <1>6, <1>9, <1>11
<1>14. Ordered(new, end + 1)'
  BY <1>1, <1>7, <1>9, <1>11, <1>12, <1>13 DEF Ordered
<1> QED
  BY <1>14 DEF Tangled

(* Every step keeps each dependency settled.                                *)
LEMMA TangledStep ==
  ASSUME Shape, FramesApart, Trailed, Tangled, Stepped
  PROVE  Tangled'
<1>1. UNCHANGED <<graph, asked>>
  BY StepKeepsGraph
<1>2. CASE Over /\ asked.what = "cycles"
  <2>1. UNCHANGED <<stack, visited, reports, graph, asked>>
    BY <1>2 DEF Over
  <2>2. PICK fin, end : Ordered(fin, end)
    BY <1>2 DEF Tangled
  <2>3. (\A n : Used(n)' = Used(n)) /\ (\A v, z : Rep(v, z) => Rep(v, z)') /\ Done' = Done
    BY <2>1, SameReach DEF Done, OnStack
  <2>4. \A v, z : Settled(v, z, fin) => Settled(v, z, fin)'
    BY <2>1, <2>3 DEF Settled
  <2>5. Ordered(fin, end)'
    BY <2>1, <2>2, <2>3, <2>4 DEF Ordered
  <2> QED
    BY <2>5 DEF Tangled
<1>3. CASE asked.what # "cycles"
  BY <1>1, <1>3 DEF Tangled
<1> QED
  BY <1>2, <1>3, TangledOpened, TangledLooked, TangledOver
  DEF Stepped, Dropped, Visited, Arrived, Took, Lingered, Climbed, Over, Walks

\* what a file leads to by one dependency or more
After(n) == UNION {All(m) : m \in Used(n)}

(* What a file leads to: itself, and what it leads to by a dependency or    *)
(* more.                                                                    *)
LEMMA AfterFacts ==
  ASSUME GraphOK, asked.what = "cycles", NEW n \in Nodes
  PROVE  /\ All(n) = {n} \cup After(n) /\ After(n) \subseteq Nodes
         /\ \A x \in After(n) : All(x) \subseteq After(n)
         /\ \A x \in All(n) : After(x) \subseteq After(n)
<1>1. (\A x : Neighbours(x) = Used(x)) /\ (\A x : Members(x) = {}) /\ \A x \in Nodes : Used(x) \subseteq Nodes
  BY RowsAreNodes DEF Neighbours, Members
<1>2. \A x \in Nodes : /\ x \in All(x) /\ All(x) \subseteq Nodes /\ \A y \in All(x) : Used(y) \subseteq All(x)
                       /\ \A y \in All(x) : All(y) \subseteq All(x)
  BY <1>1, AllFacts, AllOfAll
<1>3. After(n) \subseteq Nodes /\ After(n) \subseteq All(n)
  BY <1>1, <1>2 DEF After
<1>4. \A x \in After(n) : All(x) \subseteq After(n) /\ Used(x) \subseteq After(n)
  BY <1>1, <1>2 DEF After
<1> DEFINE T == {n} \cup After(n)
<1>5. \A x \in T \cap Nodes : Members(x) \subseteq T /\ Neighbours(x) \subseteq T
  BY <1>1, <1>2, <1>4 DEF After
<1>6. All(n) \subseteq T
  <2>1. Cardinality(Nodes) \in Nat /\ n \in T
    BY FS_CardinalityType
  <2> HIDE DEF T
  <2>2. \A k \in Nat : Within(n, k) \subseteq T
    BY <1>5, <2>1, WithinLeast
  <2> QED
    BY <2>1, <2>2 DEF All
<1>7. ASSUME NEW x \in All(n) PROVE After(x) \subseteq After(n)
  <2>1. CASE x = n
    BY <2>1
  <2>2. CASE x \in After(n)
    <3>1. x \in Nodes /\ After(x) \subseteq All(x)
      BY <1>1, <1>2, <1>3, <2>2 DEF After
    <3> QED
      BY <1>4, <2>2, <3>1
  <2> QED
    BY <1>6, <2>1, <2>2
<1> QED
  BY <1>2, <1>3, <1>4, <1>6, <1>7

(* Of the files of a tangle, one was over first; its next one in the tangle *)
(* was not over, so a cycle was reported.                                   *)
LEMMA TangleReported ==
  ASSUME Shape, Trailed, Tangled, asked.what = "cycles", answered, NEW n \in Nodes, n \in After(n)
  PROVE  \E c \in reports : \A i \in DOMAIN c : c[i] \in After(n) /\ n \in After(c[i])
<1>1. GraphOK /\ stack = <<>> /\ visited = Nodes
  BY DEF Shape, Trailed
<1>2. PICK fin, end : Ordered(fin, end)
  BY DEF Tangled
<1>3. Done = Nodes /\ Len(stack) = 0
  BY <1>1 DEF Done, OnStack
<1>4. /\ fin \in [Nodes -> Nat]
      /\ \A v \in Nodes : \A z \in Used(v) : Rep(v, z) \/ fin[z] < fin[v]
  <2>1. \A v \in Nodes : \A z \in Used(v) : z \in Nodes /\ Settled(v, z, fin)
    BY <1>1, <1>2, RowsAreNodes DEF Ordered
  <2> QED
    BY <1>2, <1>3, <2>1 DEF Ordered, Settled
<1>5. \A x \in Nodes : /\ All(x) = {x} \cup After(x) /\ After(x) \subseteq Nodes
                       /\ \A y \in After(x) : All(y) \subseteq After(x)
                       /\ \A y \in All(x) : After(y) \subseteq After(x)
  BY <1>1, AfterFacts
<1> DEFINE T == {m \in Nodes : m \in After(n) /\ n \in After(m)}
           Fins == {fin[v] : v \in T}
<1>6. PICK least \in Fins : \A y \in Fins : least <= y
  <2>1. Fins \subseteq Nat /\ Fins # {}
    BY <1>4
  <2> HIDE DEF Fins
  <2> QED
    BY <2>1, LeastNumber
<1>7. PICK v \in T : \A x \in T : fin[v] <= fin[x]
  BY <1>6
<1>8. PICK z \in Used(v) : n \in All(z)
  BY <1>7 DEF After
<1>9. z \in Nodes /\ z \in After(v) /\ z \in After(n)
  <2>1. z \in Nodes
    BY <1>1, <1>7, <1>8, RowsAreNodes
  <2>2. z \in After(v)
    BY <1>5, <1>8, <2>1 DEF After
  <2>3. v \in All(n)
    BY <1>5, <1>7
  <2> QED
    BY <1>5, <2>1, <2>2, <2>3
<1>10. n \in After(z)
  BY <1>5, <1>8, <1>9
<1>11. z \in T
  BY <1>9, <1>10
<1>12. Rep(v, z)
  <2>1. fin[v] \in Nat /\ fin[z] \in Nat /\ fin[v] <= fin[z]
    BY <1>4, <1>7, <1>11
  <2> QED
    BY <1>4, <1>7, <1>8, <2>1
<1>13. PICK c \in reports : \A i \in DOMAIN c : c[i] \in All(z) /\ v \in All(c[i])
  BY <1>12 DEF Rep
<1>14. ASSUME NEW i \in DOMAIN c PROVE c[i] \in After(n) /\ n \in After(c[i])
  <2>1. c[i] \in All(z) /\ v \in All(c[i]) /\ c[i] \in Nodes
    BY <1>5, <1>9, <1>13
  <2>2. c[i] \in After(n)
    BY <1>5, <1>9, <2>1
  <2>3. n \in After(v) /\ After(v) \subseteq After(c[i])
    BY <1>5, <1>7, <2>1
  <2> QED
    BY <2>2, <2>3
<1> QED
  BY <1>13, <1>14

(* So no tangle goes unreported.                                            *)
LEMMA EveryTangleHolds ==
  ASSUME Shape, Trailed, Tangled
  PROVE  EveryTangleReported
<1>1. SUFFICES ASSUME answered, asked.what = "cycles"
               PROVE  EveryTangleReported
  BY DEF EveryTangleReported
<1>2. \A n \in Nodes : n \in After(n) => \E c \in reports : \A i \in DOMAIN c : c[i] \in After(n) /\ n \in After(c[i])
  BY <1>1, TangleReported
<1> QED
  BY <1>2 DEF EveryTangleReported, After, All

\* the inductive invariant: what holds at every moment of any walk
Kept ==
  /\ Shape /\ FramesApart
  /\ Walked /\ Chained /\ Searched /\ PathKept /\ BfsKept /\ Trailed /\ Tangled

(* The invariant holds at first.                                            *)
LEMMA KeptInit ==
  ASSUME Init
  PROVE  Kept
BY ShapeInit, FramesInit, WalkedInit, ChainedInit, SearchedInit, PathKeptInit, BfsKeptInit, TrailedInit, TangledInit
DEF Kept

(* The invariant is about the variables of the walks only.                  *)
LEMMA KeptRests ==
  ASSUME Kept, UNCHANGED vars
  PROVE  Kept'
<1>1. /\ UNCHANGED <<graph, asked, queue, stack, visited>>
      /\ UNCHANGED <<found, links, reports, leg, answered>>
  BY DEF vars
<1>2. UNCHANGED <<graph, asked>>
  BY <1>1
<1>3. \A n : /\ Used(n)' = Used(n) /\ Users(n)' = Users(n) /\ Held(n)' = Held(n) /\ Above(n)' = Above(n)
             /\ Adjacent(n)' = Adjacent(n) /\ Neighbours(n)' = Neighbours(n) /\ Members(n)' = Members(n)
             /\ All(n)' = All(n)
  BY <1>2, SameRows, SameWithin
<1>4. Shape'
  BY <1>1 DEF Kept, Shape, GraphOK
<1>5. FramesApart'
  BY <1>1 DEF Kept, FramesApart
<1>6. Walked'
  <2>1. (\A frame : GoodFrame(frame)' <=> GoodFrame(frame)) /\ Reach' = Reach
    BY <1>2, SameGoodFrames
  <2>2. /\ \A v, m : (MemberWaits(v, m)' <=> MemberWaits(v, m)) /\ (RowWaits(v, m)' <=> RowWaits(v, m))
        /\ (Unlimited' <=> Unlimited) /\ (Bounded' <=> Bounded)
    BY <1>1 DEF MemberWaits, RowWaits, Unlimited, Bounded
  <2> QED
    BY <1>1, <1>3, <2>1, <2>2 DEF Kept, Walked, Deep
<1>7. Chained'
  BY <1>1, <1>3 DEF Kept, Chained, Cur, OneAbove, Last
<1>8. Searched'
  <2>1. SUFFICES ASSUME asked.what \in {"bfs", "path"} PROVE Searched'
    BY <1>1 DEF Searched
  <2>2. PICK lvl : Layered(lvl)
    BY <2>1 DEF Kept, Searched
  <2>3. \A l : Far(l)' <=> Far(l)
    BY <1>1 DEF Far
  <2>4. Layered(lvl)'
    BY <1>1, <1>3, <2>2, <2>3 DEF Layered
  <2> QED
    BY <2>4 DEF Searched
<1>9. PathKept'
  <2>1. \A p : (WalkFrom(p)' <=> WalkFrom(p)) /\ (Shortest(p)' <=> Shortest(p))
    BY <1>2, SameWalks
  <2> QED
    BY <1>1, <2>1 DEF Kept, PathKept
<1>10. BfsKept'
  <2>1. \A p : (NearEnough(p) => NearEnough(p)') /\ (Led(p) => Led(p)')
    BY <1>1, <1>2, SameBfs
  <2>2. (\A v : LinksTo(v)' = LinksTo(v)) /\ Within(Start, asked.depth)' = Within(Start, asked.depth)
    BY <1>1, SameWithin DEF LinksTo
  <2> QED
    BY <1>1, <2>1, <2>2 DEF Kept, BfsKept
<1>11. Trailed'
  <2>1. \A c : RealCycle(c)' <=> RealCycle(c)
    BY <1>3 DEF RealCycle
  <2> QED
    BY <1>1, <1>3, <2>1 DEF Kept, Trailed
<1>12. Tangled'
  <2>1. SUFFICES ASSUME asked.what = "cycles" PROVE Tangled'
    BY <1>1 DEF Tangled
  <2>2. PICK fin, end : Ordered(fin, end)
    BY <2>1 DEF Kept, Tangled
  <2>3. (\A v, z : Rep(v, z) => Rep(v, z)') /\ Done' = Done
    BY <1>1, SameReach DEF Done, OnStack
  <2>4. \A v, z : Settled(v, z, fin) => Settled(v, z, fin)'
    BY <1>1, <2>3 DEF Settled
  <2>5. Ordered(fin, end)'
    BY <1>1, <1>3, <2>2, <2>3, <2>4 DEF Ordered
  <2> QED
    BY <2>5 DEF Tangled
<1> QED
  BY <1>4, <1>5, <1>6, <1>7, <1>8, <1>9, <1>10, <1>11, <1>12 DEF Kept

(* Every step keeps the invariant.                                          *)
LEMMA KeptStep ==
  ASSUME Kept, [Next]_vars
  PROVE  Kept'
<1>1. CASE Next
  <2>1. Stepped
    BY <1>1, NextSteps DEF Kept
  <2> QED
    BY <2>1, ShapeStep, FramesStep, WalkedStep, ChainedStep, SearchedStep, PathKeptStep, BfsKeptStep,
       TrailedStep, TangledStep
    DEF Kept
<1>2. CASE UNCHANGED vars
  BY <1>2, KeptRests
<1> QED
  BY <1>1, <1>2

(* The invariant makes every answer right.                                  *)
LEMMA KeptAnswers ==
  ASSUME Kept
  PROVE  AnswersAreRight /\ PathIsShortest /\ TanglesAreFound
<1>1. TypeOK
  BY TypesHold DEF Kept
<1>2. AnswerIsInReach
  <2>1. CASE asked.what \in Walks
    BY <2>1, WalkedReach DEF Kept
  <2>2. CASE asked.what = "bfs"
    BY <2>2, BfsReach DEF Kept
  <2>3. CASE asked.what \notin Walks \cup {"bfs"}
    BY <2>3 DEF AnswerIsInReach, Bounded, Walks
  <2> QED
    BY <2>1, <2>2, <2>3
<1>3. BfsIsExact /\ NearestAreComplete /\ WholeWhenDeep
  BY ExactHolds, WalkedNearest, WholeHolds DEF Kept
<1>4. PathIsShortest
  BY ShortestHolds DEF Kept
<1>5. CyclesAreReal /\ EveryTangleReported
  BY CyclesHold, EveryTangleHolds DEF Kept
<1> QED
  BY <1>1, <1>2, <1>3, <1>4, <1>5 DEF AnswersAreRight, TanglesAreFound

(* Whatever the graph and the order of its rows: each answer has what it     *)
(* should and nothing else, a path that is found is a shortest one, and the  *)
(* cycles reported are cycles, one at least for each tangle of files.        *)
THEOREM WalksAnswer == Spec => [](AnswersAreRight /\ PathIsShortest /\ TanglesAreFound)
<1>1. Spec => []Kept
  BY KeptInit, KeptStep, PTL DEF Spec
<1> QED
  BY <1>1, KeptAnswers, PTL

(* The same of the two walks side by side, as TLC runs them.                 *)
THEOREM AnswersStaySound == BothSpec => []AnswersAreSound
<1> DEFINE Inv == walk \in {"graph", "syntax"} /\ (walk = "graph" => Kept)
<1>1. BothInit => Inv
  BY KeptInit DEF BothInit
<1>2. Inv /\ [BothNext]_BothVars => Inv'
  <2> SUFFICES ASSUME Inv, [BothNext]_BothVars PROVE Inv'
    OBVIOUS
  <2>1. CASE GraphNext
    BY <2>1, KeptStep DEF GraphNext
  <2>2. CASE walk = "syntax" /\ WalkNext /\ UNCHANGED <<walk, vars>>
    BY <2>2
  <2>3. CASE UNCHANGED BothVars
    BY <2>3, KeptStep DEF BothVars
  <2> QED
    BY <2>1, <2>2, <2>3 DEF BothNext
<1>3. Inv => AnswersAreSound
  BY KeptAnswers DEF AnswersAreSound
<1> QED
  BY <1>1, <1>2, <1>3, PTL DEF BothSpec
=============================================================================
