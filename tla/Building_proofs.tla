--------------------------- MODULE Building_proofs ---------------------------
(***************************************************************************)
(* Proofs about how the graph is built.  First the walk of the extractor,  *)
(* for syntax trees of any size: it makes nothing twice, owners are the    *)
(* innermost declarations, and no call of the file goes unseen.            *)
(* Then the edges between files, for any files, names, contents and batch  *)
(* size: what the tables hold comes from the indexed contents, no use is   *)
(* lost, and an unchanged file's edges survive another file's replacement. *)
(***************************************************************************)
EXTENDS Extraction, Links, FunctionTheorems, FiniteSetTheorems,
        WellFoundedInduction, TLAPS

-----------------------------------------------------------------------------
(* Nodes in source order                                                   *)

(* A finite set of numbers that is not empty has a greatest element.        *)
LEMMA GreatestElement ==
  ASSUME NEW S, S \subseteq Nat, IsFiniteSet(S), S # {}
  PROVE  \E m \in S : \A y \in S : y <= m
<1> DEFINE HasMax(A) == \E x \in A : \A y \in A : y <= x
           R   == StrictSubsetOrdering(S)
           Bad == {A \in SUBSET S : A # {} /\ ~HasMax(A)}
<1>1. SUFFICES ASSUME Bad # {} PROVE FALSE
  OBVIOUS
<1>2. Bad \subseteq FiniteSubsetsOf(S)
  BY FS_Subset DEF FiniteSubsetsOf
<1>3. IsWellFoundedOn(R, FiniteSubsetsOf(S))
  BY FS_StrictSubsetOrderingWellFounded
<1>4. PICK A \in Bad : \A B \in Bad : <<B, A>> \notin R
  <2> HIDE DEF Bad, R
  <2> QED
    BY <1>1, <1>2, <1>3, WFMin
<1>5. PICK a \in A : TRUE
  BY <1>4
<1>6. A \ {a} \notin Bad
  BY <1>4, <1>5 DEF StrictSubsetOrdering
<1>7. A \ {a} = {} => HasMax(A)
  BY <1>4, <1>5
<1>8. ASSUME NEW m \in A \ {a}, \A y \in A \ {a} : y <= m PROVE HasMax(A)
  BY <1>4, <1>5, <1>8
<1> QED
  BY <1>4, <1>6, <1>7, <1>8

(* A finite set of numbers that is not empty has a least element.        *)
LEMMA LeastElement ==
  ASSUME NEW S, S \subseteq Nat, IsFiniteSet(S), S # {}
  PROVE  \E m \in S : \A y \in S : m <= y
<1> DEFINE HasMin(A) == \E x \in A : \A y \in A : x <= y
           R   == StrictSubsetOrdering(S)
           Bad == {A \in SUBSET S : A # {} /\ ~HasMin(A)}
<1>1. SUFFICES ASSUME Bad # {} PROVE FALSE
  OBVIOUS
<1>2. Bad \subseteq FiniteSubsetsOf(S)
  BY FS_Subset DEF FiniteSubsetsOf
<1>3. IsWellFoundedOn(R, FiniteSubsetsOf(S))
  BY FS_StrictSubsetOrderingWellFounded
<1>4. PICK A \in Bad : \A B \in Bad : <<B, A>> \notin R
  <2> HIDE DEF Bad, R
  <2> QED
    BY <1>1, <1>2, <1>3, WFMin
<1>5. PICK a \in A : TRUE
  BY <1>4
<1>6. A \ {a} \notin Bad
  BY <1>4, <1>5 DEF StrictSubsetOrdering
<1>7. A \ {a} = {} => HasMin(A)
  BY <1>4, <1>5
<1>8. ASSUME NEW m \in A \ {a}, \A y \in A \ {a} : m <= y PROVE HasMin(A)
  BY <1>4, <1>5, <1>8
<1> QED
  BY <1>4, <1>6, <1>7, <1>8

(* Every finite set of numbers can be counted off in increasing order.      *)
LEMMA SortedExists ==
  ASSUME NEW S, S \subseteq Nat, IsFiniteSet(S)
  PROVE  \E f \in Surjection(1..Cardinality(S), S) :
           \A i, j \in 1..Cardinality(S) : i < j => f[i] < f[j]
<1> DEFINE Sorted(A, f) == \A i, j \in 1..Cardinality(A) : i < j => f[i] < f[j]
           HasSorted(A) == \E f \in Surjection(1..Cardinality(A), A) : Sorted(A, f)
           R   == StrictSubsetOrdering(S)
           Bad == {A \in SUBSET S : ~HasSorted(A)}
<1>1. SUFFICES ASSUME Bad # {} PROVE FALSE
  OBVIOUS
<1>2. Bad \subseteq FiniteSubsetsOf(S)
  BY FS_Subset DEF FiniteSubsetsOf
<1>3. IsWellFoundedOn(R, FiniteSubsetsOf(S))
  BY FS_StrictSubsetOrderingWellFounded
<1>4. PICK A \in Bad : \A B \in Bad : <<B, A>> \notin R
  <2> HIDE DEF Bad, R
  <2> QED
    BY <1>1, <1>2, <1>3, WFMin
<1>5. A \subseteq S /\ ~HasSorted(A) /\ \A B \in SUBSET A : B # A => HasSorted(B)
  BY <1>4 DEF StrictSubsetOrdering
<1> HIDE DEF Bad, R, HasSorted
<1>6. IsFiniteSet(A) /\ A \subseteq Nat
  BY <1>5, FS_Subset
<1>7. A # {}
  <2> SUFFICES ASSUME A = {} PROVE FALSE
    OBVIOUS
  <2>1. Cardinality(A) = 0
    BY FS_EmptySet
  <2>2. [i \in 1..0 |-> i] \in Surjection(1..Cardinality(A), A)
    BY <2>1 DEF Surjection
  <2>3. HasSorted(A)
    BY <2>1, <2>2 DEF HasSorted
  <2> QED
    BY <1>5, <2>3
<1>8. PICK m \in A : \A y \in A : y <= m
  BY <1>6, <1>7, GreatestElement
<1> DEFINE B == A \ {m}
           n == Cardinality(A)
<1>9. n \in Nat \ {0} /\ Cardinality(B) = n - 1
  BY <1>6, <1>8, FS_RemoveElement, FS_CardinalityType, FS_EmptySet
<1>10. PICK f \in Surjection(1..Cardinality(B), B) : Sorted(B, f)
  BY <1>5, <1>8 DEF HasSorted
<1>11. /\ f \in [1..n-1 -> B] /\ \A y \in B : \E i \in 1..n-1 : f[i] = y
       /\ \A i, j \in 1..n-1 : i < j => f[i] < f[j]
  BY <1>9, <1>10 DEF Surjection
<1> DEFINE g == [i \in 1..n |-> IF i = n THEN m ELSE f[i]]
<1> HIDE DEF n
<1>12. g \in Surjection(1..n, A)
  <2>1. g \in [1..n -> A]
    BY <1>9, <1>11, <1>8
  <2>2. \A y \in A : \E i \in 1..n : g[i] = y
    BY <1>9, <1>11
  <2> QED
    BY <2>1, <2>2 DEF Surjection
<1>13. \A i, j \in 1..n : i < j => g[i] < g[j]
  <2> SUFFICES ASSUME NEW i \in 1..n, NEW j \in 1..n, i < j PROVE g[i] < g[j]
    OBVIOUS
  <2>1. f[i] \in B /\ g[i] = f[i]
    BY <1>9, <1>11
  <2>2. CASE j = n
    <3>1. g[j] = m /\ f[i] <= m /\ f[i] # m /\ f[i] \in Nat /\ m \in Nat
      BY <2>1, <2>2, <1>6, <1>8
    <3> QED
      BY <2>1, <3>1
  <2>3. CASE j # n
    BY <2>1, <2>3, <1>9, <1>11
  <2> QED
    BY <2>2, <2>3
<1>14. HasSorted(A)
  <2> SUFFICES \E h \in Surjection(1..n, A) : \A i, j \in 1..n : i < j => h[i] < h[j]
    BY DEF HasSorted, n
  <2> HIDE DEF g
  <2> QED
    BY <1>12, <1>13
<1> QED
  BY <1>5, <1>14

(* InOrder counts off a finite set of nodes, each once.                     *)
LEMMA InOrderCounts ==
  ASSUME NEW S, S \subseteq Nat, IsFiniteSet(S)
  PROVE  /\ InOrder(S) \in Seq(S)
         /\ \A i, j \in DOMAIN InOrder(S) : InOrder(S)[i] = InOrder(S)[j] => i = j
         /\ \A x \in S : \E i \in DOMAIN InOrder(S) : InOrder(S)[i] = x
<1> DEFINE n == Cardinality(S)
<1>1. n \in Nat
  BY FS_CardinalityType
<1>2. PICK f \in Surjection(1..n, S) : \A i, j \in 1..n : i < j => f[i] < f[j]
  BY SortedExists
<1>3. f \in [1..n -> S] /\ \A i \in 1..n : f[i] \in Nat
  BY <1>2 DEF Surjection
<1>4. \A i, j \in 1..n : f[i] = f[j] => i = j
  <2> SUFFICES ASSUME NEW i \in 1..n, NEW j \in 1..n, f[i] = f[j], i # j PROVE FALSE
    OBVIOUS
  <2> QED
    BY <1>1, <1>2, <1>3
<1>5. f \in SetToSeqs(S)
  BY <1>3, <1>4 DEF SetToSeqs, IsInjective
<1> DEFINE s == InOrder(S)
<1>6. s \in SetToSeqs(S)
  <2>1. \E g \in SetToSeqs(S) : \A i, j \in DOMAIN g : i < j => g[i] < g[j]
    BY <1>2, <1>3, <1>5
  <2> QED
    BY <2>1 DEF InOrder
<1>7. s \in Injection(1..n, S)
  BY <1>6 DEF SetToSeqs, IsInjective, Injection
<1>8. s \in Surjection(1..n, S)
  <2>1. Cardinality(1..n) = n
    BY <1>1, FS_Interval
  <2> HIDE DEF s
  <2> QED
    BY <1>7, <2>1, FS_Injection
<1> HIDE DEF s
<1> QED
  BY <1>1, <1>7, <1>8 DEF s, Injection, Surjection, IsInjective

-----------------------------------------------------------------------------
(* The tree                                                                *)

LEMMA TreeShape ==
  ASSUME tree \in Trees
  PROVE  /\ Syntaxes \subseteq Nat \ {0} /\ IsFiniteSet(Syntaxes) /\ 1 \in Syntaxes
         /\ Type(1) = "file" /\ Parent(1) = 0 /\ Around(1) = {}
         /\ \A n \in Syntaxes \ {1} : /\ Parent(n) \in Syntaxes /\ Parent(n) < n
                                     /\ Around(n) = {Parent(n)} \cup Around(Parent(n))
<1>1. IsTree(tree)
  BY TreesAssumption
<1> DEFINE N == Len(tree.type)
<1>2. N \in Nat \ {0} /\ DOMAIN tree.type = 1..N
  BY <1>1 DEF IsTree
<1>3. Syntaxes = 1..N /\ IsFiniteSet(1..N)
  BY <1>2, FS_Interval DEF Syntaxes
<1>4. /\ Type(1) = "file" /\ Parent(1) = 0 /\ Around(1) = {}
      /\ \A n \in 2..N : Parent(n) \in 1..n-1 /\ Around(n) = {Parent(n)} \cup Around(Parent(n))
  BY <1>1 DEF IsTree, Type, Parent, Around
<1> HIDE DEF N
<1> QED
  BY <1>2, <1>3, <1>4

(* What is around a node comes before it.                                   *)
LEMMA AroundIsBefore ==
  ASSUME tree \in Trees, NEW n \in Syntaxes
  PROVE  \A m \in Around(n) : m \in Syntaxes /\ m < n
<1> DEFINE Bad == {k \in Syntaxes : ~\A m \in Around(k) : m \in Syntaxes /\ m < k}
<1> SUFFICES ASSUME Bad # {} PROVE FALSE
  OBVIOUS
<1>1. PICK k \in Bad : \A y \in Bad : k <= y
  BY TreeShape, LeastElement, FS_Subset
<1>2. k # 1
  BY TreeShape
<1>3. Parent(k) \notin Bad
  BY <1>1, <1>2, TreeShape
<1> QED
  BY <1>1, <1>2, <1>3, TreeShape

(* What is around something around a node is around the node.               *)
LEMMA AroundIsClosed ==
  ASSUME tree \in Trees, NEW n \in Syntaxes
  PROVE  \A m \in Around(n) : Around(m) \subseteq Around(n)
<1> DEFINE Bad == {k \in Syntaxes : ~\A m \in Around(k) : Around(m) \subseteq Around(k)}
<1> SUFFICES ASSUME Bad # {} PROVE FALSE
  OBVIOUS
<1>1. PICK k \in Bad : \A y \in Bad : k <= y
  BY TreeShape, LeastElement, FS_Subset
<1>2. k # 1
  BY TreeShape
<1>3. Parent(k) \notin Bad
  BY <1>1, <1>2, TreeShape
<1> QED
  BY <1>1, <1>2, <1>3, TreeShape

(* All lies in the file.                                                    *)
LEMMA FileIsAroundAll ==
  ASSUME tree \in Trees, NEW n \in Syntaxes \ {1}
  PROVE  1 \in Around(n)
<1> DEFINE Bad == {k \in Syntaxes \ {1} : 1 \notin Around(k)}
<1> SUFFICES ASSUME Bad # {} PROVE FALSE
  OBVIOUS
<1>1. Bad \subseteq Syntaxes /\ Bad \subseteq Nat
  BY TreeShape
<1>2. IsFiniteSet(Bad)
  BY <1>1, TreeShape, FS_Subset
<1>3. PICK k \in Bad : \A y \in Bad : k <= y
  BY <1>1, <1>2, LeastElement
<1>4. Parent(k) \notin Bad
  BY <1>3, TreeShape
<1> QED
  BY <1>3, <1>4, TreeShape

(* Of two nodes around a third, one is around the other.                    *)
LEMMA AroundIsChain ==
  ASSUME tree \in Trees, NEW n \in Syntaxes
  PROVE  \A x, y \in Around(n) : x = y \/ x \in Around(y) \/ y \in Around(x)
<1> DEFINE P(k) == \A x, y \in Around(k) : x = y \/ x \in Around(y) \/ y \in Around(x)
           Bad == {k \in Syntaxes : ~P(k)}
<1> SUFFICES ASSUME Bad # {} PROVE FALSE
  OBVIOUS
<1>1. PICK k \in Bad : \A y \in Bad : k <= y
  BY TreeShape, LeastElement, FS_Subset
<1>2. k # 1
  BY TreeShape
<1>3. P(Parent(k))
  BY <1>1, <1>2, TreeShape
<1> QED
  BY <1>1, <1>2, <1>3, TreeShape

-----------------------------------------------------------------------------
(* What is still to be done                                                *)

WalkSteps == {"visit", "scan", "function"}
Calls == [how : WalkSteps, at : Syntaxes]
Items == [how : WalkSteps \cup {"leave"}, at : Syntaxes]

Pending(td)  == {i \in DOMAIN td : td[i].how # "leave"}
Leaves(td) == {i \in DOMAIN td : td[i].how = "leave"}

(* What will be left after the i-th call of td, and the file: the declarations *)
(* that call is made in.                                                   *)
Anchors(td, i) == {1} \cup {td[k].at : k \in {l \in Leaves(td) : l > i}}

Apart(m, k) == m # k /\ m \notin Around(k) /\ k \notin Around(m)

(* Calls that are made below n, in parts that do not overlap.               *)
Fits(w, n) ==
  /\ w \in Seq(Calls)
  /\ \A i \in DOMAIN w : n \in Around(w[i].at)
  /\ \A i, j \in DOMAIN w : i # j => Apart(w[i].at, w[j].at)

(* The books of a walk that goes on: what is pending, the stack, the nodes   *)
(* known, those of them that own what is in them, and the calls recorded.    *)
Books(td, ns, kn, ow, re) ==
  /\ td \in Seq(Items) /\ ns \in Seq(Syntaxes)
  /\ kn \subseteq Syntaxes /\ ow \subseteq kn /\ re \subseteq Syntaxes /\ 1 \in ow
  /\ \A i, j \in DOMAIN ns : i < j => ns[i] < ns[j]
  /\ ToSet(ns) = Anchors(td, 0)
  /\ \A i \in Leaves(td) : td[i].at \in ow \ {1}
  /\ \A i, j \in Leaves(td) : i < j => td[j].at < td[i].at
  /\ \A i \in Pending(td) : Around(td[i].at) \cap ow = Anchors(td, i)
  /\ \A i, j \in Pending(td) : i # j => Apart(td[i].at, td[j].at)
  /\ \A i \in Pending(td), m \in kn \cup re : m # td[i].at /\ td[i].at \notin Around(m)

(* The first call gives way to those below its node, and, if it declares it, *)
(* to its leave (d = 1).                                                   *)
Unfold(w, n, d, td) == IF d = 1 THEN (w \o Leave(n)) \o Tail(td) ELSE w \o Tail(td)
Pushed(ns, n, d)    == IF d = 1 THEN Append(ns, n) ELSE ns

(* td2 is td with w, and the leave of n if d = 1, for its first call.       *)
Unfolds(td, td2, w, n, d, L) ==
  /\ td2 \in Seq(Items) /\ Len(td2) = L + Len(td) - 1
  /\ \A i \in 1..Len(w) : td2[i] = w[i]
  /\ d = 1 => td2[Len(w) + 1] = [how |-> "leave", at |-> n]
  /\ \A i \in 2..Len(td) : L + i - 1 \in DOMAIN td2 /\ td2[L + i - 1] = td[i]
  /\ \A j \in DOMAIN td2 : j > L => j - L + 1 \in 2..Len(td) /\ td2[j] = td[j - L + 1]
  /\ Anchors(td, 0) = Anchors(td, 1)
  /\ \A i \in 2..Len(td) : Anchors(td2, L + i - 1) = Anchors(td, i)
  /\ \A i \in 0..Len(w) : Anchors(td2, i) = Anchors(td, 1) \cup (IF d = 1 THEN {n} ELSE {})

LEMMA Elements ==
  ASSUME NEW S, NEW s \in Seq(S)
  PROVE  Len(s) \in Nat /\ DOMAIN s = 1..Len(s) /\ \A i \in 1..Len(s) : s[i] \in S
OBVIOUS

LEMMA Wider ==
  ASSUME NEW S, NEW T, S \subseteq T, NEW s \in Seq(S)
  PROVE  s \in Seq(T)
OBVIOUS

LEMMA Joined ==
  ASSUME NEW S, NEW a \in Seq(S), NEW b \in Seq(S)
  PROVE  /\ a \o b \in Seq(S) /\ Len(a \o b) = Len(a) + Len(b)
         /\ \A i \in 1..Len(a) : (a \o b)[i] = a[i]
         /\ \A i \in 1..Len(b) : (a \o b)[Len(a) + i] = b[i]
OBVIOUS

LEMMA Extended ==
  ASSUME NEW S, NEW a \in Seq(S), NEW x \in S
  PROVE  /\ a \o <<x>> \in Seq(S) /\ Len(a \o <<x>>) = Len(a) + 1
         /\ \A i \in 1..Len(a) : (a \o <<x>>)[i] = a[i]
         /\ (a \o <<x>>)[Len(a) + 1] = x
OBVIOUS

LEMMA Rest ==
  ASSUME NEW S, NEW s \in Seq(S), s # <<>>
  PROVE  /\ Tail(s) \in Seq(S) /\ Len(Tail(s)) = Len(s) - 1 /\ Len(s) \in Nat \ {0}
         /\ \A i \in 1..Len(s) - 1 : Tail(s)[i] = s[i + 1]
OBVIOUS

LEMMA Unfolded ==
  ASSUME NEW td \in Seq(Items), td # <<>>, td[1].how # "leave",
         NEW n \in Syntaxes, NEW w \in Seq(Calls), NEW d \in {0, 1},
         NEW td2, td2 = Unfold(w, n, d, td), NEW L, L = Len(w) + d
  PROVE  Unfolds(td, td2, w, n, d, L)
<1>1. /\ w \in Seq(Items) /\ \A i \in 1..Len(w) : w[i] \in Items /\ w[i].how # "leave"
      /\ Len(w) \in Nat /\ L \in Nat /\ L >= Len(w)
  <2>1. Calls \subseteq Items /\ \A e \in Calls : e.how # "leave"
    BY DEF Items, Calls, WalkSteps
  <2> QED
    BY <2>1, Elements, Wider
<1>2. PICK t : /\ t = Tail(td) /\ t \in Seq(Items) /\ Len(t) = Len(td) - 1 /\ Len(td) \in Nat \ {0}
               /\ \A i \in 2..Len(td) : t[i - 1] = td[i]
  <2>1. PICK t : t = Tail(td)
    OBVIOUS
  <2>2. /\ t \in Seq(Items) /\ Len(t) = Len(td) - 1 /\ Len(td) \in Nat \ {0}
        /\ \A i \in 1..Len(td) - 1 : t[i] = td[i + 1]
    BY <2>1, Rest
  <2>3. \A i \in 2..Len(td) : t[i - 1] = td[i]
    <3> SUFFICES ASSUME NEW i \in 2..Len(td) PROVE t[i - 1] = td[i]
      OBVIOUS
    <3>1. i - 1 \in 1..Len(td) - 1 /\ (i - 1) + 1 = i
      BY <2>2
    <3> QED
      BY <2>2, <3>1
  <2> QED
    BY <2>1, <2>2, <2>3
<1>3. PICK v : /\ v = (IF d = 1 THEN w \o Leave(n) ELSE w) /\ v \in Seq(Items) /\ Len(v) = L
               /\ \A i \in 1..Len(w) : v[i] = w[i]
               /\ d = 1 => v[Len(w) + 1] = [how |-> "leave", at |-> n]
  <2>1. PICK e : e = [how |-> "leave", at |-> n]
    OBVIOUS
  <2>2. e \in Items
    BY <2>1 DEF Items
  <2>3. PICK I : I = Items
    OBVIOUS
  <2>4. e \in I /\ w \in Seq(I)
    BY <1>1, <2>2, <2>3
  <2>5. /\ w \o <<e>> \in Seq(I) /\ Len(w \o <<e>>) = Len(w) + 1
        /\ \A i \in 1..Len(w) : (w \o <<e>>)[i] = w[i]
        /\ (w \o <<e>>)[Len(w) + 1] = e
    BY <2>4, Extended, Zenon
  <2>6. CASE d = 1
    <3>1. PICK v : v = w \o <<e>>
      OBVIOUS
    <3>2. v = IF d = 1 THEN w \o Leave(n) ELSE w
      BY <2>1, <2>6, <3>1 DEF Leave
    <3>3. /\ v \in Seq(I) /\ Len(v) = Len(w) + 1
          /\ \A i \in 1..Len(w) : v[i] = w[i]
          /\ v[Len(w) + 1] = e
      BY <2>5, <3>1
    <3> QED
      BY <2>1, <2>3, <2>6, <3>2, <3>3
  <2>7. CASE d = 0
    BY <1>1, <2>7
  <2> QED
    BY <2>6, <2>7
<1>4. td2 = v \o t
  BY <1>2, <1>3 DEF Unfold
<1>5. /\ td2 \in Seq(Items) /\ Len(td2) = L + Len(t)
      /\ \A i \in 1..L : td2[i] = v[i]
      /\ \A i \in 1..Len(t) : td2[L + i] = t[i]
  <2>1. /\ v \o t \in Seq(Items) /\ Len(v \o t) = Len(v) + Len(t)
        /\ \A i \in 1..Len(v) : (v \o t)[i] = v[i]
        /\ \A i \in 1..Len(t) : (v \o t)[Len(v) + i] = t[i]
    BY <1>2, <1>3, Joined
  <2> QED
    BY <1>3, <1>4, <2>1, Zenon
<1>6. DOMAIN td2 = 1..Len(td2) /\ Len(td2) = L + Len(td) - 1 /\ Len(td2) \in Nat /\ DOMAIN td = 1..Len(td)
  <2>1. Len(td2) \in Nat /\ DOMAIN td2 = 1..Len(td2)
    BY <1>5, Elements
  <2> QED
    BY <2>1, <1>1, <1>2, <1>5
<1>7. \A i \in 1..Len(w) : td2[i] = w[i]
  <2>1. \A i \in 1..Len(w) : i \in 1..L
    BY <1>1
  <2> QED
    BY <2>1, <1>3, <1>5
<1>8. d = 1 => td2[Len(w) + 1] = [how |-> "leave", at |-> n]
  BY <1>1, <1>3, <1>5
<1>9. \A i \in 2..Len(td) : L + i - 1 \in DOMAIN td2 /\ td2[L + i - 1] = td[i]
  <2> SUFFICES ASSUME NEW i \in 2..Len(td) PROVE L + i - 1 \in DOMAIN td2 /\ td2[L + i - 1] = td[i]
    OBVIOUS
  <2>1. i - 1 \in 1..Len(t) /\ L + i - 1 = L + (i - 1) /\ L + i - 1 \in 1..Len(td2)
    BY <1>1, <1>2, <1>6
  <2> QED
    BY <2>1, <1>2, <1>5, <1>6
<1>10. \A j \in DOMAIN td2 : j > L => j - L + 1 \in 2..Len(td) /\ td2[j] = td[j - L + 1]
  <2> SUFFICES ASSUME NEW j \in DOMAIN td2, j > L PROVE j - L + 1 \in 2..Len(td) /\ td2[j] = td[j - L + 1]
    OBVIOUS
  <2>1. j - L + 1 \in 2..Len(td) /\ L + (j - L + 1) - 1 = j
    BY <1>1, <1>2, <1>6
  <2> QED
    BY <1>9, <2>1
<1>11. Anchors(td, 0) = Anchors(td, 1)
  BY DEF Anchors, Leaves
<1>12. \A k \in Leaves(td2) : /\ k \in 1..Len(td2)
                              /\ k <= L => d = 1 /\ k = L /\ td2[k].at = n
                              /\ k > L => /\ k - L + 1 \in Leaves(td) /\ k - L + 1 > 1
                                          /\ td2[k] = td[k - L + 1] /\ L + (k - L + 1) - 1 = k
  <2> SUFFICES ASSUME NEW k \in Leaves(td2)
               PROVE  /\ k \in 1..Len(td2)
                      /\ k <= L => d = 1 /\ k = L /\ td2[k].at = n
                      /\ k > L => /\ k - L + 1 \in Leaves(td) /\ k - L + 1 > 1
                                  /\ td2[k] = td[k - L + 1] /\ L + (k - L + 1) - 1 = k
    OBVIOUS
  <2>1. k \in 1..Len(td2) /\ td2[k].how = "leave" /\ k \in DOMAIN td2
    BY <1>6 DEF Leaves
  <2>2. CASE k <= Len(w)
    BY <2>1, <2>2, <1>1, <1>7
  <2>3. CASE k > L
    <3>1. k - L + 1 \in 2..Len(td) /\ td2[k] = td[k - L + 1]
      BY <2>1, <2>3, <1>10
    <3>2. k - L + 1 \in Leaves(td)
      BY <2>1, <3>1, <1>6 DEF Leaves
    <3>3. k - L + 1 > 1 /\ L + (k - L + 1) - 1 = k
      BY <2>1, <2>3, <1>1
    <3> QED
      BY <2>1, <2>3, <3>1, <3>2, <3>3
  <2>4. CASE k > Len(w) /\ k <= L
    <3>1. d = 1 /\ k = Len(w) + 1 /\ k = L
      BY <2>1, <2>4, <1>1
    <3> QED
      BY <3>1, <2>1, <1>8, <1>1
  <2> QED
    BY <2>1, <2>2, <2>3, <2>4, <1>1
<1>13. \A k \in Leaves(td) : k \in 1..Len(td) /\ (k > 1 => L + k - 1 \in Leaves(td2) /\ td2[L + k - 1] = td[k])
  <2> SUFFICES ASSUME NEW k \in Leaves(td)
               PROVE  k \in 1..Len(td) /\ (k > 1 => L + k - 1 \in Leaves(td2) /\ td2[L + k - 1] = td[k])
    OBVIOUS
  <2>1. k \in 1..Len(td) /\ td[k].how = "leave"
    BY <1>6 DEF Leaves
  <2> QED
    BY <2>1, <1>2, <1>9 DEF Leaves
<1>14. \A i \in 2..Len(td) : Anchors(td2, L + i - 1) = Anchors(td, i)
  <2> SUFFICES ASSUME NEW i \in 2..Len(td) PROVE Anchors(td2, L + i - 1) = Anchors(td, i)
    OBVIOUS
  <2>1. \A k \in Leaves(td) : k > i => L + k - 1 > L + i - 1 /\ k > 1
    BY <1>1, <1>13
  <2>2. \A k \in Leaves(td2) : k > L + i - 1 => k > L /\ k - L + 1 > i
    BY <1>1, <1>12
  <2>3. \A k \in Leaves(td) : k > i => td[k].at \in Anchors(td2, L + i - 1)
    <3> SUFFICES ASSUME NEW k \in Leaves(td), k > i PROVE td[k].at \in Anchors(td2, L + i - 1)
      OBVIOUS
    <3>1. L + k - 1 \in {l \in Leaves(td2) : l > L + i - 1} /\ td2[L + k - 1].at = td[k].at
      BY <2>1, <1>13
    <3> QED
      BY <3>1 DEF Anchors
  <2>4. \A k \in Leaves(td2) : k > L + i - 1 => td2[k].at \in Anchors(td, i)
    <3> SUFFICES ASSUME NEW k \in Leaves(td2), k > L + i - 1 PROVE td2[k].at \in Anchors(td, i)
      OBVIOUS
    <3>1. k - L + 1 \in {l \in Leaves(td) : l > i} /\ td2[k].at = td[k - L + 1].at
      BY <2>2, <1>12
    <3> QED
      BY <3>1 DEF Anchors
  <2>5. 1 \in Anchors(td, i) /\ 1 \in Anchors(td2, L + i - 1)
    BY DEF Anchors
  <2>6. Anchors(td, i) \subseteq Anchors(td2, L + i - 1)
    BY <2>3, <2>5 DEF Anchors
  <2>7. Anchors(td2, L + i - 1) \subseteq Anchors(td, i)
    BY <2>4, <2>5 DEF Anchors
  <2> QED
    BY <2>6, <2>7
<1>15. \A i \in 0..Len(w) : Anchors(td2, i) = Anchors(td, 1) \cup (IF d = 1 THEN {n} ELSE {})
  <2> SUFFICES ASSUME NEW i \in 0..Len(w)
               PROVE Anchors(td2, i) = Anchors(td, 1) \cup (IF d = 1 THEN {n} ELSE {})
    OBVIOUS
  <2>1. \A k \in Leaves(td) : k > 1 => td[k].at \in Anchors(td2, i)
    <3> SUFFICES ASSUME NEW k \in Leaves(td), k > 1 PROVE td[k].at \in Anchors(td2, i)
      OBVIOUS
    <3>1. L + k - 1 > i
      BY <1>1, <1>13
    <3>2. L + k - 1 \in {l \in Leaves(td2) : l > i} /\ td2[L + k - 1].at = td[k].at
      BY <3>1, <1>13
    <3> QED
      BY <3>2 DEF Anchors
  <2>2. d = 1 => n \in Anchors(td2, i)
    <3> SUFFICES ASSUME d = 1 PROVE n \in Anchors(td2, i)
      OBVIOUS
    <3>1. Len(w) + 1 \in DOMAIN td2 /\ Len(w) + 1 > i
      BY <1>1, <1>2, <1>6
    <3>2. Len(w) + 1 \in {l \in Leaves(td2) : l > i} /\ td2[Len(w) + 1].at = n
      BY <3>1, <1>8 DEF Leaves
    <3> QED
      BY <3>2 DEF Anchors
  <2>3. \A k \in Leaves(td2) : td2[k].at \in Anchors(td, 1) \cup (IF d = 1 THEN {n} ELSE {})
    <3> SUFFICES ASSUME NEW k \in Leaves(td2), k > L PROVE td2[k].at \in Anchors(td, 1)
      BY <1>1, <1>12
    <3>1. k - L + 1 \in {l \in Leaves(td) : l > 1} /\ td2[k].at = td[k - L + 1].at
      BY <1>12
    <3> QED
      BY <3>1 DEF Anchors
  <2> QED
    BY <2>1, <2>2, <2>3 DEF Anchors
<1> QED
  BY <1>5, <1>6, <1>7, <1>8, <1>9, <1>10, <1>11, <1>14, <1>15 DEF Unfolds

(* The first call is of a node that nobody knows; what it is made in are the *)
(* owners around it, the last of them on top of the stack.                 *)
LEMMA FirstIsNew ==
  ASSUME tree \in Trees, NEW td, NEW ns, NEW kn, NEW ow, NEW re, Books(td, ns, kn, ow, re),
         td # <<>>, td[1].how # "leave", NEW n, n = td[1].at
  PROVE  /\ 1 \in Pending(td) /\ n \in Syntaxes \ {1} /\ n \notin kn \cup re
         /\ \A m \in kn \cup re : n \notin Around(m)
         /\ Around(n) \cap ow = Anchors(td, 1) /\ Anchors(td, 0) = Anchors(td, 1)
         /\ \A m \in Anchors(td, 1) : m \in Nat /\ m < n
         /\ ns # <<>> /\ Last(ns) \in Anchors(td, 1) /\ \A m \in Anchors(td, 1) : m <= Last(ns)
<1>1. td \in Seq(Items) /\ 1 \in DOMAIN td
  BY Elements DEF Books
<1>2. 1 \in Pending(td) /\ n \in Syntaxes
  <2>1. td[1] \in Items
    BY <1>1, Elements
  <2> QED
    BY <1>1, <2>1 DEF Pending, Items
<1>3. Around(n) \cap ow = Anchors(td, 1) /\ 1 \in Anchors(td, 1)
  BY <1>2 DEF Books, Anchors
<1>4. n # 1
  BY <1>3, TreeShape
<1>5. n \notin kn \cup re /\ \A m \in kn \cup re : n \notin Around(m)
  BY <1>2 DEF Books
<1>6. Anchors(td, 0) = Anchors(td, 1)
  <2>1. \A k \in Leaves(td) : k \in Nat /\ (k > 0 => k > 1)
    BY <1>1, Elements DEF Leaves
  <2>2. \A k \in Leaves(td) : k > 1 => k > 0
    BY <2>1
  <2> QED
    BY <2>1, <2>2 DEF Anchors
<1>7. \A m \in Anchors(td, 1) : m \in Nat /\ m < n
  BY <1>2, <1>3, AroundIsBefore, TreeShape
<1>8. ns # <<>> /\ Last(ns) \in Anchors(td, 1) /\ \A m \in Anchors(td, 1) : m <= Last(ns)
  <2>1. ToSet(ns) = Anchors(td, 1) /\ ns \in Seq(Syntaxes)
    BY <1>6 DEF Books
  <2>2. Len(ns) \in Nat /\ DOMAIN ns = 1..Len(ns) /\ \A i \in 1..Len(ns) : ns[i] \in Syntaxes /\ ns[i] \in Nat
    BY <2>1, Elements, TreeShape
  <2>3. ToSet(ns) = {ns[i] : i \in 1..Len(ns)}
    BY <2>2 DEF ToSet
  <2>4. Len(ns) # 0 /\ ns # <<>>
    BY <1>3, <2>1, <2>2, <2>3
  <2>5. \A i, j \in 1..Len(ns) : i < j => ns[i] < ns[j]
    BY <2>2 DEF Books
  <2>6. \A i \in 1..Len(ns) : ns[i] <= ns[Len(ns)]
    BY <2>2, <2>4, <2>5
  <2>7. Last(ns) = ns[Len(ns)]
    BY DEF Last
  <2> QED
    BY <2>1, <2>2, <2>3, <2>4, <2>6, <2>7
<1> QED
  BY <1>2, <1>3, <1>4, <1>5, <1>6, <1>7, <1>8

(* The node is made or not, and recorded or not.  One that owns what is in it *)
(* stays on the stack for that, unless nothing is left of it.              *)
Entered(kn, ow, re, kn2, ow2, re2, n, d, w) ==
  /\ kn2 \in {kn, kn \cup {n}} /\ re2 \in {re, re \cup {n}} /\ ow2 \subseteq kn2
  /\ \/ d = 1 /\ ow2 = ow \cup {n}
     \/ d = 0 /\ ow2 = ow
     \/ d = 0 /\ ow2 = ow \cup {n} /\ w = <<>>

(* When its node is handled, and what is left of it fits, the books are kept. *)
LEMMA BooksKept ==
  ASSUME tree \in Trees, NEW td, NEW ns, NEW kn, NEW ow, NEW re, Books(td, ns, kn, ow, re),
         td # <<>>, td[1].how # "leave", NEW n, n = td[1].at,
         NEW w, Fits(w, n), NEW d \in {0, 1},
         NEW kn2, NEW ow2, NEW re2, Entered(kn, ow, re, kn2, ow2, re2, n, d, w)
  PROVE  Books(Unfold(w, n, d, td), Pushed(ns, n, d), kn2, ow2, re2)
<1>0. /\ kn2 \in {kn, kn \cup {n}} /\ re2 \in {re, re \cup {n}} /\ ow2 \subseteq kn2
      /\ \/ d = 1 /\ ow2 = ow \cup {n}
         \/ d = 0 /\ ow2 = ow
         \/ d = 0 /\ ow2 = ow \cup {n} /\ w = <<>>
  BY DEF Entered
<1>1. /\ 1 \in Pending(td) /\ n \in Syntaxes \ {1} /\ n \notin kn \cup re
      /\ \A m \in kn \cup re : n \notin Around(m)
      /\ Around(n) \cap ow = Anchors(td, 1) /\ Anchors(td, 0) = Anchors(td, 1)
      /\ \A m \in Anchors(td, 1) : m \in Nat /\ m < n
      /\ ns # <<>> /\ Last(ns) \in Anchors(td, 1) /\ \A m \in Anchors(td, 1) : m <= Last(ns)
  BY FirstIsNew
<1>2. PICK td2, L : td2 = Unfold(w, n, d, td) /\ L = Len(w) + d
  OBVIOUS
<1>3. td \in Seq(Items) /\ w \in Seq(Calls)
  BY DEF Books, Fits
<1>4. /\ td2 \in Seq(Items) /\ Len(td2) = L + Len(td) - 1
      /\ \A i \in 1..Len(w) : td2[i] = w[i]
      /\ d = 1 => td2[Len(w) + 1] = [how |-> "leave", at |-> n]
      /\ \A i \in 2..Len(td) : L + i - 1 \in DOMAIN td2 /\ td2[L + i - 1] = td[i]
      /\ \A j \in DOMAIN td2 : j > L => j - L + 1 \in 2..Len(td) /\ td2[j] = td[j - L + 1]
      /\ \A i \in 2..Len(td) : Anchors(td2, L + i - 1) = Anchors(td, i)
      /\ \A i \in 0..Len(w) : Anchors(td2, i) = Anchors(td, 1) \cup (IF d = 1 THEN {n} ELSE {})
  <2>1. n \in Syntaxes
    BY <1>1
  <2>2. Unfolds(td, td2, w, n, d, L)
    BY <2>1, <1>2, <1>3, Unfolded
  <2> QED
    BY <2>2 DEF Unfolds
<1>5. /\ Len(w) \in Nat /\ L \in Nat /\ L >= Len(w) /\ L = Len(w) + d
      /\ DOMAIN td = 1..Len(td) /\ Len(td) \in Nat /\ DOMAIN td2 = 1..Len(td2) /\ Len(td2) \in Nat
      /\ DOMAIN w = 1..Len(w)
  BY <1>2, <1>3, <1>4, Elements
<1>6. ASSUME NEW j \in Pending(td2)
      PROVE  \/ j \in 1..Len(w) /\ td2[j] = w[j]
             \/ j > L /\ j - L + 1 \in Pending(td) /\ j - L + 1 # 1 /\ td2[j] = td[j - L + 1]
                /\ Anchors(td2, j) = Anchors(td, j - L + 1)
  <2>1. j \in 1..Len(td2) /\ td2[j].how # "leave"
    BY <1>5 DEF Pending
  <2>2. CASE j <= Len(w)
    BY <2>1, <2>2, <1>4, <1>5
  <2>3. CASE j > L
    <3>1. j - L + 1 \in 2..Len(td) /\ td2[j] = td[j - L + 1] /\ L + (j - L + 1) - 1 = j
      BY <2>1, <2>3, <1>4, <1>5
    <3>2. j - L + 1 \in Pending(td)
      BY <2>1, <3>1, <1>5 DEF Pending
    <3> QED
      BY <2>3, <3>1, <3>2, <1>4
  <2>4. CASE j > Len(w) /\ j <= L
    BY <2>1, <2>4, <1>4, <1>5
  <2> QED
    BY <2>1, <2>2, <2>3, <2>4, <1>5
<1>7. ASSUME NEW j \in Leaves(td2)
      PROVE  \/ d = 1 /\ j = L /\ td2[j].at = n
             \/ j > L /\ j - L + 1 \in Leaves(td) /\ j - L + 1 > 1 /\ td2[j] = td[j - L + 1]
  <2>1. j \in 1..Len(td2) /\ td2[j].how = "leave"
    BY <1>5 DEF Leaves
  <2>2. ~(j <= Len(w))
    <3> SUFFICES ASSUME j <= Len(w) PROVE FALSE
      OBVIOUS
    <3>1. j \in 1..Len(w) /\ w[j].how = "leave"
      BY <2>1, <1>4, <1>5
    <3>2. w[j] \in Calls
      BY <3>1, <1>3, Elements
    <3> QED
      BY <3>1, <3>2 DEF Calls, WalkSteps
  <2>3. CASE j > L
    <3>1. j - L + 1 \in 2..Len(td) /\ td2[j] = td[j - L + 1]
      BY <2>1, <2>3, <1>4, <1>5
    <3>2. j - L + 1 \in Leaves(td)
      BY <2>1, <3>1, <1>5 DEF Leaves
    <3> QED
      BY <2>3, <3>1, <3>2, <1>5
  <2>4. CASE ~(j > L)
    BY <2>1, <2>2, <2>4, <1>4, <1>5, <1>0
  <2> QED
    BY <2>3, <2>4
<1>8. ASSUME NEW j \in 1..Len(w)
      PROVE  /\ w[j].at \in Syntaxes /\ n \in Around(w[j].at) /\ w[j].at \notin Around(n) /\ w[j].at # n
             /\ Around(w[j].at) \cap ow2 = Anchors(td2, j)
             /\ \A m \in kn2 \cup re2 : m # w[j].at /\ w[j].at \notin Around(m)
             /\ \A i \in Pending(td) \ {1} : Apart(w[j].at, td[i].at)
  <2> DEFINE a == w[j].at
  <2>1. a \in Syntaxes /\ n \in Around(a)
    <3>1. w[j] \in Calls
      BY <1>3, Elements
    <3> QED
      BY <3>1, <1>5 DEF Fits, Calls
  <2> HIDE DEF a
  <2>2. a \notin Around(n) /\ a # n /\ Around(n) \subseteq Around(a)
    BY <1>1, <2>1, AroundIsBefore, AroundIsClosed, TreeShape
  <2>3. \A m \in kn \cup re : m # a /\ a \notin Around(m)
    <3> SUFFICES ASSUME NEW m \in kn \cup re, a \in Around(m) PROVE FALSE
      BY <1>1, <2>1
    <3>1. m \in Syntaxes
      BY DEF Books
    <3> QED
      BY <1>1, <2>1, <3>1, AroundIsClosed
  <2>4. \A m \in kn2 \cup re2 : m # a /\ a \notin Around(m)
    BY <2>2, <2>3, <1>0
  <2>5. \A x \in Around(a) \cap ow : x \in Around(n)
    <3> SUFFICES ASSUME NEW x \in Around(a) \cap ow, x \notin Around(n) PROVE FALSE
      OBVIOUS
    <3>1. x \in kn /\ x # n
      BY <1>1 DEF Books
    <3>2. n \in Around(x)
      BY <2>1, <3>1, AroundIsChain
    <3> QED
      BY <1>1, <3>1, <3>2
  <2>6. Around(a) \cap ow = Anchors(td, 1)
    BY <1>1, <2>2, <2>5
  <2>7. w # <<>>
    BY <1>5
  <2>8. Around(a) \cap ow2 = Anchors(td2, j)
    <3>1. Anchors(td2, j) = Anchors(td, 1) \cup (IF d = 1 THEN {n} ELSE {})
      BY <1>4, <1>5
    <3>2. CASE d = 1
      BY <3>1, <3>2, <2>1, <2>6, <1>0
    <3>3. CASE d = 0
      BY <3>1, <3>3, <2>6, <2>7, <1>0
    <3> QED
      BY <3>2, <3>3
  <2>9. ASSUME NEW i \in Pending(td) \ {1} PROVE Apart(a, td[i].at)
    <3>1. Apart(n, td[i].at)
      BY <1>1 DEF Books
    <3>2. td[i].at \in Syntaxes
      <4>1. i \in 1..Len(td)
        BY <1>5 DEF Pending
      <4>2. td[i] \in Items
        BY <4>1, <1>3, Elements
      <4> QED
        BY <4>2 DEF Items
    <3>3. a # td[i].at /\ a \notin Around(td[i].at)
      BY <2>1, <3>1, <3>2, AroundIsClosed DEF Apart
    <3>4. td[i].at \notin Around(a)
      BY <2>1, <3>1, AroundIsChain DEF Apart
    <3> QED
      BY <3>3, <3>4 DEF Apart
  <2> QED
    BY <2>1, <2>2, <2>4, <2>8, <2>9 DEF a
<1> DEFINE ns2 == Pushed(ns, n, d)
<1> USE DEF Pushed
<1>9. /\ ns2 \in Seq(Syntaxes) /\ \A i, j \in DOMAIN ns2 : i < j => ns2[i] < ns2[j]
      /\ ToSet(ns2) = Anchors(td2, 0)
  <2>1. /\ ns \in Seq(Syntaxes) /\ \A i, j \in DOMAIN ns : i < j => ns[i] < ns[j]
        /\ ToSet(ns) = Anchors(td, 1)
    BY <1>1 DEF Books
  <2>2. Anchors(td2, 0) = Anchors(td, 1) \cup (IF d = 1 THEN {n} ELSE {})
    BY <1>4, <1>5
  <2>3. CASE d = 1
    <3>1. /\ Append(ns, n) \in Seq(Syntaxes) /\ DOMAIN Append(ns, n) = 1..Len(ns) + 1
          /\ Append(ns, n)[Len(ns) + 1] = n /\ \A i \in 1..Len(ns) : Append(ns, n)[i] = ns[i]
          /\ DOMAIN ns = 1..Len(ns) /\ Len(ns) \in Nat
      BY <1>1, <2>1
    <3>2. \A i \in 1..Len(ns) : ns[i] \in Anchors(td, 1) /\ ns[i] < n
      BY <1>1, <2>1, <3>1 DEF ToSet
    <3>3. PICK m : m = Append(ns, n)
      OBVIOUS
    <3>4. ToSet(m) = ToSet(ns) \cup {n}
      <4>1. \A i \in DOMAIN m : m[i] \in ToSet(ns) \cup {n}
        BY <3>1, <3>3 DEF ToSet
      <4>2. \A i \in DOMAIN ns : ns[i] \in ToSet(m)
        BY <3>1, <3>3 DEF ToSet
      <4>3. n \in ToSet(m)
        BY <3>1, <3>3 DEF ToSet
      <4> QED
        BY <4>1, <4>2, <4>3 DEF ToSet
    <3>5. \A i, j \in DOMAIN m : i < j => m[i] < m[j]
      BY <2>1, <3>1, <3>2, <3>3
    <3> QED
      BY <2>1, <2>2, <2>3, <3>1, <3>3, <3>4, <3>5
  <2>4. CASE d = 0
    BY <2>1, <2>2, <2>4
  <2> QED
    BY <2>3, <2>4
<1> HIDE DEF ns2, Pushed
<1>10. kn2 \subseteq Syntaxes /\ re2 \subseteq Syntaxes /\ 1 \in ow2
  BY <1>0, <1>1 DEF Books
<1>11. \A i \in Leaves(td2) : td2[i].at \in ow2 \ {1}
  BY <1>0, <1>1, <1>7 DEF Books
<1>12. \A i, j \in Leaves(td2) : i < j => td2[j].at < td2[i].at
  <2> SUFFICES ASSUME NEW i \in Leaves(td2), NEW j \in Leaves(td2), i < j PROVE td2[j].at < td2[i].at
    OBVIOUS
  <2>1. i \in Nat /\ j \in Nat
    BY <1>5 DEF Leaves
  <2>2. j > L /\ j - L + 1 \in Leaves(td) /\ j - L + 1 > 1 /\ td2[j] = td[j - L + 1]
    BY <1>5, <1>7, <2>1
  <2>3. CASE i > L
    <3>1. i - L + 1 \in Leaves(td) /\ td2[i] = td[i - L + 1] /\ i - L + 1 < j - L + 1
      BY <1>5, <1>7, <2>1, <2>3
    <3> QED
      BY <2>2, <3>1 DEF Books
  <2>4. CASE ~(i > L)
    <3>1. td2[i].at = n
      BY <1>7, <2>4
    <3>2. td2[j].at \in Anchors(td, 1)
      BY <2>2 DEF Anchors
    <3> QED
      BY <1>1, <3>1, <3>2
  <2> QED
    BY <2>3, <2>4
<1>13. ASSUME NEW i \in Pending(td2), i > L
       PROVE  /\ Around(td2[i].at) \cap ow2 = Anchors(td2, i)
              /\ \A m \in kn2 \cup re2 : m # td2[i].at /\ td2[i].at \notin Around(m)
  <2>1. /\ i - L + 1 \in Pending(td) /\ i - L + 1 # 1 /\ td2[i] = td[i - L + 1]
        /\ Anchors(td2, i) = Anchors(td, i - L + 1)
    BY <1>5, <1>6, <1>13
  <2>2. Apart(td[1].at, td[i - L + 1].at)
    BY <1>1, <2>1 DEF Books
  <2>3. /\ Around(td[i - L + 1].at) \cap ow = Anchors(td, i - L + 1)
        /\ \A m \in kn \cup re : m # td[i - L + 1].at /\ td[i - L + 1].at \notin Around(m)
    BY <2>1 DEF Books
  <2> QED
    BY <2>1, <2>2, <2>3, <1>0 DEF Apart
<1>14. \A i \in Pending(td2) : /\ Around(td2[i].at) \cap ow2 = Anchors(td2, i)
                             /\ \A m \in kn2 \cup re2 : m # td2[i].at /\ td2[i].at \notin Around(m)
  BY <1>6, <1>8, <1>13
<1>15. \A i, j \in Pending(td2) : i # j => Apart(td2[i].at, td2[j].at)
  <2> SUFFICES ASSUME NEW i \in Pending(td2), NEW j \in Pending(td2), i # j PROVE Apart(td2[i].at, td2[j].at)
    OBVIOUS
  <2>0. i \in Nat /\ j \in Nat
    BY <1>5 DEF Pending
  <2>1. CASE i \in 1..Len(w) /\ td2[i] = w[i] /\ j \in 1..Len(w) /\ td2[j] = w[j]
    BY <2>1, <1>5 DEF Fits
  <2>2. CASE i \in 1..Len(w) /\ td2[i] = w[i] /\ j > L
    <3>1. j - L + 1 \in Pending(td) \ {1} /\ td2[j] = td[j - L + 1]
      BY <2>0, <2>2, <1>5, <1>6
    <3> QED
      BY <2>2, <3>1, <1>8
  <2>3. CASE j \in 1..Len(w) /\ td2[j] = w[j] /\ i > L
    <3>1. Apart(td2[j].at, td2[i].at)
      <4>1. i - L + 1 \in Pending(td) \ {1} /\ td2[i] = td[i - L + 1]
        BY <2>0, <2>3, <1>5, <1>6
      <4> QED
        BY <2>3, <4>1, <1>8
    <3> QED
      BY <3>1 DEF Apart
  <2>4. CASE i > L /\ j > L
    <3>1. /\ i - L + 1 \in Pending(td) /\ td2[i] = td[i - L + 1]
          /\ j - L + 1 \in Pending(td) /\ td2[j] = td[j - L + 1]
      BY <2>4, <1>5, <1>6
    <3>2. i - L + 1 # j - L + 1
      BY <2>0, <1>5
    <3> QED
      BY <3>1, <3>2 DEF Books
  <2> QED
    BY <2>1, <2>2, <2>3, <2>4, <1>6
<1> QED
  BY <1>0, <1>2, <1>4, <1>9, <1>10, <1>11, <1>12, <1>14, <1>15 DEF Books, ns2

LEMMA Popped ==
  ASSUME NEW S, NEW s \in Seq(S), s # <<>>
  PROVE  /\ Front(s) \in Seq(S) /\ Len(Front(s)) = Len(s) - 1 /\ Len(s) \in Nat \ {0}
         /\ \A i \in 1..Len(s) - 1 : Front(s)[i] = s[i]
<1>1. Len(s) \in Nat \ {0} /\ \A i \in 1..Len(s) : s[i] \in S
  OBVIOUS
<1>2. PICK k \in Nat : k = Len(s) - 1
  BY <1>1
<1>3. Front(s) = SubSeq(s, 1, k)
  BY <1>2 DEF Front
<1>4. SubSeq(s, 1, k) = [i \in 1..k |-> s[i]]
  BY <1>1, <1>2
<1>5. [i \in 1..k |-> s[i]] \in Seq(S)
  BY <1>1, <1>2
<1>6. Len([i \in 1..k |-> s[i]]) = k
  BY <1>1, <1>2
<1> QED
  BY <1>1, <1>2, <1>3, <1>4, <1>5, <1>6

(* The leave of a body pops what was declared with it, and the books are kept. *)
LEMMA BooksLeft ==
  ASSUME tree \in Trees, NEW td, NEW ns, NEW kn, NEW ow, NEW re, Books(td, ns, kn, ow, re),
         td # <<>>, td[1].how = "leave"
  PROVE  Books(Tail(td), Front(ns), kn, ow, re)
<1>1. PICK td2 : td2 = Tail(td)
  OBVIOUS
<1>2. PICK ns2 : ns2 = Front(ns)
  OBVIOUS
<1>3. td \in Seq(Items) /\ ns \in Seq(Syntaxes)
  BY DEF Books
<1>4. /\ td2 \in Seq(Items) /\ Len(td2) = Len(td) - 1 /\ Len(td) \in Nat \ {0}
      /\ \A i \in 1..Len(td) - 1 : td2[i] = td[i + 1]
      /\ DOMAIN td = 1..Len(td) /\ DOMAIN td2 = 1..Len(td) - 1
  BY <1>1, <1>3, Rest, Elements
<1>5. \A i \in Pending(td2) : i \in Nat /\ i + 1 \in Pending(td) /\ td2[i] = td[i + 1]
  BY <1>4 DEF Pending
<1>6. \A i \in Leaves(td2) : i \in Nat /\ i + 1 \in Leaves(td) /\ i + 1 > 1 /\ td2[i] = td[i + 1]
  BY <1>4 DEF Leaves
<1>7. \A k \in Leaves(td) : k \in Nat \ {0} /\ (k > 1 => k - 1 \in Leaves(td2) /\ td2[k - 1] = td[k])
  <2> SUFFICES ASSUME NEW k \in Leaves(td)
               PROVE  k \in Nat \ {0} /\ (k > 1 => k - 1 \in Leaves(td2) /\ td2[k - 1] = td[k])
    OBVIOUS
  <2>1. k \in 1..Len(td) /\ td[k].how = "leave"
    BY <1>4 DEF Leaves
  <2>2. k > 1 => k - 1 \in 1..Len(td) - 1 /\ (k - 1) + 1 = k
    BY <2>1, <1>4
  <2> QED
    BY <2>1, <2>2, <1>4 DEF Leaves
<1>8. \A i \in Nat : Anchors(td2, i) = Anchors(td, i + 1)
  <2> SUFFICES ASSUME NEW i \in Nat PROVE Anchors(td2, i) = Anchors(td, i + 1)
    OBVIOUS
  <2>1. \A k \in Leaves(td) : k > i + 1 => td[k].at \in Anchors(td2, i)
    <3> SUFFICES ASSUME NEW k \in Leaves(td), k > i + 1 PROVE td[k].at \in Anchors(td2, i)
      OBVIOUS
    <3>1. k - 1 \in {l \in Leaves(td2) : l > i} /\ td2[k - 1].at = td[k].at
      BY <1>7
    <3> QED
      BY <3>1 DEF Anchors
  <2>2. \A k \in Leaves(td2) : k > i => td2[k].at \in Anchors(td, i + 1)
    <3> SUFFICES ASSUME NEW k \in Leaves(td2), k > i PROVE td2[k].at \in Anchors(td, i + 1)
      OBVIOUS
    <3>1. k + 1 \in {l \in Leaves(td) : l > i + 1} /\ td2[k].at = td[k + 1].at
      BY <1>6
    <3> QED
      BY <3>1 DEF Anchors
  <2> QED
    BY <2>1, <2>2 DEF Anchors
<1> DEFINE n == td[1].at
<1>9. 1 \in Leaves(td) /\ n \in ow \ {1} /\ n \in Syntaxes
  BY <1>4 DEF Leaves, Books
<1>10. \A m \in Anchors(td, 1) : m \in Nat /\ m < n
  <2>1. 1 < n /\ n \in Nat
    BY <1>9, TreeShape
  <2>2. \A k \in Leaves(td) : k > 1 => td[k].at \in Nat /\ td[k].at < n
    BY <1>9, TreeShape DEF Books
  <2> QED
    BY <2>1, <2>2 DEF Anchors
<1>11. Anchors(td, 0) = Anchors(td, 1) \cup {n}
  <2>1. \A k \in Leaves(td) : k > 0 => k = 1 \/ k > 1
    BY <1>7
  <2>2. \A k \in Leaves(td) : k > 1 => k > 0
    BY <1>7
  <2> QED
    BY <2>1, <2>2, <1>9 DEF Anchors
<1>12. /\ ns2 \in Seq(Syntaxes) /\ \A i, j \in DOMAIN ns2 : i < j => ns2[i] < ns2[j]
       /\ ToSet(ns2) = Anchors(td2, 0)
  <2>1. ToSet(ns) = Anchors(td, 1) \cup {n}
    BY <1>11 DEF Books
  <2>2. ns # <<>>
    BY <2>1 DEF ToSet
  <2>3. /\ ns2 \in Seq(Syntaxes) /\ Len(ns2) = Len(ns) - 1 /\ Len(ns) \in Nat \ {0}
        /\ \A i \in 1..Len(ns) - 1 : ns2[i] = ns[i]
        /\ DOMAIN ns = 1..Len(ns) /\ DOMAIN ns2 = 1..Len(ns) - 1
        /\ \A i \in 1..Len(ns) : ns[i] \in Nat
    BY <1>2, <1>3, <2>2, Popped, Elements, TreeShape
  <2>4. \A i, j \in 1..Len(ns) : i < j => ns[i] < ns[j]
    BY <2>3 DEF Books
  <2>5. ToSet(ns) = {ns[i] : i \in 1..Len(ns)} /\ ToSet(ns2) = {ns[i] : i \in 1..Len(ns) - 1}
    <3>1. ToSet(ns2) = {ns2[i] : i \in 1..Len(ns) - 1}
      BY <2>3 DEF ToSet
    <3> QED
      BY <3>1, <2>3 DEF ToSet
  <2>6. ns[Len(ns)] = n
    <3>1. PICK i \in 1..Len(ns) : ns[i] = n
      BY <2>1, <2>5
    <3>2. CASE i = Len(ns)
      BY <3>1, <3>2
    <3>3. CASE i < Len(ns)
      <4>1. n < ns[Len(ns)] /\ ns[Len(ns)] \in Nat /\ n \in Nat
        BY <2>3, <2>4, <3>1, <3>3
      <4>2. ns[Len(ns)] \in Anchors(td, 1) \cup {n}
        BY <2>1, <2>3, <2>5
      <4> QED
        BY <4>1, <4>2, <1>10
    <3> QED
      BY <3>1, <3>2, <3>3, <2>3
  <2>7. \A i \in 1..Len(ns) - 1 : ns[i] \in Anchors(td, 1)
    <3> SUFFICES ASSUME NEW i \in 1..Len(ns) - 1 PROVE ns[i] \in Anchors(td, 1)
      OBVIOUS
    <3>1. ns[i] < n /\ ns[i] \in Nat /\ i \in 1..Len(ns)
      BY <2>3, <2>4, <2>6
    <3>2. ns[i] # n
      BY <3>1
    <3> QED
      BY <2>1, <2>5, <3>1, <3>2
  <2>8. \A m \in Anchors(td, 1) : m \in ToSet(ns2)
    <3> SUFFICES ASSUME NEW m \in Anchors(td, 1) PROVE m \in ToSet(ns2)
      OBVIOUS
    <3>1. PICK i \in 1..Len(ns) : ns[i] = m
      BY <2>1, <2>5
    <3>2. i # Len(ns)
      BY <1>10, <2>6, <3>1
    <3> QED
      BY <2>3, <2>5, <3>1, <3>2
  <2>9. Anchors(td2, 0) = Anchors(td, 1)
    BY <1>8
  <2> QED
    BY <2>3, <2>4, <2>5, <2>7, <2>8, <2>9
<1>13. \A i \in Leaves(td2) : td2[i].at \in ow \ {1}
  BY <1>6 DEF Books
<1>14. \A i, j \in Leaves(td2) : i < j => td2[j].at < td2[i].at
  BY <1>6 DEF Books
<1>15. \A i \in Pending(td2) : Around(td2[i].at) \cap ow = Anchors(td2, i)
  BY <1>5, <1>8 DEF Books
<1>16. \A i, j \in Pending(td2) : i # j => Apart(td2[i].at, td2[j].at)
  BY <1>5 DEF Books
<1>17. \A i \in Pending(td2), m \in kn \cup re : m # td2[i].at /\ td2[i].at \notin Around(m)
  BY <1>5 DEF Books
<1> QED
  BY <1>1, <1>2, <1>4, <1>12, <1>13, <1>14, <1>15, <1>16, <1>17 DEF Books

-----------------------------------------------------------------------------
(* The parts a node is walked in                                           *)

LEMMA InsideIsAround ==
  ASSUME tree \in Trees, NEW n \in Syntaxes, NEW x \in Inside(n)
  PROVE  x \in Syntaxes \ {1} /\ Parent(x) = n /\ n \in Around(x) /\ Around(x) = {n} \cup Around(n)
BY TreeShape DEF Inside

LEMMA SiblingsAreApart ==
  ASSUME tree \in Trees, NEW n \in Syntaxes, NEW x \in Inside(n), NEW y \in Inside(n), x # y
  PROVE  Apart(x, y)
<1>1. /\ x \in Syntaxes /\ n \in Around(x) /\ Around(x) = {n} \cup Around(n)
      /\ y \in Syntaxes /\ n \in Around(y) /\ Around(y) = {n} \cup Around(n)
  BY InsideIsAround
<1>2. n < x /\ n < y /\ n \in Nat /\ x \in Nat /\ y \in Nat
  BY <1>1, AroundIsBefore, TreeShape
<1>3. \A m \in {n} \cup Around(n) : m \in Nat /\ m <= n
  BY AroundIsBefore, TreeShape
<1> QED
  BY <1>1, <1>2, <1>3 DEF Apart

LEMMA ApartBelow ==
  ASSUME tree \in Trees, NEW a \in Syntaxes, NEW b \in Syntaxes, NEW c \in Syntaxes,
         Apart(a, b), b \in Around(c)
  PROVE  Apart(a, c)
BY AroundIsClosed, AroundIsChain DEF Apart

LEMMA PartsFit ==
  ASSUME tree \in Trees, NEW n \in Syntaxes, NEW S, S \subseteq Syntaxes, NEW how \in WalkSteps,
         \A x \in S : n \in Around(x), \A x, y \in S : x # y => Apart(x, y)
  PROVE  Fits(Each(how, InOrder(S)), n)
<1>1. S \subseteq Nat /\ IsFiniteSet(S)
  BY TreeShape, FS_Subset
<1>2. PICK s : s = InOrder(S)
  OBVIOUS
<1>3. s \in Seq(S) /\ \A i, j \in DOMAIN s : s[i] = s[j] => i = j
  BY <1>1, <1>2, InOrderCounts
<1>4. Len(s) \in Nat /\ DOMAIN s = 1..Len(s) /\ \A i \in 1..Len(s) : s[i] \in S
  BY <1>3, Elements
<1>5. PICK w : w = [i \in 1..Len(s) |-> [how |-> how, at |-> s[i]]]
  OBVIOUS
<1>6. w \in [1..Len(s) -> Calls]
  BY <1>4, <1>5 DEF Calls
<1>7. w \in Seq(Calls) /\ DOMAIN w = 1..Len(s) /\ \A i \in 1..Len(s) : w[i].at = s[i]
  BY <1>4, <1>5, <1>6
<1>8. w = Each(how, InOrder(S))
  BY <1>2, <1>4, <1>5 DEF Each
<1> QED
  BY <1>3, <1>4, <1>7, <1>8 DEF Fits

LEMMA InsideFits ==
  ASSUME tree \in Trees, NEW n \in Syntaxes, NEW S, S \subseteq Inside(n), NEW how \in WalkSteps
  PROVE  Fits(Each(how, InOrder(S)), n)
BY PartsFit, InsideIsAround, SiblingsAreApart

LEMMA ChildrenFit ==
  ASSUME tree \in Trees, NEW n \in Syntaxes, NEW how \in WalkSteps
  PROVE  Fits(Each(how, Children(n)), n)
BY InsideFits DEF Children

LEMMA ThoseFit ==
  ASSUME tree \in Trees, NEW n \in Syntaxes, NEW how \in WalkSteps, NEW types
  PROVE  Fits(Each(how, Those(n, types)), n)
BY InsideFits DEF Those

(* What fits below a node fits below those around it.                       *)
LEMMA FitsDeeper ==
  ASSUME tree \in Trees, NEW n \in Syntaxes, NEW m \in Syntaxes, n = m \/ n \in Around(m), NEW w, Fits(w, m)
  PROVE  Fits(w, n)
<1>1. \A i \in DOMAIN w : w[i].at \in Syntaxes
  <2>1. w \in Seq(Calls)
    BY DEF Fits
  <2> QED
    <3>1. \A i \in DOMAIN w : w[i] \in Calls
      BY <2>1, Elements
    <3> QED
      BY <3>1 DEF Calls
<1> QED
  BY <1>1, AroundIsClosed DEF Fits

LEMMA NothingFits ==
  ASSUME NEW n
  PROVE  Fits(<<>>, n)
BY DEF Fits

LEMMA FirstOf ==
  ASSUME NEW S, S \subseteq Syntaxes, tree \in Trees, InOrder(S) # <<>>
  PROVE  InOrder(S)[1] \in S
<1>1. S \subseteq Nat /\ IsFiniteSet(S)
  BY TreeShape, FS_Subset
<1>2. PICK s : s = InOrder(S)
  OBVIOUS
<1>3. s \in Seq(S) /\ s # <<>>
  BY <1>1, <1>2, InOrderCounts
<1> QED
  BY <1>2, <1>3

LEMMA FirstInside ==
  ASSUME tree \in Trees, NEW n \in Syntaxes
  PROVE  /\ Children(n) # <<>> => Children(n)[1] \in Inside(n)
         /\ \A types : Those(n, types) # <<>> => Those(n, types)[1] \in Inside(n)
BY FirstOf DEF Children, Those, Inside

(* The object literal of a variable lies in it.                             *)
LEMMA ObjectIsInside ==
  ASSUME tree \in Trees, NEW v \in Syntaxes, ObjectOf(v) # <<>>
  PROVE  ObjectOf(v)[1] \in Syntaxes /\ (ObjectOf(v)[1] = v \/ v \in Around(ObjectOf(v)[1]))
<1>1. CASE Type(v) = "object"
  BY <1>1 DEF ObjectOf
<1>2. CASE Type(v) = "call"
  <2>1. ObjectOf(v) = Returned(v)
    BY <1>2 DEF ObjectOf
  <2> DEFINE S == {o \in Syntaxes :
                     /\ Type(o) = "object" /\ Type(Parent(o)) \in FunctionTypes
                     /\ v \in Around(Parent(o))
                     /\ \A m \in Around(Parent(o)) : m = v \/ v \in Around(m) => Type(m) \in CallTypes
                     /\ Cardinality({m \in Around(Parent(o)) : v \in Around(m)}) <= MaxNesting}
  <2>2. Returned(v) = InOrder(S)
    BY DEF Returned
  <2>3. S \subseteq Syntaxes
    OBVIOUS
  <2>4. \A o \in S : v \in Around(o)
    <3> SUFFICES ASSUME NEW o \in S PROVE v \in Around(o)
      OBVIOUS
    <3>1. o # 1
      BY TreeShape
    <3> QED
      BY <3>1, TreeShape
  <2> HIDE DEF S
  <2>5. InOrder(S)[1] \in S
    BY <2>1, <2>2, <2>3, FirstOf
  <2> QED
    BY <2>1, <2>2, <2>3, <2>4, <2>5
<1>3. CASE Type(v) # "object" /\ Type(v) # "call"
  BY <1>3 DEF ObjectOf
<1> QED
  BY <1>1, <1>2, <1>3

LEMMA FunctionsFit ==
  ASSUME tree \in Trees, NEW obj \in Syntaxes
  PROVE  Fits(Each("function", FunctionsOf(obj)), obj)
<1> DEFINE Short == {m \in Inside(obj) : Type(m) = "shorthand"}
           Long  == {m \in Inside(obj) : Type(m) # "shorthand"}
           Deep  == UNION {{f \in Inside(m) : Type(f) \in FunctionTypes} : m \in Long}
           S     == Short \cup Deep
<1>1. FunctionsOf(obj) = InOrder(S)
  BY DEF FunctionsOf
<1>2. \A m \in Long : m \in Syntaxes /\ m \in Inside(obj) /\ obj \in Around(m)
  BY InsideIsAround
<1>3. \A f \in Deep : \E m \in Long : f \in Inside(m)
  OBVIOUS
<1>4. \A x \in Short : x \in Syntaxes /\ x \in Inside(obj) /\ obj \in Around(x) /\ x \notin Long
  BY InsideIsAround
<1> HIDE DEF Short, Long, Deep
<1>5. \A f \in Deep : f \in Syntaxes /\ obj \in Around(f)
  <2> SUFFICES ASSUME NEW f \in Deep PROVE f \in Syntaxes /\ obj \in Around(f)
    OBVIOUS
  <2>1. PICK m \in Long : f \in Inside(m)
    BY <1>3
  <2>2. m \in Syntaxes /\ obj \in Around(m)
    BY <1>2
  <2> QED
    BY <2>1, <2>2, InsideIsAround
<1>6. ASSUME NEW x \in Short, NEW f \in Deep PROVE Apart(x, f)
  <2>1. PICK m \in Long : f \in Inside(m)
    BY <1>3
  <2>2. m \in Syntaxes /\ f \in Syntaxes /\ m \in Around(f)
    BY <1>2, <2>1, InsideIsAround
  <2>3. Apart(x, m)
    BY <1>2, <1>4, SiblingsAreApart
  <2> QED
    BY <1>4, <2>2, <2>3, ApartBelow
<1>7. ASSUME NEW f \in Deep, NEW g \in Deep, f # g PROVE Apart(f, g)
  <2>1. PICK m \in Long : f \in Inside(m)
    BY <1>3
  <2>2. PICK k \in Long : g \in Inside(k)
    BY <1>3
  <2>3. /\ m \in Syntaxes /\ f \in Syntaxes /\ m \in Around(f)
        /\ k \in Syntaxes /\ g \in Syntaxes /\ k \in Around(g)
    BY <1>2, <2>1, <2>2, InsideIsAround
  <2>4. CASE m = k
    BY <1>7, <2>1, <2>2, <2>3, <2>4, SiblingsAreApart
  <2>5. CASE m # k
    <3>1. Apart(k, m)
      BY <1>2, <2>5, SiblingsAreApart
    <3>2. Apart(k, f)
      BY <2>3, <3>1, ApartBelow
    <3>3. Apart(f, k)
      BY <3>2 DEF Apart
    <3> QED
      BY <2>3, <3>3, ApartBelow
  <2> QED
    BY <2>4, <2>5
<1>8. ASSUME NEW x \in S, NEW y \in S, x # y PROVE Apart(x, y)
  <2>1. CASE x \in Short /\ y \in Short
    BY <1>4, <1>8, <2>1, SiblingsAreApart
  <2>2. CASE x \in Short /\ y \in Deep
    BY <1>6, <2>2
  <2>3. CASE x \in Deep /\ y \in Short
    <3>1. Apart(y, x)
      BY <1>6, <2>3
    <3> QED
      BY <3>1 DEF Apart
  <2>4. CASE x \in Deep /\ y \in Deep
    BY <1>7, <1>8, <2>4
  <2> QED
    BY <2>1, <2>2, <2>3, <2>4
<1>9. S \subseteq Syntaxes /\ \A x \in S : obj \in Around(x)
  BY <1>4, <1>5
<1>10. "function" \in WalkSteps
  BY DEF WalkSteps
<1> HIDE DEF S
<1> QED
  BY <1>1, <1>8, <1>9, <1>10, PartsFit

LEMMA MethodsFit ==
  ASSUME tree \in Trees, NEW n \in Syntaxes, NEW v \in Inside(n)
  PROVE  Fits(Each("function", MethodsOf(n, v)), n)
<1>1. v \in Syntaxes /\ n \in Around(v)
  BY InsideIsAround
<1>2. CASE Type(n) = "exported" /\ ObjectOf(v) # <<>>
  <2>1. PICK o : o = ObjectOf(v)[1]
    OBVIOUS
  <2>2. o \in Syntaxes /\ (o = v \/ v \in Around(o))
    BY <1>1, <1>2, <2>1, ObjectIsInside
  <2>3. n \in Around(o)
    BY <1>1, <2>2, AroundIsClosed
  <2>4. Fits(Each("function", FunctionsOf(o)), n)
    BY <2>2, <2>3, FunctionsFit, FitsDeeper
  <2> QED
    BY <1>2, <2>1, <2>4 DEF MethodsOf
<1>3. CASE ~(Type(n) = "exported" /\ ObjectOf(v) # <<>>)
  <2>1. MethodsOf(n, v) = <<>>
    BY <1>3 DEF MethodsOf
  <2>2. Each("function", <<>>) = <<>>
    BY DEF Each
  <2> QED
    BY <2>1, <2>2, NothingFits
<1> QED
  BY <1>2, <1>3

LEMMA DeclaratorFits ==
  ASSUME tree \in Trees, NEW n \in Syntaxes, NEW v \in Inside(n)
  PROVE  Fits(Initializer(v, MethodsOf(n, v)) \o Each("function", MethodsOf(n, v)), n)
<1> DEFINE methods == MethodsOf(n, v)
<1>1. Fits(Each("function", methods), n)
  BY MethodsFit
<1>2. PICK w : w = Each("function", methods)
  OBVIOUS
<1>3. CASE Type(v) = "object" \/ (methods # <<>> /\ Type(v) = "call")
  <2>1. Initializer(v, methods) = <<>>
    BY <1>3 DEF Initializer
  <2>2. <<>> \o w = w
    BY <1>1, <1>2 DEF Fits
  <2> QED
    BY <1>1, <1>2, <2>1, <2>2
<1>4. CASE ~(Type(v) = "object" \/ (methods # <<>> /\ Type(v) = "call"))
  <2>1. Initializer(v, methods) = Each("scan", <<v>>)
    BY <1>4 DEF Initializer
  <2>2. methods = <<>>
    BY <1>4 DEF MethodsOf, ObjectOf
  <2>3. w = <<>>
    BY <1>2, <2>2 DEF Each
  <2>4. PICK u : u = <<[how |-> "scan", at |-> v]>>
    OBVIOUS
  <2>5. u = Each("scan", <<v>>)
    BY <2>4 DEF Each
  <2>6. v \in Syntaxes /\ n \in Around(v)
    BY InsideIsAround
  <2>7. [how |-> "scan", at |-> v] \in Calls
    BY <2>6 DEF Calls, WalkSteps
  <2>8. u \in Seq(Calls) /\ DOMAIN u = {1} /\ u[1].at = v
    BY <2>4, <2>7
  <2>9. u \o <<>> = u
    BY <2>8
  <2>10. Fits(u, n)
    BY <2>6, <2>8 DEF Fits
  <2> QED
    BY <1>2, <2>1, <2>3, <2>5, <2>9, <2>10
<1> QED
  BY <1>3, <1>4

-----------------------------------------------------------------------------
(* The walk                                                                *)

Kinds == {"file", "class", "function", "method", "property", "field", "component", "constant"}

Owners   == {nodes[i].at : i \in {j \in DOMAIN nodes : nodes[j].kind # "constant"}}
Noted == {refs[i].at : i \in DOMAIN refs}

WalkTypeOK ==
  /\ tree \in Trees /\ result \in {"none", "all", "part"}
  /\ nodes \in Seq([at : Syntaxes, kind : Kinds])
  /\ contains \subseteq [source : Syntaxes, target : Syntaxes]
  /\ refs \in Seq([from : Syntaxes, at : Syntaxes])

Ledger == Books(todo, nodeStack, Known, Owners, Noted)

WalkInv == /\ WalkTypeOK /\ ExtractionIsSound
           /\ result = "none" => Ledger

LEMMA Appended ==
  ASSUME NEW S, NEW s \in Seq(S), NEW x \in S, NEW t, t = Append(s, x)
  PROVE  /\ t \in Seq(S) /\ DOMAIN s = 1..Len(s) /\ DOMAIN t = 1..Len(s) + 1 /\ Len(s) \in Nat
         /\ t[Len(s) + 1] = x /\ \A i \in 1..Len(s) : t[i] = s[i]
OBVIOUS

(* The owner of what is met next is the innermost declaration around it.    *)
LEMMA OwnerIsHome ==
  ASSUME WalkInv, result = "none", todo # <<>>, How # "leave"
  PROVE  /\ At \in Syntaxes \ {1} /\ At \notin Known \cup Noted
         /\ \A m \in Known \cup Noted : At \notin Around(m)
         /\ At \notin Around(At)
         /\ Owner \in Known /\ Owner = Max(Around(At) \cap Owners)
<1>1. tree \in Trees /\ Books(todo, nodeStack, Known, Owners, Noted)
  BY DEF WalkInv, WalkTypeOK, Ledger
<1>2. /\ At \in Syntaxes \ {1} /\ At \notin Known \cup Noted
      /\ \A m \in Known \cup Noted : At \notin Around(m)
      /\ Around(At) \cap Owners = Anchors(todo, 1) /\ Anchors(todo, 0) = Anchors(todo, 1)
      /\ \A m \in Anchors(todo, 1) : m \in Nat /\ m < At
      /\ nodeStack # <<>> /\ Last(nodeStack) \in Anchors(todo, 1)
      /\ \A m \in Anchors(todo, 1) : m <= Last(nodeStack)
  BY <1>1, FirstIsNew DEF At, How
<1>3. At \notin Around(At)
  BY <1>1, <1>2, AroundIsBefore, TreeShape
<1>4. Owner \in Anchors(todo, 1) /\ \A m \in Anchors(todo, 1) : m \in Nat /\ m <= Owner
  BY <1>2 DEF Owner
<1>5. Owner = Max(Anchors(todo, 1))
  BY <1>4 DEF Max
<1>6. Owners \subseteq Known
  BY DEF Owners, Known
<1> QED
  BY <1>2, <1>3, <1>4, <1>5, <1>6

Innermost == /\ \A i \in DOMAIN refs : refs[i].from = Max(tree.around[refs[i].at] \cap Owners)
             /\ \A e \in contains : e.source = Max(tree.around[e.target] \cap Owners)

LEMMA InnermostMeans == Innermost <=> OwnersAreInnermost
<1>1. \A n : Homes(n) = tree.around[n] \cap Owners
  BY DEF Homes, Owners, Around
<1>2. \A n : Home(n) = Max(tree.around[n] \cap Owners)
  BY <1>1 DEF Home
<1> QED
  BY <1>2 DEF Innermost, OwnersAreInnermost

LEMMA WalkStarts ==
  ASSUME WalkInit
  PROVE  WalkInv
<1>1. /\ tree \in Trees /\ 1 \in Syntaxes /\ Syntaxes \subseteq Nat
  BY TreeShape DEF WalkInit
<1>2. /\ nodes \in Seq([at : Syntaxes, kind : Kinds]) /\ DOMAIN nodes = {1}
      /\ nodes[1] = [at |-> 1, kind |-> "file"]
  BY <1>1 DEF WalkInit, Kinds
<1>3. refs \in Seq([from : Syntaxes, at : Syntaxes]) /\ DOMAIN refs = {}
  BY DEF WalkInit
<1>4. Known = {1} /\ Owners = {1} /\ Noted = {}
  BY <1>2, <1>3 DEF Known, Owners, Noted
<1>5. nodeStack \in Seq(Syntaxes) /\ DOMAIN nodeStack = {1} /\ nodeStack[1] = 1
  BY <1>1 DEF WalkInit
<1>6. ToSet(nodeStack) = {1}
  BY <1>5 DEF ToSet
<1>7. Fits(todo, 1)
  BY <1>1, ChildrenFit DEF WalkInit, Visits, WalkSteps
<1>8. Ledger
  <2>1. /\ todo \in Seq(Calls) /\ \A i \in DOMAIN todo : 1 \in Around(todo[i].at)
        /\ \A i, j \in DOMAIN todo : i # j => Apart(todo[i].at, todo[j].at)
    BY <1>7 DEF Fits
  <2>2. Calls \subseteq Items /\ \A c \in Calls : c.how # "leave"
    BY DEF Calls, Items, WalkSteps
  <2>3. /\ todo \in Seq(Items) /\ \A i \in DOMAIN todo : todo[i] \in Calls
    BY <2>1, <2>2, Elements, Wider
  <2>4. Leaves(todo) = {} /\ Pending(todo) = DOMAIN todo
    BY <2>2, <2>3 DEF Leaves, Pending
  <2>5. \A i : Anchors(todo, i) = {1}
    BY <2>4 DEF Anchors
  <2>6. \A i \in DOMAIN todo : todo[i].at # 1
    BY <1>1, <2>1, TreeShape
  <2>7. \A i \in Pending(todo) : Around(todo[i].at) \cap {1} = Anchors(todo, i)
    BY <2>1, <2>4, <2>5
  <2>8. \A i \in Pending(todo), m \in {1} : m # todo[i].at /\ todo[i].at \notin Around(m)
    BY <1>1, <2>4, <2>6, TreeShape
  <2>9. \A i, j \in DOMAIN nodeStack : i < j => nodeStack[i] < nodeStack[j]
    BY <1>5
  <2> QED
    BY <1>1, <1>4, <1>5, <1>6, <2>1, <2>3, <2>4, <2>5, <2>7, <2>8, <2>9 DEF Ledger, Books
<1>9. WalkTypeOK
  BY <1>2, <1>3 DEF WalkTypeOK, WalkInit
<1>10. EndsExist
  BY <1>2, <1>3, <1>4, <1>6 DEF EndsExist, WalkInit
<1>11. OwnersAreInnermost
  BY <1>3 DEF OwnersAreInnermost, WalkInit
<1>12. OnceEach
  BY <1>2, <1>3 DEF OnceEach
<1> QED
  BY <1>8, <1>9, <1>10, <1>11, <1>12 DEF WalkInv, ExtractionIsSound, WalkInit

(* What becomes of the node of the first call, w being left of it.           *)
Makes(n, kind, d, w) ==
  /\ Create(n, kind)
  /\ kind = "constant" => d = 0
  /\ kind # "constant" => d = 1 \/ w = <<>>

(* A call is handled: its node is made, or recorded, or neither, and what is *)
(* left of it takes its place.                                             *)
LEMMA Handled ==
  ASSUME WalkInv, result = "none", todo # <<>>, How # "leave", UNCHANGED <<tree, result>>,
         NEW w, Fits(w, At), NEW d \in {0, 1}, todo' = Unfold(w, At, d, todo),
         nodeStack' = Pushed(nodeStack, At, d),
         \/ d = 0 /\ UNCHANGED <<nodes, contains>>
         \/ \E kind \in Kinds : Makes(At, kind, d, w),
         UNCHANGED refs \/ Record(At)
  PROVE  WalkInv'
<1>1. PICK n : n = At
  OBVIOUS
<1>2. PICK own : own = Owner
  OBVIOUS
<1>3. /\ n \in Syntaxes \ {1} /\ n \notin Known \cup Noted
      /\ \A m \in Known \cup Noted : n \notin Around(m)
      /\ n \notin Around(n) /\ own \in Known /\ own = Max(Around(n) \cap Owners)
  BY <1>1, <1>2, OwnerIsHome
<1>4. /\ tree \in Trees /\ Ledger /\ EndsExist /\ OwnersAreInnermost /\ OnceEach
      /\ nodes \in Seq([at : Syntaxes, kind : Kinds])
      /\ contains \subseteq [source : Syntaxes, target : Syntaxes]
      /\ refs \in Seq([from : Syntaxes, at : Syntaxes])
  BY DEF WalkInv, WalkTypeOK, ExtractionIsSound
<1>5. Known \subseteq Syntaxes /\ own \in Syntaxes
  BY <1>3, <1>4 DEF Ledger, Books
<1>6. /\ nodes' \in Seq([at : Syntaxes, kind : Kinds])
      /\ \A i, j \in DOMAIN nodes' : nodes'[i].at = nodes'[j].at => i = j
      /\ \/ Known' = Known /\ Owners' = Owners /\ contains' = contains /\ d = 0
         \/ /\ Known' = Known \cup {n} /\ contains' = contains \cup {[source |-> own, target |-> n]}
            /\ \/ Owners' = Owners /\ d = 0
               \/ Owners' = Owners \cup {n} /\ (d = 1 \/ w = <<>>)
  <2>1. CASE d = 0 /\ UNCHANGED <<nodes, contains>>
    BY <1>4, <2>1 DEF Known, Owners, OnceEach
  <2>2. ASSUME NEW kind \in Kinds, Makes(At, kind, d, w)
        PROVE  /\ nodes' \in Seq([at : Syntaxes, kind : Kinds])
               /\ \A i, j \in DOMAIN nodes' : nodes'[i].at = nodes'[j].at => i = j
               /\ Known' = Known \cup {n} /\ contains' = contains \cup {[source |-> own, target |-> n]}
               /\ \/ Owners' = Owners /\ d = 0
                  \/ Owners' = Owners \cup {n} /\ (d = 1 \/ w = <<>>)
    <3>1. /\ nodes' = Append(nodes, [at |-> n, kind |-> kind])
          /\ contains' = contains \cup {[source |-> own, target |-> n]}
          /\ kind = "constant" => d = 0
          /\ kind # "constant" => d = 1 \/ w = <<>>
      BY <1>1, <1>2, <2>2 DEF Makes, Create
    <3>2. PICK x \in [at : Syntaxes, kind : Kinds] : x = [at |-> n, kind |-> kind]
      BY <1>3
    <3>3. PICK l : l = Len(nodes)
      OBVIOUS
    <3>4. /\ nodes' \in Seq([at : Syntaxes, kind : Kinds])
          /\ DOMAIN nodes = 1..l /\ DOMAIN nodes' = 1..l + 1 /\ l \in Nat
          /\ nodes'[l + 1] = x /\ \A i \in 1..l : nodes'[i] = nodes[i]
      BY <1>4, <3>1, <3>2, <3>3, Appended
    <3>5. x.at = n /\ x.kind = kind
      BY <3>2
    <3>6. Known' = Known \cup {n}
      <4>1. \A i \in DOMAIN nodes' : nodes'[i].at \in Known \cup {n}
        BY <3>4, <3>5 DEF Known
      <4>2. \A i \in DOMAIN nodes : nodes[i].at \in Known'
        BY <3>4 DEF Known
      <4>3. n \in Known'
        BY <3>4, <3>5 DEF Known
      <4> QED
        BY <4>1, <4>2, <4>3 DEF Known
    <3>7. \A i \in 1..l : nodes[i].at # n
      BY <1>3, <3>4 DEF Known
    <3>8. \A i, j \in DOMAIN nodes' : nodes'[i].at = nodes'[j].at => i = j
      <4> SUFFICES ASSUME NEW i \in DOMAIN nodes', NEW j \in DOMAIN nodes', nodes'[i].at = nodes'[j].at PROVE i = j
        OBVIOUS
      <4>1. CASE i \in 1..l /\ j \in 1..l
        BY <1>4, <3>4, <4>1 DEF OnceEach
      <4>2. CASE ~(i \in 1..l /\ j \in 1..l)
        BY <3>4, <3>5, <3>7, <4>2
      <4> QED
        BY <4>1, <4>2
    <3>9. Owners' = IF kind = "constant" THEN Owners ELSE Owners \cup {n}
      <4>1. \A i \in DOMAIN nodes' : nodes'[i].kind # "constant" =>
              nodes'[i].at \in (IF kind = "constant" THEN Owners ELSE Owners \cup {n})
        BY <3>4, <3>5 DEF Owners
      <4>2. \A i \in DOMAIN nodes : nodes[i].kind # "constant" => nodes[i].at \in Owners'
        BY <3>4 DEF Owners
      <4>3. kind # "constant" => n \in Owners'
        BY <3>4, <3>5 DEF Owners
      <4> QED
        BY <4>1, <4>2, <4>3 DEF Owners
    <3> QED
      BY <3>1, <3>4, <3>6, <3>8, <3>9
  <2> QED
    BY <2>1, <2>2
<1>7. /\ refs' \in Seq([from : Syntaxes, at : Syntaxes])
      /\ \A i, j \in DOMAIN refs' : refs'[i].at = refs'[j].at => i = j
      /\ \A i \in DOMAIN refs' : \/ i \in DOMAIN refs /\ refs'[i] = refs[i]
                                 \/ refs'[i].from = own /\ refs'[i].at = n
      /\ Noted' \in {Noted, Noted \cup {n}}
  <2>1. CASE UNCHANGED refs
    BY <1>4, <2>1 DEF Noted, OnceEach
  <2>2. CASE Record(At)
    <3>1. refs' = Append(refs, [from |-> own, at |-> n])
      BY <1>1, <1>2, <2>2 DEF Record
    <3>2. PICK x \in [from : Syntaxes, at : Syntaxes] : x = [from |-> own, at |-> n]
      BY <1>3, <1>5
    <3>3. PICK l : l = Len(refs)
      OBVIOUS
    <3>4. /\ refs' \in Seq([from : Syntaxes, at : Syntaxes])
          /\ DOMAIN refs = 1..l /\ DOMAIN refs' = 1..l + 1 /\ l \in Nat
          /\ refs'[l + 1] = x /\ \A i \in 1..l : refs'[i] = refs[i]
      BY <1>4, <3>1, <3>2, <3>3, Appended
    <3>5. x.from = own /\ x.at = n
      BY <3>2
    <3>6. Noted' = Noted \cup {n}
      <4>1. \A i \in DOMAIN refs' : refs'[i].at \in Noted \cup {n}
        BY <3>4, <3>5 DEF Noted
      <4>2. \A i \in DOMAIN refs : refs[i].at \in Noted'
        BY <3>4 DEF Noted
      <4>3. n \in Noted'
        BY <3>4, <3>5 DEF Noted
      <4> QED
        BY <4>1, <4>2, <4>3 DEF Noted
    <3>7. \A i \in 1..l : refs[i].at # n
      BY <1>3, <3>4 DEF Noted
    <3>8. \A i, j \in DOMAIN refs' : refs'[i].at = refs'[j].at => i = j
      BY <1>4, <3>4, <3>5, <3>7 DEF OnceEach
    <3> QED
      BY <3>4, <3>5, <3>6, <3>8
  <2> QED
    BY <2>1, <2>2
<1>8. /\ Syntaxes' = Syntaxes /\ Items' = Items /\ \A m : Around(m)' = Around(m)
  BY DEF Syntaxes, Items, Around
<1>9. Ledger'
  <2>1. PICK kn2, ow2, re2 : kn2 = Known' /\ ow2 = Owners' /\ re2 = Noted'
    OBVIOUS
  <2>2. kn2 \in {Known, Known \cup {n}} /\ re2 \in {Noted, Noted \cup {n}}
    BY <1>6, <1>7, <2>1
  <2>3. /\ ow2 \subseteq kn2
        /\ \/ d = 1 /\ ow2 = Owners \cup {n}
           \/ d = 0 /\ ow2 = Owners
           \/ d = 0 /\ ow2 = Owners \cup {n} /\ w = <<>>
    <3>1. Owners \subseteq Known
      BY DEF Owners, Known
    <3> QED
      BY <3>1, <1>6, <2>1
  <2>4. PICK td2, ns2 : td2 = Unfold(w, n, d, todo) /\ ns2 = Pushed(nodeStack, n, d)
    OBVIOUS
  <2>5. Books(td2, ns2, kn2, ow2, re2)
    <3>1. n = todo[1].at /\ todo[1].how # "leave" /\ Fits(w, n)
      BY <1>1 DEF At, How
    <3> QED
      <4>1. Books(todo, nodeStack, Known, Owners, Noted)
        BY <1>4 DEF Ledger
      <4>2. Books(Unfold(w, n, d, todo), Pushed(nodeStack, n, d), kn2, ow2, re2)
        <5>1. PICK td, ns, kn, ow, re : td = todo /\ ns = nodeStack /\ kn = Known /\ ow = Owners /\ re = Noted
          OBVIOUS
        <5>2. Books(td, ns, kn, ow, re) /\ td # <<>> /\ n = td[1].at /\ td[1].how # "leave"
          BY <3>1, <4>1, <5>1
        <5>3. Entered(kn, ow, re, kn2, ow2, re2, n, d, w)
          BY <2>2, <2>3, <5>1 DEF Entered
        <5>4. Books(Unfold(w, n, d, td), Pushed(ns, n, d), kn2, ow2, re2)
          BY <1>4, <3>1, <5>2, <5>3, BooksKept
        <5> QED
          BY <5>1, <5>4
      <4> QED
        BY <2>4, <4>2
  <2>6. td2 = todo' /\ ns2 = nodeStack'
    BY <1>1, <2>4
  <2> QED
    BY <1>8, <2>1, <2>5, <2>6 DEF Ledger, Books, Leaves, Pending, Anchors, Apart
<1>10. \A m \in Known \cup Noted \cup {n} : tree.around[m] \cap Owners' = tree.around[m] \cap Owners
  BY <1>3, <1>6 DEF Around
<1>11. OwnersAreInnermost'
  <2>1. Innermost
    BY <1>4, InnermostMeans
  <2>2. \A e \in contains' : e.source = Max(tree.around[e.target] \cap Owners')
    <3> SUFFICES ASSUME NEW e \in contains' PROVE e.source = Max(tree.around[e.target] \cap Owners')
      OBVIOUS
    <3>1. CASE e \in contains
      <4>1. e.target \in Known /\ e.source = Max(tree.around[e.target] \cap Owners)
        BY <1>4, <2>1, <3>1 DEF EndsExist, Innermost
      <4> QED
        BY <1>10, <4>1
    <3>2. CASE e = [source |-> own, target |-> n]
      <4>1. e.source = own /\ e.target = n
        BY <3>2
      <4> QED
        BY <1>3, <1>10, <4>1 DEF Around
    <3> QED
      BY <1>6, <3>1, <3>2
  <2>3. \A i \in DOMAIN refs' : refs'[i].from = Max(tree.around[refs'[i].at] \cap Owners')
    <3> SUFFICES ASSUME NEW i \in DOMAIN refs' PROVE refs'[i].from = Max(tree.around[refs'[i].at] \cap Owners')
      OBVIOUS
    <3>1. CASE i \in DOMAIN refs /\ refs'[i] = refs[i]
      <4>1. refs[i].at \in Noted /\ refs[i].from = Max(tree.around[refs[i].at] \cap Owners)
        BY <2>1, <3>1 DEF Noted, Innermost
      <4> QED
        BY <1>10, <3>1, <4>1
    <3>2. CASE refs'[i].from = own /\ refs'[i].at = n
      BY <1>3, <1>10, <3>2 DEF Around
    <3> QED
      BY <1>7, <3>1, <3>2
  <2>4. Innermost'
    BY <2>2, <2>3 DEF Innermost
  <2>5. (Innermost <=> OwnersAreInnermost)'
    BY InnermostMeans, PTL
  <2> QED
    BY <2>4, <2>5
<1>12. EndsExist'
  <2>1. Known \subseteq Known' /\ \A e \in contains' : e \in contains \/ (e.source = own /\ e.target \in Known')
    BY <1>6
  <2>2. \A e \in contains' : e.source \in Known' /\ e.target \in Known'
    BY <1>3, <1>4, <2>1 DEF EndsExist
  <2>3. \A i \in DOMAIN refs' : refs'[i].from \in Known'
    BY <1>3, <1>4, <1>7, <2>1 DEF EndsExist
  <2>4. ToSet(nodeStack)' \subseteq Known'
    <3>1. /\ ToSet(nodeStack') = Anchors(todo, 0)' /\ \A i \in Leaves(todo)' : todo'[i].at \in Owners'
          /\ Owners' \subseteq Known' /\ 1 \in Owners'
      BY <1>9 DEF Ledger, Books
    <3> QED
      BY <3>1 DEF Anchors
  <2>5. \A i \in DOMAIN nodes' : nodes'[i].kind \in Kinds
    <3>1. \A i \in DOMAIN nodes' : nodes'[i] \in [at : Syntaxes, kind : Kinds]
      <4>1. PICK q, R : q = nodes' /\ R = [at : Syntaxes, kind : Kinds]
        OBVIOUS
      <4>2. \A i \in DOMAIN q : q[i] \in R
        <5>1. q \in Seq(R)
          BY <1>6, <4>1
        <5> QED
          BY <5>1
      <4> QED
        BY <4>1, <4>2
    <3> QED
      BY <3>1
  <2> QED
    BY <2>2, <2>3, <2>4, <2>5 DEF EndsExist, Kinds
<1>13. WalkTypeOK'
  <2>1. contains' \subseteq [source : Syntaxes, target : Syntaxes]
    <3>1. [source |-> own, target |-> n] \in [source : Syntaxes, target : Syntaxes]
      BY <1>3, <1>5
    <3> QED
      BY <1>4, <1>6, <3>1
  <2>2. tree' \in Trees /\ result' \in {"none", "all", "part"}
    BY <1>4
  <2> QED
    BY <1>6, <1>7, <1>8, <2>1, <2>2 DEF WalkTypeOK
<1>14. OnceEach'
  BY <1>6, <1>7 DEF OnceEach
<1> QED
  BY <1>9, <1>11, <1>12, <1>13, <1>14 DEF WalkInv, ExtractionIsSound

LEMMA DeclareKeeps ==
  ASSUME WalkInv, result = "none", todo # <<>>, How # "leave", UNCHANGED <<tree, result>>,
         NEW w, Fits(w, At), NEW kind \in Kinds \ {"constant"}, Declare(At, kind, w),
         UNCHANGED refs \/ Record(At)
  PROVE  WalkInv'
<1>1. todo' = Unfold(w, At, 1, todo)
  BY DEF Declare, Goes, Unfold
<1>2. nodeStack' = Pushed(nodeStack, At, 1)
  BY DEF Declare, Pushed
<1>3. Makes(At, kind, 1, w)
  BY DEF Declare, Makes
<1> QED
  BY <1>1, <1>2, <1>3, Handled

LEMMA UnnamedKeeps ==
  ASSUME WalkInv, result = "none", todo # <<>>, How # "leave", UNCHANGED <<tree, result>>,
         NEW w, Fits(w, At), Unnamed(w), UNCHANGED refs
  PROVE  WalkInv'
<1>1. todo' = Unfold(w, At, 0, todo) /\ nodeStack' = Pushed(nodeStack, At, 0) /\ UNCHANGED <<nodes, contains>>
  BY DEF Unnamed, Goes, Unfold, Pushed
<1> QED
  BY <1>1, Handled

LEMMA CreateKeeps ==
  ASSUME WalkInv, result = "none", todo # <<>>, How # "leave", UNCHANGED <<tree, result>>,
         NEW w, Fits(w, At), NEW kind \in Kinds, Create(At, kind), kind = "constant" \/ w = <<>>,
         Goes(w), UNCHANGED <<nodeStack, refs>>
  PROVE  WalkInv'
<1>1. todo' = Unfold(w, At, 0, todo) /\ nodeStack' = Pushed(nodeStack, At, 0)
  BY DEF Goes, Unfold, Pushed
<1>2. Makes(At, kind, 0, w)
  BY DEF Makes
<1> QED
  BY <1>1, <1>2, Handled

LEMMA Ready ==
  ASSUME WalkInv, NEW how, Busy(how)
  PROVE  result = "none" /\ todo # <<>> /\ How \in how /\ tree \in Trees /\ (How # "leave" => At \in Syntaxes \ {1})
BY OwnerIsHome DEF Busy, WalkInv, WalkTypeOK

LEMMA FunctionKeeps ==
  ASSUME WalkInv, result = "none", todo # <<>>, How # "leave", At \in Syntaxes, UNCHANGED <<tree, refs, result>>, Function(At)
  PROVE  WalkInv'
<1>1. Fits(Scans(At), At)
  BY ChildrenFit DEF WalkInv, WalkTypeOK, Scans, WalkSteps
<1>2. CASE Named(At)
  BY <1>1, <1>2, DeclareKeeps DEF Function, Kinds
<1>3. CASE ~Named(At)
  BY <1>1, <1>3, UnnamedKeeps DEF Function
<1> QED
  BY <1>2, <1>3

LEMMA ExtractFunctionKeeps == ASSUME WalkInv, ExtractFunction PROVE WalkInv'
<1>1. PICK how : how \in {{"function"}, {"visit"}, {"scan"}} /\ Busy(how)
  BY DEF ExtractFunction
<1>2. result = "none" /\ todo # <<>> /\ How # "leave" /\ At \in Syntaxes
  BY <1>1, Ready
<1> QED
  BY <1>2, FunctionKeeps DEF ExtractFunction

LEMMA ExtractClassKeeps == ASSUME WalkInv, ExtractClass PROVE WalkInv'
<1>1. result = "none" /\ todo # <<>> /\ How # "leave" /\ At \in Syntaxes /\ tree \in Trees
  BY Ready DEF ExtractClass, Walking
<1>2. Fits(Visits(At), At)
  BY <1>1, ChildrenFit DEF Visits, WalkSteps
<1> QED
  BY <1>1, <1>2, DeclareKeeps DEF ExtractClass, Kinds

LEMMA ExtractMethodKeeps == ASSUME WalkInv, ExtractMethod PROVE WalkInv'
<1>1. result = "none" /\ todo # <<>> /\ How # "leave" /\ At \in Syntaxes /\ tree \in Trees
  BY Ready DEF ExtractMethod
<1> DEFINE body == IF Type(At) = "field" THEN Scans(Callables(At)[1]) ELSE Scans(At)
<1>2. Fits(body, At)
  <2>1. CASE Type(At) # "field"
    BY <1>1, <2>1, ChildrenFit DEF Scans, WalkSteps
  <2>2. CASE Type(At) = "field"
    <3>1. PICK f : f = Callables(At)[1]
      OBVIOUS
    <3>2. f \in Syntaxes /\ At \in Around(f)
      <4>1. Callables(At) # <<>>
        BY <2>2 DEF ExtractMethod
      <4>2. PICK v : v = Children(At)
        OBVIOUS
      <4>3. v # <<>>
        BY <4>1, <4>2 DEF Callables
      <4>4. v[1] \in Inside(At) /\ v[1] \in Syntaxes /\ At \in Around(v[1])
        BY <1>1, <4>2, <4>3, FirstInside, InsideIsAround
      <4>5. CASE Callables(At) = Those(v[1], FunctionTypes)
        <5>1. f \in Inside(v[1])
          BY <1>1, <3>1, <4>1, <4>4, <4>5, FirstInside
        <5>2. f \in Syntaxes /\ v[1] \in Around(f)
          BY <1>1, <4>4, <5>1, InsideIsAround
        <5> QED
          BY <1>1, <4>4, <5>2, AroundIsClosed, InsideIsAround, <5>1
      <4>6. CASE Callables(At) = Those(At, FunctionTypes)
        <5>1. f \in Inside(At)
          BY <1>1, <3>1, <4>1, <4>6, FirstInside
        <5> QED
          BY <1>1, <5>1, InsideIsAround
      <4>7. Callables(At) = Those(v[1], FunctionTypes) \/ Callables(At) = Those(At, FunctionTypes)
        BY <4>2, <4>3 DEF Callables
      <4> QED
        BY <4>5, <4>6, <4>7
    <3>3. Fits(Scans(f), f)
      BY <1>1, <3>2, ChildrenFit DEF Scans, WalkSteps
    <3>4. Fits(Scans(f), At)
      BY <1>1, <3>2, <3>3, FitsDeeper
    <3> QED
      BY <2>2, <3>1, <3>4
  <2> QED
    BY <2>1, <2>2
<1>3. (InsideClassLike /\ Declare(At, "method", body)) \/ Unnamed(body)
  BY DEF ExtractMethod
<1>4. UNCHANGED <<tree, refs, result>>
  BY DEF ExtractMethod
<1> HIDE DEF body
<1>5. CASE Declare(At, "method", body)
  BY <1>1, <1>2, <1>4, <1>5, DeclareKeeps DEF Kinds
<1>6. CASE Unnamed(body)
  BY <1>1, <1>2, <1>4, <1>6, UnnamedKeeps
<1> QED
  BY <1>3, <1>5, <1>6

LEMMA ExtractPropertyKeeps == ASSUME WalkInv, ExtractProperty PROVE WalkInv'
<1>1. result = "none" /\ todo # <<>> /\ How # "leave" /\ At \in Syntaxes /\ tree \in Trees
  BY Ready DEF ExtractProperty
<1>2. Fits(Scans(At), At)
  BY <1>1, ChildrenFit DEF Scans, WalkSteps
<1> QED
  BY <1>1, <1>2, DeclareKeeps DEF ExtractProperty, Property, Kinds

LEMMA ExtractFieldKeeps == ASSUME WalkInv, ExtractField PROVE WalkInv'
<1>1. result = "none" /\ todo # <<>> /\ How # "leave"
  BY Ready DEF ExtractField
<1>2. Fits(<<>>, At)
  BY NothingFits
<1> QED
  BY <1>1, <1>2, CreateKeeps DEF ExtractField, Kinds

LEMMA DeclaratorKeeps ==
  ASSUME WalkInv, result = "none", todo # <<>>, How # "leave", At \in Syntaxes,
         UNCHANGED <<tree, refs, result>>, Declarator(Children(At))
  PROVE  WalkInv'
<1>1. tree \in Trees /\ "function" \in WalkSteps /\ "scan" \in WalkSteps
  BY DEF WalkInv, WalkTypeOK, WalkSteps
<1>2. PICK vs : vs = Children(At)
  OBVIOUS
<1>3. Fits(Each("function", vs), At) /\ Fits(<<>>, At)
  BY <1>1, <1>2, ChildrenFit, NothingFits
<1>4. vs # <<>> => vs[1] \in Inside(At) /\ vs[1] \in Syntaxes /\ At \in Around(vs[1])
  BY <1>1, <1>2, FirstInside, InsideIsAround
<1>5. Declarator(vs)
  BY <1>2
<1>6. CASE vs = <<>>
  <2>1. Create(At, "constant") /\ Goes(<<>>) /\ UNCHANGED nodeStack
    BY <1>5, <1>6 DEF Declarator
  <2> QED
    BY <1>3, <2>1, CreateKeeps DEF Kinds
<1>7. CASE vs # <<>> /\ Type(vs[1]) \in FunctionTypes
  <2>1. Unnamed(Each("function", vs))
    BY <1>5, <1>7 DEF Declarator, FunctionTypes
  <2> QED
    BY <1>3, <2>1, UnnamedKeeps
<1>8. CASE vs # <<>> /\ Type(vs[1]) \notin FunctionTypes /\ Type(vs[1]) = "hoc"
  <2>1. PICK inner : inner = Those(vs[1], FunctionTypes)
    OBVIOUS
  <2>2. CASE inner = <<>>
    <3>1. Create(At, "component") /\ Goes(<<>>) /\ UNCHANGED nodeStack
      BY <1>5, <1>8, <2>1, <2>2 DEF Declarator
    <3> QED
      BY <1>3, <3>1, CreateKeeps DEF Kinds
  <2>3. CASE inner # <<>>
    <3>1. Declare(At, "component", Scans(inner[1]))
      BY <1>5, <1>8, <2>1, <2>3 DEF Declarator
    <3>2. inner[1] \in Inside(vs[1])
      BY <1>1, <1>4, <1>8, <2>1, <2>3, FirstInside
    <3>3. inner[1] \in Syntaxes /\ At \in Around(inner[1])
      BY <1>1, <1>4, <1>8, <3>2, InsideIsAround
    <3>4. Fits(Scans(inner[1]), inner[1])
      BY <1>1, <3>3, ChildrenFit DEF Scans
    <3>5. Fits(Scans(inner[1]), At)
      BY <1>1, <3>3, <3>4, FitsDeeper
    <3> QED
      BY <3>1, <3>5, DeclareKeeps DEF Kinds
  <2> QED
    BY <2>2, <2>3
<1>9. CASE vs # <<>> /\ Type(vs[1]) \notin FunctionTypes /\ Type(vs[1]) # "hoc"
  <2>1. PICK w : w = Initializer(vs[1], MethodsOf(At, vs[1])) \o Each("function", MethodsOf(At, vs[1]))
    OBVIOUS
  <2>2. Create(At, "constant") /\ Goes(w) /\ UNCHANGED nodeStack
    BY <1>5, <1>9, <2>1 DEF Declarator
  <2>3. Fits(w, At)
    BY <1>1, <1>4, <1>9, <2>1, DeclaratorFits
  <2> QED
    BY <2>2, <2>3, CreateKeeps DEF Kinds
<1> QED
  BY <1>6, <1>7, <1>8, <1>9

LEMMA ExtractVariableKeeps == ASSUME WalkInv, ExtractVariable PROVE WalkInv'
<1>1. result = "none" /\ todo # <<>> /\ How # "leave" /\ At \in Syntaxes
  BY Ready DEF ExtractVariable
<1>2. UNCHANGED <<tree, refs, result>>
  BY DEF ExtractVariable
<1>3. CASE Unnamed(<<>>)
  BY <1>1, <1>2, <1>3, NothingFits, UnnamedKeeps
<1>4. CASE Declarator(Children(At))
  BY <1>1, <1>2, <1>4, DeclaratorKeeps
<1> QED
  BY <1>3, <1>4 DEF ExtractVariable

LEMMA ExtractCallKeeps == ASSUME WalkInv, ExtractCall PROVE WalkInv'
<1>1. result = "none" /\ todo # <<>> /\ How \in WalkSteps /\ How # "leave" /\ At \in Syntaxes /\ tree \in Trees
  BY Ready DEF ExtractCall, Walking, WalkSteps
<1>2. PICK w : w = Each(How, Children(At))
  OBVIOUS
<1>3. Fits(w, At)
  BY <1>1, <1>2, ChildrenFit
<1>4. todo' = Unfold(w, At, 0, todo) /\ nodeStack' = Pushed(nodeStack, At, 0)
  BY <1>2 DEF ExtractCall, Goes, Unfold, Pushed
<1> QED
  BY <1>1, <1>3, <1>4, Handled DEF ExtractCall

LEMMA ExtractAnonymousKeeps == ASSUME WalkInv, ExtractAnonymous PROVE WalkInv'
<1>1. result = "none" /\ todo # <<>> /\ How # "leave" /\ At \in Syntaxes /\ tree \in Trees /\ "visit" \in WalkSteps
  BY Ready DEF ExtractAnonymous, Walking, WalkSteps
<1>2. PICK w : w = Each("visit", Those(At, MemberTypes))
  OBVIOUS
<1>3. Fits(w, At)
  BY <1>1, <1>2, ThoseFit
<1> QED
  BY <1>1, <1>2, <1>3, DeclareKeeps DEF ExtractAnonymous, Kinds

LEMMA WalkOnKeeps == ASSUME WalkInv, WalkOn PROVE WalkInv'
<1>1. result = "none" /\ todo # <<>> /\ How \in WalkSteps /\ How # "leave" /\ At \in Syntaxes /\ tree \in Trees
  <2>1. PICK how : how \in {{"visit"}, {"scan"}} /\ Busy(how)
    BY DEF WalkOn
  <2> QED
    BY <2>1, Ready DEF WalkSteps
<1>2. PICK w : w = Each(How, Children(At))
  OBVIOUS
<1>3. Fits(w, At)
  BY <1>1, <1>2, ChildrenFit
<1> QED
  BY <1>1, <1>2, <1>3, UnnamedKeeps DEF WalkOn

(* A step that only pops, or ends the walk, leaves the graph as it is.       *)
LEMMA GraphRests ==
  ASSUME WalkInv, UNCHANGED <<tree, nodes, contains, refs>>, result' \in {"none", "all", "part"},
         ToSet(nodeStack)' \subseteq ToSet(nodeStack),
         result' = "all" => nodeStack' = <<>>,
         result' = "none" => Books(todo, nodeStack, Known, Owners, Noted)'
  PROVE  WalkInv'
<1>1. Known' = Known /\ Owners' = Owners /\ Syntaxes' = Syntaxes
  BY DEF Known, Owners, Syntaxes
<1>2. WalkTypeOK'
  BY <1>1 DEF WalkInv, WalkTypeOK
<1>3. EndsExist'
  BY <1>1 DEF WalkInv, ExtractionIsSound, EndsExist
<1>4. OwnersAreInnermost'
  <2>1. Innermost'
    BY <1>1, InnermostMeans DEF WalkInv, ExtractionIsSound, Innermost
  <2>2. (Innermost <=> OwnersAreInnermost)'
    BY InnermostMeans, PTL
  <2> QED
    BY <2>1, <2>2
<1>5. OnceEach'
  BY DEF WalkInv, ExtractionIsSound, OnceEach
<1> QED
  BY <1>2, <1>3, <1>4, <1>5 DEF WalkInv, ExtractionIsSound, Ledger

LEMMA LeaveBodyKeeps == ASSUME WalkInv, LeaveBody PROVE WalkInv'
<1>1. /\ result = "none" /\ todo # <<>> /\ todo[1].how = "leave" /\ tree \in Trees
      /\ Books(todo, nodeStack, Known, Owners, Noted)
  BY DEF LeaveBody, Busy, How, WalkInv, WalkTypeOK, Ledger
<1>2. /\ nodeStack' = Front(nodeStack) /\ UNCHANGED <<tree, nodes, contains, refs, result>>
      /\ todo' = <<>> \o Tail(todo)
  BY DEF LeaveBody, Goes
<1>3. PICK td2, ns2, kn, ow, re : /\ td2 = Tail(todo) /\ ns2 = Front(nodeStack)
                                  /\ kn = Known /\ ow = Owners /\ re = Noted
  OBVIOUS
<1>4. Books(td2, ns2, kn, ow, re)
  BY <1>1, <1>3, BooksLeft
<1>5. todo' = td2 /\ nodeStack' = ns2 /\ kn = Known' /\ ow = Owners' /\ re = Noted'
  <2>1. td2 \in Seq(Items)
    BY <1>4 DEF Books
  <2>2. <<>> \o td2 = td2
    BY <2>1
  <2> QED
    BY <1>2, <1>3, <2>2 DEF Known, Owners, Noted
<1>6. Syntaxes' = Syntaxes /\ Items' = Items /\ \A m : Around(m)' = Around(m)
  BY <1>2 DEF Syntaxes, Items, Around
<1>7. Books(todo, nodeStack, Known, Owners, Noted)'
  BY <1>4, <1>5, <1>6 DEF Books, Leaves, Pending, Anchors, Apart
<1>8. ToSet(nodeStack)' \subseteq ToSet(nodeStack)
  <2>1. nodeStack \in Seq(Syntaxes)
    BY <1>1 DEF Books
  <2>2. nodeStack # <<>>
    <3>1. ToSet(nodeStack) = Anchors(todo, 0) /\ 1 \in Anchors(todo, 0)
      BY <1>1 DEF Books, Anchors
    <3> QED
      BY <3>1 DEF ToSet
  <2>3. /\ ns2 \in Seq(Syntaxes) /\ Len(ns2) = Len(nodeStack) - 1 /\ Len(nodeStack) \in Nat \ {0}
        /\ \A i \in 1..Len(nodeStack) - 1 : ns2[i] = nodeStack[i]
    BY <1>3, <2>1, <2>2, Popped
  <2>4. DOMAIN ns2 = 1..Len(nodeStack) - 1 /\ DOMAIN nodeStack = 1..Len(nodeStack)
    BY <2>1, <2>3, Elements
  <2> QED
    BY <1>5, <2>3, <2>4 DEF ToSet
<1> QED
  BY <1>1, <1>2, <1>7, <1>8, GraphRests

LEMMA ReturnsKeeps == ASSUME WalkInv, Returns PROVE WalkInv'
<1>1. /\ Books(todo, nodeStack, Known, Owners, Noted) /\ todo = <<>>
      /\ nodeStack' = Front(nodeStack) /\ result' = "all" /\ UNCHANGED <<tree, nodes, contains, refs>>
  BY DEF Returns, WalkInv, Ledger
<1>2. nodeStack \in Seq(Syntaxes) /\ \A i, j \in DOMAIN nodeStack : i < j => nodeStack[i] < nodeStack[j]
  BY <1>1 DEF Books
<1>3. ToSet(nodeStack) = {1}
  BY <1>1 DEF Books, Anchors, Leaves
<1>4. DOMAIN nodeStack = 1..Len(nodeStack) /\ Len(nodeStack) \in Nat /\ \A i \in 1..Len(nodeStack) : nodeStack[i] = 1
  BY <1>2, <1>3, Elements DEF ToSet
<1>5. nodeStack # <<>> /\ ~(Len(nodeStack) > 1)
  <2>1. nodeStack # <<>>
    BY <1>3 DEF ToSet
  <2>2. Len(nodeStack) > 1 => 1 \in DOMAIN nodeStack /\ 2 \in DOMAIN nodeStack
    BY <1>4
  <2> QED
    BY <1>2, <1>4, <2>1, <2>2
<1>6. Len(nodeStack) = 1
  BY <1>2, <1>4, <1>5
<1>7. nodeStack' \in Seq(Syntaxes) /\ Len(nodeStack') = 0
  BY <1>1, <1>2, <1>5, <1>6, Popped
<1>8. nodeStack' = <<>>
  BY <1>7
<1>9. ToSet(nodeStack)' = {}
  BY <1>8 DEF ToSet
<1> QED
  BY <1>1, <1>8, <1>9, GraphRests

LEMMA ThrowsKeeps == ASSUME WalkInv, Throws PROVE WalkInv'
BY GraphRests DEF Throws

LEMMA WalkKeeps == ASSUME WalkInv, [WalkNext]_syntax PROVE WalkInv'
<1>1. CASE UNCHANGED syntax
  <2>1. UNCHANGED <<tree, todo, nodeStack, nodes, contains, refs, result>>
    BY <1>1 DEF syntax
  <2>2. Ledger => Ledger'
    <3>1. PICK td, ns, kn, ow, re : td = todo /\ ns = nodeStack /\ kn = Known /\ ow = Owners /\ re = Noted
      OBVIOUS
    <3>2. td = todo' /\ ns = nodeStack' /\ kn = Known' /\ ow = Owners' /\ re = Noted'
      BY <2>1, <3>1 DEF Known, Owners, Noted
    <3>3. Syntaxes' = Syntaxes /\ Items' = Items /\ \A m : Around(m)' = Around(m)
      BY <2>1 DEF Syntaxes, Items, Around
    <3> QED
      BY <3>1, <3>2, <3>3 DEF Ledger, Books, Leaves, Pending, Anchors, Apart
  <2> QED
    BY <2>1, <2>2, GraphRests DEF Ledger, WalkInv, WalkTypeOK, ExtractionIsSound
<1>2. CASE WalkNext
  BY <1>2, ExtractFunctionKeeps, ExtractClassKeeps, ExtractMethodKeeps, ExtractPropertyKeeps, ExtractFieldKeeps, ExtractVariableKeeps,
     ExtractCallKeeps, ExtractAnonymousKeeps, WalkOnKeeps, LeaveBodyKeeps, ReturnsKeeps, ThrowsKeeps DEF WalkNext
<1> QED
  BY <1>1, <1>2

(* Whatever the file, whatever its extractors nest, and wherever the walk is *)
(* cut short: all that is recorded is recorded once, by nodes that exist,    *)
(* and is its innermost declaration's.                                     *)
THEOREM WalkStaysSound == WalkSpec => []ExtractionIsSound
<1>1. WalkSpec => []WalkInv
  BY WalkStarts, WalkKeeps, PTL DEF WalkSpec
<1>2. WalkInv => ExtractionIsSound
  BY DEF WalkInv
<1> QED
  BY <1>1, <1>2, PTL

-----------------------------------------------------------------------------
(* The calls that are seen                                                 *)

Recordable == {n \in Syntaxes : Type(n) \in CallTypes \cup {"new", "anon"}}

(* n is in a part of m that the extractor of m does not walk: if m has been  *)
(* made a component, if it has been made a constant, or whatever it is made. *)
CutByComponent(m, n) == ~In(n, First(Those(Children(m)[1], FunctionTypes)))
CutByConstant(m, n) == /\ ~In(n, MethodsOf(m, Children(m)[1]))
                       /\ Type(Children(m)[1]) = "object" \/ MethodsOf(m, Children(m)[1]) # <<>>
CutByType(m, n) ==
  \/ Type(m) = "pattern" /\ \A k \in Around(m) : Type(k) \in {"file", "other"}
  \/ Type(m) = "field" /\ Callables(m) # <<>> /\ ~In(n, First(Callables(m)))
  \/ Type(m) = "anon" /\ ~In(n, Those(m, MemberTypes))
  \/ Type(m) = "javaField"

(* n is in such a part, where cs have been made components, and ks constants. *)
Skips(m, n, cs, ks) ==
  \/ m \in cs /\ CutByComponent(m, n)
  \/ m \in ks /\ CutByConstant(m, n)
  \/ CutByType(m, n)
Skipped(n, cs, ks) == \E m \in Around(n) : Skips(m, n, cs, ks)

(* w has a call of n, or of something around it                             *)
Comes(n, w) == \E i \in DOMAIN w : w[i].how # "leave" /\ (w[i].at = n \/ w[i].at \in Around(n))

(* The types below which visitNode goes on without a declaration.           *)
Outer == {"file", "other", "object", "pair", "new"} \cup CallTypes

(* What has been seen, what has been left out, and by which walker the rest  *)
(* is going to be walked; cl have been made classes.                       *)
Seen(td, cs, ks, cl, re) ==
  /\ \A n \in Recordable : n \in re \/ Skipped(n, cs, ks) \/ Comes(n, td)
  /\ \A n \in re : ~Skipped(n, cs, ks)
  /\ \A i \in Pending(td) : ~Skipped(td[i].at, cs, ks)
  /\ \A i \in Pending(td) : td[i].how # "visit" => \E k \in Around(td[i].at) : Type(k) \notin {"file", "other"}
  /\ \A i \in Pending(td) : td[i].how = "visit" =>
       Max(Anchors(td, i)) \in cl \/ \A k \in Around(td[i].at) : Type(k) \in Outer
  /\ \A i \in Pending(td) : td[i].how = "function" => Type(td[i].at) \in FunctionTypes \cup {"shorthand"}
  /\ \A m \in cl : Type(m) \in {"class", "anon"}

(* The node n, made a node of kind `kind`, is left with w to be walked of it; *)
(* what is not in w is left out.                                           *)
Cuts(n, x, kind) ==
  \/ kind = "component" /\ CutByComponent(n, x)
  \/ kind = "constant" /\ CutByConstant(n, x)
  \/ CutByType(n, x)

Follows(n, w, kind) ==
  /\ \A x \in Recordable : n \in Around(x) => Comes(x, w) \/ Cuts(n, x, kind)
  /\ \A i \in DOMAIN w : /\ ~Cuts(n, w[i].at, kind)
                         /\ \A m \in Around(w[i].at) : n \in Around(m) => Type(m) \notin {"pattern", "field", "javaField", "anon"}
  /\ \A i \in DOMAIN w : w[i].how = "function" => Type(w[i].at) \in FunctionTypes \cup {"shorthand"}

(* The walker that goes on below n is the right one.                        *)
Guided(td, n, w, d, kind, cl) ==
  /\ \A i \in DOMAIN w : w[i].how # "visit" => \E k \in Around(w[i].at) : Type(k) \notin {"file", "other"}
  /\ \A i \in DOMAIN w : w[i].how = "visit" =>
       \/ d = 1 /\ kind = "class"
       \/ d = 0 /\ Max(Anchors(td, 1)) \in cl
       \/ \A k \in Around(w[i].at) : Type(k) \in Outer
  /\ kind = "class" => Type(n) \in {"class", "anon"}

(* S with n, if n is made of the kind S is of.                              *)
With(S, n, kind, k) == IF kind = k THEN S \cup {n} ELSE S

(* Where the pending calls go when the first gives way to w.                *)
Moved(td, td2, w, n, d) ==
  /\ \A j \in Pending(td2) :
       \/ /\ j \in DOMAIN w /\ td2[j] = w[j]
          /\ Anchors(td2, j) = Anchors(td, 1) \cup (IF d = 1 THEN {n} ELSE {})
       \/ \E i \in Pending(td) \ {1} : td2[j] = td[i] /\ Anchors(td2, j) = Anchors(td, i)
  /\ \A i \in DOMAIN w : i \in Pending(td2) /\ td2[i] = w[i]
  /\ \A i \in Pending(td) \ {1} : \E j \in Pending(td2) : td2[j] = td[i]

LEMMA PendingMoves ==
  ASSUME NEW td \in Seq(Items), td # <<>>, td[1].how # "leave",
         NEW n \in Syntaxes, NEW w \in Seq(Calls), NEW d \in {0, 1},
         NEW td2, td2 = Unfold(w, n, d, td)
  PROVE  Moved(td, td2, w, n, d)
<1>1. PICK L : L = Len(w) + d
  OBVIOUS
<1>2. Unfolds(td, td2, w, n, d, L)
  BY <1>1, Unfolded
<1>3. /\ td2 \in Seq(Items) /\ Len(td2) = L + Len(td) - 1
      /\ \A i \in 1..Len(w) : td2[i] = w[i]
      /\ d = 1 => td2[Len(w) + 1] = [how |-> "leave", at |-> n]
      /\ \A i \in 2..Len(td) : L + i - 1 \in DOMAIN td2 /\ td2[L + i - 1] = td[i]
      /\ \A j \in DOMAIN td2 : j > L => j - L + 1 \in 2..Len(td) /\ td2[j] = td[j - L + 1]
      /\ \A i \in 2..Len(td) : Anchors(td2, L + i - 1) = Anchors(td, i)
      /\ \A i \in 0..Len(w) : Anchors(td2, i) = Anchors(td, 1) \cup (IF d = 1 THEN {n} ELSE {})
  BY <1>2 DEF Unfolds
<1>4. /\ Len(w) \in Nat /\ L \in Nat /\ L >= Len(w) /\ L = Len(w) + d
      /\ DOMAIN td = 1..Len(td) /\ Len(td) \in Nat \ {0} /\ DOMAIN td2 = 1..Len(td2) /\ Len(td2) \in Nat
      /\ DOMAIN w = 1..Len(w)
  <2>1. Len(td) # 0
    OBVIOUS
  <2> QED
    BY <2>1, <1>1, <1>3, Elements
<1>5. ASSUME NEW j \in Pending(td2)
      PROVE  \/ /\ j \in DOMAIN w /\ td2[j] = w[j]
                /\ Anchors(td2, j) = Anchors(td, 1) \cup (IF d = 1 THEN {n} ELSE {})
             \/ \E i \in Pending(td) \ {1} : td2[j] = td[i] /\ Anchors(td2, j) = Anchors(td, i)
  <2>1. j \in 1..Len(td2) /\ td2[j].how # "leave"
    BY <1>4 DEF Pending
  <2>2. CASE j <= Len(w)
    BY <2>1, <2>2, <1>3, <1>4
  <2>3. CASE j > L
    <3>0. j - L + 1 \in 2..Len(td) /\ td2[j] = td[j - L + 1] /\ L + (j - L + 1) - 1 = j
      <4>1. j \in DOMAIN td2 /\ j \in Nat /\ L \in Nat
        BY <2>1, <1>4
      <4>2. L + (j - L + 1) - 1 = j
        BY <4>1
      <4> QED
        BY <4>1, <4>2, <2>3, <1>3
    <3>1. PICK i \in 2..Len(td) : i = j - L + 1 /\ td2[j] = td[i] /\ L + i - 1 = j
      BY <3>0
    <3>2. i \in DOMAIN td /\ td[i].how # "leave" /\ i # 1
      BY <2>1, <3>1, <1>4
    <3>3. Anchors(td2, j) = Anchors(td, i)
      BY <3>1, <1>3
    <3> QED
      BY <3>1, <3>2, <3>3 DEF Pending
  <2>4. CASE j > Len(w) /\ j <= L
    BY <2>1, <2>4, <1>3, <1>4
  <2>5. j <= Len(w) \/ j > L \/ (j > Len(w) /\ j <= L)
    BY <2>1, <1>4
  <2> QED
    BY <2>2, <2>3, <2>4, <2>5
<1>6. ASSUME NEW i \in DOMAIN w PROVE i \in Pending(td2) /\ td2[i] = w[i]
  <2>1. i \in 1..Len(td2) /\ td2[i] = w[i]
    BY <1>3, <1>4
  <2>2. w[i] \in Calls
    BY <1>4, Elements
  <2>3. w[i].how # "leave"
    BY <2>2 DEF Calls, WalkSteps
  <2> QED
    BY <2>1, <2>3, <1>4 DEF Pending
<1>7. ASSUME NEW i \in Pending(td) \ {1} PROVE \E j \in Pending(td2) : td2[j] = td[i]
  <2>1. i \in 2..Len(td) /\ td[i].how # "leave"
    BY <1>4 DEF Pending
  <2>2. L + i - 1 \in DOMAIN td2 /\ td2[L + i - 1] = td[i]
    BY <2>1, <1>3
  <2> QED
    BY <2>1, <2>2 DEF Pending
<1> QED
  BY <1>5, <1>6, <1>7 DEF Moved

(* Where they go when the first, a leave, is taken.                         *)
MovedUp(td, td2) ==
  /\ \A j \in Pending(td2) : \E i \in Pending(td) : td2[j] = td[i] /\ Anchors(td2, j) = Anchors(td, i)
  /\ \A i \in Pending(td) : \E j \in Pending(td2) : td2[j] = td[i]

LEMMA PendingMovesUp ==
  ASSUME NEW td \in Seq(Items), td # <<>>, td[1].how = "leave"
  PROVE  MovedUp(td, Tail(td))
<1>1. PICK td2 : td2 = Tail(td)
  OBVIOUS
<1>4. /\ td2 \in Seq(Items) /\ Len(td2) = Len(td) - 1 /\ Len(td) \in Nat \ {0}
      /\ \A i \in 1..Len(td) - 1 : td2[i] = td[i + 1]
      /\ DOMAIN td = 1..Len(td) /\ DOMAIN td2 = 1..Len(td) - 1
  BY <1>1, Rest, Elements
<1>6. \A i \in Leaves(td2) : i \in Nat /\ i + 1 \in Leaves(td) /\ td2[i] = td[i + 1]
  BY <1>4 DEF Leaves
<1>7. \A k \in Leaves(td) : k \in Nat /\ (k > 1 => k - 1 \in Leaves(td2) /\ td2[k - 1] = td[k])
  <2> SUFFICES ASSUME NEW k \in Leaves(td)
               PROVE  k \in Nat /\ (k > 1 => k - 1 \in Leaves(td2) /\ td2[k - 1] = td[k])
    OBVIOUS
  <2>1. k \in 1..Len(td) /\ td[k].how = "leave"
    BY <1>4 DEF Leaves
  <2>2. k > 1 => k - 1 \in 1..Len(td) - 1 /\ (k - 1) + 1 = k
    BY <2>1, <1>4
  <2> QED
    BY <2>1, <2>2, <1>4 DEF Leaves
<1>8. ASSUME NEW i \in Nat PROVE Anchors(td2, i) = Anchors(td, i + 1)
  <2>1. ASSUME NEW k \in Leaves(td), k > i + 1 PROVE td[k].at \in Anchors(td2, i)
    <3>1. k - 1 \in {l \in Leaves(td2) : l > i} /\ td2[k - 1].at = td[k].at
      BY <1>7, <2>1
    <3> QED
      BY <3>1 DEF Anchors
  <2>2. ASSUME NEW k \in Leaves(td2), k > i PROVE td2[k].at \in Anchors(td, i + 1)
    <3>1. k + 1 \in {l \in Leaves(td) : l > i + 1} /\ td2[k].at = td[k + 1].at
      BY <1>6, <2>2
    <3> QED
      BY <3>1 DEF Anchors
  <2> QED
    BY <2>1, <2>2 DEF Anchors
<1>9. ASSUME NEW j \in Pending(td2)
      PROVE  \E i \in Pending(td) : td2[j] = td[i] /\ Anchors(td2, j) = Anchors(td, i)
  <2>1. j \in 1..Len(td) - 1 /\ td2[j].how # "leave"
    BY <1>4 DEF Pending
  <2>2. j + 1 \in Pending(td) /\ td2[j] = td[j + 1] /\ j \in Nat
    BY <2>1, <1>4 DEF Pending
  <2> QED
    BY <2>2, <1>8
<1>10. ASSUME NEW i \in Pending(td) PROVE \E j \in Pending(td2) : td2[j] = td[i]
  <2>1. i \in 1..Len(td) /\ td[i].how # "leave"
    BY <1>4 DEF Pending
  <2>2. i # 1
    BY <2>1
  <2>3. PICK j \in 1..Len(td) - 1 : j + 1 = i
    BY <1>4, <2>1, <2>2
  <2>4. td2[j] = td[i]
    BY <1>4, <2>3
  <2> QED
    BY <2>1, <2>3, <2>4, <1>4 DEF Pending
<1> QED
  BY <1>1, <1>9, <1>10 DEF MovedUp

LEMMA GreatestIsMax ==
  ASSUME NEW A, NEW n \in A, \A m \in A : m \in Nat /\ m <= n
  PROVE  Max(A) = n
BY DEF Max

(* A part cut off above a node is cut off below it.                         *)
LEMMA InDeeper ==
  ASSUME tree \in Trees, NEW n \in Syntaxes, NEW x \in Syntaxes, n \in Around(x), NEW ms, In(n, ms)
  PROVE  In(x, ms)
<1>1. PICK m \in ToSet(ms) : m = n \/ m \in Around(n)
  BY DEF In
<1>2. m \in Around(x)
  BY <1>1, AroundIsClosed
<1> QED
  BY <1>1, <1>2 DEF In

LEMMA SkipsDeeper ==
  ASSUME tree \in Trees, NEW n \in Syntaxes, NEW x \in Syntaxes, n \in Around(x),
         NEW m, NEW cs, NEW ks, Skips(m, x, cs, ks)
  PROVE  Skips(m, n, cs, ks)
<1>1. \A ms : ~In(x, ms) => ~In(n, ms)
  BY InDeeper
<1> QED
  BY <1>1 DEF Skips, CutByComponent, CutByConstant, CutByType

(* What the node is made skips what it cuts.                                *)
LEMMA SkipsWhatIsCut ==
  ASSUME NEW n, NEW cs, NEW ks, n \notin cs \cup ks, NEW kind,
         NEW cs2, cs2 = With(cs, n, kind, "component"),
         NEW ks2, ks2 = With(ks, n, kind, "constant")
  PROVE  /\ \A x : Skips(n, x, cs2, ks2) <=> Cuts(n, x, kind)
         /\ \A m, x : m # n => (Skips(m, x, cs2, ks2) <=> Skips(m, x, cs, ks))
<1>1. (n \in cs2 <=> kind = "component") /\ (n \in ks2 <=> kind = "constant")
  BY DEF With
<1>2. \A m : m # n => (m \in cs2 <=> m \in cs) /\ (m \in ks2 <=> m \in ks)
  BY DEF With
<1>3. ASSUME NEW x PROVE Skips(n, x, cs2, ks2) <=> Cuts(n, x, kind)
  BY <1>1 DEF Skips, Cuts
<1>4. ASSUME NEW m, NEW x, m # n PROVE Skips(m, x, cs2, ks2) <=> Skips(m, x, cs, ks)
  BY <1>2, <1>4 DEF Skips
<1> QED
  BY <1>3, <1>4

(* The books of what has been seen, too.                                    *)
FullBooks(td, ns, kn, ow, re, cs, ks, cl) ==
  Books(td, ns, kn, ow, re) /\ cs \subseteq kn /\ ks \subseteq kn /\ Seen(td, cs, ks, cl, re)

(* The first call of td is handled well, and its node recorded if it has to be. *)
HandledWell(td, w, n, d, kind, cl, re, re2) ==
  /\ td # <<>> /\ td[1].how # "leave" /\ n = td[1].at
  /\ Fits(w, n) /\ d \in {0, 1} /\ Follows(n, w, kind) /\ Guided(td, n, w, d, kind, cl)
  /\ re2 \in {re, re \cup {n}} /\ (n \in Recordable => n \in re2)

(* When its node is handled, and the extractor left out only what it leaves  *)
(* out, what is seen and what is to come is still all there is.             *)
LEMMA SeenKept ==
  ASSUME tree \in Trees,
         NEW td, NEW ns, NEW kn, NEW ow, NEW re, NEW cs, NEW ks, NEW cl, FullBooks(td, ns, kn, ow, re, cs, ks, cl),
         NEW w, NEW n, NEW d, NEW kind, NEW re2, HandledWell(td, w, n, d, kind, cl, re, re2)
  PROVE  Seen(Unfold(w, n, d, td), With(cs, n, kind, "component"), With(ks, n, kind, "constant"),
              With(cl, n, kind, "class"), re2)
<1>a. /\ Books(td, ns, kn, ow, re) /\ cs \subseteq kn /\ ks \subseteq kn /\ Seen(td, cs, ks, cl, re)
      /\ td # <<>> /\ td[1].how # "leave" /\ n = td[1].at
      /\ Fits(w, n) /\ d \in {0, 1} /\ Follows(n, w, kind) /\ Guided(td, n, w, d, kind, cl)
      /\ re2 \in {re, re \cup {n}} /\ (n \in Recordable => n \in re2)
  BY DEF FullBooks, HandledWell
<1>b. PICK cs2, ks2, cl2 : /\ cs2 = With(cs, n, kind, "component") /\ ks2 = With(ks, n, kind, "constant")
                            /\ cl2 = With(cl, n, kind, "class")
  OBVIOUS
<1> USE <1>a, <1>b
<1>1. /\ 1 \in Pending(td) /\ n \in Syntaxes \ {1} /\ n \notin kn \cup re
      /\ \A m \in kn \cup re : n \notin Around(m)
      /\ \A m \in Anchors(td, 1) : m \in Nat /\ m < n
  BY FirstIsNew
<1>2. PICK td2 : td2 = Unfold(w, n, d, td)
  OBVIOUS
<1>3. td \in Seq(Items) /\ w \in Seq(Calls) /\ kn \subseteq Syntaxes /\ re \subseteq Syntaxes
  BY DEF Books, Fits
<1>4. Moved(td, td2, w, n, d)
  <2>1. n \in Syntaxes
    BY <1>1
  <2> QED
    BY <2>1, <1>2, <1>3, PendingMoves
<1>5. /\ \A x : Skips(n, x, cs2, ks2) <=> Cuts(n, x, kind)
      /\ \A m, x : m # n => (Skips(m, x, cs2, ks2) <=> Skips(m, x, cs, ks))
  <2>1. n \notin cs \cup ks
    BY <1>1
  <2> QED
    BY <2>1, SkipsWhatIsCut
<1>6. ASSUME NEW i \in Pending(td) PROVE td[i].at \in Syntaxes /\ td[i].how \in WalkSteps
  <2>1. i \in 1..Len(td) /\ td[i].how # "leave"
    BY <1>3, Elements DEF Pending
  <2>2. td[i] \in Items
    BY <2>1, <1>3, Elements
  <2> QED
    BY <2>1, <2>2 DEF Items, WalkSteps
<1>7. ASSUME NEW i \in DOMAIN w PROVE w[i].at \in Syntaxes /\ w[i].how # "leave" /\ n \in Around(w[i].at)
  <2>1. w[i] \in Calls
    BY <1>3, Elements
  <2> QED
    BY <2>1 DEF Calls, WalkSteps, Fits
<1>8. ASSUME NEW x \in Syntaxes, n \notin Around(x) PROVE Skipped(x, cs2, ks2) <=> Skipped(x, cs, ks)
  BY <1>5, <1>8 DEF Skipped
<1>9. ASSUME NEW x \in Syntaxes, Skipped(x, cs, ks) PROVE Skipped(x, cs2, ks2)
  <2>1. PICK m \in Around(x) : Skips(m, x, cs, ks)
    BY <1>9 DEF Skipped
  <2>3. CASE m # n
    BY <2>1, <2>3, <1>5 DEF Skipped
  <2>4. CASE m = n
    <3>1. m \notin cs /\ m \notin ks
      BY <2>4, <1>1
    <3>2. Skips(m, x, cs2, ks2)
      BY <2>1, <3>1 DEF Skips
    <3> QED
      BY <2>1, <3>2 DEF Skipped
  <2> QED
    BY <2>3, <2>4
<1>10. ASSUME NEW x \in Recordable PROVE x \in re2 \/ Skipped(x, cs2, ks2) \/ Comes(x, td2)
  <2>0. x \in Syntaxes
    BY DEF Recordable
  <2>1. x \in re \/ Skipped(x, cs, ks) \/ Comes(x, td)
    BY DEF Seen
  <2>2. CASE x \in re
    BY <2>2
  <2>3. CASE Skipped(x, cs, ks)
    BY <2>0, <2>3, <1>9
  <2>4. CASE Comes(x, td)
    <3>1. PICK i \in DOMAIN td : td[i].how # "leave" /\ (td[i].at = x \/ td[i].at \in Around(x))
      BY <2>4 DEF Comes
    <3>2. i \in Pending(td)
      BY <3>1 DEF Pending
    <3>3. CASE i # 1
      <4>1. PICK j \in Pending(td2) : td2[j] = td[i]
        BY <3>2, <3>3, <1>4 DEF Moved
      <4> QED
        BY <3>1, <4>1 DEF Comes, Pending
    <3>4. CASE i = 1 /\ x = n
      BY <3>4
    <3>5. CASE i = 1 /\ n \in Around(x)
      <4>1. Comes(x, w) \/ Cuts(n, x, kind)
        BY <3>5 DEF Follows
      <4>2. CASE Comes(x, w)
        <5>1. PICK j \in DOMAIN w : w[j].how # "leave" /\ (w[j].at = x \/ w[j].at \in Around(x))
          BY <4>2 DEF Comes
        <5>2. j \in Pending(td2) /\ td2[j] = w[j]
          BY <1>4 DEF Moved
        <5> QED
          BY <5>1, <5>2 DEF Comes, Pending
      <4>3. CASE Cuts(n, x, kind)
        BY <3>5, <4>3, <1>5 DEF Skipped
      <4> QED
        BY <4>1, <4>2, <4>3
    <3> QED
      BY <3>1, <3>3, <3>4, <3>5
  <2> QED
    BY <2>1, <2>2, <2>3, <2>4
<1>11. ASSUME NEW x \in re2 PROVE ~Skipped(x, cs2, ks2)
  <2>1. x \in Syntaxes /\ n \notin Around(x)
    <3>1. n \notin Around(n)
      BY <1>1, AroundIsBefore, TreeShape
    <3> QED
      BY <3>1, <1>1, <1>3
  <2>2. ~Skipped(x, cs, ks)
    <3>1. ~Skipped(n, cs, ks)
      BY <1>1 DEF Seen
    <3> QED
      BY <3>1 DEF Seen
  <2> QED
    BY <2>1, <2>2, <1>8
<1>12. ASSUME NEW i \in DOMAIN w PROVE ~Skipped(w[i].at, cs2, ks2)
  <2> DEFINE a == w[i].at
  <2>1. a \in Syntaxes /\ n \in Around(a)
    BY <1>7
  <2>2. /\ ~Cuts(n, a, kind)
        /\ \A m \in Around(a) : n \in Around(m) => Type(m) \notin {"pattern", "field", "javaField", "anon"}
    BY DEF Follows
  <2> HIDE DEF a
  <2>3. ASSUME NEW m \in Around(a), Skips(m, a, cs2, ks2) PROVE FALSE
    <3>1. CASE m = n
      BY <2>2, <2>3, <3>1, <1>5
    <3>2. CASE n \in Around(m)
      <4>1. m \notin cs /\ m \notin ks /\ m # n
        <5>1. m \notin kn
          BY <3>2, <1>1
        <5>2. n \notin Around(n)
          BY <1>1, AroundIsBefore, TreeShape
        <5> QED
          BY <3>2, <5>1, <5>2
      <4>2. Type(m) \notin {"pattern", "field", "javaField", "anon"}
        BY <2>2, <3>2
      <4> QED
        BY <2>3, <4>1, <4>2, <1>5 DEF Skips, CutByType
    <3>3. CASE m \in Around(n)
      <4>1. m # n
        BY <3>3, <1>1, AroundIsBefore, TreeShape
      <4>2. Skips(m, a, cs, ks)
        BY <2>3, <4>1, <1>5
      <4>3. Skips(m, n, cs, ks)
        BY <2>1, <4>2, <1>1, SkipsDeeper
      <4>4. Skipped(n, cs, ks)
        BY <3>3, <4>3 DEF Skipped
      <4> QED
        BY <4>4, <1>1 DEF Seen
    <3> QED
      BY <2>1, <3>1, <3>2, <3>3, AroundIsChain
  <2> QED
    BY <2>3 DEF Skipped, a
<1>13. ASSUME NEW j \in Pending(td2)
       PROVE  /\ ~Skipped(td2[j].at, cs2, ks2)
              /\ td2[j].how # "visit" => \E k \in Around(td2[j].at) : Type(k) \notin {"file", "other"}
              /\ td2[j].how = "visit" =>
                   Max(Anchors(td2, j)) \in cl2 \/ \A k \in Around(td2[j].at) : Type(k) \in Outer
              /\ td2[j].how = "function" => Type(td2[j].at) \in FunctionTypes \cup {"shorthand"}
  <2>1. CASE \E i \in Pending(td) \ {1} : td2[j] = td[i] /\ Anchors(td2, j) = Anchors(td, i)
    <3>1. PICK i \in Pending(td) \ {1} : td2[j] = td[i] /\ Anchors(td2, j) = Anchors(td, i)
      BY <2>1
    <3>2. /\ ~Skipped(td[i].at, cs, ks)
          /\ td[i].how # "visit" => \E k \in Around(td[i].at) : Type(k) \notin {"file", "other"}
          /\ td[i].how = "visit" =>
               Max(Anchors(td, i)) \in cl \/ \A k \in Around(td[i].at) : Type(k) \in Outer
          /\ td[i].how = "function" => Type(td[i].at) \in FunctionTypes \cup {"shorthand"}
      BY DEF Seen
    <3>3. n \notin Around(td[i].at)
      <4>1. Apart(td[1].at, td[i].at)
        BY <1>1 DEF Books
      <4> QED
        BY <4>1 DEF Apart
    <3>4. ~Skipped(td[i].at, cs2, ks2)
      BY <3>2, <3>3, <1>6, <1>8
    <3>5. cl \subseteq cl2
      BY DEF With
    <3> QED
      BY <3>1, <3>2, <3>4, <3>5
  <2>2. CASE /\ j \in DOMAIN w /\ td2[j] = w[j]
             /\ Anchors(td2, j) = Anchors(td, 1) \cup (IF d = 1 THEN {n} ELSE {})
    <3>1. ~Skipped(w[j].at, cs2, ks2)
      BY <2>2, <1>12
    <3>2. w[j].how = "function" => Type(w[j].at) \in FunctionTypes \cup {"shorthand"}
      BY <2>2 DEF Follows
    <3>3. w[j].how # "visit" => \E k \in Around(w[j].at) : Type(k) \notin {"file", "other"}
      BY <2>2 DEF Guided
    <3>4. w[j].how = "visit" => Max(Anchors(td2, j)) \in cl2 \/ \A k \in Around(w[j].at) : Type(k) \in Outer
      <4>1. w[j].how = "visit" =>
              \/ d = 1 /\ kind = "class"
              \/ d = 0 /\ Max(Anchors(td, 1)) \in cl
              \/ \A k \in Around(w[j].at) : Type(k) \in Outer
        <5>1. \A i \in DOMAIN w : w[i].how = "visit" =>
                \/ d = 1 /\ kind = "class"
                \/ d = 0 /\ Max(Anchors(td, 1)) \in cl
                \/ \A k \in Around(w[i].at) : Type(k) \in Outer
          BY DEF Guided
        <5> QED
          BY <5>1, <2>2
      <4>2. CASE d = 1 /\ kind = "class"
        <5>1. PICK A : A = Anchors(td2, j)
          OBVIOUS
        <5>2. n \in A /\ n \in Nat /\ \A m \in A : m \in Nat /\ m <= n
          BY <4>2, <5>1, <2>2, <1>1, TreeShape
        <5>3. Max(A) = n
          BY <5>2, GreatestIsMax
        <5> QED
          BY <4>2, <5>1, <5>3 DEF With
      <4>3. CASE d = 0 /\ Max(Anchors(td, 1)) \in cl
        <5>1. Anchors(td2, j) = Anchors(td, 1)
          BY <2>2, <4>3
        <5> QED
          BY <4>3, <5>1 DEF With
      <4> QED
        BY <4>1, <4>2, <4>3
    <3> QED
      BY <2>2, <3>1, <3>2, <3>3, <3>4
  <2> QED
    BY <2>1, <2>2, <1>4 DEF Moved
<1>14. \A m \in cl2 : Type(m) \in {"class", "anon"}
  BY DEF Seen, Guided, With
<1> QED
  BY <1>2, <1>10, <1>11, <1>13, <1>14 DEF Seen

LEMMA SeenLeft ==
  ASSUME NEW td \in Seq(Items), td # <<>>, td[1].how = "leave",
         NEW cs, NEW ks, NEW cl, NEW re, Seen(td, cs, ks, cl, re)
  PROVE  Seen(Tail(td), cs, ks, cl, re)
<1>1. PICK td2 : td2 = Tail(td)
  OBVIOUS
<1>2. MovedUp(td, td2)
  BY <1>1, PendingMovesUp
<1>3. ASSUME NEW x \in Recordable PROVE x \in re \/ Skipped(x, cs, ks) \/ Comes(x, td2)
  <2>1. CASE Comes(x, td)
    <3>1. PICK i \in DOMAIN td : td[i].how # "leave" /\ (td[i].at = x \/ td[i].at \in Around(x))
      BY <2>1 DEF Comes
    <3>2. PICK j \in Pending(td2) : td2[j] = td[i]
      BY <3>1, <1>2 DEF MovedUp, Pending
    <3> QED
      BY <3>1, <3>2 DEF Comes, Pending
  <2> QED
    BY <2>1 DEF Seen
<1>4. ASSUME NEW j \in Pending(td2)
      PROVE  /\ ~Skipped(td2[j].at, cs, ks)
             /\ td2[j].how # "visit" => \E k \in Around(td2[j].at) : Type(k) \notin {"file", "other"}
             /\ td2[j].how = "visit" =>
                  Max(Anchors(td2, j)) \in cl \/ \A k \in Around(td2[j].at) : Type(k) \in Outer
             /\ td2[j].how = "function" => Type(td2[j].at) \in FunctionTypes \cup {"shorthand"}
  <2>1. PICK i \in Pending(td) : td2[j] = td[i] /\ Anchors(td2, j) = Anchors(td, i)
    BY <1>2 DEF MovedUp
  <2> QED
    BY <2>1 DEF Seen
<1> QED
  BY <1>1, <1>3, <1>4 DEF Seen

(* The tree is only read, and with it all that the walk asks of it.         *)
LEMMA SameTree ==
  ASSUME UNCHANGED tree
  PROVE  /\ Syntaxes' = Syntaxes /\ Recordable' = Recordable /\ Items' = Items
         /\ \A n : Type(n)' = Type(n) /\ Around(n)' = Around(n)
         /\ \A m, n : /\ CutByComponent(m, n)' <=> CutByComponent(m, n)
                      /\ CutByConstant(m, n)' <=> CutByConstant(m, n)
                      /\ CutByType(m, n)' <=> CutByType(m, n)
<1>1. Syntaxes' = Syntaxes /\ \A n : Type(n)' = Type(n) /\ Around(n)' = Around(n) /\ Parent(n)' = Parent(n)
  BY DEF Syntaxes, Type, Around, Parent
<1>2. Recordable' = Recordable /\ Items' = Items
  BY <1>1 DEF Recordable, Items
<1>3. \A n : Inside(n)' = Inside(n)
  BY <1>1 DEF Inside
<1>4. \A n : Children(n)' = Children(n)
  BY <1>3 DEF Children
<1>5. \A n, types : Those(n, types)' = Those(n, types)
  BY <1>1, <1>3 DEF Those
<1>6. \A n : Callables(n)' = Callables(n)
  BY <1>1, <1>4, <1>5 DEF Callables
<1>7. \A n : Returned(n)' = Returned(n)
  BY <1>1 DEF Returned
<1>8. \A n : ObjectOf(n)' = ObjectOf(n)
  BY <1>1, <1>7 DEF ObjectOf
<1>9. \A n : FunctionsOf(n)' = FunctionsOf(n)
  BY <1>1, <1>3 DEF FunctionsOf
<1>10. \A n, v : MethodsOf(n, v)' = MethodsOf(n, v)
  BY <1>1, <1>8, <1>9 DEF MethodsOf
<1>11. \A n, ms : In(n, ms)' <=> In(n, ms)
  BY <1>1 DEF In
<1>12. ASSUME NEW m, NEW n PROVE CutByComponent(m, n)' <=> CutByComponent(m, n)
  BY <1>1, <1>4, <1>5 DEF CutByComponent, In, First
<1>13. ASSUME NEW m, NEW n PROVE CutByConstant(m, n)' <=> CutByConstant(m, n)
  BY <1>1, <1>4, <1>10 DEF CutByConstant, In
<1>14. ASSUME NEW m, NEW n PROVE CutByType(m, n)' <=> CutByType(m, n)
  BY <1>1, <1>5, <1>6 DEF CutByType, In, First
<1> QED
  BY <1>1, <1>2, <1>12, <1>13, <1>14

Declared(kind) == {nodes[i].at : i \in {j \in DOMAIN nodes : nodes[j].kind = kind}}

SeenInv == /\ WalkInv
           /\ result # "part" => Seen(todo, Declared("component"), Declared("constant"), Declared("class"), Noted)
           /\ result = "all" => todo = <<>>

LEMMA IsMade ==
  ASSUME WalkTypeOK
  PROVE  \A m, kind : Is(m, kind) <=> m \in Declared(kind)
<1>1. \A i \in DOMAIN nodes : nodes[i] \in [at : Syntaxes, kind : Kinds]
  BY Elements DEF WalkTypeOK
<1>2. \A m, kind : \A i \in DOMAIN nodes : nodes[i] = [at |-> m, kind |-> kind] <=> nodes[i].at = m /\ nodes[i].kind = kind
  BY <1>1
<1> QED
  BY <1>2 DEF Is, Declared

LEMMA LeftOutMeans ==
  ASSUME WalkTypeOK, NEW n
  PROVE  LeftOut(n) <=> Skipped(n, Declared("component"), Declared("constant"))
<1>1. \A m, kind : Is(m, kind) <=> m \in Declared(kind)
  BY IsMade
<1> DEFINE Out(m) ==
    \/ Is(m, "component") /\ ~In(n, First(Those(Children(m)[1], FunctionTypes)))
    \/ /\ Is(m, "constant") /\ ~In(n, MethodsOf(m, Children(m)[1]))
       /\ Type(Children(m)[1]) = "object" \/ MethodsOf(m, Children(m)[1]) # <<>>
    \/ Type(m) = "pattern" /\ \A k \in Around(m) : Type(k) \in {"file", "other"}
    \/ Type(m) = "field" /\ Callables(m) # <<>> /\ ~In(n, First(Callables(m)))
    \/ Type(m) = "anon" /\ ~In(n, Those(m, MemberTypes))
    \/ Type(m) = "javaField"
<1>2. LeftOut(n) <=> \E m \in Around(n) : Out(m)
  BY Zenon DEF LeftOut
<1>3. ASSUME NEW m PROVE Out(m) <=> Skips(m, n, Declared("component"), Declared("constant"))
  <2>1. (Is(m, "component") <=> m \in Declared("component")) /\ (Is(m, "constant") <=> m \in Declared("constant"))
    BY <1>1
  <2> QED
    BY <2>1, Zenon DEF Skips, CutByComponent, CutByConstant, CutByType
<1> HIDE DEF Out
<1> QED
  BY <1>2, <1>3 DEF Skipped

(* What has been seen, told of the state reached.                           *)
LEMMA SeenNext ==
  ASSUME UNCHANGED tree, NEW td, NEW cs, NEW ks, NEW cl, NEW re, Seen(td, cs, ks, cl, re),
         td = todo', cs = Declared("component")', ks = Declared("constant")', cl = Declared("class")', re = Noted'
  PROVE  Seen(todo, Declared("component"), Declared("constant"), Declared("class"), Noted)'
<1>1. /\ Recordable' = Recordable /\ \A n : Type(n)' = Type(n) /\ Around(n)' = Around(n)
      /\ \A m, n : /\ CutByComponent(m, n)' <=> CutByComponent(m, n)
                   /\ CutByConstant(m, n)' <=> CutByConstant(m, n)
                   /\ CutByType(m, n)' <=> CutByType(m, n)
  BY SameTree
<1>2. \A n : Skipped(n, Declared("component"), Declared("constant"))' <=> Skipped(n, cs, ks)
  BY <1>1 DEF Skipped, Skips
<1>3. \A n : Comes(n, todo)' <=> Comes(n, td)
  BY <1>1 DEF Comes
<1>4. Pending(todo)' = Pending(td) /\ \A i : Anchors(todo, i)' = Anchors(td, i)
  BY DEF Pending, Anchors, Leaves
<1> QED
  BY <1>1, <1>2, <1>3, <1>4 DEF Seen

-----------------------------------------------------------------------------
(* What each extractor walks and leaves out                                *)

LEMMA Grammar ==
  ASSUME tree \in Trees
  PROVE  /\ \A n \in Syntaxes \ {1} : Type(n) \in Below(Type(Parent(n)))
         /\ \A n, m \in Syntaxes \ {1} : Parent(n) = Parent(m) /\ ~MayHold(Type(Parent(n)), 1) => n = m
<1>1. IsTree(tree)
  BY TreesAssumption
<1> DEFINE N == Len(tree.type)
<1>2. N \in Nat \ {0} /\ DOMAIN tree.type = 1..N
  BY <1>1 DEF IsTree
<1>3. Syntaxes \ {1} = 2..N
  BY <1>2 DEF Syntaxes
<1>4. /\ \A n \in 2..N : Type(n) \in Below(Type(Parent(n)))
      /\ \A n, m \in 2..N : Parent(n) = Parent(m) /\ ~MayHold(Type(Parent(n)), 1) => n = m
  BY <1>1 DEF IsTree, Type, Parent
<1> HIDE DEF N
<1> QED
  BY <1>3, <1>4

(* What lies in a node is one of its children, or lies in one.              *)
LEMMA ChildAround ==
  ASSUME tree \in Trees, NEW n \in Syntaxes, NEW x \in Syntaxes, n \in Around(x)
  PROVE  \E c \in Inside(n) : c = x \/ c \in Around(x)
<1> DEFINE Bad == {k \in Syntaxes : n \in Around(k) /\ ~\E c \in Inside(n) : c = k \/ c \in Around(k)}
<1> SUFFICES ASSUME Bad # {} PROVE FALSE
  OBVIOUS
<1>1. PICK k \in Bad : \A y \in Bad : k <= y
  BY TreeShape, LeastElement, FS_Subset
<1>2. k # 1
  BY TreeShape
<1>3. Parent(k) \in Syntaxes /\ Parent(k) < k /\ Around(k) = {Parent(k)} \cup Around(Parent(k))
  BY <1>1, <1>2, TreeShape
<1>4. Parent(k) \notin Bad
  BY <1>1, <1>3, TreeShape
<1>5. CASE n = Parent(k)
  BY <1>1, <1>5 DEF Inside
<1>6. CASE n \in Around(Parent(k))
  BY <1>1, <1>3, <1>4, <1>6
<1> QED
  BY <1>1, <1>3, <1>5, <1>6

LEMMA InOrderHas ==
  ASSUME tree \in Trees, NEW S, S \subseteq Syntaxes
  PROVE  /\ ToSet(InOrder(S)) = S
         /\ \A how : /\ \A i \in DOMAIN Each(how, InOrder(S)) :
                          /\ Each(how, InOrder(S))[i].how = how
                          /\ Each(how, InOrder(S))[i].at \in S
                     /\ \A x \in S : \E i \in DOMAIN Each(how, InOrder(S)) : Each(how, InOrder(S))[i].at = x
<1>1. S \subseteq Nat /\ IsFiniteSet(S)
  BY TreeShape, FS_Subset
<1>2. PICK s : s = InOrder(S)
  OBVIOUS
<1>3. s \in Seq(S) /\ \A x \in S : \E i \in DOMAIN s : s[i] = x
  BY <1>1, <1>2, InOrderCounts
<1>4. \A i \in DOMAIN s : s[i] \in S
  BY <1>3, Elements
<1>5. ToSet(s) = S
  BY <1>3, <1>4 DEF ToSet
<1>6. \A how : DOMAIN Each(how, s) = DOMAIN s /\ \A i \in DOMAIN s : Each(how, s)[i].how = how /\ Each(how, s)[i].at = s[i]
  BY DEF Each
<1> QED
  BY <1>2, <1>3, <1>4, <1>5, <1>6

LEMMA InMeans ==
  ASSUME tree \in Trees, NEW S, S \subseteq Syntaxes
  PROVE  \A x : In(x, InOrder(S)) <=> \E m \in S : m = x \/ m \in Around(x)
BY InOrderHas DEF In

LEMMA FirstMeans ==
  ASSUME NEW ms
  PROVE  /\ ms = <<>> => \A x : ~In(x, First(ms))
         /\ ms # <<>> => \A x : In(x, First(ms)) <=> (ms[1] = x \/ ms[1] \in Around(x))
<1>1. ASSUME ms = <<>> PROVE \A x : ~In(x, First(ms))
  BY <1>1 DEF In, First, ToSet
<1>2. ASSUME ms # <<>> PROVE \A x : In(x, First(ms)) <=> (ms[1] = x \/ ms[1] \in Around(x))
  <2>1. First(ms) = <<ms[1]>>
    BY <1>2 DEF First
  <2>2. ToSet(<<ms[1]>>) = {ms[1]}
    BY DEF ToSet
  <2> QED
    BY <2>1, <2>2 DEF In
<1> QED
  BY <1>1, <1>2

(* Parts S of n are walked, and the rest is cut.                            *)
LEMMA PartsFollow ==
  ASSUME tree \in Trees, NEW n \in Syntaxes, NEW kind, NEW how \in WalkSteps, NEW S, S \subseteq Syntaxes,
         \A s \in S : /\ ~Cuts(n, s, kind)
                      /\ \A m \in Around(s) : n \in Around(m) => Type(m) \notin {"pattern", "field", "javaField", "anon"}
                      /\ how = "function" => Type(s) \in FunctionTypes \cup {"shorthand"},
         \A x \in Recordable : n \in Around(x) => (\E s \in S : s = x \/ s \in Around(x)) \/ Cuts(n, x, kind)
  PROVE  Follows(n, Each(how, InOrder(S)), kind)
<1>1. PICK w : w = Each(how, InOrder(S))
  OBVIOUS
<1>2. /\ \A i \in DOMAIN w : w[i].how = how /\ w[i].at \in S
      /\ \A x \in S : \E i \in DOMAIN w : w[i].at = x
  BY <1>1, InOrderHas
<1>3. ASSUME NEW x \in Recordable, n \in Around(x) PROVE Comes(x, w) \/ Cuts(n, x, kind)
  <2>1. ASSUME NEW s \in S, s = x \/ s \in Around(x) PROVE Comes(x, w)
    <3>1. PICK i \in DOMAIN w : w[i].at = s
      BY <1>2
    <3>2. w[i].how # "leave"
      BY <1>2 DEF WalkSteps
    <3> QED
      BY <2>1, <3>1, <3>2 DEF Comes
  <2> QED
    BY <1>3, <2>1
<1> QED
  BY <1>1, <1>2, <1>3 DEF Follows

(* All of n is walked.                                                      *)
LEMMA WholeFollows ==
  ASSUME tree \in Trees, NEW n \in Syntaxes, NEW kind, NEW how \in WalkSteps,
         \A c \in Inside(n) : ~Cuts(n, c, kind),
         how = "function" => \A c \in Inside(n) : Type(c) \in FunctionTypes \cup {"shorthand"}
  PROVE  Follows(n, Each(how, Children(n)), kind)
<1> DEFINE S == Inside(n)
<1>1. S \subseteq Syntaxes
  BY DEF Inside
<1>2. ASSUME NEW s \in S, NEW m \in Around(s), n \in Around(m) PROVE FALSE
  <2>1. m = n \/ m \in Around(n)
    BY InsideIsAround
  <2> QED
    BY <1>2, <2>1, AroundIsBefore, TreeShape
<1>3. \A x \in Recordable : n \in Around(x) => \E s \in S : s = x \/ s \in Around(x)
  BY ChildAround DEF Recordable
<1> HIDE DEF S
<1>4. Follows(n, Each(how, InOrder(S)), kind)
  <2>1. \A s \in S : /\ ~Cuts(n, s, kind)
                     /\ \A m \in Around(s) : n \in Around(m) => Type(m) \notin {"pattern", "field", "javaField", "anon"}
                     /\ how = "function" => Type(s) \in FunctionTypes \cup {"shorthand"}
    BY <1>2 DEF S
  <2> QED
    BY <1>1, <1>3, <2>1, PartsFollow
<1> QED
  BY <1>4 DEF S, Children

LEMMA NothingFollows ==
  ASSUME NEW n, NEW kind, \A x \in Recordable : n \in Around(x) => Cuts(n, x, kind)
  PROVE  Follows(n, <<>>, kind)
BY DEF Follows

LEMMA NothingCut ==
  ASSUME NEW n, Type(n) \notin {"pattern", "field", "javaField", "anon"}, NEW kind, kind \notin {"component", "constant"}
  PROVE  \A x : ~Cuts(n, x, kind)
BY DEF Cuts, CutByType

(* Below the top of a file there are only statements.                       *)
LEMMA PlainAround ==
  ASSUME tree \in Trees, NEW n \in Syntaxes, Type(n) \in {"pattern", "other"}, \A k \in Around(n) : Type(k) \in Outer
  PROVE  \A k \in Around(n) : Type(k) \in {"file", "other"}
<1> DEFINE P(x) == /\ Type(x) \in {"pattern", "other"} /\ \A k \in Around(x) : Type(k) \in Outer
                   /\ ~\A k \in Around(x) : Type(k) \in {"file", "other"}
           Bad == {x \in Syntaxes : P(x)}
<1> SUFFICES ASSUME Bad # {} PROVE FALSE
  OBVIOUS
<1>1. PICK x \in Bad : \A y \in Bad : x <= y
  BY TreeShape, LeastElement, FS_Subset
<1>2. x \in Syntaxes \ {1}
  BY <1>1, TreeShape
<1>3. PICK p : p = Parent(x)
  OBVIOUS
<1>4. p \in Syntaxes /\ p < x /\ Around(x) = {p} \cup Around(p) /\ p \in Nat /\ x \in Nat
  BY <1>2, <1>3, TreeShape
<1>5. Type(p) \in Outer /\ Type(x) \in Below(Type(p))
  BY <1>1, <1>2, <1>3, <1>4, Grammar
<1>6. Type(p) \in {"file", "other"}
  BY <1>1, <1>5 DEF Outer, Below, Expressions, FunctionTypes, CallTypes, MemberTypes
<1>7. Type(p) = "file" => p = 1
  <2>1. p \in Syntaxes \ {1} => Type(p) \in Below(Type(Parent(p)))
    BY Grammar
  <2>2. \A t : "file" \notin Below(t)
    BY DEF Below, Statements, Expressions, FunctionTypes, CallTypes, MemberTypes
  <2> QED
    BY <1>4, <2>1, <2>2
<1>8. p \notin Bad
  BY <1>1, <1>4
<1>9. p # 1
  BY <1>1, <1>4, <1>6, TreeShape
<1> QED
  BY <1>1, <1>4, <1>6, <1>7, <1>8, <1>9

-----------------------------------------------------------------------------
(* Where the walk is                                                       *)

(* What is known of the call that is taken next.                            *)
LEMMA AtSeen ==
  ASSUME SeenInv, result = "none", todo # <<>>, How # "leave"
  PROVE  /\ WalkInv /\ tree \in Trees /\ At \in Syntaxes \ {1} /\ How \in WalkSteps
         /\ How # "visit" => \E k \in Around(At) : Type(k) \notin {"file", "other"}
         /\ How = "visit" => InsideClassLike \/ \A k \in Around(At) : Type(k) \in Outer
         /\ How = "function" => Type(At) \in FunctionTypes \cup {"shorthand"}
         /\ InsideClassLike => Max(Anchors(todo, 1)) \in Declared("class")
         /\ InsideClassLike => \E k \in Around(At) : Type(k) \in {"class", "anon"}
<1>1. WalkInv /\ WalkTypeOK /\ tree \in Trees
  BY DEF SeenInv, WalkInv, WalkTypeOK
<1>2. Seen(todo, Declared("component"), Declared("constant"), Declared("class"), Noted)
  BY DEF SeenInv
<1>3. Books(todo, nodeStack, Known, Owners, Noted)
  BY <1>1 DEF WalkInv, Ledger
<1>4. PICK td, ns, kn, ow, re : td = todo /\ ns = nodeStack /\ kn = Known /\ ow = Owners /\ re = Noted
  OBVIOUS
<1>5. /\ 1 \in Pending(td) /\ td[1].at \in Syntaxes \ {1}
      /\ Around(td[1].at) \cap ow = Anchors(td, 1)
  <2>1. Books(td, ns, kn, ow, re) /\ td # <<>> /\ td[1].how # "leave"
    BY <1>3, <1>4 DEF How
  <2> QED
    BY <1>1, <2>1, FirstIsNew
<1>6. 1 \in Pending(todo) /\ At \in Syntaxes \ {1} /\ Around(At) \cap Owners = Anchors(todo, 1)
  BY <1>4, <1>5 DEF At
<1>7. How \in WalkSteps
  <2>1. todo \in Seq(Items) /\ 1 \in DOMAIN todo
    BY <1>3, <1>6 DEF Books, Pending
  <2>2. todo[1] \in Items
    BY <2>1, Elements
  <2> QED
    BY <2>2 DEF Items, WalkSteps, How
<1>8. Owner = Max(Anchors(todo, 1)) /\ Owner \in Known
  BY <1>1, <1>6, OwnerIsHome
<1>9. InsideClassLike <=> Owner \in Declared("class")
  BY <1>1, IsMade DEF InsideClassLike
<1>10. Owner \in Around(At)
  <2>1. PICK A : A = Anchors(td, 1)
    OBVIOUS
  <2>2. /\ Books(td, ns, kn, ow, re) /\ td # <<>> /\ td[1].how # "leave"
    BY <1>3, <1>4 DEF How
  <2>3. /\ Last(ns) \in A /\ A \subseteq Around(td[1].at)
    BY <1>1, <1>5, <2>1, <2>2, FirstIsNew
  <2> QED
    BY <1>4, <2>3 DEF Owner, At
<1>11. /\ How # "visit" => \E k \in Around(At) : Type(k) \notin {"file", "other"}
       /\ How = "visit" => Max(Anchors(todo, 1)) \in Declared("class") \/ \A k \in Around(At) : Type(k) \in Outer
       /\ How = "function" => Type(At) \in FunctionTypes \cup {"shorthand"}
  BY <1>2, <1>6 DEF Seen, At, How
<1>12. InsideClassLike => \E k \in Around(At) : Type(k) \in {"class", "anon"}
  BY <1>2, <1>9, <1>10 DEF Seen
<1> QED
  BY <1>1, <1>6, <1>7, <1>8, <1>9, <1>11, <1>12

(* What happens to the calls when a node is handled: it is made of a kind,   *)
(* or of none, it may be recorded, and w of it is left to be walked.         *)
Handles(n, w, d, kind) ==
  /\ todo' = Unfold(w, n, d, todo) /\ UNCHANGED <<tree, result>>
  /\ \/ kind = "none" /\ UNCHANGED nodes
     \/ kind \in Kinds /\ nodes' = Append(nodes, [at |-> n, kind |-> kind])
  /\ \/ UNCHANGED refs /\ n \notin Recordable
     \/ Record(n)

LEMMA SeenHandled ==
  ASSUME SeenInv, result = "none", todo # <<>>, How # "leave", WalkInv',
         NEW w, Fits(w, At), NEW d \in {0, 1}, NEW kind, Handles(At, w, d, kind),
         Follows(At, w, kind), Guided(todo, At, w, d, kind, Declared("class"))
  PROVE  SeenInv'
<1>1. WalkInv /\ WalkTypeOK /\ tree \in Trees /\ At \in Syntaxes
  BY AtSeen DEF WalkInv
<1>2. Books(todo, nodeStack, Known, Owners, Noted)
  BY <1>1 DEF WalkInv, Ledger
<1>3. Seen(todo, Declared("component"), Declared("constant"), Declared("class"), Noted)
  BY DEF SeenInv
<1>4. PICK td, ns, kn, ow, re, cs, ks, cl :
        /\ td = todo /\ ns = nodeStack /\ kn = Known /\ ow = Owners /\ re = Noted
        /\ cs = Declared("component") /\ ks = Declared("constant") /\ cl = Declared("class")
  OBVIOUS
<1>5. PICK n : n = At
  OBVIOUS
<1>6. PICK td2, re2, cs2, ks2, cl2 :
        /\ td2 = Unfold(w, n, d, td) /\ re2 = Noted'
        /\ cs2 = With(cs, n, kind, "component") /\ ks2 = With(ks, n, kind, "constant")
        /\ cl2 = With(cl, n, kind, "class")
  OBVIOUS
<1>7. /\ Books(td, ns, kn, ow, re) /\ Seen(td, cs, ks, cl, re)
      /\ td # <<>> /\ td[1].how # "leave" /\ n = td[1].at
      /\ Fits(w, n) /\ Follows(n, w, kind) /\ Guided(td, n, w, d, kind, cl)
  BY <1>2, <1>3, <1>4, <1>5 DEF At, How
<1>8. cs \subseteq kn /\ ks \subseteq kn
  BY <1>4 DEF Declared, Known
<1>9. re2 \in {re, re \cup {n}} /\ (n \in Recordable => n \in re2)
  <2>1. CASE UNCHANGED refs /\ n \notin Recordable
    BY <2>1, <1>4, <1>6 DEF Noted
  <2>2. CASE Record(n)
    <3>1. PICK R, r, t : R = [from : Syntaxes, at : Syntaxes] /\ r = [from |-> Owner, at |-> n] /\ t = refs'
      OBVIOUS
    <3>2. refs \in Seq(R) /\ r \in R /\ t = Append(refs, r) /\ r.at = n
      <4>1. Owner \in Syntaxes
        <5>1. Owner \in Known
          BY <1>1, OwnerIsHome
        <5>2. Known \subseteq Syntaxes
          BY <1>2 DEF Books
        <5> QED
          BY <5>1, <5>2
      <4> QED
        BY <1>1, <1>5, <2>2, <3>1, <4>1 DEF Record, WalkTypeOK
    <3>3. /\ DOMAIN refs = 1..Len(refs) /\ DOMAIN t = 1..Len(refs) + 1 /\ Len(refs) \in Nat
          /\ t[Len(refs) + 1] = r /\ \A i \in 1..Len(refs) : t[i] = refs[i]
      BY <3>2, Appended
    <3>4. \A i \in DOMAIN t : (i \in DOMAIN refs /\ t[i] = refs[i]) \/ t[i] = r
      BY <3>3
    <3>5. \A i \in DOMAIN refs : i \in DOMAIN t /\ t[i] = refs[i]
      BY <3>3
    <3>6. \E i \in DOMAIN t : t[i] = r
      BY <3>3
    <3>7. {t[i].at : i \in DOMAIN t} = {refs[i].at : i \in DOMAIN refs} \cup {n}
      BY <3>2, <3>4, <3>5, <3>6
    <3> QED
      BY <3>1, <3>7, <1>4, <1>6 DEF Noted
  <2> QED
    BY <1>5, <2>1, <2>2 DEF Handles
<1>10. Seen(td2, cs2, ks2, cl2, re2)
  <2>1. FullBooks(td, ns, kn, ow, re, cs, ks, cl)
    BY <1>7, <1>8 DEF FullBooks
  <2>2. HandledWell(td, w, n, d, kind, cl, re, re2)
    BY <1>7, <1>9 DEF HandledWell
  <2>3. Seen(Unfold(w, n, d, td), With(cs, n, kind, "component"), With(ks, n, kind, "constant"),
             With(cl, n, kind, "class"), re2)
    BY <1>1, <2>1, <2>2, SeenKept
  <2> QED
    BY <1>6, <2>3
<1>11. \A k \in Kinds : Declared(k)' = With(Declared(k), n, kind, k)
  <2>1. CASE kind = "none" /\ UNCHANGED nodes
    BY <2>1 DEF Declared, With, Kinds
  <2>2. CASE kind \in Kinds /\ nodes' = Append(nodes, [at |-> n, kind |-> kind])
    <3>1. PICK R, r, t : R = [at : Syntaxes, kind : Kinds] /\ r = [at |-> n, kind |-> kind] /\ t = nodes'
      OBVIOUS
    <3>2. nodes \in Seq(R) /\ r \in R /\ t = Append(nodes, r) /\ r.at = n /\ r.kind = kind
      BY <1>1, <1>5, <2>2, <3>1 DEF WalkTypeOK
    <3>3. /\ DOMAIN nodes = 1..Len(nodes) /\ DOMAIN t = 1..Len(nodes) + 1 /\ Len(nodes) \in Nat
          /\ t[Len(nodes) + 1] = r /\ \A i \in 1..Len(nodes) : t[i] = nodes[i]
      BY <3>2, Appended
    <3>4. \A i \in DOMAIN t : (i \in DOMAIN nodes /\ t[i] = nodes[i]) \/ t[i] = r
      BY <3>3
    <3>5. \A i \in DOMAIN nodes : i \in DOMAIN t /\ t[i] = nodes[i]
      BY <3>3
    <3>6. \E i \in DOMAIN t : t[i] = r
      BY <3>3
    <3>7. ASSUME NEW k PROVE {t[i].at : i \in {j \in DOMAIN t : t[j].kind = k}} =
                             With({nodes[i].at : i \in {j \in DOMAIN nodes : nodes[j].kind = k}}, n, kind, k)
      <4>1. PICK A, B : /\ A = {t[i].at : i \in {j \in DOMAIN t : t[j].kind = k}}
                        /\ B = {nodes[i].at : i \in {j \in DOMAIN nodes : nodes[j].kind = k}}
        OBVIOUS
      <4>2. \A x : x \in B => x \in A
        BY <4>1, <3>5
      <4>3. \A x : x \in A => x \in B \/ (x = n /\ k = kind)
        BY <4>1, <3>2, <3>4
      <4>4. k = kind => n \in A
        BY <4>1, <3>2, <3>6
      <4>5. A = With(B, n, kind, k)
        BY <4>2, <4>3, <4>4 DEF With
      <4> QED
        BY <4>1, <4>5
    <3> QED
      BY <3>1, <3>7 DEF Declared
  <2> QED
    BY <1>5, <2>1, <2>2 DEF Handles
<1>12. /\ td2 = todo' /\ cs2 = Declared("component")' /\ ks2 = Declared("constant")' /\ cl2 = Declared("class")'
       /\ UNCHANGED <<tree, result>>
  BY <1>4, <1>5, <1>6, <1>11 DEF Handles, Kinds
<1>13. Seen(todo, Declared("component"), Declared("constant"), Declared("class"), Noted)'
  BY <1>6, <1>10, <1>12, SeenNext
<1> QED
  BY <1>12, <1>13 DEF SeenInv

-----------------------------------------------------------------------------
(* The walkers that go on                                                  *)

LEMMA EachHow ==
  ASSUME NEW how, NEW ns
  PROVE  \A i \in DOMAIN Each(how, ns) : Each(how, ns)[i].how = how
BY DEF Each

(* Below a node with a meaning of its own, the body walker is right.        *)
LEMMA ScansGuided ==
  ASSUME SeenInv, result = "none", todo # <<>>, How # "leave",
         How # "visit" \/ Type(At) \notin {"file", "other"},
         NEW w, Fits(w, At), \A i \in DOMAIN w : w[i].how # "visit", NEW d, NEW kind, kind # "class"
  PROVE  Guided(todo, At, w, d, kind, Declared("class"))
<1>1. tree \in Trees /\ At \in Syntaxes /\ (How # "visit" => \E k \in Around(At) : Type(k) \notin {"file", "other"})
  BY AtSeen
<1>2. ASSUME NEW i \in DOMAIN w PROVE \E k \in Around(w[i].at) : Type(k) \notin {"file", "other"}
  <2>1. w[i].at \in Syntaxes /\ At \in Around(w[i].at)
    <3>1. w \in Seq(Calls) /\ At \in Around(w[i].at)
      BY DEF Fits
    <3>2. w[i] \in Calls
      BY <3>1, Elements
    <3> QED
      BY <3>1, <3>2 DEF Calls
  <2>2. Around(At) \subseteq Around(w[i].at)
    BY <1>1, <2>1, AroundIsClosed
  <2> QED
    BY <1>1, <2>1, <2>2
<1> QED
  BY <1>2 DEF Guided

(* Where visitNode is right, it is right for the children.                  *)
LEMMA VisitsGuided ==
  ASSUME SeenInv, result = "none", todo # <<>>, How = "visit",
         InsideClassLike \/ Type(At) \in Outer,
         NEW w, w = Each("visit", Children(At)), NEW kind, kind # "class"
  PROVE  Guided(todo, At, w, 0, kind, Declared("class"))
<1>1. /\ tree \in Trees /\ At \in Syntaxes
      /\ InsideClassLike \/ \A k \in Around(At) : Type(k) \in Outer
      /\ InsideClassLike => Max(Anchors(todo, 1)) \in Declared("class")
  BY AtSeen
<1>2. \A i \in DOMAIN w : w[i].how = "visit" /\ w[i].at \in Inside(At)
  <2>1. Inside(At) \subseteq Syntaxes
    BY DEF Inside
  <2> QED
    BY <1>1, <2>1, InOrderHas DEF Children
<1>3. ASSUME NEW i \in DOMAIN w, ~InsideClassLike PROVE \A k \in Around(w[i].at) : Type(k) \in Outer
  <2>1. Around(w[i].at) = {At} \cup Around(At)
    BY <1>1, <1>2, InsideIsAround
  <2> QED
    BY <1>1, <1>3, <2>1
<1> QED
  BY <1>1, <1>2, <1>3 DEF Guided

LEMMA DeclareHandles ==
  ASSUME NEW w, NEW kind \in Kinds, Declare(At, kind, w), UNCHANGED <<tree, result>>,
         (UNCHANGED refs /\ At \notin Recordable) \/ Record(At)
  PROVE  Handles(At, w, 1, kind)
BY DEF Handles, Declare, Create, Goes, Unfold

LEMMA UnnamedHandles ==
  ASSUME NEW w, Goes(w), UNCHANGED <<tree, result, nodes>>,
         (UNCHANGED refs /\ At \notin Recordable) \/ Record(At)
  PROVE  Handles(At, w, 0, "none")
BY DEF Handles, Goes, Unfold

LEMMA CreateHandles ==
  ASSUME NEW w, NEW kind \in Kinds, Create(At, kind), Goes(w), UNCHANGED <<tree, result, refs>>, At \notin Recordable
  PROVE  Handles(At, w, 0, kind)
BY DEF Handles, Create, Goes, Unfold

(* A node that is walked by the body walker, whatever it is made.           *)
LEMMA BodySeen ==
  ASSUME SeenInv, result = "none", todo # <<>>, How # "leave", WalkInv',
         Type(At) \notin {"file", "other"},
         NEW w, Fits(w, At), \A i \in DOMAIN w : w[i].how # "visit",
         NEW d \in {0, 1}, NEW kind, kind # "class", Handles(At, w, d, kind), Follows(At, w, kind)
  PROVE  SeenInv'
<1>1. Guided(todo, At, w, d, kind, Declared("class"))
  BY ScansGuided
<1> QED
  BY <1>1, SeenHandled

LEMMA ExtractFunctionSeen == ASSUME SeenInv, ExtractFunction, WalkInv' PROVE SeenInv'
<1>1. result = "none" /\ todo # <<>> /\ How # "leave"
  BY DEF ExtractFunction, Busy
<1>2. /\ tree \in Trees /\ At \in Syntaxes /\ "scan" \in WalkSteps
      /\ How = "function" => Type(At) \in FunctionTypes \cup {"shorthand"}
  BY <1>1, AtSeen DEF WalkSteps
<1>3. Type(At) \in FunctionTypes \cup {"shorthand"}
  BY <1>2 DEF ExtractFunction, Busy, FunctionTypes
<1>4. At \notin Recordable /\ Type(At) \notin {"file", "other", "pattern", "field", "javaField", "anon"}
  BY <1>3 DEF Recordable, FunctionTypes, CallTypes
<1>5. PICK w : w = Scans(At)
  OBVIOUS
<1>6. Fits(w, At) /\ \A i \in DOMAIN w : w[i].how # "visit"
  BY <1>2, <1>5, ChildrenFit, EachHow DEF Scans
<1>7. \A kind \in {"none", "function"} : Follows(At, w, kind)
  BY <1>2, <1>4, <1>5, WholeFollows, NothingCut DEF Scans
<1>8. Handles(At, w, 1, "function") \/ Handles(At, w, 0, "none")
  <2>1. UNCHANGED <<tree, refs, result>> /\ (Declare(At, "function", w) \/ Unnamed(w))
    BY <1>5 DEF ExtractFunction, Function
  <2> QED
    BY <1>4, <2>1, DeclareHandles, UnnamedHandles DEF Unnamed, Kinds
<1>9. CASE Handles(At, w, 1, "function")
  BY <1>1, <1>4, <1>6, <1>7, <1>9, BodySeen
<1>10. CASE Handles(At, w, 0, "none")
  BY <1>1, <1>4, <1>6, <1>7, <1>10, BodySeen
<1> QED
  BY <1>8, <1>9, <1>10

LEMMA ExtractClassSeen == ASSUME SeenInv, ExtractClass, WalkInv' PROVE SeenInv'
<1>1. result = "none" /\ todo # <<>> /\ How # "leave" /\ Type(At) = "class"
  BY DEF ExtractClass, Walking, Busy
<1>2. tree \in Trees /\ At \in Syntaxes /\ "visit" \in WalkSteps
  BY <1>1, AtSeen DEF WalkSteps
<1>3. PICK w : w = Visits(At)
  OBVIOUS
<1>4. Fits(w, At) /\ \A i \in DOMAIN w : w[i].how = "visit"
  BY <1>2, <1>3, ChildrenFit, EachHow DEF Visits
<1>5. Follows(At, w, "class")
  BY <1>1, <1>2, <1>3, WholeFollows, NothingCut DEF Visits
<1>6. Guided(todo, At, w, 1, "class", Declared("class"))
  BY <1>1, <1>4 DEF Guided
<1>7. Handles(At, w, 1, "class")
  BY <1>1, <1>3, DeclareHandles DEF ExtractClass, Kinds, Recordable, CallTypes
<1> QED
  BY <1>1, <1>4, <1>5, <1>6, <1>7, SeenHandled

(* The part of n that is a function is walked, and the rest of n is cut.     *)
LEMMA InnerFollows ==
  ASSUME tree \in Trees, NEW n \in Syntaxes, NEW f \in Syntaxes, n \in Around(f), NEW kind,
         Type(f) \in FunctionTypes,
         \A m \in Around(f) : n \in Around(m) => Type(m) \in CallTypes,
         \A x \in Syntaxes : n \in Around(x) => (Cuts(n, x, kind) <=> ~(f = x \/ f \in Around(x)))
  PROVE  Follows(n, Scans(f), kind)
<1>1. Inside(f) \subseteq Syntaxes /\ "scan" \in WalkSteps
  BY DEF Inside, WalkSteps
<1>2. ASSUME NEW s \in Inside(f)
      PROVE  /\ ~Cuts(n, s, kind)
             /\ \A m \in Around(s) : n \in Around(m) => Type(m) \notin {"pattern", "field", "javaField", "anon"}
  <2>1. s \in Syntaxes /\ f \in Around(s) /\ Around(s) = {f} \cup Around(f)
    BY InsideIsAround
  <2> QED
    BY <2>1 DEF FunctionTypes, CallTypes
<1>3. ASSUME NEW x \in Recordable, n \in Around(x) PROVE (\E s \in Inside(f) : s = x \/ s \in Around(x)) \/ Cuts(n, x, kind)
  <2>1. x \in Syntaxes /\ x # f
    BY DEF Recordable, FunctionTypes, CallTypes
  <2>2. f \in Around(x) => \E s \in Inside(f) : s = x \/ s \in Around(x)
    BY <2>1, ChildAround
  <2> QED
    BY <1>3, <2>1, <2>2
<1>4. Follows(n, Each("scan", InOrder(Inside(f))), kind)
  BY <1>1, <1>2, <1>3, PartsFollow
<1> QED
  BY <1>4 DEF Scans, Children

(* The function of a field lies in it, directly or in a call.               *)
LEMMA CallableInside ==
  ASSUME tree \in Trees, NEW n \in Syntaxes, Callables(n) # <<>>, NEW f, f = Callables(n)[1]
  PROVE  /\ f \in Syntaxes /\ n \in Around(f) /\ Type(f) \in FunctionTypes
         /\ \A m \in Around(f) : n \in Around(m) => Type(m) \in CallTypes
<1>1. PICK v : v = Children(n)
  OBVIOUS
<1>2. v # <<>> /\ (\/ Type(v[1]) \in CallTypes /\ Callables(n) = Those(v[1], FunctionTypes)
                   \/ Callables(n) = Those(n, FunctionTypes))
  BY <1>1 DEF Callables
<1>3. v[1] \in Syntaxes /\ Around(v[1]) = {n} \cup Around(n)
  BY <1>1, <1>2, FirstInside, InsideIsAround
<1>4. ~ n \in Around(n) /\ \A m \in Around(n) : n \notin Around(m)
  <2>1. n \notin Around(n)
    BY AroundIsBefore, TreeShape
  <2> QED
    BY <2>1, AroundIsClosed
<1>5. \A p \in Syntaxes : Those(p, FunctionTypes) # <<>> =>
         Those(p, FunctionTypes)[1] \in {m \in Inside(p) : Type(m) \in FunctionTypes}
  BY FirstOf DEF Those, Inside
<1>6. CASE Callables(n) = Those(n, FunctionTypes)
  <2>1. f \in Inside(n) /\ Type(f) \in FunctionTypes
    BY <1>5, <1>6
  <2>2. f \in Syntaxes /\ Around(f) = {n} \cup Around(n)
    BY <2>1, InsideIsAround
  <2> QED
    BY <2>1, <2>2, <1>4
<1>7. CASE Type(v[1]) \in CallTypes /\ Callables(n) = Those(v[1], FunctionTypes)
  <2>1. f \in Inside(v[1]) /\ Type(f) \in FunctionTypes
    BY <1>3, <1>5, <1>7
  <2>2. f \in Syntaxes /\ Around(f) = {v[1]} \cup Around(v[1])
    BY <1>3, <2>1, InsideIsAround
  <2> QED
    BY <1>3, <1>7, <2>1, <2>2, <1>4
<1> QED
  BY <1>2, <1>6, <1>7

LEMMA ExtractMethodSeen == ASSUME SeenInv, ExtractMethod, WalkInv' PROVE SeenInv'
<1>1. /\ result = "none" /\ todo # <<>> /\ How # "leave" /\ Type(At) \in {"method", "shorthand", "field"}
      /\ Type(At) = "field" => Callables(At) # <<>>
  BY DEF ExtractMethod, Busy
<1>2. tree \in Trees /\ At \in Syntaxes /\ "scan" \in WalkSteps
  BY <1>1, AtSeen DEF WalkSteps
<1>3. PICK w : w = IF Type(At) = "field" THEN Scans(Callables(At)[1]) ELSE Scans(At)
  OBVIOUS
<1>4. Fits(w, At) /\ (\A i \in DOMAIN w : w[i].how # "visit") /\ \A kind \in {"none", "method"} : Follows(At, w, kind)
  <2>1. CASE Type(At) # "field"
    <3>1. w = Scans(At)
      BY <1>3, <2>1
    <3>2. \A kind \in {"none", "method"} : Follows(At, w, kind)
      BY <1>1, <1>2, <2>1, <3>1, WholeFollows, NothingCut DEF Scans
    <3> QED
      BY <1>2, <3>1, <3>2, ChildrenFit, EachHow DEF Scans
  <2>2. CASE Type(At) = "field"
    <3>1. PICK f : f = Callables(At)[1]
      OBVIOUS
    <3>2. /\ f \in Syntaxes /\ At \in Around(f) /\ Type(f) \in FunctionTypes
          /\ \A m \in Around(f) : At \in Around(m) => Type(m) \in CallTypes
      BY <1>1, <1>2, <2>2, <3>1, CallableInside
    <3>3. w = Scans(f)
      BY <1>3, <2>2, <3>1
    <3>4. \A kind \in {"none", "method"} : \A x : Cuts(At, x, kind) <=> ~(f = x \/ f \in Around(x))
      <4>1. \A x : In(x, First(Callables(At))) <=> (f = x \/ f \in Around(x))
        BY <1>1, <2>2, <3>1, FirstMeans
      <4> QED
        BY <1>1, <2>2, <4>1 DEF Cuts, CutByType
    <3>5. \A kind \in {"none", "method"} : Follows(At, w, kind)
      BY <1>2, <3>2, <3>3, <3>4, InnerFollows
    <3>6. Fits(w, f)
      BY <1>2, <3>2, <3>3, ChildrenFit DEF Scans
    <3>7. Fits(w, At)
      BY <1>2, <3>2, <3>6, FitsDeeper
    <3> QED
      BY <3>3, <3>5, <3>7, EachHow DEF Scans
  <2> QED
    BY <2>1, <2>2
<1>5. Handles(At, w, 1, "method") \/ Handles(At, w, 0, "none")
  <2>1. At \notin Recordable
    BY <1>1 DEF Recordable, CallTypes
  <2>2. UNCHANGED <<tree, refs, result>> /\ (Declare(At, "method", w) \/ Unnamed(w))
    BY <1>3 DEF ExtractMethod
  <2> QED
    BY <2>1, <2>2, DeclareHandles, UnnamedHandles DEF Unnamed, Kinds
<1>6. CASE Handles(At, w, 1, "method")
  BY <1>1, <1>4, <1>6, BodySeen
<1>7. CASE Handles(At, w, 0, "none")
  BY <1>1, <1>4, <1>7, BodySeen
<1> QED
  BY <1>5, <1>6, <1>7

LEMMA ExtractPropertySeen == ASSUME SeenInv, ExtractProperty, WalkInv' PROVE SeenInv'
<1>1. result = "none" /\ todo # <<>> /\ How # "leave" /\ Type(At) = "field" /\ Callables(At) = <<>>
  BY DEF ExtractProperty, Busy
<1>2. tree \in Trees /\ At \in Syntaxes /\ "scan" \in WalkSteps
  BY <1>1, AtSeen DEF WalkSteps
<1>3. PICK w : w = Scans(At)
  OBVIOUS
<1>4. Fits(w, At) /\ \A i \in DOMAIN w : w[i].how # "visit"
  BY <1>2, <1>3, ChildrenFit, EachHow DEF Scans
<1>5. Follows(At, w, "property")
  <2>1. \A x : ~Cuts(At, x, "property")
    BY <1>1 DEF Cuts, CutByType
  <2> QED
    BY <1>2, <1>3, <2>1, WholeFollows DEF Scans
<1>6. Handles(At, w, 1, "property")
  BY <1>1, <1>3, DeclareHandles DEF ExtractProperty, Property, Kinds, Recordable, CallTypes
<1> QED
  BY <1>1, <1>4, <1>5, <1>6, BodySeen

LEMMA ExtractFieldSeen == ASSUME SeenInv, ExtractField, WalkInv' PROVE SeenInv'
<1>1. result = "none" /\ todo # <<>> /\ How # "leave" /\ Type(At) = "javaField"
  BY DEF ExtractField, Busy
<1>2. \A x : Cuts(At, x, "field")
  BY <1>1 DEF Cuts, CutByType
<1>3. Follows(At, <<>>, "field")
  BY <1>2, NothingFollows
<1>4. Handles(At, <<>>, 0, "field")
  BY <1>1, CreateHandles DEF ExtractField, Kinds, Recordable, CallTypes
<1>5. Fits(<<>>, At) /\ \A i \in DOMAIN <<>> : <<>>[i].how # "visit"
  BY NothingFits
<1> QED
  BY <1>1, <1>3, <1>4, <1>5, BodySeen

LEMMA ExtractCallSeen == ASSUME SeenInv, ExtractCall, WalkInv' PROVE SeenInv'
<1>1. result = "none" /\ todo # <<>> /\ How \in {"visit", "scan"} /\ How # "leave" /\ Type(At) \in CallTypes \cup {"new"}
  BY DEF ExtractCall, Walking, Busy
<1>2. tree \in Trees /\ At \in Syntaxes /\ How \in WalkSteps
  BY <1>1, AtSeen
<1>3. PICK w : w = Each(How, Children(At))
  OBVIOUS
<1>4. Fits(w, At) /\ \A i \in DOMAIN w : w[i].how = How
  BY <1>2, <1>3, ChildrenFit, EachHow
<1>5. Type(At) \notin {"file", "other", "pattern", "field", "javaField", "anon"} /\ Type(At) \in Outer
  BY <1>1 DEF CallTypes, Outer
<1>6. Follows(At, w, "none")
  BY <1>1, <1>2, <1>3, <1>5, WholeFollows, NothingCut
<1>7. Guided(todo, At, w, 0, "none", Declared("class"))
  <2>1. CASE How = "visit"
    BY <1>1, <1>3, <1>5, <2>1, VisitsGuided
  <2>2. CASE How # "visit"
    BY <1>1, <1>4, <2>2, ScansGuided
  <2> QED
    BY <2>1, <2>2
<1>8. Handles(At, w, 0, "none")
  BY <1>3, UnnamedHandles DEF ExtractCall
<1> QED
  BY <1>1, <1>4, <1>6, <1>7, <1>8, SeenHandled

LEMMA ExtractAnonymousSeen == ASSUME SeenInv, ExtractAnonymous, WalkInv' PROVE SeenInv'
<1>1. result = "none" /\ todo # <<>> /\ How # "leave" /\ Type(At) = "anon"
  BY DEF ExtractAnonymous, Walking, Busy
<1>2. tree \in Trees /\ At \in Syntaxes /\ "visit" \in WalkSteps
  BY <1>1, AtSeen DEF WalkSteps
<1>3. PICK w : w = Each("visit", Those(At, MemberTypes))
  OBVIOUS
<1>4. Fits(w, At) /\ \A i \in DOMAIN w : w[i].how = "visit"
  BY <1>2, <1>3, ThoseFit, EachHow
<1>5. PICK S : S = {m \in Inside(At) : Type(m) \in MemberTypes}
  OBVIOUS
<1>6. S \subseteq Syntaxes /\ w = Each("visit", InOrder(S))
  BY <1>3, <1>5 DEF Inside, Those
<1>7. \A x : Cuts(At, x, "class") <=> ~\E m \in S : m = x \/ m \in Around(x)
  <2>1. \A x : In(x, Those(At, MemberTypes)) <=> \E m \in S : m = x \/ m \in Around(x)
    BY <1>2, <1>5, <1>6, InMeans DEF Those
  <2> QED
    BY <1>1, <2>1 DEF Cuts, CutByType
<1>8. ASSUME NEW s \in S, NEW m \in Around(s), At \in Around(m) PROVE FALSE
  <2>1. Around(s) = {At} \cup Around(At)
    BY <1>2, <1>5, InsideIsAround
  <2>2. At \notin Around(At)
    BY <1>2, AroundIsBefore, TreeShape
  <2> QED
    BY <1>2, <1>8, <2>1, <2>2, AroundIsClosed
<1>9. Follows(At, w, "class")
  <2>1. \A s \in S : /\ ~Cuts(At, s, "class")
                     /\ \A m \in Around(s) : At \in Around(m) => Type(m) \notin {"pattern", "field", "javaField", "anon"}
                     /\ "visit" = "function" => Type(s) \in FunctionTypes \cup {"shorthand"}
    BY <1>7, <1>8
  <2> QED
    BY <1>2, <1>6, <1>7, <2>1, PartsFollow
<1>10. Guided(todo, At, w, 1, "class", Declared("class"))
  BY <1>1, <1>4 DEF Guided
<1>11. Handles(At, w, 1, "class")
  BY <1>3, DeclareHandles DEF ExtractAnonymous, Kinds
<1> QED
  BY <1>1, <1>4, <1>9, <1>10, <1>11, SeenHandled

LEMMA WalkOnSeen == ASSUME SeenInv, WalkOn, WalkInv' PROVE SeenInv'
<1>1. /\ result = "none" /\ todo # <<>> /\ How \in {"visit", "scan"} /\ How # "leave"
      /\ Type(At) \in {"arrow", "object", "pair", "shorthand", "other"} \cup VariableTypes
      /\ How = "visit" => InsideClassLike \/ Type(At) \in {"object", "pair", "other"}
  BY DEF WalkOn, Busy
<1>2. tree \in Trees /\ At \in Syntaxes /\ How \in WalkSteps
  BY <1>1, AtSeen
<1>3. PICK w : w = Each(How, Children(At))
  OBVIOUS
<1>4. Fits(w, At) /\ \A i \in DOMAIN w : w[i].how = How
  BY <1>2, <1>3, ChildrenFit, EachHow
<1>5. \A x : ~Cuts(At, x, "none")
  <2>1. CASE Type(At) # "pattern"
    <3>1. Type(At) \notin {"pattern", "field", "javaField", "anon"}
      BY <1>1, <2>1 DEF VariableTypes
    <3> QED
      BY <3>1, NothingCut
  <2>2. CASE Type(At) = "pattern"
    <3>1. ~\A k \in Around(At) : Type(k) \in {"file", "other"}
      BY <1>1, <2>2, AtSeen
    <3> QED
      BY <2>2, <3>1 DEF Cuts, CutByType
  <2> QED
    BY <2>1, <2>2
<1>6. Follows(At, w, "none")
  BY <1>1, <1>2, <1>3, <1>5, WholeFollows
<1>7. Guided(todo, At, w, 0, "none", Declared("class"))
  <2>1. CASE How = "visit"
    BY <1>1, <1>3, <2>1, VisitsGuided DEF Outer
  <2>2. CASE How # "visit"
    BY <1>1, <1>4, <2>2, ScansGuided
  <2> QED
    BY <2>1, <2>2
<1>8. Handles(At, w, 0, "none")
  <2>1. At \notin Recordable
    BY <1>1 DEF Recordable, CallTypes, VariableTypes
  <2> QED
    BY <1>3, <2>1, UnnamedHandles DEF WalkOn, Unnamed
<1> QED
  BY <1>1, <1>4, <1>6, <1>7, <1>8, SeenHandled

-----------------------------------------------------------------------------
(* The declarator                                                          *)

(* What is between n and a node that lies in it.                            *)
LEMMA Between ==
  ASSUME tree \in Trees, NEW n \in Syntaxes
  PROVE  /\ n \notin Around(n) /\ \A m \in Around(n) : n \notin Around(m)
         /\ \A c \in Inside(n) : \A m \in Around(c) : n \notin Around(m)
         /\ \A c \in Inside(n), m \in Syntaxes, x \in Syntaxes :
              m \in Around(x) /\ (c = x \/ c \in Around(x)) /\ n \in Around(m) => m = c \/ c \in Around(m)
<1>1. n \notin Around(n)
  BY AroundIsBefore, TreeShape
<1>2. ASSUME NEW m \in Around(n) PROVE n \notin Around(m)
  BY <1>1, AroundIsClosed
<1>3. ASSUME NEW c \in Inside(n), NEW m \in Around(c) PROVE n \notin Around(m)
  BY <1>1, <1>2, InsideIsAround
<1>4. ASSUME NEW c \in Inside(n), NEW m \in Syntaxes, NEW x \in Syntaxes,
             m \in Around(x), c = x \/ c \in Around(x), n \in Around(m)
      PROVE  m = c \/ c \in Around(m)
  <2>1. m \notin Around(c)
    BY <1>3, <1>4
  <2> QED
    BY <1>4, <2>1, AroundIsChain
<1> QED
  BY <1>1, <1>2, <1>3, <1>4

(* Between a variable and the object it is given, there are calls and functions. *)
LEMMA ObjectBetween ==
  ASSUME tree \in Trees, NEW n \in Syntaxes, NEW v \in Inside(n), ObjectOf(v) # <<>>,
         NEW o, o = ObjectOf(v)[1]
  PROVE  /\ o \in Syntaxes /\ Type(o) = "object" /\ n \in Around(o)
         /\ \A m \in Around(o) : n \in Around(m) => Type(m) \in CallTypes \cup FunctionTypes
<1>1. v \in Syntaxes /\ n \in Around(v) /\ o \in Syntaxes /\ (o = v \/ v \in Around(o))
  BY InsideIsAround, ObjectIsInside
<1>2. n \in Around(o)
  BY <1>1, AroundIsClosed
<1>3. CASE Type(v) = "object"
  <2>1. o = v
    BY <1>3 DEF ObjectOf
  <2> QED
    BY <1>1, <1>3, <2>1, Between
<1>4. CASE Type(v) = "call"
  <2>1. ObjectOf(v) = Returned(v)
    BY <1>4 DEF ObjectOf
  <2> DEFINE S == {k \in Syntaxes :
                     /\ Type(k) = "object" /\ Type(Parent(k)) \in FunctionTypes
                     /\ v \in Around(Parent(k))
                     /\ \A m \in Around(Parent(k)) : m = v \/ v \in Around(m) => Type(m) \in CallTypes
                     /\ Cardinality({m \in Around(Parent(k)) : v \in Around(m)}) <= MaxNesting}
  <2>2. Returned(v) = InOrder(S)
    BY DEF Returned
  <2>3. S \subseteq Syntaxes
    OBVIOUS
  <2>4. InOrder(S)[1] \in S
    <3> HIDE DEF S
    <3> QED
      BY <2>1, <2>2, <2>3, FirstOf
  <2>5. /\ Type(o) = "object" /\ Type(Parent(o)) \in FunctionTypes /\ v \in Around(Parent(o))
        /\ \A m \in Around(Parent(o)) : m = v \/ v \in Around(m) => Type(m) \in CallTypes
    BY <2>1, <2>2, <2>4
  <2> HIDE DEF S
  <2>6. Parent(o) \in Syntaxes /\ Around(o) = {Parent(o)} \cup Around(Parent(o))
    <3>1. o # 1
      BY <2>5, TreeShape
    <3> QED
      BY <1>1, <3>1, TreeShape
  <2>7. ASSUME NEW m \in Around(o), n \in Around(m), m # Parent(o) PROVE Type(m) \in CallTypes
    <3>1. m \in Around(Parent(o)) /\ m \in Syntaxes
      BY <2>6, <2>7, AroundIsBefore
    <3>2. m = v \/ v \in Around(m)
      BY <2>5, <2>6, <2>7, <3>1, Between
    <3> QED
      BY <2>5, <3>1, <3>2
  <2> QED
    BY <1>1, <1>2, <2>5, <2>7
<1>5. CASE Type(v) # "object" /\ Type(v) # "call"
  BY <1>5 DEF ObjectOf
<1> QED
  BY <1>3, <1>4, <1>5

(* The methods of an exported variable lie in it.                           *)
LEMMA MethodsAre ==
  ASSUME tree \in Trees, NEW n \in Syntaxes, NEW v \in Inside(n)
  PROVE  \/ MethodsOf(n, v) = <<>>
         \/ \E S \in SUBSET Syntaxes :
              /\ MethodsOf(n, v) = InOrder(S)
              /\ \A s \in S : /\ Type(s) \in FunctionTypes \cup {"shorthand"}
                              /\ \A m \in Around(s) : n \in Around(m) => Type(m) \notin {"pattern", "field", "javaField", "anon"}
<1>1. CASE Type(n) = "exported" /\ ObjectOf(v) # <<>>
  <2>1. PICK o : o = ObjectOf(v)[1]
    OBVIOUS
  <2>2. /\ o \in Syntaxes /\ Type(o) = "object" /\ n \in Around(o)
        /\ \A m \in Around(o) : n \in Around(m) => Type(m) \in CallTypes \cup FunctionTypes
    BY <1>1, <2>1, ObjectBetween
  <2> DEFINE Long == {m \in Inside(o) : Type(m) # "shorthand"}
             S == {m \in Inside(o) : Type(m) = "shorthand"} \cup
                  UNION {{f \in Inside(m) : Type(f) \in FunctionTypes} : m \in Long}
  <2>3. MethodsOf(n, v) = InOrder(S)
    BY <1>1, <2>1 DEF MethodsOf, FunctionsOf
  <2>4. \A m \in Inside(o) : m \in Syntaxes /\ Around(m) = {o} \cup Around(o) /\ Type(m) \in {"pair", "shorthand"}
    <3>1. \A m \in Inside(o) : m \in Syntaxes \ {1} /\ Parent(m) = o /\ Around(m) = {o} \cup Around(o)
      BY <2>2, InsideIsAround
    <3>2. \A m \in Inside(o) : Type(m) \in Below("object")
      BY <2>2, <3>1, Grammar
    <3> QED
      BY <3>1, <3>2 DEF Below, FunctionTypes
  <2>5. ASSUME NEW s \in S
        PROVE  /\ s \in Syntaxes /\ Type(s) \in FunctionTypes \cup {"shorthand"}
               /\ \A m \in Around(s) : n \in Around(m) => Type(m) \notin {"pattern", "field", "javaField", "anon"}
    <3>1. CASE s \in Inside(o) /\ Type(s) = "shorthand"
      BY <2>2, <2>4, <3>1 DEF CallTypes, FunctionTypes
    <3>2. CASE \E m \in Long : s \in Inside(m) /\ Type(s) \in FunctionTypes
      <4>1. PICK m \in Inside(o) : s \in Inside(m) /\ Type(s) \in FunctionTypes
        BY <3>2
      <4>2. s \in Syntaxes /\ Around(s) = {m} \cup Around(m)
        BY <2>4, <4>1, InsideIsAround
      <4> QED
        BY <2>2, <2>4, <4>1, <4>2 DEF CallTypes, FunctionTypes
    <3> QED
      BY <3>1, <3>2
  <2>6. S \in SUBSET Syntaxes
    BY <2>5
  <2> HIDE DEF S
  <2> QED
    BY <2>3, <2>5, <2>6
<1>2. CASE ~(Type(n) = "exported" /\ ObjectOf(v) # <<>>)
  BY <1>2 DEF MethodsOf
<1> QED
  BY <1>1, <1>2

(* extractVariable walks the initializer, or the methods it extracts and     *)
(* nothing else.                                                           *)
LEMMA ConstantFollows ==
  ASSUME tree \in Trees, NEW n \in Syntaxes, Type(n) \in {"var", "exported"},
         NEW v \in Inside(n), v = Children(n)[1], \A c \in Inside(n) : c = v
  PROVE  Follows(n, Initializer(v, MethodsOf(n, v)) \o Each("function", MethodsOf(n, v)), "constant")
<1>1. PICK ms : ms = MethodsOf(n, v)
  OBVIOUS
<1>2. PICK w : w = Each("function", ms)
  OBVIOUS
<1>3. \A x : Cuts(n, x, "constant") <=> ~In(x, ms) /\ (Type(v) = "object" \/ ms # <<>>)
  BY <1>1 DEF Cuts, CutByConstant, CutByType
<1>4. CASE Type(v) = "object" \/ (ms # <<>> /\ Type(v) = "call")
  <2>1. Initializer(v, ms) = <<>>
    BY <1>4 DEF Initializer
  <2>2. <<>> \o w = w
    <3>1. Fits(w, n)
      BY <1>1, <1>2, MethodsFit
    <3> QED
      BY <3>1 DEF Fits
  <2>3. \A x : Cuts(n, x, "constant") <=> ~In(x, ms)
    BY <1>3, <1>4
  <2>4. Follows(n, w, "constant")
    <3>1. CASE ms = <<>>
      <4>1. w = <<>>
        BY <1>2, <3>1 DEF Each
      <4>2. \A x : ~In(x, ms)
        BY <3>1 DEF In, ToSet
      <4> QED
        BY <2>3, <4>1, <4>2, NothingFollows
    <3>2. CASE ms # <<>>
      <4>1. PICK S \in SUBSET Syntaxes :
              /\ ms = InOrder(S)
              /\ \A s \in S : /\ Type(s) \in FunctionTypes \cup {"shorthand"}
                              /\ \A m \in Around(s) : n \in Around(m) => Type(m) \notin {"pattern", "field", "javaField", "anon"}
        BY <1>1, <3>2, MethodsAre
      <4>2. \A x : Cuts(n, x, "constant") <=> ~\E m \in S : m = x \/ m \in Around(x)
        BY <2>3, <4>1, InMeans
      <4>3. "function" \in WalkSteps
        BY DEF WalkSteps
      <4>4. \A s \in S : ~Cuts(n, s, "constant")
        BY <4>2
      <4>5. \A x \in Recordable : n \in Around(x) => (\E s \in S : s = x \/ s \in Around(x)) \/ Cuts(n, x, "constant")
        BY <4>2
      <4>6. Follows(n, Each("function", InOrder(S)), "constant")
        BY <4>1, <4>3, <4>4, <4>5, PartsFollow
      <4> QED
        BY <1>2, <4>1, <4>6
    <3> QED
      BY <3>1, <3>2
  <2> QED
    BY <1>1, <1>2, <2>1, <2>2, <2>4
<1>5. CASE ~(Type(v) = "object" \/ (ms # <<>> /\ Type(v) = "call"))
  <2>1. Initializer(v, ms) = Each("scan", <<v>>)
    BY <1>5 DEF Initializer
  <2>2. ms = <<>>
    BY <1>1, <1>5 DEF MethodsOf, ObjectOf
  <2>3. w = <<>>
    BY <1>2, <2>2 DEF Each
  <2>4. v \in Syntaxes /\ \A m \in Around(v) : n \notin Around(m)
    BY InsideIsAround, Between
  <2>5. PICK u : u = <<[how |-> "scan", at |-> v]>>
    OBVIOUS
  <2>6. u = Each("scan", <<v>>)
    BY <2>5 DEF Each
  <2>7. /\ u \in Seq(Calls) /\ DOMAIN u = {1} /\ u[1].at = v /\ u[1].how = "scan"
    <3>1. [how |-> "scan", at |-> v] \in Calls
      BY <2>4 DEF Calls, WalkSteps
    <3> QED
      BY <2>5, <3>1
  <2>8. u \o <<>> = u
    BY <2>7
  <2>9. \A x : ~Cuts(n, x, "constant")
    BY <1>3, <1>5, <2>2
  <2>10. ASSUME NEW x \in Recordable, n \in Around(x) PROVE Comes(x, u)
    <3>1. v = x \/ v \in Around(x)
      BY <2>10, ChildAround DEF Recordable
    <3> QED
      BY <2>7, <3>1 DEF Comes
  <2>11. Follows(n, u, "constant")
    BY <2>4, <2>7, <2>9, <2>10 DEF Follows
  <2> QED
    BY <1>1, <1>2, <2>1, <2>3, <2>6, <2>8, <2>11
<1> QED
  BY <1>4, <1>5

LEMMA DeclaratorSeen ==
  ASSUME SeenInv, result = "none", todo # <<>>, How # "leave", WalkInv', UNCHANGED <<tree, refs, result>>,
         Type(At) \in {"var", "exported"}, Declarator(Children(At))
  PROVE  SeenInv'
<1>1. tree \in Trees /\ At \in Syntaxes \ {1} /\ "function" \in WalkSteps /\ "scan" \in WalkSteps
  BY AtSeen DEF WalkSteps
<1>2. At \notin Recordable /\ Type(At) \notin {"file", "other", "pattern", "field", "javaField", "anon"}
  BY DEF Recordable, CallTypes
<1>3. PICK vs : vs = Children(At)
  OBVIOUS
<1>4. Declarator(vs)
  BY <1>3
<1>5. Fits(Each("function", vs), At) /\ Fits(<<>>, At)
  BY <1>1, <1>3, ChildrenFit, NothingFits
<1>6. ASSUME vs # <<>> PROVE vs[1] \in Inside(At) /\ \A c \in Inside(At) : c = vs[1]
  <2>1. vs[1] \in Inside(At)
    BY <1>1, <1>3, <1>6, FirstInside
  <2>2. ~MayHold(Type(At), 1)
    BY DEF MayHold, VariableTypes
  <2>3. \A c \in Inside(At) : c \in Syntaxes \ {1} /\ Parent(c) = At
    BY <1>1, InsideIsAround
  <2> QED
    BY <1>1, <2>1, <2>2, <2>3, Grammar
<1>7. CASE vs = <<>>
  <2>1. Create(At, "constant") /\ Goes(<<>>) /\ UNCHANGED nodeStack
    BY <1>4, <1>7 DEF Declarator
  <2>2. \A c \in Inside(At) : FALSE
    <3>1. Inside(At) \subseteq Syntaxes
      BY DEF Inside
    <3>2. ToSet(vs) = Inside(At)
      BY <1>1, <1>3, <3>1, InOrderHas DEF Children
    <3> QED
      BY <1>7, <3>2 DEF ToSet
  <2>3. Follows(At, <<>>, "constant")
    <3>1. \A x \in Recordable : At \notin Around(x)
      BY <1>1, <2>2, ChildAround DEF Recordable
    <3> QED
      BY <3>1, NothingFollows
  <2>4. Handles(At, <<>>, 0, "constant")
    BY <1>2, <2>1, CreateHandles DEF Kinds
  <2>5. \A i \in DOMAIN <<>> : <<>>[i].how # "visit"
    OBVIOUS
  <2> QED
    BY <1>2, <1>5, <2>3, <2>4, <2>5, BodySeen
<1>8. CASE vs # <<>> /\ Type(vs[1]) \in FunctionTypes
  <2>1. PICK w : w = Each("function", vs)
    OBVIOUS
  <2>2. Unnamed(w)
    BY <1>4, <1>8, <2>1 DEF Declarator, FunctionTypes
  <2>3. Follows(At, w, "none")
    BY <1>1, <1>2, <1>3, <1>6, <1>8, <2>1, WholeFollows, NothingCut
  <2>4. Handles(At, w, 0, "none")
    BY <1>2, <2>2, UnnamedHandles DEF Unnamed
  <2>5. Fits(w, At) /\ \A i \in DOMAIN w : w[i].how # "visit"
    BY <1>5, <2>1, EachHow
  <2> QED
    BY <1>2, <2>3, <2>4, <2>5, BodySeen
<1>9. CASE vs # <<>> /\ Type(vs[1]) \notin FunctionTypes /\ Type(vs[1]) = "hoc"
  <2>1. PICK inner : inner = Those(vs[1], FunctionTypes)
    OBVIOUS
  <2>2. \A x : Cuts(At, x, "component") <=> ~In(x, First(inner))
    BY <1>2, <1>3, <2>1 DEF Cuts, CutByComponent, CutByType
  <2>3. vs[1] \in Syntaxes /\ Around(vs[1]) = {At} \cup Around(At)
    BY <1>1, <1>6, <1>9, InsideIsAround
  <2>4. CASE inner = <<>>
    <3>1. Create(At, "component") /\ Goes(<<>>)
      BY <1>4, <1>9, <2>1, <2>4 DEF Declarator
    <3>2. Follows(At, <<>>, "component")
      BY <2>2, <2>4, FirstMeans, NothingFollows
    <3>3. Handles(At, <<>>, 0, "component")
      BY <1>2, <3>1, CreateHandles DEF Kinds
    <3>4. \A i \in DOMAIN <<>> : <<>>[i].how # "visit"
      OBVIOUS
    <3> QED
      BY <1>2, <1>5, <3>2, <3>3, <3>4, BodySeen
  <2>5. CASE inner # <<>>
    <3>1. PICK f : f = inner[1]
      OBVIOUS
    <3>2. f \in {m \in Inside(vs[1]) : Type(m) \in FunctionTypes}
      BY <1>1, <2>1, <2>5, <3>1, FirstOf DEF Those, Inside
    <3>3. f \in Syntaxes /\ Around(f) = {vs[1]} \cup Around(vs[1])
      BY <1>1, <2>3, <3>2, InsideIsAround
    <3>4. \A m \in Around(f) : At \in Around(m) => Type(m) \in CallTypes
      BY <1>1, <1>9, <2>3, <3>3, Between DEF CallTypes
    <3>5. \A x : Cuts(At, x, "component") <=> ~(f = x \/ f \in Around(x))
      BY <2>2, <2>5, <3>1, FirstMeans
    <3>6. PICK w : w = Scans(f)
      OBVIOUS
    <3>7. Follows(At, w, "component")
      BY <1>1, <2>3, <3>2, <3>3, <3>4, <3>5, <3>6, InnerFollows
    <3>8. Fits(w, At) /\ \A i \in DOMAIN w : w[i].how # "visit"
      <4>1. Fits(w, f)
        BY <1>1, <3>3, <3>6, ChildrenFit DEF Scans
      <4>2. Fits(w, At)
        BY <1>1, <2>3, <3>3, <4>1, FitsDeeper
      <4> QED
        BY <3>6, <4>2, EachHow DEF Scans
    <3>9. Declare(At, "component", w)
      BY <1>4, <1>9, <2>1, <2>5, <3>1, <3>6 DEF Declarator
    <3>10. Handles(At, w, 1, "component")
      BY <1>2, <3>9, DeclareHandles DEF Kinds
    <3> QED
      BY <1>2, <3>7, <3>8, <3>10, BodySeen
  <2> QED
    BY <2>4, <2>5
<1>10. CASE vs # <<>> /\ Type(vs[1]) \notin FunctionTypes /\ Type(vs[1]) # "hoc"
  <2>1. PICK v, ms : v = vs[1] /\ ms = MethodsOf(At, v)
    OBVIOUS
  <2>2. PICK w : w = Initializer(v, ms) \o Each("function", ms)
    OBVIOUS
  <2>3. Create(At, "constant") /\ Goes(w)
    BY <1>4, <1>10, <2>1, <2>2 DEF Declarator
  <2>4. v \in Inside(At) /\ v = Children(At)[1] /\ \A c \in Inside(At) : c = v
    BY <1>3, <1>6, <1>10, <2>1
  <2>5. Fits(w, At)
    BY <1>1, <2>1, <2>2, <2>4, DeclaratorFits
  <2>6. Follows(At, w, "constant")
    BY <1>1, <2>1, <2>2, <2>4, ConstantFollows
  <2>7. \A i \in DOMAIN w : w[i].how # "visit"
    <3>1. PICK a, b : a = Initializer(v, ms) /\ b = Each("function", ms)
      OBVIOUS
    <3>2. a = <<>> \/ a = Each("scan", <<v>>)
      BY <3>1 DEF Initializer
    <3>3. \A i \in DOMAIN a : a[i].how # "visit"
      BY <3>2, EachHow
    <3>4. \A i \in DOMAIN b : b[i].how # "visit"
      BY <3>1, EachHow
    <3>5. b \in Seq(Calls) /\ a \in Seq([how : {"scan"}, at : {v}])
      <4>1. b \in Seq(Calls)
        BY <1>1, <2>1, <2>4, <3>1, MethodsFit DEF Fits
      <4>2. PICK A : A = [how : {"scan"}, at : {v}]
        OBVIOUS
      <4>3. Each("scan", <<v>>) \in Seq(A)
        BY <4>2 DEF Each
      <4>4. <<>> \in Seq(A)
        OBVIOUS
      <4> QED
        BY <3>2, <4>1, <4>2, <4>3, <4>4
    <3>6. w = a \o b
      BY <2>2, <3>1
    <3>7. \A i \in DOMAIN w : (i \in DOMAIN a /\ w[i] = a[i]) \/ \E j \in DOMAIN b : w[i] = b[j]
      BY <3>5, <3>6
    <3> QED
      BY <3>3, <3>4, <3>7
  <2>8. Handles(At, w, 0, "constant")
    BY <1>2, <2>3, CreateHandles DEF Kinds
  <2> QED
    BY <1>2, <2>5, <2>6, <2>7, <2>8, BodySeen
<1> QED
  BY <1>7, <1>8, <1>9, <1>10

LEMMA ExtractVariableSeen == ASSUME SeenInv, ExtractVariable, WalkInv' PROVE SeenInv'
<1>1. /\ result = "none" /\ todo # <<>> /\ How = "visit" /\ Type(At) \in VariableTypes /\ ~InsideClassLike
      /\ UNCHANGED <<tree, refs, result>>
  BY DEF ExtractVariable, Busy
<1>2. tree \in Trees /\ At \in Syntaxes /\ \A k \in Around(At) : Type(k) \in Outer
  BY <1>1, AtSeen
<1>3. CASE Type(At) = "pattern" /\ Unnamed(<<>>)
  <2>1. \A k \in Around(At) : Type(k) \in {"file", "other"}
    BY <1>2, <1>3, PlainAround
  <2>2. \A x : Cuts(At, x, "none")
    BY <1>3, <2>1 DEF Cuts, CutByType
  <2>3. Follows(At, <<>>, "none")
    BY <2>2, NothingFollows
  <2>4. Handles(At, <<>>, 0, "none")
    BY <1>1, <1>3, UnnamedHandles DEF Unnamed, Recordable, CallTypes
  <2>5. Fits(<<>>, At) /\ \A i \in DOMAIN <<>> : <<>>[i].how # "visit"
    BY NothingFits
  <2> QED
    BY <1>1, <1>3, <2>3, <2>4, <2>5, BodySeen
<1>4. CASE Type(At) # "pattern" /\ Declarator(Children(At))
  BY <1>1, <1>4, DeclaratorSeen DEF VariableTypes
<1> QED
  BY <1>3, <1>4 DEF ExtractVariable

-----------------------------------------------------------------------------
(* The end of a body, and of the walk                                      *)

LEMMA LeaveBodySeen == ASSUME SeenInv, LeaveBody, WalkInv' PROVE SeenInv'
<1>1. /\ result = "none" /\ todo # <<>> /\ todo[1].how = "leave" /\ WalkInv
      /\ UNCHANGED <<tree, nodes, refs, result>> /\ todo' = <<>> \o Tail(todo)
      /\ Seen(todo, Declared("component"), Declared("constant"), Declared("class"), Noted)
  BY DEF LeaveBody, Busy, How, Goes, SeenInv
<1>2. todo \in Seq(Items)
  BY <1>1 DEF WalkInv, Ledger, Books
<1>3. PICK td, cs, ks, cl, re : /\ td = Tail(todo) /\ cs = Declared("component") /\ ks = Declared("constant")
                                /\ cl = Declared("class") /\ re = Noted
  OBVIOUS
<1>4. Seen(td, cs, ks, cl, re)
  BY <1>1, <1>2, <1>3, SeenLeft
<1>5. td = todo'
  <2>1. td \in Seq(Items)
    BY <1>1, <1>2, <1>3, Rest
  <2>2. <<>> \o td = td
    BY <2>1
  <2> QED
    BY <1>1, <1>3, <2>2
<1>6. cs = Declared("component")' /\ ks = Declared("constant")' /\ cl = Declared("class")' /\ re = Noted'
  BY <1>1, <1>3 DEF Declared, Noted
<1> QED
  BY <1>1, <1>4, <1>5, <1>6, SeenNext DEF SeenInv

(* A step that changes neither the calls nor the graph.                     *)
LEMMA SeenRests ==
  ASSUME SeenInv, UNCHANGED <<tree, todo, nodes, refs>>, WalkInv',
         result' # "part" => result # "part", result' = "all" => todo = <<>>
  PROVE  SeenInv'
<1>1. CASE result' = "part"
  BY <1>1 DEF SeenInv
<1>2. CASE result' # "part"
  <2>1. PICK td, cs, ks, cl, re : /\ td = todo /\ cs = Declared("component") /\ ks = Declared("constant")
                                  /\ cl = Declared("class") /\ re = Noted
    OBVIOUS
  <2>2. Seen(td, cs, ks, cl, re)
    BY <1>2, <2>1 DEF SeenInv
  <2>3. td = todo' /\ cs = Declared("component")' /\ ks = Declared("constant")' /\ cl = Declared("class")' /\ re = Noted'
    BY <2>1 DEF Declared, Noted
  <2> QED
    BY <2>2, <2>3, SeenNext DEF SeenInv
<1> QED
  BY <1>1, <1>2

LEMMA SeenStarts == ASSUME WalkInit PROVE SeenInv
<1>1. WalkInv
  BY WalkStarts
<1>2. /\ tree \in Trees /\ todo = Visits(1) /\ nodes = <<[at |-> 1, kind |-> "file"]>> /\ refs = <<>> /\ result = "none"
  BY DEF WalkInit
<1>3. /\ 1 \in Syntaxes /\ Type(1) = "file" /\ Around(1) = {}
  BY <1>2, TreeShape
<1>4. Declared("component") = {} /\ Declared("constant") = {} /\ Declared("class") = {} /\ Noted = {}
  BY <1>2 DEF Declared, Noted
<1>5. /\ \A i \in DOMAIN todo : todo[i].how = "visit" /\ todo[i].at \in Inside(1)
      /\ \A c \in Inside(1) : \E i \in DOMAIN todo : todo[i].at = c
  <2>1. Inside(1) \subseteq Syntaxes
    BY DEF Inside
  <2> QED
    BY <1>2, <2>1, InOrderHas DEF Visits, Children
<1>6. \A c \in Inside(1) : c \in Syntaxes /\ Around(c) = {1}
  BY <1>2, <1>3, InsideIsAround
<1>7. \A n \in Syntaxes : Around(n) = {1} => ~Skipped(n, {}, {})
  BY <1>3 DEF Skipped, Skips, CutByType
<1>8. ASSUME NEW x \in Recordable PROVE Comes(x, todo)
  <2>1. x \in Syntaxes /\ x # 1
    BY <1>3 DEF Recordable, CallTypes
  <2>2. 1 \in Around(x)
    BY <1>2, <2>1, FileIsAroundAll
  <2>3. PICK c \in Inside(1) : c = x \/ c \in Around(x)
    BY <1>2, <1>3, <2>1, <2>2, ChildAround
  <2> QED
    BY <1>5, <2>3 DEF Comes
<1>9. Seen(todo, {}, {}, {}, {})
  <2>1. ASSUME NEW i \in Pending(todo)
        PROVE  /\ todo[i].how = "visit" /\ ~Skipped(todo[i].at, {}, {})
               /\ \A k \in Around(todo[i].at) : Type(k) \in Outer
    BY <1>3, <1>5, <1>6, <1>7 DEF Pending, Outer
  <2> QED
    BY <1>8, <2>1 DEF Seen
<1> QED
  BY <1>1, <1>2, <1>4, <1>9 DEF SeenInv

LEMMA SeenKeeps == ASSUME SeenInv, [WalkNext]_syntax PROVE SeenInv'
<1>1. WalkInv'
  BY WalkKeeps DEF SeenInv
<1>2. CASE UNCHANGED syntax
  BY <1>1, <1>2, SeenRests DEF syntax, SeenInv
<1>3. CASE Returns
  BY <1>1, <1>3, SeenRests DEF Returns
<1>4. CASE Throws
  BY <1>1, <1>4, SeenRests DEF Throws
<1> QED
  BY <1>1, <1>2, <1>3, <1>4, ExtractFunctionSeen, ExtractClassSeen, ExtractMethodSeen, ExtractPropertySeen, ExtractFieldSeen,
     ExtractVariableSeen, ExtractCallSeen, ExtractAnonymousSeen, WalkOnSeen, LeaveBodySeen DEF WalkNext

LEMMA SeenAll == ASSUME SeenInv PROVE CallsAreSeen
<1> SUFFICES ASSUME result = "all", NEW n \in Syntaxes, Type(n) \in CallTypes \cup {"new", "anon"}
             PROVE  LeftOut(n) <=> \A i \in DOMAIN refs : refs[i].at # n
  BY DEF CallsAreSeen
<1>1. WalkTypeOK /\ todo = <<>> /\ Seen(todo, Declared("component"), Declared("constant"), Declared("class"), Noted)
  BY DEF SeenInv, WalkInv
<1>2. n \in Recordable /\ ~Comes(n, todo)
  BY <1>1 DEF Recordable, Comes
<1>3. n \in Noted <=> ~Skipped(n, Declared("component"), Declared("constant"))
  BY <1>1, <1>2 DEF Seen
<1>4. LeftOut(n) <=> Skipped(n, Declared("component"), Declared("constant"))
  BY <1>1, LeftOutMeans
<1> QED
  BY <1>3, <1>4 DEF Noted

(* Whatever the file: a walk that ends by itself has recorded every call and *)
(* every `new` but those in the parts that are left out.                    *)
THEOREM CallsStaySeen == WalkSpec => []CallsAreSeen
<1>1. WalkSpec => []SeenInv
  BY SeenStarts, SeenKeeps, PTL DEF WalkSpec
<1> QED
  BY <1>1, SeenAll, PTL

-----------------------------------------------------------------------------
(* The edges between files.  The rows of the tables, those of              *)
(* unresolved_refs and the deferred ones are each traced to the content    *)
(* they were taken from (LinksInv); files whose replacement was cut short  *)
(* are the exception throughout.                                           *)

(* A use or a symbol of f is in the content the record of f was made from *)
Using(f, u)   == f \in torn \/ (Recorded(f) /\ u[2] \in record[f].uses)
HasSymbol(f, s) == f \in torn \/ (Recorded(f) /\ s \in SymbolsOf(f, record[f]))

SymbolsTraced == \A s \in symbols : HasSymbol(s[1], s)
UsesTraced    == \A u \in pending \cup deferred : Using(u[1], u)

(* Only the resolution passes defer, and only uses that the second pass takes *)
DeferredInv == /\ phase \in {"idle", "sync", "bulk"} => deferred = {}
               /\ \A u \in deferred : u[2] \in Late

(* ResolvedRowsAreGone, within an operation as well: there the rows whose     *)
(* edges have just been inserted are still to be deleted.                   *)
Spared(u) == u[2] \in Aliased \cup Late \/ u[1] \in torn \/ u \in unswept
RowsServedOnce == \A u \in pending : Spared(u) \/ u \in Unfinished \/ ~Linked(u)
EdgesComeFirst == \A u \in Unfinished : Linked(u)

LinksInv == /\ TypeOK /\ EdgesAreBacked /\ SymbolsTraced /\ UsesTraced
            /\ DeferredInv /\ UsesAccounted /\ RowsServedOnce /\ EdgesComeFirst

(* A finite set of numbers has a greatest element: of its subsets without   *)
(* one, take a smallest.                                                    *)
LEMMA MaxIsElement ==
  ASSUME NEW S, S \subseteq Nat, IsFiniteSet(S), S # {}
  PROVE  Max(S) \in S
<1> DEFINE HasMax(A) == \E x \in A : \A y \in A : x >= y
           R   == StrictSubsetOrdering(S)
           Bad == {A \in SUBSET S : A # {} /\ ~HasMax(A)}
<1>1. SUFFICES ASSUME Bad # {} PROVE FALSE
  BY DEF Max
<1>2. Bad \subseteq FiniteSubsetsOf(S)
  BY FS_Subset DEF FiniteSubsetsOf
<1>3. IsWellFoundedOn(R, FiniteSubsetsOf(S))
  BY FS_StrictSubsetOrderingWellFounded
<1>4. PICK A \in Bad : \A B \in Bad : <<B, A>> \notin R
  <2> HIDE DEF Bad, R
  <2> QED BY <1>1, <1>2, <1>3, WFMin
<1>5. PICK a \in A : TRUE
  BY <1>4
<1>6. A \ {a} \notin Bad
  BY <1>4, <1>5 DEF StrictSubsetOrdering
<1>7. A \ {a} = {} => HasMax(A)
  BY <1>4, <1>5
<1>8. ASSUME NEW m \in A \ {a}, \A y \in A \ {a} : m >= y PROVE HasMax(A)
  BY <1>4, <1>5, <1>8
<1> QED BY <1>4, <1>6, <1>7, <1>8

LEMMA NewestIsDefined ==
  ASSUME NEW f \in Files, NEW c \in Contents, NEW n, \E d \in c.defs : d[1] = n
  PROVE  Newest(f, c, n) \in SymbolsOf(f, c) /\ \E l : Newest(f, c, n) = <<f, n, l>>
<1> DEFINE at == {d[2] : d \in {x \in c.defs : x[1] = n}}
<1>1. at \subseteq Lines /\ at # {}
  BY DEF Contents
<1>2. Max(at) \in at
  <2>1. IsFiniteSet(at)
    BY <1>1, FS_Subset, LinksAssumption
  <2> HIDE DEF at
  <2> QED BY <1>1, <2>1, MaxIsElement, LinksAssumption
<1>3. PICK d \in c.defs : d[1] = n /\ d[2] = Max(at)
  BY <1>2
<1>4. Newest(f, c, n) = <<f, d[1], d[2]>>
  BY <1>3 DEF Newest
<1> QED BY <1>3, <1>4 DEF SymbolsOf

LEMMA SymbolsTyped ==
  ASSUME NEW f \in Files, NEW c \in Contents
  PROVE  /\ SymbolsOf(f, c) \subseteq Symbols /\ \A s \in SymbolsOf(f, c) : s[1] = f
         /\ UsesOf(f, c) \subseteq Uses
         /\ \A u \in UsesOf(f, c) : u[1] = f /\ u[2] \in c.uses
         /\ \A u \in Uses : u[1] = f /\ u[2] \in c.uses => u \in UsesOf(f, c)
BY DEF SymbolsOf, UsesOf, Symbols, Uses, Contents

(* An edge that is made again goes from the use it went from to a symbol of  *)
(* the new content that has its name.                                       *)
LEMMA ReattachedIsBacked ==
  ASSUME LinksInv, NEW f \in Files, NEW c \in Contents, NEW e \in Reattached(f, c)
  PROVE  /\ e \in Edges /\ e.use[1] # f /\ e.target[1] = f
         /\ e.target \in SymbolsOf(f, c) /\ e.target[2] = e.use[2] /\ Recorded(f)
         /\ \E i \in edges : i.use = e.use /\ i.target[1] = f
<1>1. PICK i \in Incoming(f) : /\ \E d \in c.defs : d[1] = i.target[2]
                               /\ e = [use |-> i.use, target |-> Newest(f, c, i.target[2])]
  BY DEF Reattached
<1>2. i \in edges /\ i.target[1] = f /\ i.use[1] # f /\ Recorded(f)
  BY DEF Incoming
<1>3. i.use \in Uses /\ i.use[2] = i.target[2]
  BY <1>2 DEF LinksInv, TypeOK, EdgesAreBacked, Edges
<1>4. /\ e.target \in SymbolsOf(f, c) /\ \E l : e.target = <<f, i.target[2], l>>
      /\ e.use = i.use
  BY <1>1, NewestIsDefined
<1>5. e.target \in Symbols /\ e.target[1] = f /\ e.target[2] = i.target[2]
  BY <1>4, SymbolsTyped
<1>6. e \in Edges
  BY <1>1, <1>3, <1>5 DEF Edges
<1> QED BY <1>2, <1>3, <1>4, <1>5, <1>6

-----------------------------------------------------------------------------
(* storeExtractionResult(), whole or cut short: what Store and Cut share     *)
Replaces(f, step) ==
  /\ disk[f] \notin {Gone, record[f]} /\ StoreUpTo(f, step)
  /\ torn' = IF step # 5 THEN torn \cup {f} ELSE IF Recorded(f) THEN torn \ {f} ELSE torn
  /\ missed' \subseteq Uses
  /\ \A u \in missed : u[1] # f => u \in missed'
  /\ \A e \in edges : e.target[1] = f /\ e.use[1] # f /\ (step = 5 => e.use \in Severed(f, disk[f]))
                       => e.use \in missed'
  /\ deferred = {} /\ deferred' = {}
  /\ unswept' = unswept \ UsesIn({f}) /\ Unfinished = {} /\ Unfinished' = {}

(* What becomes of the rows when the content of f is replaced *)
LEMMA ReplacedRows ==
  ASSUME LinksInv, NEW f \in Files, NEW step \in 1..5, Replaces(f, step)
  PROVE  /\ disk[f] \in Contents
         /\ \A s \in symbols' :
              \/ s \in SymbolsOf(f, disk[f])
              \/ s \in symbols /\ (s[1] = f => ~Recorded(f))
         /\ \A s \in symbols : s[1] # f => s \in symbols'
         /\ \A e \in edges' :
              \/ e \in edges /\ e.use[1] # f /\ (e.target[1] = f => ~Recorded(f))
              \/ e \in Reattached(f, disk[f])
         /\ \A e \in edges' : e.target \in symbols'
         /\ \A e \in edges : e.use[1] # f /\ e.target[1] # f => e \in edges'
         /\ step = 5 => Reattached(f, disk[f]) \subseteq edges'
         /\ \A u \in pending' :
              \/ u \in UsesOf(f, disk[f])
              \/ u \in pending /\ (u[1] = f => ~Recorded(f))
         /\ \A u \in pending : u[1] # f => u \in pending'
         /\ step = 5 => UsesOf(f, disk[f]) \subseteq pending'
         /\ record' = [record EXCEPT ![f] = IF step = 5 THEN disk[f] ELSE Gone]
<1> DEFINE c == disk[f]
           fresh == IF step >= 2 THEN SymbolsOf(f, c) ELSE {}
           dropped == IF Recorded(f) THEN SymbolsIn({f}) ELSE fresh
           relinked == IF step >= 3 THEN Reattached(f, c) ELSE {}
           others == IF Recorded(f) THEN pending \ UsesIn({f}) ELSE pending
<1>1. /\ symbols' = (symbols \ dropped) \cup fresh
      /\ edges' = Without(edges, {f}, dropped) \cup relinked
      /\ pending' = others \cup IF step >= 4 THEN UsesOf(f, c) ELSE {}
      /\ record' = [record EXCEPT ![f] = IF step = 5 THEN c ELSE Gone]
  BY DEF Replaces, StoreUpTo, Steps
<1>2. c \in Contents
  BY DEF LinksInv, TypeOK, Replaces
<1>3. \A s \in SymbolsOf(f, c) : s[1] = f
  BY <1>2, SymbolsTyped
<1>4. \A s \in symbols : s \in dropped => s[1] = f
  BY <1>3 DEF SymbolsIn
<1>5. \A s \in symbols : s[1] = f /\ Recorded(f) => s \in dropped
  BY DEF SymbolsIn
<1>6. \A s \in symbols' : \/ s \in SymbolsOf(f, c)
                          \/ s \in symbols /\ (s[1] = f => ~Recorded(f))
  BY <1>1, <1>5
<1>7. \A s \in symbols : s[1] # f => s \in symbols'
  BY <1>1, <1>4
<1>8. \A e \in edges : e.target \in symbols
  BY DEF LinksInv, EdgesAreBacked
<1>9. \A e \in edges' : \/ e \in edges /\ e.use[1] # f /\ (e.target[1] = f => ~Recorded(f))
                        \/ e \in Reattached(f, c)
  <2> HIDE DEF dropped
  <2> QED BY <1>1, <1>5, <1>8 DEF Without
<1>10. \A e \in edges' : e.target \in symbols'
  <2> SUFFICES ASSUME NEW e \in edges' PROVE e.target \in symbols'
    OBVIOUS
  <2>1. CASE e \in Without(edges, {f}, dropped)
    <3> HIDE DEF dropped
    <3> QED BY <1>1, <1>8, <2>1 DEF Without
  <2>2. CASE e \in relinked
    BY <1>1, <1>2, <2>2, ReattachedIsBacked
  <2> QED BY <1>1, <2>1, <2>2
<1>11. \A e \in edges : e.use[1] # f /\ e.target[1] # f => e \in edges'
  <2> HIDE DEF dropped
  <2> QED BY <1>1, <1>4, <1>8 DEF Without
<1>12. \A u \in pending' : \/ u \in UsesOf(f, c)
                           \/ u \in pending /\ (u[1] = f => ~Recorded(f))
  BY <1>1 DEF UsesIn, LinksInv, TypeOK
<1>13. \A u \in pending : u[1] # f => u \in pending'
  BY <1>1 DEF UsesIn
<1>14. step = 5 => Reattached(f, c) \subseteq edges' /\ UsesOf(f, c) \subseteq pending'
  BY <1>1
<1> HIDE DEF dropped, fresh, relinked, others
<1> QED BY <1>1, <1>2, <1>6, <1>7, <1>9, <1>10, <1>11, <1>12, <1>13, <1>14

LEMMA ReplacedRecord ==
  ASSUME LinksInv, NEW f \in Files, NEW step \in 1..5, Replaces(f, step)
  PROVE  /\ disk[f] \in Contents /\ disk[f] # Gone
         /\ record \in [Files -> Contents \cup {Gone}] /\ torn \subseteq Files
         /\ record'[f] = IF step = 5 THEN disk[f] ELSE Gone
         /\ \A g \in Files \ {f} : record'[g] = record[g]
<1>1. disk[f] # Gone
  BY DEF Replaces
<1>2. record \in [Files -> Contents \cup {Gone}] /\ torn \subseteq Files
  BY DEF LinksInv, TypeOK
<1>3. record' = [record EXCEPT ![f] = IF step = 5 THEN disk[f] ELSE Gone] /\ disk[f] \in Contents
  BY ReplacedRows
<1> QED BY <1>1, <1>2, <1>3

LEMMA ReplacedTables ==
  ASSUME LinksInv, NEW f \in Files, NEW step \in 1..5, Replaces(f, step)
  PROVE  /\ symbols' \subseteq Symbols /\ edges' \subseteq Edges /\ pending' \subseteq Uses
         /\ record' \in [Files -> Contents \cup {Gone}] /\ torn' \subseteq Files
<1>1. TypeOK /\ disk[f] \in Contents
  BY ReplacedRows DEF LinksInv
<1>2. symbols' \subseteq Symbols /\ pending' \subseteq Uses
  BY <1>1, ReplacedRows, SymbolsTyped DEF TypeOK
<1>3. edges' \subseteq Edges
  BY <1>1, ReplacedRows, ReattachedIsBacked DEF TypeOK
<1>4. record' \in [Files -> Contents \cup {Gone}]
  BY <1>1, ReplacedRows DEF TypeOK
<1> QED BY <1>1, <1>2, <1>3, <1>4 DEF TypeOK, Replaces

LEMMA ReplacementIsTraced ==
  ASSUME LinksInv, NEW f \in Files, NEW step \in 1..5, Replaces(f, step)
  PROVE  SymbolsTraced' /\ UsesTraced' /\ EdgesAreBacked'
<1>1. /\ disk[f] \in Contents /\ disk[f] # Gone
      /\ record \in [Files -> Contents \cup {Gone}] /\ torn \subseteq Files
      /\ record'[f] = IF step = 5 THEN disk[f] ELSE Gone
      /\ \A g \in Files \ {f} : record'[g] = record[g]
  BY ReplacedRecord
<1>2. /\ step # 5 => f \in torn'
      /\ f \in torn /\ ~Recorded(f) => f \in torn'
      /\ \A g \in Files \ {f} : g \in torn => g \in torn'
  BY DEF Replaces
<1>3. symbols \subseteq Symbols /\ symbols' \subseteq Symbols
      /\ pending \subseteq Uses /\ pending' \subseteq Uses /\ edges \subseteq Edges
  BY ReplacedTables DEF LinksInv, TypeOK
<1>4. ASSUME NEW s \in Symbols,
             \/ s \in SymbolsOf(f, disk[f])
             \/ HasSymbol(s[1], s) /\ (s[1] = f => ~Recorded(f))
      PROVE  HasSymbol(s[1], s)'
  <2>1. s[1] \in Files
    BY DEF Symbols
  <2>2. CASE s[1] # f
    <3>1. s \notin SymbolsOf(f, disk[f])
      BY <1>1, <2>2, SymbolsTyped
    <3>2. record'[s[1]] = record[s[1]]
      BY <1>1, <2>1, <2>2
    <3> QED BY <1>2, <1>4, <2>1, <2>2, <3>1, <3>2 DEF HasSymbol, Recorded, SymbolsOf
  <2>3. CASE s[1] = f /\ s \in SymbolsOf(f, disk[f])
    <3>1. step = 5 => Recorded(f)' /\ SymbolsOf(f, record'[f]) = SymbolsOf(f, disk[f])
      BY <1>1 DEF Recorded
    <3> QED BY <1>2, <2>3, <3>1 DEF HasSymbol, SymbolsOf
  <2>4. CASE s[1] = f /\ s \notin SymbolsOf(f, disk[f])
    BY <1>2, <1>4, <2>4 DEF HasSymbol
  <2> QED BY <2>2, <2>3, <2>4
<1>5. SymbolsTraced'
  <2> SUFFICES ASSUME NEW s \in symbols' PROVE HasSymbol(s[1], s)'
    BY DEF SymbolsTraced, HasSymbol, Recorded, SymbolsOf
  <2>1. \/ s \in SymbolsOf(f, disk[f])
        \/ s \in symbols /\ (s[1] = f => ~Recorded(f))
    BY ReplacedRows
  <2>2. s \in symbols => HasSymbol(s[1], s)
    BY DEF LinksInv, SymbolsTraced
  <2> QED BY <1>3, <1>4, <2>1, <2>2
<1>6. ASSUME NEW u \in Uses,
             \/ u \in UsesOf(f, disk[f])
             \/ Using(u[1], u) /\ (u[1] = f => ~Recorded(f))
      PROVE  Using(u[1], u)'
  <2>1. u[1] \in Files
    BY DEF Uses
  <2>2. CASE u[1] # f
    BY <1>1, <1>2, <1>6, <2>1, <2>2, SymbolsTyped DEF Using, Recorded
  <2>3. CASE u[1] = f
    BY <1>1, <1>2, <1>6, <2>3, SymbolsTyped DEF Using, Recorded
  <2> QED BY <2>2, <2>3
<1>7. UsesTraced'
  <2> SUFFICES ASSUME NEW u \in pending' PROVE Using(u[1], u)'
    BY DEF UsesTraced, Using, Recorded, Replaces
  <2>1. \/ u \in UsesOf(f, disk[f])
        \/ u \in pending /\ (u[1] = f => ~Recorded(f))
    BY ReplacedRows
  <2>2. u \in pending => Using(u[1], u)
    BY DEF LinksInv, UsesTraced
  <2> QED BY <1>3, <1>6, <2>1, <2>2
<1>8. ASSUME NEW e \in edges'
      PROVE  /\ e.use[2] = e.target[2] /\ Using(e.use[1], e.use)'
             /\ HasSymbol(e.target[1], e.target)'
  <2>1. CASE e \in edges /\ e.use[1] # f /\ (e.target[1] = f => ~Recorded(f))
    <3>1. /\ e.use \in Uses /\ e.target \in Symbols /\ e.use[2] = e.target[2]
          /\ Using(e.use[1], e.use) /\ HasSymbol(e.target[1], e.target)
      BY <1>3, <2>1 DEF Edges, LinksInv, EdgesAreBacked, Using, HasSymbol
    <3> QED BY <1>4, <1>6, <2>1, <3>1
  <2>2. CASE e \in Reattached(f, disk[f])
    <3>1. PICK i \in edges : i.use = e.use /\ i.target[1] = f
      BY <1>1, <2>2, ReattachedIsBacked
    <3>2. Using(e.use[1], e.use)
      BY <3>1 DEF LinksInv, EdgesAreBacked, Using
    <3>3. /\ e.use \in Uses /\ e.target \in Symbols /\ e.use[2] = e.target[2]
          /\ e.target \in SymbolsOf(f, disk[f]) /\ e.use[1] # f
      BY <1>1, <2>2, ReattachedIsBacked DEF Edges
    <3> QED BY <1>4, <1>6, <3>2, <3>3
  <2> QED BY <2>1, <2>2, ReplacedRows
<1>9. \A e \in edges' : e.target \in symbols'
  BY ReplacedRows
<1> QED BY <1>5, <1>7, <1>8, <1>9 DEF EdgesAreBacked, Using, HasSymbol

LEMMA ReplacementLosesNoUse ==
  ASSUME LinksInv, NEW f \in Files, NEW step \in 1..5, Replaces(f, step)
  PROVE  UsesAccounted' /\ RowsServedOnce' /\ EdgesComeFirst'
<1>1. /\ disk[f] \in Contents /\ disk[f] # Gone /\ record \in [Files -> Contents \cup {Gone}]
      /\ record'[f] = IF step = 5 THEN disk[f] ELSE Gone
      /\ \A g \in Files \ {f} : record'[g] = record[g]
  BY ReplacedRecord
<1>2. ASSUME NEW g \in Files, Recorded(g)', NEW u \in UsesOf(g, record'[g])
      PROVE  u \in pending' \/ Linked(u)' \/ u \in missed'
  <2>1. CASE g = f
    BY <1>1, <1>2, <2>1, ReplacedRows DEF Recorded
  <2>2. CASE g # f
    <3>1. u \in UsesOf(g, record[g]) /\ Recorded(g) /\ u[1] # f
      BY <1>1, <1>2, <2>2, SymbolsTyped DEF Recorded
    <3>2. u \in pending \/ Linked(u) \/ u \in missed
      BY <3>1 DEF LinksInv, UsesAccounted
    <3>3. ASSUME NEW e \in edges, e.use = u PROVE Linked(u)' \/ u \in missed'
      <4>1. CASE e.target[1] # f
        BY <3>1, <3>3, <4>1, ReplacedRows DEF Linked
      <4>2. CASE e.target[1] = f /\ (step = 5 => u \in Severed(f, disk[f]))
        BY <3>1, <3>3, <4>2 DEF Replaces
      <4>3. CASE e.target[1] = f /\ step = 5 /\ u \notin Severed(f, disk[f])
        <5>1. Recorded(f) /\ \E d \in disk[f].defs : d[1] = e.target[2]
          BY <3>3, <4>3 DEF Severed
        <5>2. PICK r \in Reattached(f, disk[f]) : r.use = u
          <6> DEFINE r == [use |-> e.use, target |-> Newest(f, disk[f], e.target[2])]
          <6>1. e \in Incoming(f)
            BY <3>1, <3>3, <4>3, <5>1 DEF Incoming
          <6>2. r \in Reattached(f, disk[f]) /\ r.use = u
            BY <3>3, <5>1, <6>1 DEF Reattached
          <6> QED BY <6>2
        <5>3. r \in edges'
          BY <4>3, ReplacedRows
        <5> QED BY <5>2, <5>3 DEF Linked
      <4> QED BY <4>1, <4>2, <4>3
    <3> QED BY <3>1, <3>2, <3>3, ReplacedRows DEF Linked, Replaces
  <2> QED BY <2>1, <2>2
<1>3. ASSUME NEW u \in pending' PROVE Spared(u)' \/ ~Linked(u)'
  <2>1. CASE u[1] = f
    BY <1>1, <2>1, ReplacedRows, ReattachedIsBacked DEF Linked
  <2>2. CASE u[1] # f
    <3>1. u \in pending
      BY <1>1, <2>2, ReplacedRows, SymbolsTyped
    <3>2. Linked(u)' => Linked(u)
      BY <1>1, ReplacedRows, ReattachedIsBacked DEF Linked
    <3>3. Spared(u) \/ ~Linked(u)
      BY <3>1 DEF LinksInv, RowsServedOnce, Replaces
    <3>4. Spared(u) => Spared(u)'
      <4>1. u[1] \in torn => u[1] \in torn'
        BY <2>2 DEF Replaces
      <4>2. u \in unswept => u \in unswept'
        BY <2>2 DEF Replaces, UsesIn
      <4> QED BY <4>1, <4>2 DEF Spared
    <3> QED BY <3>2, <3>3, <3>4
  <2> QED BY <2>1, <2>2
<1>4. Unfinished' = {}
  BY DEF Replaces
<1> QED BY <1>2, <1>3, <1>4 DEF UsesAccounted, RowsServedOnce, EdgesComeFirst

LEMMA StoreIsReplacement == ASSUME LinksInv, NEW f \in Files, Store(f) PROVE Replaces(f, 5)
<1>1. TypeOK /\ deferred = {}
  BY DEF LinksInv, DeferredInv, Store
<1>2. {e.use : e \in {x \in edges : x.target[1] = f}} \subseteq Uses
  BY <1>1 DEF TypeOK, Edges
<1>3. missed' \subseteq Uses
  BY <1>1, <1>2 DEF Store, Severed, TypeOK
<1>4. \A u \in missed \cup Severed(f, disk[f]) : u[1] # f => u \in missed'
  BY DEF Store, UsesIn
<1>5. StoreUpTo(f, 5) /\ torn' = IF Recorded(f) THEN torn \ {f} ELSE torn
  BY DEF Store, Steps
<1>6. disk[f] \notin {Gone, record[f]} /\ deferred' = {} /\ unswept' = unswept \ UsesIn({f})
  BY <1>1 DEF Store
<1>7. Unfinished = {} /\ Unfinished' = {}
  BY DEF Store, Unfinished
<1> HIDE DEF StoreUpTo, Severed, Unfinished
<1> QED BY <1>1, <1>3, <1>4, <1>5, <1>6, <1>7 DEF Replaces

LEMMA StoreKeeps == ASSUME LinksInv, NEW f \in Files, Store(f) PROVE LinksInv'
<1>1. TypeOK
  BY DEF LinksInv
<1>2. 5 \in 1..5
  OBVIOUS
<1>3. Replaces(f, 5)
  BY StoreIsReplacement
<1>4. TypeOK'
  <2>1. /\ symbols' \subseteq Symbols /\ edges' \subseteq Edges /\ pending' \subseteq Uses
        /\ record' \in [Files -> Contents \cup {Gone}] /\ torn' \subseteq Files
    BY <1>2, <1>3, ReplacedTables
  <2>2. missed' \subseteq Uses /\ unswept' \subseteq unswept
    BY <1>3 DEF Replaces
  <2>3. toStore' \subseteq toStore /\ UNCHANGED <<disk, phase, scope, left, deferred, outcome, edits>>
    BY DEF Store
  <2> QED BY <1>1, <2>1, <2>2, <2>3 DEF TypeOK
<1>5. DeferredInv'
  BY <1>3 DEF DeferredInv, Replaces
<1> HIDE DEF EdgesComeFirst, RowsServedOnce
<1> QED BY <1>2, <1>3, <1>4, <1>5, ReplacementIsTraced, ReplacementLosesNoUse DEF LinksInv

LEMMA CutIsReplacement ==
  ASSUME LinksInv, NEW f \in Files, Cut(f)
  PROVE  \E step \in 1..4 : Replaces(f, step)
<1>1. TypeOK /\ deferred = {}
  BY DEF LinksInv, DeferredInv, Cut
<1>2. {e.use : e \in {x \in edges : x.target[1] = f}} \subseteq Uses
  BY <1>1 DEF TypeOK, Edges
<1>3. PICK step \in 1..4 : StoreUpTo(f, step)
  BY DEF Cut, Steps
<1>4. missed' \subseteq Uses
  BY <1>1, <1>2 DEF Cut, TypeOK
<1>5. \A u \in missed : u[1] # f => u \in missed'
  BY DEF Cut, UsesIn
<1>6. \A e \in edges : e.target[1] = f /\ e.use[1] # f => e.use \in missed'
  BY DEF Cut, UsesIn
<1>7. /\ torn' = torn \cup {f} /\ disk[f] \notin {Gone, record[f]} /\ deferred' = {}
      /\ unswept' = unswept \ UsesIn({f})
  BY DEF Cut, Over
<1>8. Unfinished = {} /\ Unfinished' = {}
  BY DEF Cut, Over, Unfinished
<1> HIDE DEF Unfinished
<1> QED BY <1>1, <1>3, <1>4, <1>5, <1>6, <1>7, <1>8 DEF Replaces

LEMMA CutKeeps == ASSUME LinksInv, NEW f \in Files, Cut(f) PROVE LinksInv'
<1>1. PICK step \in 1..4 : Replaces(f, step)
  BY CutIsReplacement
<1>2. step \in 1..5
  OBVIOUS
<1>3. TypeOK'
  <2>1. TypeOK /\ missed' \subseteq Uses /\ unswept' \subseteq unswept
    BY <1>1 DEF LinksInv, Replaces
  <2>2. /\ symbols' \subseteq Symbols /\ edges' \subseteq Edges /\ pending' \subseteq Uses
        /\ record' \in [Files -> Contents \cup {Gone}] /\ torn' \subseteq Files
    BY <1>1, <1>2, ReplacedTables
  <2>3. Over /\ UNCHANGED <<disk, edits>>
    BY DEF Cut
  <2> QED BY <2>1, <2>2, <2>3 DEF TypeOK, Over, Phases, OutcomeType, NoOutcome
<1>4. DeferredInv'
  BY <1>1 DEF DeferredInv, Replaces
<1> QED BY <1>1, <1>2, <1>3, <1>4, ReplacementIsTraced, ReplacementLosesNoUse DEF LinksInv

-----------------------------------------------------------------------------
(* Operations that begin *)
LEMMA SyncBeginKeeps == ASSUME LinksInv, SyncBegin PROVE LinksInv'
<1> DEFINE gone == {f \in Files : Recorded(f) /\ disk[f] = Gone}
<1>1. /\ record' = [f \in Files |-> IF f \in gone THEN Gone ELSE record[f]]
      /\ symbols' = symbols \ SymbolsIn(gone)
      /\ edges' = Without(edges, gone, SymbolsIn(gone))
      /\ pending' = pending \ UsesIn(gone)
      /\ missed' = (missed \cup {e.use : e \in edges \ edges'}) \ UsesIn(gone)
      /\ torn' = torn \ gone /\ deferred' = deferred /\ deferred = {}
      /\ unswept' = unswept \ UsesIn(gone)
  BY DEF SyncBegin, LinksInv, DeferredInv
<1>2. TypeOK /\ gone \subseteq Files
  BY DEF LinksInv
<1>3. TypeOK'
  <2>1. edges' \subseteq Edges /\ missed' \subseteq Uses
    BY <1>1, <1>2 DEF Without, TypeOK, Edges
  <2> QED BY <1>1, <1>2, <2>1 DEF SyncBegin, TypeOK, Phases
<1>4. /\ \A s \in symbols' : s \in symbols /\ s[1] \notin gone
      /\ \A u \in pending' : u \in pending /\ u[1] \notin gone
      /\ \A e \in edges' : e \in edges /\ e.use[1] \notin gone /\ e.target \in symbols'
      /\ \A f \in Files \ gone : record'[f] = record[f]
      /\ \A f \in gone : ~Recorded(f)'
  <2>1. \A e \in edges : e.target \in symbols
    BY DEF LinksInv, EdgesAreBacked
  <2>2. \A s \in symbols : s[1] \in gone => s \in SymbolsIn(gone)
    BY DEF SymbolsIn
  <2>3. \A u \in pending : u[1] \in gone => u \in UsesIn(gone)
    BY <1>2 DEF UsesIn, TypeOK
  <2>4. \A f \in gone : ~Recorded(f)'
    BY <1>1 DEF Recorded
  <2> HIDE DEF gone
  <2> QED BY <1>1, <1>2, <2>1, <2>2, <2>3, <2>4 DEF Without
<1> HIDE DEF gone
<1>5. SymbolsTraced' /\ UsesTraced' /\ DeferredInv'
  <2>1. ASSUME NEW s \in symbols' PROVE HasSymbol(s[1], s)'
    <3>1. s[1] \in Files \ gone /\ HasSymbol(s[1], s)
      BY <1>2, <1>4 DEF TypeOK, Symbols, LinksInv, SymbolsTraced
    <3> QED BY <1>1, <1>4, <3>1 DEF HasSymbol, Recorded, SymbolsOf
  <2>2. ASSUME NEW u \in pending' PROVE Using(u[1], u)'
    <3>1. u[1] \in Files \ gone /\ Using(u[1], u)
      BY <1>2, <1>4 DEF TypeOK, Uses, LinksInv, UsesTraced
    <3> QED BY <1>1, <1>4, <3>1 DEF Using, Recorded
  <2>3. DeferredInv'
    BY <1>1 DEF DeferredInv
  <2> QED BY <1>1, <2>1, <2>2, <2>3 DEF SymbolsTraced, UsesTraced, HasSymbol, Using, Recorded, SymbolsOf
<1>6. EdgesAreBacked'
  <2> SUFFICES ASSUME NEW e \in edges'
               PROVE  /\ e.use[2] = e.target[2] /\ e.target \in symbols'
                      /\ Using(e.use[1], e.use)' /\ HasSymbol(e.target[1], e.target)'
    BY DEF EdgesAreBacked, Using, HasSymbol
  <2>1. e \in edges /\ e.use[1] \notin gone /\ e.target \in symbols'
    BY <1>4
  <2>2. e.use[1] \in Files
    BY <1>2, <2>1 DEF TypeOK, Edges, Uses
  <2>3. e.use[2] = e.target[2] /\ Using(e.use[1], e.use)
    BY <2>1 DEF LinksInv, EdgesAreBacked, Using
  <2>4. Using(e.use[1], e.use)'
    BY <1>1, <1>4, <2>1, <2>2, <2>3 DEF Using, Recorded
  <2>5. HasSymbol(e.target[1], e.target)'
    BY <1>5, <2>1 DEF SymbolsTraced, HasSymbol, Recorded, SymbolsOf
  <2> QED BY <2>1, <2>3, <2>4, <2>5
<1>7. UsesAccounted'
  <2> SUFFICES ASSUME NEW f \in Files, Recorded(f)', NEW u \in UsesOf(f, record'[f])
               PROVE  u \in pending' \/ Linked(u)' \/ u \in missed'
    BY DEF UsesAccounted
  <2>1. f \notin gone /\ Recorded(f) /\ u \in UsesOf(f, record[f]) /\ u[1] = f
    BY <1>4 DEF Recorded, UsesOf
  <2>2. u \notin UsesIn(gone)
    BY <2>1 DEF UsesIn
  <2>3. u \in pending \/ Linked(u) \/ u \in missed
    BY <2>1 DEF LinksInv, UsesAccounted
  <2> QED BY <1>1, <2>2, <2>3 DEF Linked
<1>8. RowsServedOnce' /\ EdgesComeFirst'
  <2>1. Unfinished = {} /\ Unfinished' = {}
    BY DEF SyncBegin, Unfinished
  <2>2. ASSUME NEW u \in pending' PROVE Spared(u)' \/ ~Linked(u)'
    <3>1. u \in pending /\ u[1] \notin gone /\ (Linked(u)' => Linked(u))
      BY <1>4 DEF Linked
    <3>2. Spared(u) \/ ~Linked(u)
      BY <2>1, <3>1 DEF LinksInv, RowsServedOnce
    <3> QED BY <1>1, <3>1, <3>2 DEF Spared, UsesIn
  <2> QED BY <2>1, <2>2 DEF RowsServedOnce, EdgesComeFirst
<1> QED BY <1>3, <1>5, <1>6, <1>7, <1>8 DEF LinksInv

LEMMA BulkBeginKeeps == ASSUME LinksInv, BulkBegin PROVE LinksInv'
<1>1. TypeOK'
  <2>1. IsFiniteSet(Uses)
    BY LinksAssumption, FS_Product DEF Uses
  <2>2. Unbounded \in Nat
    BY <2>1, FS_CardinalityType DEF Unbounded
  <2> QED BY <2>2 DEF LinksInv, TypeOK, BulkBegin, tables, history, Phases
<1>2. Unfinished' = Unfinished
  BY DEF BulkBegin, Unfinished
<1>3. DeferredInv'
  BY DEF BulkBegin, LinksInv, DeferredInv
<1> HIDE DEF Unfinished
<1>4. EdgesAreBacked' /\ SymbolsTraced' /\ UsesTraced' /\ UsesAccounted'
  BY DEF LinksInv, BulkBegin, tables, history, EdgesAreBacked, SymbolsTraced, UsesTraced,
         UsesAccounted, Linked, HasSymbol, Using, Recorded
<1>5. RowsServedOnce' /\ EdgesComeFirst'
  BY <1>2 DEF LinksInv, BulkBegin, tables, history, RowsServedOnce, EdgesComeFirst, Spared, Linked
<1> QED BY <1>1, <1>3, <1>4, <1>5 DEF LinksInv

(* Steps that leave the tables alone *)
LEMMA QuietStepKeeps ==
  ASSUME LinksInv, UNCHANGED <<tables, missed, torn>>, TypeOK',
         \/ unswept' = unswept /\ Unfinished' = Unfinished
         \/ unswept' = unswept \cup Unfinished /\ Unfinished' = {},
         \/ deferred' = {}
         \/ deferred' = deferred /\ (phase' = phase \/ phase' \notin {"idle", "sync", "bulk"})
  PROVE  LinksInv'
<1>1. EdgesAreBacked' /\ SymbolsTraced' /\ UsesTraced' /\ DeferredInv' /\ UsesAccounted'
  BY DEF LinksInv, tables, EdgesAreBacked, SymbolsTraced, UsesTraced,
         DeferredInv, UsesAccounted, Linked, HasSymbol, Using, Recorded
<1>2. RowsServedOnce' /\ EdgesComeFirst'
  <2> USE DEF LinksInv, tables, RowsServedOnce, EdgesComeFirst, Spared, Linked
  <2>1. CASE unswept' = unswept /\ Unfinished' = Unfinished
    BY <2>1
  <2>2. CASE unswept' = unswept \cup Unfinished /\ Unfinished' = {}
    BY <2>2
  <2> QED BY <2>1, <2>2
<1> QED BY <1>1, <1>2 DEF LinksInv

-----------------------------------------------------------------------------
(* Resolution.  An edge that is made goes from a row to a symbol of its name. *)
LEMMA MadeIsBacked ==
  ASSUME LinksInv, NEW rows \in SUBSET (pending \cup deferred),
         NEW r \in [rows -> Symbols \cup {NoSymbol}],
         \A u \in rows : r[u] \in Candidates(u) \cup {NoSymbol},
         edges' = edges \cup Made(r), UNCHANGED <<record, symbols, torn>>
  PROVE  /\ edges' \subseteq Edges /\ EdgesAreBacked' /\ SymbolsTraced'
         /\ \A u \in Placed(r) : u \in rows /\ Linked(u)'
         /\ \A u : Linked(u)' <=> Linked(u) \/ u \in Placed(r)
<1>1. TypeOK /\ NoSymbol \notin symbols
  BY LinksAssumption DEF LinksInv, TypeOK
<1>2. \A u \in Placed(r) : u \in rows /\ r[u] \in symbols /\ r[u][2] = u[2]
  BY DEF Placed, Candidates
<1>3. \A e \in Made(r) : e.use \in Placed(r) /\ e.target = r[e.use]
                         /\ e = [use |-> e.use, target |-> e.target]
  BY DEF Made
<1>4. \A u \in Placed(r) : \E e \in Made(r) : e.use = u
  <2> TAKE u \in Placed(r)
  <2>1. [use |-> u, target |-> r[u]] \in Made(r)
    BY DEF Made
  <2> QED BY <2>1
<1>5. edges' \subseteq Edges
  <2>1. ASSUME NEW e \in Made(r) PROVE e \in Edges
    <3>1. e.use \in Uses /\ e.target \in Symbols
      BY <1>1, <1>2, <1>3 DEF TypeOK
    <3> QED BY <1>3, <3>1 DEF Edges
  <2> QED BY <1>1, <2>1 DEF TypeOK
<1>6. EdgesAreBacked'
  <2> SUFFICES ASSUME NEW e \in edges'
               PROVE  /\ e.use[2] = e.target[2] /\ e.target \in symbols
                      /\ Using(e.use[1], e.use) /\ HasSymbol(e.target[1], e.target)
    BY DEF EdgesAreBacked, Using, HasSymbol, Recorded, SymbolsOf
  <2>1. CASE e \in edges
    BY <2>1 DEF LinksInv, EdgesAreBacked, Using, HasSymbol
  <2>2. CASE e \in Made(r)
    <3>1. e.use \in pending \cup deferred /\ e.target \in symbols /\ e.use[2] = e.target[2]
      BY <1>2, <1>3, <2>2
    <3> QED BY <3>1 DEF LinksInv, UsesTraced, SymbolsTraced
  <2> QED BY <2>1, <2>2
<1>7. SymbolsTraced'
  BY DEF LinksInv, SymbolsTraced, HasSymbol, Recorded, SymbolsOf
<1> QED BY <1>2, <1>3, <1>4, <1>5, <1>6, <1>7 DEF Linked

(* A pass begins over some of the rows; its edges are inserted.             *)
LEMMA InsertKeeps ==
  ASSUME LinksInv, NEW rows \in SUBSET pending, Insert(rows), Unfinished = {},
         phase' \in {"resolved", "placed"},
         UNCHANGED <<disk, record, symbols, pending, toStore, scope, left, edits, history>>
  PROVE  LinksInv'
<1>1. PICK r \in Outcomes(rows) :
        /\ edges' = edges \cup Made(r) /\ deferred' = deferred \cup Put(r)
        /\ outcome' = [resolved |-> Placed(r), unresolved |-> rows \ Placed(r)]
  BY DEF Insert
<1>2. /\ r \in [rows -> Symbols \cup {NoSymbol}]
      /\ \A u \in rows : r[u] \in Candidates(u) \cup {NoSymbol}
  BY DEF Outcomes, Places
<1>3. UNCHANGED <<record, symbols, torn, missed, unswept>> /\ Unfinished' = Placed(r)
  BY <1>1 DEF history, Unfinished
<1>4. /\ edges' \subseteq Edges /\ EdgesAreBacked' /\ SymbolsTraced'
      /\ \A u \in Placed(r) : u \in rows /\ Linked(u)'
      /\ \A u : Linked(u)' <=> Linked(u) \/ u \in Placed(r)
  <2> HIDE DEF Linked, Placed
  <2>1. rows \in SUBSET (pending \cup deferred)
    OBVIOUS
  <2> QED BY <1>1, <1>2, <1>3, <2>1, MadeIsBacked
<1>5. \A u \in Put(r) : u \in pending /\ u[2] \in Late
  BY <1>2 DEF Put
<1>6. TypeOK'
  <2>1. pending \subseteq Uses /\ Placed(r) \subseteq rows
    BY <1>4 DEF LinksInv, TypeOK
  <2>2. outcome' \in OutcomeType /\ deferred' \subseteq Uses
    BY <1>1, <1>5, <2>1 DEF OutcomeType, LinksInv, TypeOK
  <2> QED BY <1>3, <1>4, <2>2 DEF LinksInv, TypeOK, Phases
<1>7. UsesTraced' /\ DeferredInv'
  BY <1>1, <1>3, <1>5 DEF LinksInv, UsesTraced, Using, Recorded, DeferredInv
<1>8. UsesAccounted'
  <2> HIDE DEF Linked
  <2> QED BY <1>3, <1>4 DEF LinksInv, UsesAccounted, Recorded, UsesOf
<1>9. RowsServedOnce' /\ EdgesComeFirst'
  <2> HIDE DEF Linked
  <2> QED BY <1>3, <1>4 DEF LinksInv, RowsServedOnce, EdgesComeFirst, Spared
<1> QED BY <1>4, <1>6, <1>7, <1>8, <1>9 DEF LinksInv

(* Rows go: those that have their edge, or are remembered as refused.        *)
LEMMA DeleteKeeps ==
  ASSUME LinksInv, TypeOK', UNCHANGED <<edges, record, symbols, deferred, torn>>,
         pending' \subseteq pending, missed \subseteq missed', Unfinished' = {},
         \A u \in pending : u \in pending' \/ u \in missed' \/ Linked(u),
         \A u \in pending' : u \in Unfinished \/ (u \in unswept /\ u \notin unswept')
                              => u[2] \in Aliased,
         phase' \notin {"idle", "sync", "bulk"}
  PROVE  LinksInv'
<1>1. EdgesAreBacked' /\ SymbolsTraced'
  BY DEF LinksInv, EdgesAreBacked, SymbolsTraced, HasSymbol, Recorded, SymbolsOf
<1>2. UsesTraced' /\ DeferredInv'
  BY DEF LinksInv, UsesTraced, Using, Recorded, DeferredInv
<1>3. UsesAccounted'
  BY DEF LinksInv, UsesAccounted, Recorded, UsesOf, Linked
<1>4. RowsServedOnce' /\ EdgesComeFirst'
  <2>1. \A u : Linked(u)' <=> Linked(u)
    BY DEF Linked
  <2> HIDE DEF Linked
  <2> QED BY <2>1 DEF LinksInv, RowsServedOnce, EdgesComeFirst, Spared
<1> QED BY <1>1, <1>2, <1>3, <1>4 DEF LinksInv

LEMMA ResolveKeeps == ASSUME LinksInv, Resolve PROVE LinksInv'
<1>1. {u \in pending : u[1] \in scope} \in SUBSET pending
  OBVIOUS
<1>2. Unfinished = {} /\ phase' = "resolved"
  BY DEF Resolve, Unfinished
<1> HIDE DEF Insert
<1> QED BY <1>1, <1>2, InsertKeeps DEF Resolve

LEMMA BatchKeeps == ASSUME LinksInv, Batch PROVE LinksInv'
<1>1. PICK B \in SUBSET pending : Insert(B)
  BY DEF Batch, kSubset
<1>2. Unfinished = {} /\ phase' = "placed"
  BY DEF Batch, Unfinished
<1> QED BY <1>1, <1>2, InsertKeeps DEF Batch

LEMMA DeleteResolvedKeeps == ASSUME LinksInv, DeleteResolved PROVE LinksInv'
<1>1. /\ pending' = pending \ {u \in outcome.resolved : u[2] \notin Aliased}
      /\ unswept' = unswept \ outcome.resolved /\ Unfinished = outcome.resolved
      /\ UNCHANGED <<disk, record, symbols, edges, toStore, scope, left, deferred, edits, missed, torn>>
      /\ \/ phase' = "second" /\ outcome' = NoOutcome
         \/ phase' = "swept" /\ UNCHANGED outcome
  BY DEF DeleteResolved, DeleteByKey, Unfinished, AfterResolved
<1>2. Unfinished' = {}
  BY <1>1 DEF Unfinished
<1>3. TypeOK'
  BY <1>1 DEF LinksInv, TypeOK, Phases, OutcomeType, NoOutcome
<1>4. \A u \in pending : u \in pending' \/ Linked(u)
  BY <1>1 DEF LinksInv, EdgesComeFirst
<1> HIDE DEF Unfinished, Linked
<1> QED BY <1>1, <1>2, <1>3, <1>4, DeleteKeeps

LEMMA DeleteUnresolvedKeeps == ASSUME LinksInv, DeleteUnresolved PROVE LinksInv'
<1>1. /\ pending' = pending \ outcome.unresolved
      /\ missed' = missed \cup outcome.unresolved /\ unswept' = unswept \ outcome.unresolved
      /\ UNCHANGED <<disk, record, symbols, edges, toStore, scope, deferred, edits, torn>>
      /\ outcome' = NoOutcome /\ phase' \in {"second", "batch"}
      /\ left' = left \/ left' = Cardinality(pending')
  BY DEF DeleteUnresolved, DeleteByKey
<1>2. Unfinished = {} /\ Unfinished' = {}
  BY <1>1 DEF DeleteUnresolved, Unfinished
<1>3. TypeOK'
  <2>1. pending \subseteq Uses /\ left \in Nat
    BY DEF LinksInv, TypeOK
  <2>2. IsFiniteSet(Uses)
    BY LinksAssumption, FS_Product DEF Uses
  <2>3. IsFiniteSet(pending')
    BY <1>1, <2>1, <2>2, FS_Subset
  <2>4. left' \in Nat
    BY <1>1, <2>1, <2>3, FS_CardinalityType
  <2> QED BY <1>1, <2>4 DEF LinksInv, TypeOK, Phases, OutcomeType, NoOutcome
<1> HIDE DEF Unfinished, Linked
<1> QED BY <1>1, <1>2, <1>3, DeleteKeeps

(* The second pass looks at deferred uses only; all of them are late ones.  *)
LEMMA SecondPassKeeps == ASSUME LinksInv, SecondPass PROVE LinksInv'
<1>1. PICK r \in [deferred -> Symbols \cup {NoSymbol}] :
        /\ \A u \in deferred : r[u] \in Candidates(u) \cup {NoSymbol}
        /\ edges' = edges \cup Made(r)
  BY DEF SecondPass
<1>2. /\ deferred' = {} /\ UNCHANGED <<record, symbols, pending, missed, torn, unswept>>
      /\ phase' = "idle" /\ outcome' = NoOutcome /\ Unfinished = {} /\ Unfinished' = {}
  BY DEF SecondPass, Over, history, Unfinished
<1>3. /\ edges' \subseteq Edges /\ EdgesAreBacked' /\ SymbolsTraced'
      /\ \A u : Linked(u)' <=> Linked(u) \/ u \in Placed(r)
  <2> HIDE DEF Linked, Placed
  <2>1. deferred \in SUBSET (pending \cup deferred)
    OBVIOUS
  <2> QED BY <1>1, <1>2, <2>1, MadeIsBacked
<1>4. TypeOK'
  BY <1>2, <1>3 DEF LinksInv, TypeOK, SecondPass, Over, Phases, OutcomeType, NoOutcome
<1>5. UsesTraced' /\ DeferredInv'
  BY <1>2 DEF LinksInv, UsesTraced, Using, Recorded, DeferredInv
<1>6. UsesAccounted'
  BY <1>2, <1>3 DEF LinksInv, UsesAccounted, Recorded, UsesOf
<1>7. RowsServedOnce' /\ EdgesComeFirst'
  <2>1. \A u \in Placed(r) : u[2] \in Late
    BY DEF LinksInv, DeferredInv, Placed
  <2> HIDE DEF Linked, Unfinished
  <2> QED BY <1>2, <1>3, <2>1 DEF LinksInv, RowsServedOnce, EdgesComeFirst, Spared
<1> QED BY <1>3, <1>4, <1>5, <1>6, <1>7 DEF LinksInv

-----------------------------------------------------------------------------
LEMMA LinksInvariance == Spec => []LinksInv
<1>1. ASSUME Init PROVE LinksInv
  <2>1. TypeOK
    <3>1. \A f \in Files : Versions[f] \subseteq Contents \cup {Gone}
      BY LinksAssumption
    <3>2. disk \in [Files -> Contents \cup {Gone}] /\ record \in [Files -> Contents \cup {Gone}]
      BY <1>1 DEF Init
    <3> QED BY <1>1, <3>2, LinksAssumption DEF Init, TypeOK, Phases, OutcomeType, NoOutcome
  <2>2. \A f \in Files : ~Recorded(f)
    BY <1>1 DEF Init, Recorded
  <2>3. Unfinished = {}
    BY <1>1 DEF Init, Unfinished
  <2> HIDE DEF Unfinished
  <2> QED BY <1>1, <2>1, <2>2, <2>3 DEF Init, LinksInv, EdgesAreBacked, SymbolsTraced, UsesTraced,
                                DeferredInv, UsesAccounted, RowsServedOnce, EdgesComeFirst
<1>2. LinksInv /\ [Next]_vars => LinksInv'
  <2> SUFFICES ASSUME LinksInv, [Next]_vars PROVE LinksInv'
    OBVIOUS
  <2>0. TypeOK
    BY DEF LinksInv
  <2>1. ASSUME NEW f \in Files, Cut(f) PROVE LinksInv'
    BY <2>1, CutKeeps
  <2>2. ASSUME NEW f \in Files, NEW c \in Versions[f], Write(f, c) PROVE LinksInv'
    <3>1. c \in Contents \cup {Gone}
      BY LinksAssumption
    <3>2. TypeOK'
      BY <2>0, <2>2, <3>1, LinksAssumption DEF Write, TypeOK, tables, local, history
    <3> QED BY <2>2, <3>2, QuietStepKeeps DEF Write, local, history, Unfinished
  <2>3. CASE SyncBegin
    BY <2>3, SyncBeginKeeps
  <2>4. CASE BulkBegin
    BY <2>4, BulkBeginKeeps
  <2>5. ASSUME NEW f \in Files, StoreSame(f) PROVE LinksInv'
    <3>1. TypeOK'
      BY <2>0, <2>5 DEF StoreSame, TypeOK, tables, history
    <3> QED BY <2>5, <3>1, QuietStepKeeps DEF StoreSame, history, Unfinished
  <2>6. ASSUME NEW f \in Files, Store(f) PROVE LinksInv'
    BY <2>6, StoreKeeps
  <2>7. CASE AllStored
    <3>1. TypeOK'
      BY <2>0, <2>7 DEF AllStored, TypeOK, tables, local, history, Phases
    <3> QED BY <2>7, <3>1, QuietStepKeeps DEF AllStored, local, history, Unfinished
  <2>8. CASE Resolve
    BY <2>8, ResolveKeeps
  <2>9. CASE Batch
    BY <2>9, BatchKeeps
  <2>10. CASE BatchesDone
    <3>1. TypeOK'
      BY <2>0, <2>10 DEF BatchesDone, TypeOK, tables, local, history, Phases
    <3> QED BY <2>10, <3>1, QuietStepKeeps DEF BatchesDone, local, history, Unfinished
  <2>11. CASE SecondPass
    BY <2>11, SecondPassKeeps
  <2>12. CASE Die
    <3>1. TypeOK'
      BY <2>0, <2>12 DEF Die, Over, TypeOK, tables, Phases, OutcomeType, NoOutcome, Unfinished
    <3>2. unswept' = unswept \cup Unfinished /\ Unfinished' = {}
      BY <2>12 DEF Die, Over, Unfinished
    <3> QED BY <2>12, <3>1, <3>2, QuietStepKeeps DEF Die, Over
  <2>13. CASE UNCHANGED vars
    <3>1. TypeOK'
      BY <2>0, <2>13 DEF vars, TypeOK, tables, local, history
    <3> QED BY <2>13, <3>1, QuietStepKeeps DEF vars, local, history, Unfinished
  <2>14. CASE DeleteResolved
    BY <2>14, DeleteResolvedKeeps
  <2>15. CASE DeleteUnresolved
    BY <2>15, DeleteUnresolvedKeeps
  <2> QED BY <2>1, <2>2, <2>3, <2>4, <2>5, <2>6, <2>7, <2>8, <2>9, <2>10, <2>11, <2>12, <2>13,
             <2>14, <2>15
          DEF Next, Work
<1> QED BY <1>1, <1>2, PTL DEF Spec

(* The callers shown for a symbol do use its name: storeExtractionResult()    *)
(* and the resolver keep every edge between indexed contents, for any files.  *)
THEOREM EdgesStayBacked == Spec => []EdgesAreBacked
<1>1. LinksInv => EdgesAreBacked
  BY DEF LinksInv
<1> QED BY <1>1, LinksInvariance, PTL

(* No use of an indexed content is lost between table, edge and refusal, and *)
(* none is both an edge and a row when an operation has ended, unless the   *)
(* resolution of the row was cut between the two transactions.              *)
THEOREM RowsStayAccounted == Spec => []RowsAccounted
<1>1. LinksInv => RowsAccounted
  BY DEF LinksInv, RowsAccounted, RowsServedOnce, Spared, Unfinished, ResolvedRowsAreGone
<1> QED BY <1>1, LinksInvariance, PTL

(* Issue #899: the edges from an unchanged file survive the replacement of    *)
(* the file they point into, as long as it defines their name.              *)
THEOREM CallersStayLinked == Spec => CallersKeepTheirEdges
<1> DEFINE Kept(u, g) ==
      /\ record'[u[1]] = record[u[1]] /\ Recorded(u[1]) /\ Recorded(g)
      /\ g \notin torn' /\ record'[g] # Gone
      /\ \E d \in record'[g].defs : d[1] = u[2]
      /\ \E e \in edges : e.use = u /\ e.target[1] = g
      => \E e \in edges' : e.use = u /\ e.target[1] = g
<1>1. ASSUME LinksInv, [Next]_vars, NEW u \in Uses, NEW g \in Files PROVE Kept(u, g)
  <2> SUFFICES ASSUME record'[u[1]] = record[u[1]], Recorded(u[1]), Recorded(g),
                      record'[g] # Gone, \E d \in record'[g].defs : d[1] = u[2],
                      NEW e \in edges, e.use = u, e.target[1] = g
               PROVE  \E i \in edges' : i.use = u /\ i.target[1] = g
    OBVIOUS
  <2> HIDE DEF Kept
  <2>0. u[1] \in Files /\ LinksInv
    BY <1>1 DEF Uses
  <2>1. CASE edges \subseteq edges'
    BY <2>1
  <2>2. CASE SyncBegin
    <3> DEFINE gone == {f \in Files : Recorded(f) /\ disk[f] = Gone}
    <3>1. /\ record' = [f \in Files |-> IF f \in gone THEN Gone ELSE record[f]]
          /\ edges' = Without(edges, gone, SymbolsIn(gone))
      BY <2>2 DEF SyncBegin
    <3> HIDE DEF gone
    <3>2. u[1] \notin gone /\ g \notin gone
      BY <2>0, <3>1 DEF Recorded
    <3>3. e \in edges'
      BY <3>1, <3>2 DEF Without, SymbolsIn
    <3> QED BY <3>3
  <2>3. ASSUME NEW f \in Files, NEW step \in 1..5, Replaces(f, step)
        PROVE  \E i \in edges' : i.use = u /\ i.target[1] = g
    <3>1. record'[f] = IF step = 5 THEN disk[f] ELSE Gone
      BY <2>0, <2>3, ReplacedRecord
    <3>2. u[1] # f
      BY <2>3, <3>1 DEF Replaces, Recorded
    <3>3. CASE g # f
      <4>1. e \in edges'
        BY <2>0, <2>3, <3>2, <3>3, ReplacedRows
      <4> QED BY <4>1
    <3>4. CASE g = f
      <4>1. step = 5 /\ disk[f] \in Contents /\ \E d \in disk[f].defs : d[1] = u[2]
        BY <2>0, <2>3, <3>1, <3>4, ReplacedRecord
      <4>2. e.target[2] = u[2]
        BY <2>0 DEF LinksInv, EdgesAreBacked
      <4> DEFINE r == [use |-> e.use, target |-> Newest(f, disk[f], e.target[2])]
      <4>3. e \in Incoming(f)
        BY <3>2, <3>4 DEF Incoming
      <4>4. r \in Reattached(f, disk[f])
        BY <4>1, <4>2, <4>3 DEF Reattached
      <4>5. r \in edges' /\ r.use = u
        BY <2>0, <2>3, <4>1, <4>4, ReplacedRows
      <4>6. r.target[1] = g
        BY <2>0, <3>4, <4>1, <4>4, ReattachedIsBacked
      <4> QED BY <4>5, <4>6
    <3> QED BY <3>3, <3>4
  <2>4. ASSUME NEW f \in Files, Cut(f) PROVE \E i \in edges' : i.use = u /\ i.target[1] = g
    <3>1. PICK step \in 1..4 : Replaces(f, step)
      BY <2>0, <2>4, CutIsReplacement
    <3> QED BY <2>3, <3>1
  <2>5. ASSUME NEW f \in Files, Store(f) PROVE \E i \in edges' : i.use = u /\ i.target[1] = g
    BY <2>0, <2>3, <2>5, StoreIsReplacement
  <2>6. \/ edges \subseteq edges' \/ SyncBegin
        \/ \E f \in Files : Cut(f) \/ Store(f)
    BY <1>1 DEF Next, Work, Write, BulkBegin, Die, StoreSame, AllStored, Resolve, Batch, Insert,
           DeleteResolved, DeleteUnresolved, BatchesDone, SecondPass, vars, tables
  <2> QED BY <2>1, <2>2, <2>4, <2>5, <2>6
<1>2. LinksInv /\ [Next]_vars
      => [\A u \in Uses, g \in Files : Kept(u, g)]_vars
  BY <1>1
<1> QED BY <1>2, LinksInvariance, PTL DEF Spec, CallersKeepTheirEdges
==============================================================================
