----------------------------- MODULE Data_proof -----------------------------
(***************************************************************************)
(* Facts about the data the modules are built on, finite sums and          *)
(* sequences.  SumFunctionOnSet(f, S) folds + over S in the order CHOOSE *)
(* picks; that the order does not matter, and that one element more or     *)
(* less changes the sum by its value, is proved here once, by induction on *)
(* the finite sets: FS_StrictSubsetOrderingWellFounded with WFMin gives a  *)
(* least counterexample, which needs no operator as a parameter.           *)
(***************************************************************************)
EXTENDS FiniteSetTheorems, SequenceTheorems, TLAPS

(* A table of all partial sums of f over the subsets of S.                 *)
Table(g, f, S) ==
    /\ g \in [SUBSET S -> Int]
    /\ g[{}] = 0
    /\ \A s \in SUBSET S : \A x \in s : g[s] = f[x] + g[s \ {x}]

(* Every set of finite sets has a member that contains no other of them.   *)
LEMMA LeastSet ==
    ASSUME NEW S, IsFiniteSet(S), NEW D \in SUBSET (SUBSET S), D # {}
    PROVE  \E t \in D : \A u \in D : u \subseteq t => u = t
<1>1. FiniteSubsetsOf(S) = SUBSET S
  BY FS_FiniteSubsetsOfFinite
<1>2. IsWellFoundedOn(StrictSubsetOrdering(S), SUBSET S)
  BY <1>1, FS_StrictSubsetOrderingWellFounded
<1>3. PICK t \in D : \A u \in D : ~ (<<u, t>> \in StrictSubsetOrdering(S))
  BY <1>2, WFMin
<1>4. ASSUME NEW u \in D, u \subseteq t, u # t
      PROVE  FALSE
  <2>1. <<u, t>> \in (SUBSET S) \X (SUBSET S)
    OBVIOUS
  <2>2. <<u, t>> \in StrictSubsetOrdering(S)
    BY <2>1, <1>4 DEF StrictSubsetOrdering
  <2>. QED  BY <2>2, <1>3
<1>. QED  BY <1>4

(* Every nonempty set of naturals has a least member.                      *)
LEMMA LeastNat ==
    ASSUME NEW T \in SUBSET Nat, T # {}
    PROVE  \E x \in T : \A y \in T : x <= y
<1>1. PICK z \in T : TRUE
  OBVIOUS
<1> DEFINE D == {0..x : x \in {y \in T : y <= z}}
<1>2. IsFiniteSet(0..z)
  BY FS_Interval
<1>3. D \in SUBSET (SUBSET (0..z)) /\ D # {}
  <2>1. \A x \in T : x <= z => 0..x \subseteq 0..z
    OBVIOUS
  <2>2. 0..z \in D
    BY <1>1
  <2>. QED  BY <2>1, <2>2
<1> HIDE DEF D
<1>3a. PICK t \in D : \A u \in D : u \subseteq t => u = t
  <2>. DEFINE S == 0..z
  <2>1. IsFiniteSet(S) /\ D \in SUBSET (SUBSET S) /\ D # {}
    BY <1>2, <1>3
  <2>. HIDE DEF S
  <2>. QED  BY <2>1, LeastSet
<1> USE DEF D
<1>4. PICK x \in T : x <= z /\ t = 0..x
  BY <1>3a
<1>5. ASSUME NEW y \in T, y < x
      PROVE  FALSE
  <2>1. 0..y \in D /\ 0..y \subseteq t
    BY <1>4, <1>5
  <2>2. x \in t /\ x \notin 0..y
    BY <1>4, <1>5
  <2>. QED  BY <2>1, <2>2, <1>3a
<1>. QED  BY <1>4, <1>5

(* A table for one element more.                                           *)
LEMMA TableExtends ==
    ASSUME NEW U, NEW a, a \notin U, NEW f, f \in [U \cup {a} -> Int], NEW g, Table(g, f, U)
    PROVE  \E h : Table(h, f, U \cup {a})
<1> DEFINE T == U \cup {a}
           h == [s \in SUBSET T |-> IF a \in s THEN f[a] + g[s \ {a}] ELSE g[s]]
<1>1. g \in [SUBSET U -> Int] /\ g[{}] = 0
      /\ \A s \in SUBSET U : \A x \in s : g[s] = f[x] + g[s \ {x}]
  BY DEF Table
<1>2. \A s \in SUBSET T : /\ s \ {a} \in SUBSET U
                          /\ a \notin s => s \in SUBSET U
  OBVIOUS
<1>3. h \in [SUBSET T -> Int]
  BY <1>1, <1>2
<1>4. h[{}] = 0
  <2>1. {} \in SUBSET T /\ a \notin {}
    OBVIOUS
  <2>. QED  BY <2>1, <1>1
<1>5. ASSUME NEW s \in SUBSET T, NEW x \in s
      PROVE  h[s] = f[x] + h[s \ {x}]
  <2>1. s \ {x} \in SUBSET T
    OBVIOUS
  <2>2. CASE x = a
    <3>1. a \notin s \ {x} /\ s \ {x} = s \ {a}
      BY <2>2
    <3>2. h[s \ {x}] = g[s \ {a}]
      BY <3>1, <2>1
    <3>3. h[s] = f[a] + g[s \ {a}]
      BY <2>2
    <3>. QED  BY <3>2, <3>3, <2>2
  <2>3. CASE x # a /\ a \in s
    <3>1. x \in s \ {a} /\ s \ {a} \in SUBSET U
      BY <2>3
    <3>2. (s \ {a}) \ {x} = (s \ {x}) \ {a} /\ (s \ {x}) \ {a} \in SUBSET U
      BY <3>1
    <3>3. g[s \ {a}] = f[x] + g[(s \ {x}) \ {a}]
      BY <3>1, <3>2, <1>1
    <3>4. h[s] = f[a] + g[s \ {a}] /\ h[s \ {x}] = f[a] + g[(s \ {x}) \ {a}]
      BY <2>1, <2>3
    <3>5. f[a] \in Int /\ f[x] \in Int /\ g[(s \ {x}) \ {a}] \in Int
      BY <1>1, <3>2
    <3>. HIDE DEF h
    <3>. QED  BY <3>3, <3>4, <3>5
  <2>4. CASE a \notin s
    <3>1. s \in SUBSET U /\ a \notin s \ {x} /\ x # a
      BY <2>4
    <3>2. h[s] = g[s] /\ h[s \ {x}] = g[s \ {x}]
      BY <3>1, <2>1
    <3>. QED  BY <3>1, <3>2, <1>1
  <2>. QED  BY <2>2, <2>3, <2>4
<1>6. Table(h, f, T)
  <2>. HIDE DEF h
  <2>. QED  BY <1>3, <1>4, <1>5 DEF Table
<1>. QED  BY <1>6

LEMMA TableExists ==
    ASSUME NEW S, IsFiniteSet(S), NEW f \in [S -> Int]
    PROVE  \E g : Table(g, f, S)
<1> DEFINE D == {t \in SUBSET S : ~ \E g : Table(g, f, t)}
<1>1. SUFFICES ASSUME D # {} PROVE FALSE
  OBVIOUS
<1>2. PICK t \in D : \A u \in D : u \subseteq t => u = t
  <2>1. D \in SUBSET (SUBSET S)
    OBVIOUS
  <2>. HIDE DEF D
  <2>. QED  BY <1>1, <2>1, LeastSet
<1>3. CASE t = {}
  <2>1. Table([s \in SUBSET {} |-> 0], f, {})
    BY DEF Table
  <2>. QED  BY <2>1, <1>2, <1>3
<1>4. CASE t # {}
  <2>1. PICK a \in t : TRUE
    BY <1>4
  <2>2. t \ {a} \notin D /\ t \ {a} \in SUBSET S
    BY <1>2, <2>1
  <2>3. PICK g : Table(g, f, t \ {a})
    BY <2>2
  <2>4. a \notin t \ {a} /\ t = (t \ {a}) \cup {a}
    BY <2>1
  <2>5. f[a] \in Int
    BY <2>1, <1>2
  <2> DEFINE k == [x \in t |-> f[x]]
  <2>6. k \in [t -> Int] /\ \A x \in t : k[x] = f[x]
    BY <1>2
  <2>7. Table(g, k, t \ {a})
    BY <2>3, <2>6 DEF Table
  <2>8. PICK h : Table(h, k, t)
    BY <2>4, <2>6, <2>7, TableExtends
  <2>9. Table(h, f, t)
    BY <2>8, <2>6 DEF Table
  <2>. QED  BY <2>9, <1>2
<1>. QED  BY <1>3, <1>4

(* Whatever order CHOOSE picks, the fold is what the table says.           *)
LEMMA SumIsTable ==
    ASSUME NEW S, IsFiniteSet(S), NEW f, NEW g, Table(g, f, S)
    PROVE  SumFunctionOnSet(f, S) = g[S]
<1> DEFINE Iter(k) == [s \in SUBSET S |-> IF s = {} THEN 0
                          ELSE f[CHOOSE x \in s : TRUE] + k[s \ {CHOOSE x \in s : TRUE}]]
           iter == CHOOSE k : k = Iter(k)
<1>1. SumFunctionOnSet(f, S) = iter[S]
  BY DEF SumFunctionOnSet, FoldFunctionOnSet, MapThenFoldSet
<1>2. g = Iter(g)
  <2>1. \A s \in SUBSET S : s # {} => (CHOOSE x \in s : TRUE) \in s
    OBVIOUS
  <2>2. \A s \in SUBSET S : g[s] = Iter(g)[s]
    BY <2>1 DEF Table
  <2>3. g \in [SUBSET S -> Int]
    BY DEF Table
  <2>. QED  BY <2>2, <2>3
<1>3. iter = Iter(iter)
  BY <1>2
<1>4. \A s \in SUBSET S : iter[s] = g[s]
  <2> HIDE DEF iter
  <2> DEFINE D == {t \in SUBSET S : iter[t] # g[t]}
  <2>1. SUFFICES ASSUME D # {} PROVE FALSE
    OBVIOUS
  <2>2. PICK t \in D : \A u \in D : u \subseteq t => u = t
    <3>1. D \in SUBSET (SUBSET S)
      OBVIOUS
    <3>. HIDE DEF D
    <3>. QED  BY <2>1, <3>1, LeastSet
  <2>3. iter[t] = IF t = {} THEN 0
                  ELSE f[CHOOSE x \in t : TRUE] + iter[t \ {CHOOSE x \in t : TRUE}]
    BY <1>3, <2>2
  <2>4. CASE t = {}
    BY <2>2, <2>3, <2>4 DEF Table
  <2>5. CASE t # {}
    <3>1. PICK y \in t : y = CHOOSE x \in t : TRUE
      BY <2>5
    <3>2. iter[t] = f[y] + iter[t \ {y}]
      BY <3>1, <2>3, <2>5
    <3>3. t \ {y} \notin D /\ t \ {y} \in SUBSET S
      BY <2>2, <3>1
    <3>4. g[t] = f[y] + g[t \ {y}]
      BY <2>2 DEF Table
    <3>. QED  BY <3>2, <3>3, <3>4, <2>2
  <2>. QED  BY <2>4, <2>5
<1>. QED  BY <1>1, <1>4

-----------------------------------------------------------------------------
LEMMA SumEmpty == ASSUME NEW f PROVE SumFunctionOnSet(f, {}) = 0
<1>1. Table([s \in SUBSET {} |-> 0], f, {})
  BY DEF Table
<1>2. IsFiniteSet({})
  BY FS_EmptySet
<1>3. SumFunctionOnSet(f, {}) = [s \in SUBSET {} |-> 0][{}]
  BY <1>1, <1>2, SumIsTable
<1>. QED  BY <1>3

LEMMA SumType ==
    ASSUME NEW S, IsFiniteSet(S), NEW f, \A x \in S : f[x] \in Int
    PROVE  SumFunctionOnSet(f, S) \in Int
<1> DEFINE k == [x \in S |-> f[x]]
<1>1. PICK g : Table(g, k, S)
  BY TableExists
<1>2. Table(g, f, S)
  BY <1>1 DEF Table
<1>3. SumFunctionOnSet(f, S) = g[S]
  BY <1>2, SumIsTable
<1>. QED  BY <1>2, <1>3 DEF Table

LEMMA SumRemove ==
    ASSUME NEW S, IsFiniteSet(S), NEW f, \A x \in S : f[x] \in Int, NEW a \in S
    PROVE  SumFunctionOnSet(f, S) = f[a] + SumFunctionOnSet(f, S \ {a})
<1> DEFINE k == [x \in S |-> f[x]]
           T == S \ {a}
<1>1. PICK g : Table(g, k, S)
  BY TableExists
<1>2. Table(g, f, S)
  BY <1>1 DEF Table
<1> DEFINE h == [s \in SUBSET T |-> g[s]]
<1>3. Table(h, f, T)
  BY <1>2 DEF Table
<1>4. SumFunctionOnSet(f, S) = g[S]
  BY <1>2, SumIsTable
<1>5. IsFiniteSet(T)
  BY FS_RemoveElement
<1>6. SumFunctionOnSet(f, T) = h[T]
  BY <1>3, <1>5, SumIsTable
<1>7. g[S] = f[a] + g[T]
  BY <1>2 DEF Table
<1>. QED  BY <1>4, <1>6, <1>7

(* A sum looks at nothing but the values on the set.                       *)
LEMMA SumSame ==
    ASSUME NEW S, IsFiniteSet(S), NEW f, NEW k,
           \A x \in S : f[x] \in Int /\ k[x] = f[x]
    PROVE  SumFunctionOnSet(k, S) = SumFunctionOnSet(f, S)
<1> DEFINE e == [x \in S |-> f[x]]
<1>1. PICK g : Table(g, e, S)
  BY TableExists
<1>2. Table(g, f, S) /\ Table(g, k, S)
  BY <1>1 DEF Table
<1>. QED  BY <1>2, SumIsTable

(* One element more.                                                       *)
LEMMA SumInsert ==
    ASSUME NEW S, IsFiniteSet(S), NEW a, a \notin S, NEW f, NEW g,
           \A x \in S : f[x] \in Int /\ g[x] = f[x], g[a] \in Int
    PROVE  SumFunctionOnSet(g, S \cup {a}) = g[a] + SumFunctionOnSet(f, S)
<1> DEFINE T == S \cup {a}
<1>1. IsFiniteSet(T)
  BY FS_AddElement
<1>2. (\A x \in T : g[x] \in Int) /\ a \in T /\ T \ {a} = S
  OBVIOUS
<1> HIDE DEF T
<1>3. SumFunctionOnSet(g, T) = g[a] + SumFunctionOnSet(g, T \ {a})
  BY <1>1, <1>2, SumRemove
<1>4. SumFunctionOnSet(g, S) = SumFunctionOnSet(f, S)
  BY SumSame
<1>. QED  BY <1>2, <1>3, <1>4 DEF T

(* A sequence without its nth element.                                     *)
LEMMA WithoutOne ==
    ASSUME NEW S, NEW list \in Seq(S), NEW n \in DOMAIN list
    PROVE  LET w == SubSeq(list, 1, n - 1) \o SubSeq(list, n + 1, Len(list)) IN
           /\ w \in Seq(S) /\ Len(w) = Len(list) - 1
           /\ \A k \in DOMAIN w : w[k] = IF k < n THEN list[k] ELSE list[k + 1]
<1> DEFINE a == SubSeq(list, 1, n - 1)
           b == SubSeq(list, n + 1, Len(list))
<1>1. Len(list) \in Nat /\ DOMAIN list = 1..Len(list) /\ n \in 1..Len(list)
  BY LenProperties
<1>2. a \in Seq(S) /\ Len(a) = n - 1 /\ \A k \in 1..n - 1 : a[k] = list[k]
  BY <1>1, SubSeqProperties
<1>3. b \in Seq(S) /\ Len(b) = Len(list) - n /\ \A k \in 1..Len(list) - n : b[k] = list[n + k]
  BY <1>1, SubSeqProperties
<1> HIDE DEF a, b
<1>4. /\ a \o b \in Seq(S) /\ Len(a \o b) = Len(a) + Len(b)
      /\ \A k \in 1..Len(a) + Len(b) : (a \o b)[k] = IF k <= Len(a) THEN a[k] ELSE b[k - Len(a)]
  BY <1>2, <1>3, ConcatProperties
<1>5. Len(a \o b) = Len(list) - 1 /\ DOMAIN (a \o b) = 1..Len(list) - 1
  <2>1. Len(a) + Len(b) = Len(list) - 1
    BY <1>1, <1>2, <1>3
  <2>2. Len(a \o b) = Len(list) - 1
    BY <2>1, <1>4
  <2>3. DOMAIN (a \o b) = 1..Len(a \o b)
    BY <1>4, LenProperties
  <2>. QED  BY <2>2, <2>3
<1>6. ASSUME NEW k \in 1..Len(list) - 1
      PROVE  (a \o b)[k] = IF k < n THEN list[k] ELSE list[k + 1]
  <2>1. CASE k < n
    BY <2>1, <1>1, <1>2, <1>3, <1>4
  <2>2. CASE ~(k < n)
    <3>1. k - (n - 1) \in 1..Len(list) - n /\ k \in 1..(n - 1) + (Len(list) - n)
      BY <2>2, <1>1
    <3>2. (a \o b)[k] = b[k - (n - 1)]
      <4>1. ~(k <= Len(a)) /\ k \in 1..Len(a) + Len(b)
        BY <2>2, <3>1, <1>1, <1>2, <1>3
      <4>. QED  BY <4>1, <1>2, <1>4
    <3>3. b[k - (n - 1)] = list[n + (k - (n - 1))] /\ n + (k - (n - 1)) = k + 1
      BY <3>1, <1>1, <1>3
    <3>. QED  BY <3>2, <3>3, <2>2, <1>1
  <2>. QED  BY <2>1, <2>2
<1>. QED  BY <1>1, <1>2, <1>3, <1>4, <1>5, <1>6 DEF a, b

(* What a sequence holds once, it holds once without its nth element.      *)
LEMMA WithoutKeepsOnce ==
    ASSUME NEW S, NEW list \in Seq(S), NEW n \in DOMAIN list, IsInjective(list)
    PROVE  LET w == SubSeq(list, 1, n - 1) \o SubSeq(list, n + 1, Len(list)) IN
           w \in Seq(S) /\ IsInjective(w) /\ Range(w) \subseteq Range(list)
<1> DEFINE w == SubSeq(list, 1, n - 1) \o SubSeq(list, n + 1, Len(list))
           up(k) == IF k < n THEN k ELSE k + 1
<1>1. /\ w \in Seq(S) /\ Len(w) = Len(list) - 1
      /\ \A k \in DOMAIN w : w[k] = list[up(k)]
  <2>1. /\ w \in Seq(S) /\ Len(w) = Len(list) - 1
        /\ \A k \in DOMAIN w : w[k] = IF k < n THEN list[k] ELSE list[k + 1]
    BY WithoutOne
  <2>. HIDE DEF w
  <2>. QED  BY <2>1
<1> HIDE DEF w
<1>2. /\ DOMAIN w = 1..Len(list) - 1 /\ DOMAIN list = 1..Len(list)
      /\ Len(list) \in Nat /\ n \in 1..Len(list)
  BY <1>1, LenProperties
<1>3. \A k \in DOMAIN w : up(k) \in DOMAIN list
  BY <1>2
<1>4. \A k, j \in DOMAIN w : up(k) = up(j) => k = j
  BY <1>2
<1> HIDE DEF up
<1>5. IsInjective(w)
  <2> SUFFICES ASSUME NEW k \in DOMAIN w, NEW j \in DOMAIN w, w[k] = w[j] PROVE k = j
    BY DEF IsInjective
  <2>1. list[up(k)] = list[up(j)] /\ up(k) \in DOMAIN list /\ up(j) \in DOMAIN list
    BY <1>1, <1>3
  <2>2. up(k) = up(j)
    BY <2>1 DEF IsInjective
  <2>. QED  BY <2>2, <1>4
<1>6. Range(w) \subseteq Range(list)
  BY <1>1, <1>3 DEF Range
<1>. QED  BY <1>1, <1>5, <1>6 DEF w
=============================================================================
