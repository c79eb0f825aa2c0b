--------------------------- MODULE Genealogy_proofs ---------------------------
(***************************************************************************)
(* What the walks of the tree compute, for a tree of any finite size: the  *)
(* descendants found by person_rules are the least set that holds the      *)
(* children of the root and of its own members (DescendantsClosed,         *)
(* DescendantsLeast).  From that alone follows when a change of the tree   *)
(* leaves it without a cycle: persons and edges may go, leaves may come    *)
(* (LeavesKeepAcyclic), and a person may get parents that are neither the  *)
(* person nor a descendant (ReparentKeepsAcyclic), which is what           *)
(* validate_no_cycle checks.  In a tree compute_generations gives everyone *)
(* one more than the highest known parent (GenerationOf), and a change     *)
(* leaves the generations of those alone whose ancestors it leaves alone   *)
(* (GenerationsAgree).                                                     *)
(*                                                                         *)
(* Induction is by least counterexample: a set of naturals that is not     *)
(* empty has a least element (LeastNat).                                   *)
(***************************************************************************)
EXTENDS Genealogy, FiniteSetTheorems, TLAPS

LEMMA LeastNat ==
  ASSUME NEW T \in SUBSET Nat, T # {}
  PROVE  \E n \in T : \A m \in T : n <= m
<1>1. PICK n \in T : \A m \in T : ~(<<m, n>> \in OpToRel(<, Nat))
  BY NatLessThanWellFounded, WFMin
<1>2. \A m \in T : ~(m < n)
  BY <1>1 DEF OpToRel
<1> QED
  BY <1>2

(* A function that is defined by repeating steps exists.                   *)
Iterates(f, V, start, step, n) ==
  f \in [0..n -> V] /\ f[0] = start /\ \A i \in 1..n : f[i] = step[i][f[i - 1]]

LEMMA IterationExists ==
  ASSUME NEW V, NEW start \in V, NEW N \in Nat, NEW step \in [1..N -> [V -> V]]
  PROVE  \E f : Iterates(f, V, start, step, N)
<1> DEFINE Goes(n) == \E f \in [0..n -> V] : f[0] = start /\ \A i \in 1..n : f[i] = step[i][f[i - 1]]
           Fails == {n \in 0..N : ~Goes(n)}
<1>1. Fails = {}
  <2> SUFFICES ASSUME Fails # {} PROVE FALSE
    OBVIOUS
  <2>1. PICK n \in Fails : \A m \in Fails : n <= m
    <3>1. Fails \in SUBSET Nat
      OBVIOUS
    <3> HIDE DEF Fails
    <3> QED
      BY <3>1, LeastNat
  <2>2. n # 0
    <3>1. PICK f : f = [i \in 0..0 |-> start]
      OBVIOUS
    <3>2. f \in [0..0 -> V] /\ f[0] = start /\ 1..0 = {}
      BY <3>1
    <3>3. Goes(0)
      BY <3>2
    <3> QED
      BY <3>3
  <2>3. n \in 1..N /\ n - 1 \in 0..N /\ n - 1 \notin Fails
    <3>1. n \in 0..N
      BY <2>1
    <3>2. n \in 1..N /\ n - 1 \in 0..N /\ ~(n <= n - 1)
      BY <2>2, <3>1
    <3> HIDE DEF Fails
    <3> QED
      BY <2>1, <3>2
  <2>4. PICK f \in [0..(n - 1) -> V] : f[0] = start /\ \A i \in 1..(n - 1) : f[i] = step[i][f[i - 1]]
    BY <2>3
  <2>5. PICK h : h = [i \in 0..n |-> IF i = n THEN step[n][f[n - 1]] ELSE f[i]]
    OBVIOUS
  <2>6. h \in [0..n -> V]
    BY <2>3, <2>5
  <2>7. h[0] = start /\ \A i \in 1..n : h[i] = step[i][h[i - 1]]
    BY <2>2, <2>3, <2>4, <2>5
  <2> QED
    BY <2>6, <2>7
<1> QED
  BY <1>1, SMTT(30) DEF Iterates

-----------------------------------------------------------------------------
(* person_rules.descendants: the rounds of the walk.                       *)

Rounds(f, g, root) ==
  /\ f \in [0..Cardinality(DOMAIN g) -> SUBSET DOMAIN g]
  /\ f[0] = Children(g, root)
  /\ \A i \in 1..Cardinality(DOMAIN g) :
       f[i] = f[i - 1] \cup UNION {Children(g, c) : c \in f[i - 1]}

LEMMA DescendantsRounds ==
  ASSUME NEW g, NEW root, IsFiniteSet(DOMAIN g)
  PROVE  \E f : Rounds(f, g, root) /\ Descendants(g, root) = f[Cardinality(DOMAIN g)]
<1> DEFINE ids == DOMAIN g
           N == Cardinality(ids)
           Defines(f) == f = [n \in 0..N |-> IF n = 0 THEN Children(g, root)
                                ELSE f[n - 1] \cup UNION {Children(g, c) : c \in f[n - 1]}]
           step == [i \in 1..N |-> [S \in SUBSET ids |-> S \cup UNION {Children(g, c) : c \in S}]]
<1>1. N \in Nat
  BY FS_CardinalityType
<1>2. Children(g, root) \in SUBSET ids /\ step \in [1..N -> [SUBSET ids -> SUBSET ids]]
  BY DEF Children
<1>3. PICK h \in [0..N -> SUBSET ids] :
        h[0] = Children(g, root) /\ \A i \in 1..N : h[i] = step[i][h[i - 1]]
  <2> HIDE DEF N, step
  <2>1. \E f : Iterates(f, SUBSET ids, Children(g, root), step, N)
    BY <1>1, <1>2, IterationExists
  <2> QED
    BY <2>1 DEF Iterates
<1>4. \A i \in 1..N : h[i] = h[i - 1] \cup UNION {Children(g, c) : c \in h[i - 1]}
  <2> TAKE i \in 1..N
  <2>1. h[i - 1] \in SUBSET ids
    BY <1>1
  <2> QED
    BY <1>3, <2>1
<1>5. Defines(h)
  BY <1>1, <1>3, <1>4
<1>6. PICK f : f = CHOOSE k : Defines(k)
  OBVIOUS
<1>7. Defines(f)
  BY <1>5, <1>6
<1>8. f[0] = Children(g, root) /\ 0 \in 0..N /\ DOMAIN f = 0..N
  BY <1>1, <1>7
<1>9. \A i \in 1..N : f[i] = f[i - 1] \cup UNION {Children(g, c) : c \in f[i - 1]}
  <2> TAKE i \in 1..N
  <2>1. i \in 0..N /\ i # 0
    BY <1>1
  <2> QED
    BY <1>7, <2>1
(* The two are the same.                                                   *)
<1>10. \A i \in 0..N : f[i] = h[i]
  <2> DEFINE Off == {i \in 0..N : f[i] # h[i]}
  <2> SUFFICES ASSUME Off # {} PROVE FALSE
    OBVIOUS
  <2>1. PICK n \in Off : \A m \in Off : n <= m
    <3>1. Off \in SUBSET Nat
      BY <1>1
    <3> HIDE DEF Off
    <3> QED
      BY <3>1, LeastNat
  <2>2. n # 0
    BY <1>3, <1>8, <2>1
  <2>3. n - 1 \in 0..N /\ n - 1 \notin Off /\ n \in 1..N
    BY <1>1, <2>1, <2>2
  <2>4. f[n - 1] = h[n - 1]
    BY <2>3
  <2>5. f[n] = h[n]
    BY <1>4, <1>9, <2>3, <2>4
  <2> QED
    BY <2>1, <2>5
<1>11. f \in [0..N -> SUBSET ids]
  <2>1. \A i \in 0..N : f[i] \in SUBSET ids
    BY <1>10
  <2>2. f = [n \in 0..N |-> f[n]]
    BY <1>7
  <2> QED
    BY <2>1, <2>2
<1>12. Descendants(g, root) = f[N]
  BY <1>6 DEF Descendants
<1> QED
  BY <1>8, <1>9, <1>11, <1>12 DEF Rounds

HoldsChildren(g, S) == \A c \in S : Children(g, c) \subseteq S

(* Nobody is found that has not to be.                                     *)
LEMMA DescendantsLeast ==
  ASSUME NEW g, NEW root, IsFiniteSet(DOMAIN g),
         NEW S, Children(g, root) \subseteq S, HoldsChildren(g, S)
  PROVE  Descendants(g, root) \subseteq S
<1> DEFINE N == Cardinality(DOMAIN g)
<1>0. N \in Nat
  BY FS_CardinalityType
<1>1. PICK f : Rounds(f, g, root) /\ Descendants(g, root) = f[N]
  BY DescendantsRounds
<1> DEFINE Off == {i \in 0..N : ~(f[i] \subseteq S)}
<1>2. Off = {}
  <2> SUFFICES ASSUME Off # {} PROVE FALSE
    OBVIOUS
  <2>1. PICK n \in Off : \A m \in Off : n <= m
    <3>1. Off \in SUBSET Nat
      BY <1>0
    <3> HIDE DEF Off
    <3> QED
      BY <3>1, LeastNat
  <2>2. n # 0
    BY <1>1, <2>1 DEF Rounds
  <2>3. n - 1 \in 0..N /\ n - 1 \notin Off /\ n \in 1..N
    BY <1>0, <2>1, <2>2
  <2>4. f[n - 1] \subseteq S
    BY <2>3
  <2>5. f[n] = f[n - 1] \cup UNION {Children(g, c) : c \in f[n - 1]}
    BY <1>1, <2>3 DEF Rounds
  <2>6. f[n] \subseteq S
    BY <2>4, <2>5 DEF HoldsChildren
  <2> QED
    BY <2>1, <2>6
<1>3. N \in 0..N
  BY <1>0
<1> QED
  BY <1>1, <1>2, <1>3

(* Everybody is found who has to be: as many rounds as there are ids are   *)
(* enough, since a round that finds nobody new is the last one to matter.  *)
LEMMA DescendantsClosed ==
  ASSUME NEW g, NEW root, IsFiniteSet(DOMAIN g)
  PROVE  /\ Descendants(g, root) \subseteq DOMAIN g
         /\ Children(g, root) \subseteq Descendants(g, root)
         /\ HoldsChildren(g, Descendants(g, root))
<1> DEFINE N == Cardinality(DOMAIN g)
<1>0. N \in Nat
  BY FS_CardinalityType
<1>1. PICK f : Rounds(f, g, root) /\ Descendants(g, root) = f[N]
  BY DescendantsRounds
<1>2. N \in 0..N /\ \A i \in 0..N : f[i] \subseteq DOMAIN g
  BY <1>0, <1>1 DEF Rounds
<1>3. ASSUME NEW i \in 0..N, i # 0
      PROVE  i \in 1..N /\ i - 1 \in 0..N /\ f[i - 1] \subseteq f[i]
               /\ f[i] = f[i - 1] \cup UNION {Children(g, c) : c \in f[i - 1]}
  <2>1. i \in 1..N /\ i - 1 \in 0..N
    BY <1>0, <1>3
  <2>2. f[i] = f[i - 1] \cup UNION {Children(g, c) : c \in f[i - 1]}
    BY <1>1, <2>1 DEF Rounds
  <2> QED
    BY <2>1, <2>2
<1> HIDE DEF N
<1>4. Children(g, root) \subseteq f[N]
  <2> DEFINE Off == {i \in 0..N : ~(Children(g, root) \subseteq f[i])}
  <2> SUFFICES ASSUME Off # {} PROVE FALSE
    BY <1>2
  <2>1. PICK n \in Off : \A m \in Off : n <= m
    <3>1. Off \in SUBSET Nat
      BY <1>0
    <3> HIDE DEF Off
    <3> QED
      BY <3>1, LeastNat
  <2>2. n # 0
    BY <1>1, <2>1 DEF Rounds, N
  <2>3. n - 1 \in 0..N /\ n - 1 \notin Off /\ f[n - 1] \subseteq f[n]
    BY <1>0, <1>3, <2>1, <2>2
  <2> QED
    BY <2>1, <2>3
<1>5. HoldsChildren(g, f[N])
  <2> SUFFICES ASSUME ~HoldsChildren(g, f[N]) PROVE FALSE
    OBVIOUS
  <2>1. \A i \in 0..N : ~HoldsChildren(g, f[i])
    <3> SUFFICES ASSUME NEW i \in 0..N, HoldsChildren(g, f[i]) PROVE FALSE
      OBVIOUS
    <3> DEFINE Off == {j \in i..N : f[j] # f[i]}
    <3>1. N \in Off
      BY <1>0
    <3>2. PICK n \in Off : \A m \in Off : n <= m
      <4>1. Off \in SUBSET Nat
        BY <1>0
      <4> HIDE DEF Off
      <4> QED
        BY <3>1, <4>1, LeastNat
    <3>3. n # i /\ n \in 0..N /\ n # 0
      BY <1>0, <3>2
    <3>4. n - 1 \in i..N /\ n - 1 \notin Off
      BY <1>0, <3>2, <3>3
    <3>5. f[n - 1] = f[i]
      BY <3>4
    <3>6. f[n] = f[i] \cup UNION {Children(g, c) : c \in f[i]}
      BY <1>3, <3>3, <3>5
    <3>7. f[n] = f[i]
      BY <3>6 DEF HoldsChildren
    <3> QED
      BY <3>2, <3>7
  <2> DEFINE Off == {i \in 0..N : ~(IsFiniteSet(f[i]) /\ Cardinality(f[i]) > i)}
  <2>2. \A i \in 0..N : IsFiniteSet(f[i]) /\ Cardinality(f[i]) \in Nat
    BY <1>2, FS_Subset, FS_CardinalityType
  <2>3. Off = {}
    <3> SUFFICES ASSUME Off # {} PROVE FALSE
      OBVIOUS
    <3>1. PICK n \in Off : \A m \in Off : n <= m
      <4>1. Off \in SUBSET Nat
        BY <1>0
      <4> HIDE DEF Off
      <4> QED
        BY <4>1, LeastNat
    <3>2. CASE n = 0
      <4>1. f[n] # {}
        BY <2>1, <3>1 DEF HoldsChildren
      <4>2. Cardinality(f[n]) # 0
        BY <2>2, <3>1, <4>1, FS_EmptySet
      <4> QED
        BY <2>2, <3>1, <3>2, <4>2
    <3>3. CASE n # 0
      <4>1. n \in 1..N /\ n - 1 \in 0..N /\ n - 1 \notin Off
        BY <1>0, <1>3, <3>1, <3>3
      <4>2. /\ f[n - 1] \subseteq f[n]
            /\ f[n] = f[n - 1] \cup UNION {Children(g, c) : c \in f[n - 1]}
        BY <1>3, <3>1, <3>3
      <4>3. f[n - 1] # f[n]
        <5>1. PICK c \in f[n - 1] : ~(Children(g, c) \subseteq f[n - 1])
          BY <2>1, <4>1 DEF HoldsChildren
        <5> QED
          BY <4>2, <5>1
      <4>4. Cardinality(f[n - 1]) > n - 1
        BY <4>1
      <4>5. /\ Cardinality(f[n - 1]) <= Cardinality(f[n])
            /\ Cardinality(f[n - 1]) # Cardinality(f[n])
        BY <2>2, <3>1, <4>2, <4>3, FS_Subset
      <4>6. Cardinality(f[n]) > n
        BY <2>2, <3>1, <4>1, <4>4, <4>5
      <4> QED
        BY <2>2, <3>1, <4>6
    <3> QED
      BY <3>2, <3>3
  <2>4. Cardinality(f[N]) > N
    BY <1>2, <2>3
  <2>5. Cardinality(f[N]) <= N
    BY <1>2, FS_Subset DEF N
  <2> QED
    BY <1>0, <1>2, <2>2, <2>4, <2>5
<1> QED
  BY <1>1, <1>2, <1>4, <1>5 DEF N

-----------------------------------------------------------------------------
(* Nobody is their own ancestor.                                           *)
Acyclic(g) == \A p \in DOMAIN g : p \notin Descendants(g, p)

(* h is g but that persons and edges have gone, and leaves have come.      *)
Pruned(g, h, leaves) ==
  /\ \A c \in DOMAIN h \ leaves : c \in DOMAIN g /\ h[c] \subseteq g[c]
  /\ \A c \in leaves : Children(h, c) = {}

LEMMA DescendantsPruned ==
  ASSUME NEW g, NEW h, IsFiniteSet(DOMAIN g), IsFiniteSet(DOMAIN h),
         NEW leaves, Pruned(g, h, leaves), NEW p
  PROVE  Descendants(h, p) \subseteq Descendants(g, p) \cup leaves
<1>1. PICK S : S = Descendants(g, p) \cup leaves
  OBVIOUS
<1>2. \A c : Children(h, c) \subseteq Children(g, c) \cup leaves
  BY DEF Children, Pruned
<1>3. Children(h, p) \subseteq S
  BY <1>1, <1>2, DescendantsClosed
<1>4. HoldsChildren(h, S)
  <2> SUFFICES ASSUME NEW c \in S, NEW d \in Children(h, c) PROVE d \in S
    BY DEF HoldsChildren
  <2>1. CASE c \in leaves
    BY <2>1 DEF Pruned
  <2>2. CASE c \in Descendants(g, p)
    BY <1>1, <1>2, <2>2, DescendantsClosed DEF HoldsChildren
  <2> QED
    BY <1>1, <2>1, <2>2
<1> QED
  BY <1>1, <1>3, <1>4, DescendantsLeast

LEMMA NoDescendants ==
  ASSUME NEW g, IsFiniteSet(DOMAIN g), NEW p, Children(g, p) = {}
  PROVE  Descendants(g, p) = {}
<1>1. HoldsChildren(g, {})
  BY DEF HoldsChildren
<1> QED
  BY <1>1, DescendantsLeast

LEMMA LeavesKeepAcyclic ==
  ASSUME NEW g, NEW h, IsFiniteSet(DOMAIN g), IsFiniteSet(DOMAIN h),
         NEW leaves, Pruned(g, h, leaves), Acyclic(g)
  PROVE  Acyclic(h)
<1> SUFFICES ASSUME NEW p \in DOMAIN h PROVE p \notin Descendants(h, p)
  BY DEF Acyclic
<1>1. CASE p \in leaves
  BY <1>1, NoDescendants DEF Pruned
<1>2. CASE p \notin leaves
  BY <1>2, DescendantsPruned DEF Pruned, Acyclic
<1> QED
  BY <1>1, <1>2

(* h is g but that p has other parents, or has come back.                  *)
Reparented(g, h, p) ==
  /\ DOMAIN h \subseteq DOMAIN g \cup {p} /\ p \in DOMAIN h
  /\ \A c \in DOMAIN h \ {p} : h[c] \subseteq g[c]

LEMMA ReparentKeepsAcyclic ==
  ASSUME NEW g, NEW h, IsFiniteSet(DOMAIN g), IsFiniteSet(DOMAIN h),
         NEW p, Reparented(g, h, p), p \notin h[p], h[p] \cap Descendants(g, p) = {},
         Acyclic(g)
  PROVE  Acyclic(h)
<1>1. \A q : /\ Descendants(g, q) \subseteq DOMAIN g /\ Children(g, q) \subseteq Descendants(g, q)
             /\ \A c \in Descendants(g, q) : Children(g, c) \subseteq Descendants(g, q)
             /\ Descendants(h, q) \subseteq DOMAIN h /\ Children(h, q) \subseteq Descendants(h, q)
             /\ \A c \in Descendants(h, q) : Children(h, c) \subseteq Descendants(h, q)
  BY DescendantsClosed DEF HoldsChildren
<1>2. p \notin Descendants(g, p)
  BY <1>1 DEF Acyclic
<1>3. \A c : Children(h, c) \subseteq Children(g, c) \cup {p}
  BY DEF Children, Reparented
<1>4. \A c \in Descendants(g, p) \cup {p} : Children(h, c) \subseteq Descendants(g, p)
  <2> SUFFICES ASSUME NEW c \in Descendants(g, p) \cup {p}, NEW d \in Children(h, c)
               PROVE  d \in Descendants(g, p)
    OBVIOUS
  <2>1. d # p
    BY DEF Children
  <2> QED
    BY <1>1, <1>3, <2>1
<1>5. Descendants(h, p) \subseteq Descendants(g, p)
  BY <1>4, DescendantsLeast DEF HoldsChildren
<1> SUFFICES ASSUME NEW q \in DOMAIN h, q \in Descendants(h, q) PROVE FALSE
  BY DEF Acyclic
<1>6. q # p /\ q \in DOMAIN g /\ q \notin Descendants(g, q)
  BY <1>2, <1>5 DEF Acyclic, Reparented
(* The way round q goes through p ...                                      *)
<1>7. CASE p \notin Descendants(h, q)
  <2>1. PICK S : S = Descendants(h, q) \cap Descendants(g, q)
    OBVIOUS
  <2>2. Children(h, q) \subseteq S
    BY <1>1, <1>3, <1>7, <2>1
  <2>3. HoldsChildren(h, S)
    BY <1>1, <1>3, <1>7, <2>1 DEF HoldsChildren
  <2>4. Descendants(h, q) \subseteq S
    BY <2>2, <2>3, DescendantsLeast
  <2> QED
    BY <1>6, <2>1, <2>4
(* ... so q is below p already, and nothing below p leads to p.            *)
<1>8. CASE p \in Descendants(h, q)
  <2>1. PICK S : S = Descendants(g, q) \cup {p} \cup Descendants(g, p)
    OBVIOUS
  <2>2. Children(h, q) \subseteq S
    BY <1>1, <1>3, <2>1
  <2>3. HoldsChildren(h, S)
    <3> SUFFICES ASSUME NEW c \in S, NEW d \in Children(h, c) PROVE d \in S
      BY DEF HoldsChildren
    <3>1. CASE c \in Descendants(g, q)
      BY <1>1, <1>3, <2>1, <3>1
    <3>2. CASE c \in Descendants(g, p) \cup {p}
      BY <1>4, <2>1, <3>2
    <3> QED
      BY <2>1, <3>1, <3>2
  <2>4. q \in Descendants(g, p)
    BY <1>6, <2>1, <2>2, <2>3, DescendantsLeast
  <2>5. Descendants(h, q) \subseteq Descendants(g, p)
    BY <1>4, <2>4, DescendantsLeast DEF HoldsChildren
  <2> QED
    BY <1>2, <1>8, <2>5
<1> QED
  BY <1>7, <1>8

-----------------------------------------------------------------------------
(* Who is below a descendant is below.                                     *)
LEMMA DescendantsTransitive ==
  ASSUME NEW g, IsFiniteSet(DOMAIN g), NEW p, NEW q \in Descendants(g, p)
  PROVE  Descendants(g, q) \subseteq Descendants(g, p)
<1>1. Children(g, q) \subseteq Descendants(g, p)
  BY DescendantsClosed DEF HoldsChildren
<1> QED
  BY <1>1, DescendantsClosed, DescendantsLeast

(* h has no row and no edge that g has not.                                *)
Within(h, g) == \A c \in DOMAIN h : c \in DOMAIN g /\ h[c] \subseteq g[c]

LEMMA DescendantsWithin ==
  ASSUME NEW g, NEW h, IsFiniteSet(DOMAIN g), IsFiniteSet(DOMAIN h), Within(h, g), NEW p
  PROVE  Descendants(h, p) \subseteq Descendants(g, p)
<1>1. \A q : Children(h, q) \subseteq Children(g, q)
  BY DEF Children, Within
<1>2. HoldsChildren(h, Descendants(g, p)) /\ Children(h, p) \subseteq Descendants(g, p)
  BY <1>1, DescendantsClosed DEF HoldsChildren
<1> QED
  BY <1>2, DescendantsLeast

LEMMA WithinAcyclic ==
  ASSUME NEW g, NEW h, IsFiniteSet(DOMAIN g), IsFiniteSet(DOMAIN h), Within(h, g), Acyclic(g)
  PROVE  Acyclic(h)
BY DescendantsWithin DEF Acyclic, Within

(* h is g with one more parent, q, on some rows.                           *)
Adopted(g, h, q, kids) ==
  /\ DOMAIN h = DOMAIN g
  /\ \A c \in DOMAIN h : h[c] \subseteq g[c] \cup (IF c \in kids THEN {q} ELSE {})

(* Only below q is anybody new, and nobody who is not below those rows.    *)
LEMMA DescendantsAdopted ==
  ASSUME NEW g, NEW h, IsFiniteSet(DOMAIN g), NEW q, NEW kids, Adopted(g, h, q, kids),
         \A c \in kids : c # q /\ q \notin Descendants(g, c), NEW p
  PROVE  Descendants(h, p) \subseteq
           Descendants(g, p) \cup (IF q \in {p} \cup Descendants(g, p)
                                   THEN kids \cup UNION {Descendants(g, c) : c \in kids} ELSE {})
<1>1. PICK S : S = Descendants(g, p) \cup (IF q \in {p} \cup Descendants(g, p)
                                   THEN kids \cup UNION {Descendants(g, c) : c \in kids} ELSE {})
  OBVIOUS
<1>2. \A c : Children(h, c) \subseteq Children(g, c) \cup (IF c = q THEN kids ELSE {})
  BY DEF Children, Adopted
<1>3. \A c : /\ Children(g, c) \subseteq Descendants(g, c)
             /\ \A d \in Descendants(g, c) : Children(g, d) \subseteq Descendants(g, c)
  BY DescendantsClosed DEF HoldsChildren
<1>4. Children(h, p) \subseteq S
  BY <1>1, <1>2, <1>3
<1>5. HoldsChildren(h, S)
  <2> SUFFICES ASSUME NEW c \in S, NEW d \in Children(h, c) PROVE d \in S
    BY DEF HoldsChildren
  <2>1. CASE c \in Descendants(g, p)
    BY <1>1, <1>2, <1>3, <2>1
  <2>2. CASE c \notin Descendants(g, p)
    <3>1. /\ q \in {p} \cup Descendants(g, p)
          /\ c \in kids \/ \E k \in kids : c \in Descendants(g, k)
      BY <1>1, <2>2
    <3>2. c # q
      BY <3>1
    <3>3. d \in Children(g, c)
      BY <1>2, <3>2
    <3>4. \E k \in kids : d \in Descendants(g, k)
      BY <1>3, <3>1, <3>3
    <3> QED
      BY <1>1, <3>1, <3>4
  <2> QED
    BY <2>1, <2>2
<1>6. IsFiniteSet(DOMAIN h)
  BY DEF Adopted
<1>7. Descendants(h, p) \subseteq S
  BY <1>4, <1>5, <1>6, DescendantsLeast
<1> QED
  BY <1>1, <1>7

LEMMA AdoptionKeepsAcyclic ==
  ASSUME NEW g, NEW h, IsFiniteSet(DOMAIN g), NEW q, NEW kids, Adopted(g, h, q, kids),
         \A c \in kids : c # q /\ q \notin Descendants(g, c), Acyclic(g)
  PROVE  Acyclic(h)
<1> SUFFICES ASSUME NEW p \in DOMAIN h, p \in Descendants(h, p) PROVE FALSE
  BY DEF Acyclic
<1>1. p \notin Descendants(g, p)
  BY DEF Acyclic, Adopted
<1>2. q \in {p} \cup Descendants(g, p) /\ (p \in kids \/ \E c \in kids : p \in Descendants(g, c))
  <2>1. p \in Descendants(g, p) \cup (IF q \in {p} \cup Descendants(g, p)
                                   THEN kids \cup UNION {Descendants(g, c) : c \in kids} ELSE {})
    BY DescendantsAdopted
  <2> QED
    BY <1>1, <2>1
<1>3. CASE p \in kids
  BY <1>2, <1>3
<1>4. CASE \E c \in kids : p \in Descendants(g, c)
  <2>1. PICK c \in kids : p \in Descendants(g, c)
    BY <1>4
  <2>2. Descendants(g, p) \subseteq Descendants(g, c)
    BY <2>1, DescendantsTransitive
  <2> QED
    BY <1>2, <2>1, <2>2
<1> QED
  BY <1>2, <1>3, <1>4

(* h is g with one more row, that names no parent.                         *)
LEMMA NewcomerKeepsAcyclic ==
  ASSUME NEW g, NEW h, IsFiniteSet(DOMAIN g), NEW new, new \notin DOMAIN g,
         DOMAIN h = DOMAIN g \cup {new}, h[new] = {}, \A c \in DOMAIN g : h[c] = g[c],
         \A c \in DOMAIN g : new \notin g[c], Acyclic(g)
  PROVE  Acyclic(h) /\ Descendants(h, new) = {}
<1>1. IsFiniteSet(DOMAIN h)
  BY FS_AddElement
<1>2. Pruned(g, h, {new})
  BY DEF Pruned, Children
<1>3. Acyclic(h)
  BY <1>1, <1>2, LeavesKeepAcyclic
<1>4. Children(h, new) = {}
  BY DEF Children
<1> QED
  BY <1>1, <1>3, <1>4, NoDescendants

-----------------------------------------------------------------------------
(* tree.compute_generations.  The highest of finitely many numbers.        *)

LEMMA GreatestNat ==
  ASSUME NEW S \in SUBSET Nat, IsFiniteSet(S), S # {}
  PROVE  \E m \in S : \A n \in S : n <= m
<1> DEFINE HasGreatest(U) == \E m \in U : \A n \in U : n <= m
           Off == {n \in Nat : \E U \in SUBSET S : U # {} /\ Cardinality(U) = n /\ ~HasGreatest(U)}
<1>1. Cardinality(S) \in Nat
  BY FS_CardinalityType
<1> SUFFICES ASSUME Off # {} PROVE FALSE
  BY <1>1
<1>2. PICK n \in Off : \A m \in Off : n <= m
  <2>1. Off \in SUBSET Nat
    OBVIOUS
  <2> HIDE DEF Off
  <2> QED
    BY <2>1, LeastNat
<1>3. PICK U \in SUBSET S : U # {} /\ Cardinality(U) = n /\ ~HasGreatest(U)
  BY <1>2
<1>4. PICK x \in U : TRUE
  BY <1>3
<1>5. PICK V : V = U \ {x}
  OBVIOUS
<1>6. IsFiniteSet(U) /\ Cardinality(V) = n - 1 /\ n \in Nat /\ Cardinality(V) \in Nat
  <2>1. IsFiniteSet(U)
    BY FS_Subset
  <2>2. IsFiniteSet(V) /\ Cardinality(V) = n - 1
    BY <1>3, <1>4, <1>5, <2>1, FS_RemoveElement
  <2> QED
    BY <1>2, <2>1, <2>2, FS_CardinalityType
<1>7. V = {} \/ HasGreatest(V)
  <2>1. Cardinality(V) \notin Off
    BY <1>2, <1>6
  <2>2. V \in SUBSET S
    BY <1>5
  <2> QED
    BY <1>6, <2>1, <2>2
<1>8. HasGreatest(U)
  <2>1. CASE V = {}
    BY <1>3, <1>4, <1>5, <2>1
  <2>2. CASE HasGreatest(V)
    <3>1. PICK m \in V : \A k \in V : k <= m
      BY <2>2
    <3>2. x \in Nat /\ m \in Nat /\ m \in U /\ \A k \in U : k = x \/ k \in V
      BY <1>3, <1>4, <1>5, <3>1
    <3>3. CASE x <= m
      <4>1. \A k \in U : k <= m
        BY <3>1, <3>2, <3>3
      <4> QED
        BY <3>2, <4>1
    <3>4. CASE ~(x <= m)
      <4>1. \A k \in U : k \in Nat
        OBVIOUS
      <4>2. \A k \in U : k <= x
        BY <3>1, <3>2, <3>4, <4>1
      <4> QED
        BY <1>4, <4>2
    <3> QED
      BY <3>3, <3>4
  <2> QED
    BY <1>7, <2>1, <2>2
<1> QED
  BY <1>3, <1>8

LEMMA ValuesFinite ==
  ASSUME NEW S, IsFiniteSet(S), NEW f
  PROVE  IsFiniteSet({f[x] : x \in S})
<1>1. PICK h : h = [x \in S |-> f[x]]
  OBVIOUS
<1>2. PICK T : T = {f[x] : x \in S}
  OBVIOUS
<1>3. h \in Surjection(S, T)
  BY <1>1, <1>2 DEF Surjection
<1> QED
  BY <1>2, <1>3, FS_Surjection

LEMMA BelowHighestPositive ==
  ASSUME NEW gens \in SUBSET Nat, IsFiniteSet(gens)
  PROVE  BelowHighest(gens) \in Nat /\ BelowHighest(gens) > 0
<1>1. PICK S : S = {0} \cup gens
  OBVIOUS
<1>2. S \in SUBSET Nat /\ S # {} /\ IsFiniteSet(S)
  BY <1>1, FS_EmptySet, FS_AddElement, FS_Union, FS_Singleton
<1>3. \E m \in S : \A n \in S : m >= n
  BY <1>2, GreatestNat
<1>4. PICK m : m = Max(S)
  OBVIOUS
<1>5. m \in Nat
  BY <1>2, <1>3, <1>4 DEF Max
<1>6. BelowHighest(gens) = 1 + m
  BY <1>1, <1>4 DEF BelowHighest
<1> QED
  BY <1>5, <1>6

\* One round: who has all the known parents settled is settled.
Settle(g, gen) ==
  [p \in DOMAIN g |-> IF \A q \in g[p] \cap DOMAIN g : gen[q] > 0
                      THEN BelowHighest({gen[q] : q \in g[p] \cap DOMAIN g})
                      ELSE 0]

LEMMA SettleNat ==
  ASSUME NEW g, IsFiniteSet(DOMAIN g), NEW gen \in [DOMAIN g -> Nat]
  PROVE  Settle(g, gen) \in [DOMAIN g -> Nat]
<1>1. ASSUME NEW p \in DOMAIN g PROVE BelowHighest({gen[q] : q \in g[p] \cap DOMAIN g}) \in Nat
  <2>1. IsFiniteSet(g[p] \cap DOMAIN g)
    BY FS_Subset
  <2>2. PICK gens : gens = {gen[q] : q \in g[p] \cap DOMAIN g}
    OBVIOUS
  <2>3. gens \in SUBSET Nat /\ IsFiniteSet(gens)
    BY <2>1, <2>2, ValuesFinite
  <2> QED
    BY <2>2, <2>3, BelowHighestPositive
<1> QED
  BY <1>1 DEF Settle

GenRounds(f, g) ==
  /\ f \in [0..Cardinality(DOMAIN g) -> [DOMAIN g -> Nat]]
  /\ f[0] = [p \in DOMAIN g |-> 0]
  /\ \A i \in 1..Cardinality(DOMAIN g) : f[i] = Settle(g, f[i - 1])

LEMMA GenerationsRounds ==
  ASSUME NEW g, IsFiniteSet(DOMAIN g)
  PROVE  \E f : /\ GenRounds(f, g)
                /\ Generations(g) = [p \in DOMAIN g |-> IF f[Cardinality(DOMAIN g)][p] = 0 THEN 1
                                                        ELSE f[Cardinality(DOMAIN g)][p]]
<1> DEFINE ids == DOMAIN g
           N == Cardinality(ids)
           Defines(f) == f = [n \in 0..N |-> IF n = 0 THEN [p \in ids |-> 0] ELSE Settle(g, f[n - 1])]
           step == [i \in 1..N |-> [gen \in [ids -> Nat] |-> Settle(g, gen)]]
<1>1. N \in Nat
  BY FS_CardinalityType
<1>2. [p \in ids |-> 0] \in [ids -> Nat] /\ step \in [1..N -> [[ids -> Nat] -> [ids -> Nat]]]
  BY SettleNat
<1>3. PICK h \in [0..N -> [ids -> Nat]] :
        h[0] = [p \in ids |-> 0] /\ \A i \in 1..N : h[i] = step[i][h[i - 1]]
  <2> HIDE DEF N, step
  <2>1. \E f : Iterates(f, [ids -> Nat], [p \in ids |-> 0], step, N)
    BY <1>1, <1>2, IterationExists
  <2> QED
    BY <2>1 DEF Iterates
<1>4. \A i \in 1..N : h[i] = Settle(g, h[i - 1])
  <2> TAKE i \in 1..N
  <2>1. h[i - 1] \in [ids -> Nat]
    BY <1>1
  <2> QED
    BY <1>3, <2>1
<1>5. Defines(h)
  BY <1>1, <1>3, <1>4
<1>6. PICK f : f = CHOOSE k : Defines(k)
  OBVIOUS
<1>7. Defines(f)
  BY <1>5, <1>6
<1>8. f[0] = [p \in ids |-> 0] /\ 0 \in 0..N /\ DOMAIN f = 0..N
  BY <1>1, <1>7
<1>9. \A i \in 1..N : f[i] = Settle(g, f[i - 1])
  <2> TAKE i \in 1..N
  <2>1. i \in 0..N /\ i # 0
    BY <1>1
  <2> QED
    BY <1>7, <2>1
(* The two are the same.                                                   *)
<1>10. \A i \in 0..N : f[i] = h[i]
  <2> DEFINE Off == {i \in 0..N : f[i] # h[i]}
  <2> SUFFICES ASSUME Off # {} PROVE FALSE
    OBVIOUS
  <2>1. PICK n \in Off : \A m \in Off : n <= m
    <3>1. Off \in SUBSET Nat
      BY <1>1
    <3> HIDE DEF Off
    <3> QED
      BY <3>1, LeastNat
  <2>2. n # 0
    BY <1>3, <1>8, <2>1
  <2>3. n - 1 \in 0..N /\ n - 1 \notin Off /\ n \in 1..N
    BY <1>1, <2>1, <2>2
  <2>4. f[n - 1] = h[n - 1]
    BY <2>3
  <2>5. f[n] = h[n]
    BY <1>4, <1>9, <2>3, <2>4
  <2> QED
    BY <2>1, <2>5
<1>11. f \in [0..N -> [ids -> Nat]]
  <2>1. \A i \in 0..N : f[i] \in [ids -> Nat]
    BY <1>10
  <2>2. f = [n \in 0..N |-> f[n]]
    BY <1>7
  <2> QED
    BY <2>1, <2>2
<1>12. Generations(g) = [p \in ids |-> IF f[N][p] = 0 THEN 1 ELSE f[N][p]]
  BY <1>6 DEF Generations, Settle
<1> QED
  BY <1>8, <1>9, <1>11, <1>12 DEF GenRounds

\* Somebody of any group has no parent in the group.
LEMMA EldestExists ==
  ASSUME NEW g, IsFiniteSet(DOMAIN g), Acyclic(g), NEW U \in SUBSET DOMAIN g, U # {}
  PROVE  \E p \in U : g[p] \cap U = {}
<1>1. PICK N, below : N = Cardinality(DOMAIN g) /\ below = [p \in U |-> Cardinality(Descendants(g, p))]
  OBVIOUS
<1>2. ASSUME NEW p \in U
      PROVE  IsFiniteSet(Descendants(g, p)) /\ below[p] \in Nat /\ below[p] <= N
  <2>1. Descendants(g, p) \in SUBSET DOMAIN g
    BY DescendantsClosed
  <2> QED
    BY <1>1, <2>1, FS_Subset, FS_CardinalityType
<1>3. PICK T : T = {N - below[p] : p \in U}
  OBVIOUS
<1>4. N \in Nat /\ T \in SUBSET Nat /\ T # {}
  <2>1. N \in Nat
    BY <1>1, FS_CardinalityType
  <2> QED
    BY <1>2, <1>3, <2>1
<1>5. PICK n \in T : \A m \in T : n <= m
  BY <1>4, LeastNat
<1>6. PICK p \in U : n = N - below[p]
  BY <1>3, <1>5
<1>7. ASSUME NEW q \in g[p] \cap U PROVE FALSE
  <2>1. p \in Descendants(g, q)
    BY DescendantsClosed DEF Children
  <2>2. Descendants(g, p) \subseteq Descendants(g, q)
    BY <2>1, DescendantsTransitive
  <2>3. p \notin Descendants(g, p)
    BY DEF Acyclic
  <2>4. Descendants(g, p) \in SUBSET Descendants(g, q) /\ Descendants(g, p) # Descendants(g, q)
    BY <2>1, <2>2, <2>3
  <2>5. below[p] <= below[q] /\ below[p] # below[q]
    BY <1>1, <1>2, <2>4, FS_Subset
  <2>6. N - below[q] \in T
    BY <1>3
  <2>7. N - below[p] <= N - below[q]
    BY <1>5, <1>6, <2>6
  <2> QED
    BY <1>2, <1>4, <2>5, <2>7
<1> QED
  BY <1>7

\* Who is settled keeps the generation.
LEMMA SettledStays ==
  ASSUME NEW g, IsFiniteSet(DOMAIN g), NEW f, GenRounds(f, g)
  PROVE  \A i \in 1..Cardinality(DOMAIN g) : \A p \in DOMAIN g :
           f[i - 1][p] > 0 => f[i][p] = f[i - 1][p]
<1> DEFINE N == Cardinality(DOMAIN g)
           Off == {i \in 1..N : \E p \in DOMAIN g : f[i - 1][p] > 0 /\ f[i][p] # f[i - 1][p]}
<1>1. N \in Nat
  BY FS_CardinalityType
<1> HIDE DEF N
<1> SUFFICES ASSUME Off # {} PROVE FALSE
  BY DEF N
<1>2. PICK n \in Off : \A m \in Off : n <= m
  <2>1. Off \in SUBSET Nat
    BY <1>1
  <2> HIDE DEF Off
  <2> QED
    BY <2>1, LeastNat
<1>3. PICK p \in DOMAIN g : f[n - 1][p] > 0 /\ f[n][p] # f[n - 1][p]
  BY <1>2
<1>4. n # 1
  <2>1. f[0][p] = 0
    BY DEF GenRounds
  <2> SUFFICES ASSUME n = 1 PROVE FALSE
    OBVIOUS
  <2>2. n - 1 = 0
    OBVIOUS
  <2> QED
    BY <1>3, <2>1, <2>2
<1>5. PICK k : k = n - 1
  OBVIOUS
<1>6. n \in 1..N /\ k \in 1..N /\ k - 1 \in 0..N /\ k \notin Off /\ k \in 0..N
  BY <1>1, <1>2, <1>4, <1>5
<1>7. f[n] = Settle(g, f[k]) /\ f[k] = Settle(g, f[k - 1])
  BY <1>5, <1>6 DEF GenRounds, N
<1>8. \A q \in DOMAIN g : f[k - 1][q] > 0 => f[k][q] = f[k - 1][q]
  BY <1>6
<1>9. f[k][p] > 0
  BY <1>3, <1>5
<1>10. \A q \in g[p] \cap DOMAIN g : f[k - 1][q] > 0
  <2> SUFFICES ASSUME ~(\A q \in g[p] \cap DOMAIN g : f[k - 1][q] > 0) PROVE FALSE
    OBVIOUS
  <2>1. f[k][p] = 0
    BY <1>7 DEF Settle
  <2> QED
    BY <1>9, <2>1
<1>11. \A q \in g[p] \cap DOMAIN g : f[k][q] = f[k - 1][q] /\ f[k][q] > 0
  BY <1>8, <1>10
<1>12. {f[k][q] : q \in g[p] \cap DOMAIN g} = {f[k - 1][q] : q \in g[p] \cap DOMAIN g}
  BY <1>11
<1>13. f[n][p] = BelowHighest({f[k][q] : q \in g[p] \cap DOMAIN g})
  BY <1>7, <1>11 DEF Settle
<1>14. f[k][p] = BelowHighest({f[k - 1][q] : q \in g[p] \cap DOMAIN g})
  BY <1>7, <1>10 DEF Settle
<1> QED
  BY <1>3, <1>5, <1>12, <1>13, <1>14

\* In a tree every round settles somebody, so that in the end all are.
LEMMA AllSettle ==
  ASSUME NEW g, IsFiniteSet(DOMAIN g), Acyclic(g), NEW f, GenRounds(f, g)
  PROVE  \A p \in DOMAIN g : f[Cardinality(DOMAIN g)][p] > 0
<1> DEFINE ids == DOMAIN g
           N == Cardinality(ids)
           D(i) == {p \in ids : f[i][p] > 0}
           Off == {i \in 0..N : D(i) # ids /\ ~(Cardinality(D(i)) >= i)}
<1>1. N \in Nat
  BY FS_CardinalityType
<1>2. \A i : IsFiniteSet(D(i)) /\ Cardinality(D(i)) \in Nat /\ Cardinality(D(i)) <= N
             /\ (Cardinality(D(i)) = N => D(i) = ids)
  <2> TAKE i
  <2>1. D(i) \in SUBSET ids
    OBVIOUS
  <2> QED
    BY <2>1, FS_Subset, FS_CardinalityType
<1>3. Off = {}
  <2> SUFFICES ASSUME Off # {} PROVE FALSE
    OBVIOUS
  <2>1. PICK n \in Off : \A m \in Off : n <= m
    <3>1. Off \in SUBSET Nat
      BY <1>1
    <3> HIDE DEF Off
    <3> QED
      BY <3>1, LeastNat
  <2>2. n # 0
    BY <1>2, <2>1
  <2>3. PICK k : k = n - 1
    OBVIOUS
  <2>4. n \in 1..N /\ k \in 0..N /\ k \notin Off /\ n \in Nat /\ k \in Nat
    BY <1>1, <2>1, <2>2, <2>3
  <2>5. D(k) \subseteq D(n)
    BY <2>3, <2>4, SettledStays
  <2>6. D(k) # ids /\ Cardinality(D(k)) >= k
    BY <2>1, <2>4, <2>5
  <2>7. PICK p \in ids \ D(k) : g[p] \cap (ids \ D(k)) = {}
    BY <2>6, EldestExists
  <2>8. f[n] = Settle(g, f[k]) /\ f[k] \in [ids -> Nat]
    BY <2>3, <2>4 DEF GenRounds
  <2>9. \A q \in g[p] \cap DOMAIN g : f[k][q] > 0
    BY <2>7
  <2>10. f[n][p] = BelowHighest({f[k][q] : q \in g[p] \cap DOMAIN g})
    BY <2>7, <2>8, <2>9 DEF Settle
  <2>11. PICK gens : gens = {f[k][q] : q \in g[p] \cap DOMAIN g}
    OBVIOUS
  <2>12. IsFiniteSet(g[p] \cap DOMAIN g)
    BY FS_Subset
  <2>13. gens \in SUBSET Nat /\ IsFiniteSet(gens)
    BY <2>8, <2>11, <2>12, ValuesFinite
  <2>14. f[n][p] > 0
    BY <2>10, <2>11, <2>13, BelowHighestPositive
  <2>15. D(k) \in SUBSET D(n) /\ D(k) # D(n)
    BY <2>5, <2>7, <2>14
  <2>16. Cardinality(D(k)) <= Cardinality(D(n)) /\ Cardinality(D(k)) # Cardinality(D(n))
    BY <1>2, <2>15, FS_Subset
  <2>17. Cardinality(D(n)) >= n
    <3>1. PICK a, b : a = Cardinality(D(k)) /\ b = Cardinality(D(n))
      OBVIOUS
    <3>2. a \in Nat /\ b \in Nat
      BY <1>2, <3>1
    <3>3. a >= k /\ a <= b /\ a # b /\ n = k + 1
      BY <2>3, <2>4, <2>6, <2>16, <3>1
    <3>4. b >= n
      BY <2>4, <3>2, <3>3
    <3> QED
      BY <3>1, <3>4
  <2> QED
    BY <2>1, <2>17
<1>4. N \in 0..N
  BY <1>1
<1>5. D(N) = ids
  <2>1. PICK a : a = Cardinality(D(N))
    OBVIOUS
  <2>2. D(N) = ids \/ a >= N
    BY <1>3, <1>4, <2>1
  <2>3. a \in Nat /\ a <= N /\ (a = N => D(N) = ids)
    BY <1>2, <2>1
  <2> QED
    BY <1>1, <2>2, <2>3
<1> QED
  BY <1>5

(* The generation of a person in a tree: one more than the highest of the  *)
(* known parents, 1 without any.                                           *)
LEMMA GenerationOf ==
  ASSUME NEW g, IsFiniteSet(DOMAIN g), Acyclic(g)
  PROVE  /\ Generations(g) \in [DOMAIN g -> Nat]
         /\ \A p \in DOMAIN g :
              Generations(g)[p] = BelowHighest({Generations(g)[q] : q \in g[p] \cap DOMAIN g})
<1> DEFINE N == Cardinality(DOMAIN g)
<1>1. PICK f : /\ GenRounds(f, g)
               /\ Generations(g) = [p \in DOMAIN g |-> IF f[N][p] = 0 THEN 1 ELSE f[N][p]]
  BY GenerationsRounds
<1>2. \A p \in DOMAIN g : f[N][p] > 0
  BY <1>1, AllSettle
<1>3. N \in Nat
  BY FS_CardinalityType
<1>4. N \in 0..N
  BY <1>3
<1>5. f[N] \in [DOMAIN g -> Nat]
  BY <1>1, <1>4 DEF GenRounds
<1>6. Generations(g) \in [DOMAIN g -> Nat] /\ \A p \in DOMAIN g : Generations(g)[p] = f[N][p]
  BY <1>1, <1>2, <1>5
<1>7. ASSUME NEW p \in DOMAIN g
      PROVE  Generations(g)[p] = BelowHighest({Generations(g)[q] : q \in g[p] \cap DOMAIN g})
  <2>1. N # 0
    BY FS_EmptySet
  <2>2. N \in 1..N
    BY <1>3, <2>1
  <2>3. f[N] = Settle(g, f[N - 1])
    BY <1>1, <2>2 DEF GenRounds
  <2>4. \A q \in g[p] \cap DOMAIN g : f[N - 1][q] > 0
    <3> SUFFICES ASSUME ~(\A q \in g[p] \cap DOMAIN g : f[N - 1][q] > 0) PROVE FALSE
      OBVIOUS
    <3>1. f[N][p] = 0
      BY <2>3 DEF Settle
    <3> QED
      BY <1>2, <3>1
  <2>5. \A q \in g[p] \cap DOMAIN g : f[N][q] = f[N - 1][q]
    BY <1>1, <2>2, <2>4, SettledStays
  <2>6. f[N][p] = BelowHighest({f[N - 1][q] : q \in g[p] \cap DOMAIN g})
    BY <2>3, <2>4 DEF Settle
  <2>7. {f[N - 1][q] : q \in g[p] \cap DOMAIN g} = {Generations(g)[q] : q \in g[p] \cap DOMAIN g}
    BY <1>6, <2>5
  <2> QED
    BY <1>6, <2>6, <2>7
<1> QED
  BY <1>6, <1>7

(* Two trees that agree on a group and on all of its ancestors agree on    *)
(* its generations.                                                        *)
LEMMA GenerationsAgree ==
  ASSUME NEW g, NEW h, IsFiniteSet(DOMAIN g), IsFiniteSet(DOMAIN h), Acyclic(g), Acyclic(h),
         NEW S, S \subseteq DOMAIN g, S \subseteq DOMAIN h,
         \A p \in S : /\ g[p] \cap DOMAIN g = h[p] \cap DOMAIN h
                      /\ g[p] \cap DOMAIN g \subseteq S
  PROVE  \A p \in S : Generations(g)[p] = Generations(h)[p]
<1> DEFINE Off == {p \in S : Generations(g)[p] # Generations(h)[p]}
<1> SUFFICES ASSUME Off # {} PROVE FALSE
  OBVIOUS
<1>1. PICK p \in Off : g[p] \cap Off = {}
  BY EldestExists
<1>2. \A q \in g[p] \cap DOMAIN g : Generations(g)[q] = Generations(h)[q]
  BY <1>1
<1>3. {Generations(g)[q] : q \in g[p] \cap DOMAIN g} = {Generations(h)[q] : q \in h[p] \cap DOMAIN h}
  BY <1>1, <1>2
<1>4. /\ Generations(g)[p] = BelowHighest({Generations(g)[q] : q \in g[p] \cap DOMAIN g})
      /\ Generations(h)[p] = BelowHighest({Generations(h)[q] : q \in h[p] \cap DOMAIN h})
  BY <1>1, GenerationOf
<1> QED
  BY <1>1, <1>3, <1>4
===============================================================================
