-------------------------- MODULE DestinationProofs --------------------------
(***************************************************************************)
(* The recursive query of resolve_task_destination finds the nearest head, *)
(* in any table of departments.                                            *)
(*                                                                         *)
(* What a depth holds is proved along the depths: a fact that failed at    *)
(* one would fail at a least one, which the depth before it forbids.       *)
(***************************************************************************)
EXTENDS Destination, FiniteSetTheorems, TLAPS

(* Every set of numbers that is not empty has a least one. *)
LEMMA LeastNumber ==
    ASSUME NEW T \in SUBSET Nat, T # {}
    PROVE  \E n \in T : \A m \in T : n <= m
  <1> DEFINE R == OpToRel(<, Nat)
  <1>1. \A m, n \in Nat : m < n => <<m, n>> \in R
    BY DEF OpToRel
  <1>2. IsWellFoundedOn(R, Nat)
    BY NatLessThanWellFounded
  <1> HIDE DEF R
  <1>3. PICK n \in T : \A m \in T : <<m, n>> \notin R
    BY <1>2, WFMin
  <1>4. ASSUME NEW m \in T PROVE n <= m
    <2>1. m \in Nat /\ n \in Nat /\ ~(m < n)
      BY <1>1, <1>3
    <2> QED
      BY <2>1
  <1> QED
    BY <1>4

-----------------------------------------------------------------------------
(* The depths of the query *)

Start(table, origin) == {d \in {origin} : Active(table, d)}
Parents(table, S)    == {d \in Departments : /\ Active(table, d)
                                             /\ \E c \in S : table[c].parent = d}

(* The departments of the depths up to m *)
ClimbsTo(table, origin, m, g) ==
    /\ g \in [0 .. m -> SUBSET Departments]
    /\ g[0] = Start(table, origin)
    /\ \A n \in 1 .. m : g[n] = Parents(table, g[n - 1])

(* They exist for every m: the recursion of the query is well-founded. *)
LEMMA ClimbExists ==
    ASSUME NEW table, NEW origin \in Departments, NEW m \in Nat
    PROVE  \E g : ClimbsTo(table, origin, m, g)
  <1> DEFINE Short == {k \in Nat : ~\E g : ClimbsTo(table, origin, k, g)}
  <1>1. 0 \notin Short
    <2> DEFINE g == [n \in 0 .. 0 |-> Start(table, origin)]
    <2>1. Start(table, origin) \in SUBSET Departments
      BY DEF Start
    <2>2. ClimbsTo(table, origin, 0, g)
      BY <2>1 DEF ClimbsTo
    <2> QED
      BY <2>2
  <1>2. ASSUME NEW k \in Nat, k \notin Short PROVE k + 1 \notin Short
    <2>1. PICK h : ClimbsTo(table, origin, k, h)
      BY <1>2
    <2> DEFINE g == [n \in 0 .. k + 1 |-> IF n \in 0 .. k THEN h[n] ELSE Parents(table, h[k])]
    <2>2. g \in [0 .. k + 1 -> SUBSET Departments]
      BY <2>1 DEF ClimbsTo, Parents
    <2>3. g[0] = Start(table, origin)
      BY <2>1 DEF ClimbsTo
    <2>4. ASSUME NEW n \in 1 .. k + 1 PROVE g[n] = Parents(table, g[n - 1])
      <3>1. CASE n \in 1 .. k
        BY <2>1, <3>1 DEF ClimbsTo
      <3>2. CASE n = k + 1
        BY <3>2
      <3> QED
        BY <3>1, <3>2
    <2> HIDE DEF g
    <2>5. ClimbsTo(table, origin, k + 1, g)
      BY <2>2, <2>3, <2>4 DEF ClimbsTo
    <2> QED
      BY <2>5
  <1>3. CASE Short = {}
    BY <1>3
  <1>4. CASE Short # {}
    <2>1. PICK k \in Short : \A j \in Short : k <= j
      BY <1>4, LeastNumber
    <2>2. k \in Nat \ {0} /\ k - 1 \in Nat /\ k - 1 \notin Short
      BY <1>1, <2>1
    <2> HIDE DEF Short
    <2>3. (k - 1) + 1 \notin Short
      BY <1>2, <2>2
    <2> QED
      BY <2>1, <2>2, <2>3
  <1> QED
    BY <1>3, <1>4

(* The recursive function of the query is such a climb. *)
LEMMA ChainClimbs ==
    ASSUME NEW table, NEW origin \in Departments
    PROVE  ClimbsTo(table, origin, MaxDepth, Chain(table, origin))
  <1> DEFINE Body(level) ==
          [n \in 0 .. MaxDepth |->
              IF n = 0
              THEN {d \in {origin} : Active(table, d)}
              ELSE {d \in Departments : /\ Active(table, d)
                                        /\ \E c \in level[n - 1] : table[c].parent = d}]
  <1>1. MaxDepth \in Nat
    BY DestinationAssumption
  <1>2. PICK g : ClimbsTo(table, origin, MaxDepth, g)
    BY <1>1, ClimbExists
  <1>3. g = Body(g)
    <2>1. \A n \in 0 .. MaxDepth :
              g[n] = IF n = 0 THEN {d \in {origin} : Active(table, d)}
                     ELSE {d \in Departments : /\ Active(table, d)
                                               /\ \E c \in g[n - 1] : table[c].parent = d}
      BY <1>1, <1>2 DEF ClimbsTo, Start, Parents
    <2> QED
      BY <1>2, <2>1 DEF ClimbsTo
  <1>4. Chain(table, origin) = CHOOSE level : level = Body(level)
    BY DEF Chain
  <1> HIDE DEF Body
  <1>5. Chain(table, origin) = Body(Chain(table, origin))
    BY <1>3, <1>4, Zenon
  <1> DEFINE L == Chain(table, origin)
  <1>6. L = Body(L)
    BY <1>5
  <1> HIDE DEF L
  <1>7. /\ L[0] = Start(table, origin)
        /\ \A n \in 1 .. MaxDepth : L[n] = Parents(table, L[n - 1])
    BY <1>1, <1>6 DEF Body, Start, Parents
  <1>8. L \in [0 .. MaxDepth -> SUBSET Departments]
    BY <1>6 DEF Body
  <1>9. ClimbsTo(table, origin, MaxDepth, L)
    BY <1>7, <1>8 DEF ClimbsTo
  <1> QED
    BY <1>9 DEF L

(* What holds at the origin, and at each depth if at the one before, holds up to
   any depth.                                                                *)
LEMMA UpToDepth ==
    ASSUME NEW m \in Nat, NEW T, 0 \in T, \A n \in 1 .. m : n - 1 \in T => n \in T
    PROVE  0 .. m \subseteq T
  <1> SUFFICES ASSUME (0 .. m) \ T # {} PROVE FALSE
    OBVIOUS
  <1>0. (0 .. m) \ T \in SUBSET Nat
    OBVIOUS
  <1>1. PICK k \in (0 .. m) \ T : \A j \in (0 .. m) \ T : k <= j
    BY <1>0, LeastNumber
  <1>2. k \in 1 .. m
    BY <1>1
  <1>3. k - 1 \in 0 .. m /\ k - 1 < k
    BY <1>2
  <1>4. k - 1 \in T
    BY <1>1, <1>2, <1>3
  <1> QED
    BY <1>1, <1>2, <1>4

AtMostOne(S) == \A d, e \in S : d = e

(* A department has one parent, so a depth holds one department at most. *)
LEMMA OnePerDepth ==
    ASSUME NEW table, NEW origin \in Departments, NEW m \in Nat, NEW g,
           ClimbsTo(table, origin, m, g), NEW n \in 0 .. m
    PROVE  AtMostOne(g[n])
  <1> DEFINE T == {k \in 0 .. m : AtMostOne(g[k])}
  <1>1. 0 \in T
    BY DEF ClimbsTo, Start, AtMostOne
  <1>2. ASSUME NEW k \in 1 .. m, k - 1 \in T PROVE k \in T
    <2>1. g[k] = Parents(table, g[k - 1])
      BY DEF ClimbsTo
    <2>2. AtMostOne(g[k - 1])
      BY <1>2
    <2> QED
      BY <2>1, <2>2 DEF Parents, AtMostOne
  <1> HIDE DEF T
  <1>3. 0 .. m \subseteq T
    BY <1>1, <1>2, UpToDepth
  <1> QED
    BY <1>3 DEF T

-----------------------------------------------------------------------------
(* The way up *)

(* The sets that Passed is the least of *)
ClosedUp(table, origin, S) ==
    /\ origin \in S
    /\ \A d \in S : table[d].head = Null =>
          \A p \in Departments : table[d].parent = p /\ Active(table, p) => p \in S

LEMMA PassedIsLeast ==
    ASSUME NEW table, NEW origin
    PROVE  Passed(table, origin) =
              {d \in Departments :
                  \A S \in SUBSET Departments : ClosedUp(table, origin, S) => d \in S}
  BY DEF Passed, ClosedUp

Headless(table, S) == \A d \in S : table[d].head = Null

(* The depths below the first head, and that of the head, are on the way up. *)
LEMMA DepthsArePassed ==
    ASSUME NEW table, NEW origin \in Departments, NEW m \in Nat, NEW g,
           ClimbsTo(table, origin, m, g), NEW n \in 0 .. m,
           \A k \in 0 .. n - 1 : Headless(table, g[k])
    PROVE  g[n] \subseteq Passed(table, origin)
  <1> SUFFICES ASSUME NEW S \in SUBSET Departments, ClosedUp(table, origin, S)
               PROVE  g[n] \subseteq S
    <2>1. g[n] \subseteq Departments
      BY DEF ClimbsTo
    <2> QED
      BY <2>1, PassedIsLeast
  <1> DEFINE T == {k \in 0 .. n : g[k] \subseteq S}
  <1>1. 0 \in T
    BY DEF ClimbsTo, Start, ClosedUp
  <1>2. ASSUME NEW k \in 1 .. n, k - 1 \in T PROVE k \in T
    <2>1. k \in 1 .. m /\ k - 1 \in 0 .. n - 1
      OBVIOUS
    <2>2. g[k] = Parents(table, g[k - 1]) /\ Headless(table, g[k - 1])
      BY <2>1 DEF ClimbsTo
    <2>3. g[k - 1] \subseteq S
      BY <1>2
    <2> QED
      BY <2>2, <2>3 DEF Parents, Headless, ClosedUp
  <1> HIDE DEF T
  <1>3. n \in Nat
    OBVIOUS
  <1>4. 0 .. n \subseteq T
    BY <1>1, <1>2, <1>3, UpToDepth
  <1> QED
    BY <1>3, <1>4 DEF T

(* When nothing new comes at a depth, or the depth has a head, the way up is
   within the depths before it, and the one of the head.                     *)
LEMMA PassedWithin ==
    ASSUME NEW table, NEW origin \in Departments, Active(table, origin),
           NEW m \in Nat, NEW g, ClimbsTo(table, origin, m, g), NEW n \in 0 .. m,
           \/ ~Headless(table, g[n])
           \/ n < m /\ g[n + 1] \subseteq UNION {g[k] : k \in 0 .. n}
    PROVE  Passed(table, origin) \subseteq UNION {g[k] : k \in 0 .. n}
  <1> DEFINE P == UNION {g[k] : k \in 0 .. n}
  <1>1. \A k \in 0 .. n : g[k] \subseteq Departments
    BY DEF ClimbsTo
  <1>2. P \subseteq Departments
    BY <1>1
  <1>3. origin \in P
    BY DEF ClimbsTo, Start
  <1>4. ASSUME NEW d \in P, table[d].head = Null,
               NEW p \in Departments, table[d].parent = p, Active(table, p)
        PROVE  p \in P
    <2>1. PICK k \in 0 .. n : d \in g[k]
      OBVIOUS
    <2>2. CASE k < n
      <3>1. k + 1 \in 1 .. m /\ k + 1 \in 0 .. n /\ (k + 1) - 1 = k
        BY <2>2
      <3>2. g[k + 1] = Parents(table, g[k])
        BY <3>1 DEF ClimbsTo
      <3>3. p \in g[k + 1]
        BY <1>4, <2>1, <3>2 DEF Parents
      <3> QED
        BY <3>1, <3>3
    <2>3. CASE k = n
      <3>1. Headless(table, g[n])
        <4>1. AtMostOne(g[n])
          BY OnePerDepth
        <4> QED
          BY <1>4, <2>1, <2>3, <4>1 DEF Headless, AtMostOne
      <3>2. n + 1 \in 1 .. m /\ (n + 1) - 1 = n
        BY <3>1
      <3>3. g[n + 1] = Parents(table, g[n])
        BY <3>2 DEF ClimbsTo
      <3>4. p \in g[n + 1]
        BY <1>4, <2>1, <2>3, <3>3 DEF Parents
      <3> QED
        BY <3>1, <3>4
    <2> QED
      BY <2>2, <2>3
  <1>5. ClosedUp(table, origin, P)
    BY <1>3, <1>4 DEF ClosedUp
  <1> HIDE DEF P
  <1>6. Passed(table, origin) \subseteq P
    BY <1>2, <1>5, PassedIsLeast
  <1> QED
    BY <1>6 DEF P

-----------------------------------------------------------------------------
(* The query and the way up *)

(* LIMIT 1 takes the one department of the first depth with a head. *)
LEMMA ResponsibleOfFirst ==
    ASSUME NEW table, NEW origin \in Departments,
           NEW n \in 0 .. MaxDepth, NEW d \in Chain(table, origin)[n],
           table[d].head # Null,
           \A k \in 0 .. n - 1 : Headless(table, Chain(table, origin)[k])
    PROVE  Responsible(table, origin) = table[d].head
  <1> DEFINE chain == Chain(table, origin)
             First(e) == \E i \in 0 .. MaxDepth :
                            /\ e \in chain[i] /\ table[e].head # Null
                            /\ \A j \in 0 .. i - 1 : \A c \in chain[j] : table[c].head = Null
  <1>0. MaxDepth \in Nat /\ ClimbsTo(table, origin, MaxDepth, chain)
    BY ChainClimbs, DestinationAssumption
  <1>1. d \in Departments
    BY <1>0 DEF ClimbsTo
  <1>2. First(d)
    BY DEF Headless
  <1>3. ASSUME NEW e \in Departments, First(e) PROVE e = d
    <2>1. PICK i \in 0 .. MaxDepth :
              /\ e \in chain[i] /\ table[e].head # Null
              /\ \A j \in 0 .. i - 1 : \A c \in chain[j] : table[c].head = Null
      BY <1>3
    <2> HIDE DEF chain, First
    <2>2. ~(i < n)
      <3> SUFFICES ASSUME i < n PROVE FALSE
        OBVIOUS
      <3>1. i \in 0 .. n - 1
        OBVIOUS
      <3> QED
        BY <2>1, <3>1 DEF Headless, chain
    <2>3. ~(n < i)
      <3> SUFFICES ASSUME n < i PROVE FALSE
        OBVIOUS
      <3>1. n \in 0 .. i - 1
        OBVIOUS
      <3> QED
        BY <2>1, <3>1 DEF chain
    <2>4. i = n
      BY <1>0, <2>2, <2>3
    <2> QED
      <3>1. AtMostOne(chain[n])
        BY <1>0, OnePerDepth
      <3>2. d \in chain[n]
        BY DEF chain
      <3> QED
        BY <2>1, <2>4, <3>1, <3>2 DEF AtMostOne
  <1>4. Responsible(table, origin) =
            IF \E e \in Departments : First(e)
            THEN table[CHOOSE e \in Departments : First(e)].head
            ELSE Null
    BY DEF Responsible
  <1> HIDE DEF First
  <1>5. (CHOOSE e \in Departments : First(e)) = d
    BY <1>1, <1>2, <1>3
  <1> QED
    BY <1>1, <1>2, <1>4, <1>5

(* Without a head in any depth it finds nobody. *)
LEMMA ResponsibleOfNone ==
    ASSUME NEW table, NEW origin \in Departments,
           \A n \in 0 .. MaxDepth : Headless(table, Chain(table, origin)[n])
    PROVE  Responsible(table, origin) = Null
  BY DEF Responsible, Headless

(* Of the way up that the query reaches the end of, it finds the head. *)
LEMMA HeadWithinDepth ==
    ASSUME NEW table, NEW origin \in Departments, Active(table, origin),
           NEW n \in 0 .. MaxDepth, ~Headless(table, Chain(table, origin)[n])
    PROVE  Responsible(table, origin) = NearestHead(table, origin)
  <1> DEFINE g == Chain(table, origin)
             T == {k \in 0 .. MaxDepth : ~Headless(table, g[k])}
  <1>0. MaxDepth \in Nat /\ ClimbsTo(table, origin, MaxDepth, g)
    BY ChainClimbs, DestinationAssumption
  <1>1. T \in SUBSET Nat /\ T # {}
    OBVIOUS
  <1>2. PICK m \in T : \A k \in T : m <= k
    BY <1>1, LeastNumber
  <1>3. m \in 0 .. MaxDepth /\ ~Headless(table, g[m])
    BY <1>2
  <1>4. \A k \in 0 .. m - 1 : Headless(table, g[k])
    <2> SUFFICES ASSUME NEW k \in 0 .. m - 1, ~Headless(table, g[k]) PROVE FALSE
      OBVIOUS
    <2>1. k \in T /\ k < m
      BY <1>0, <1>3
    <2> QED
      BY <1>0, <1>2, <1>3, <2>1
  <1>5. PICK d \in g[m] : table[d].head # Null
    BY <1>3 DEF Headless
  <1>6. Responsible(table, origin) = table[d].head
    BY <1>3, <1>4, <1>5, ResponsibleOfFirst
  <1> HIDE DEF g, T
  <1>7. g[m] \subseteq Passed(table, origin)
    BY <1>0, <1>3, <1>4, DepthsArePassed
  <1>8. Passed(table, origin) \subseteq UNION {g[k] : k \in 0 .. m}
    BY <1>0, <1>3, PassedWithin
  <1>9. \A e \in Passed(table, origin) : table[e].head # Null => e = d
    <2> SUFFICES ASSUME NEW e \in Passed(table, origin), table[e].head # Null PROVE e = d
      OBVIOUS
    <2>1. PICK k \in 0 .. m : e \in g[k]
      BY <1>8
    <2>2. k = m
      BY <1>0, <1>3, <1>4, <2>1 DEF Headless
    <2> QED
      <3>1. AtMostOne(g[m])
        BY <1>0, <1>3, OnePerDepth
      <3> QED
        BY <1>5, <2>1, <2>2, <3>1 DEF AtMostOne
  <1>10. {e \in Passed(table, origin) : table[e].head # Null} = {d}
    BY <1>5, <1>7, <1>9
  <1> QED
    BY <1>6, <1>10 DEF NearestHead

(* A way up that goes on to a new department at every depth passes more
   departments than there are depths, or ends with the last of them.         *)
LEMMA NewAtEveryDepth ==
    ASSUME NEW table, NEW origin \in Departments, Active(table, origin),
           NEW m \in Nat, NEW g, ClimbsTo(table, origin, m, g),
           \A n \in 0 .. m : Headless(table, g[n]),
           \A n \in 0 .. m : n < m => ~(g[n + 1] \subseteq UNION {g[k] : k \in 0 .. n}),
           IsFiniteSet(Departments), Cardinality(Passed(table, origin)) <= m + 1
    PROVE  Headless(table, Passed(table, origin))
  <1> DEFINE P == Passed(table, origin)
             f == [n \in 0 .. m |-> CHOOSE d : d \in g[n]]
  <1>1. ASSUME NEW n \in 0 .. m PROVE g[n] \subseteq P
    BY <1>1, DepthsArePassed
  <1>2. ASSUME NEW n \in 0 .. m PROVE f[n] \in g[n]
    <2>1. g[n] # {}
      <3>1. CASE n = 0
        BY <3>1 DEF ClimbsTo, Start
      <3>2. CASE n # 0
        <4>1. n - 1 \in 0 .. m /\ n - 1 < m /\ (n - 1) + 1 = n
          BY <3>2
        <4> QED
          BY <4>1
      <3> QED
        BY <3>1, <3>2
    <2> QED
      BY <2>1
  <1>3. ASSUME NEW i \in 0 .. m, NEW j \in 0 .. m, i < j PROVE f[i] # f[j]
    <2>1. j - 1 \in 0 .. m /\ j - 1 < m /\ (j - 1) + 1 = j /\ i \in 0 .. j - 1
      BY <1>3
    <2>2. ~(g[j] \subseteq UNION {g[k] : k \in 0 .. j - 1})
      BY <2>1
    <2>3. AtMostOne(g[j])
      BY OnePerDepth
    <2>4. f[i] \in g[i] /\ f[j] \in g[j]
      BY <1>2
    <2> HIDE DEF f
    <2>5. f[j] \notin UNION {g[k] : k \in 0 .. j - 1}
      BY <2>2, <2>3, <2>4 DEF AtMostOne
    <2> QED
      BY <2>1, <2>4, <2>5
  <1>4. f \in Injection(0 .. m, P)
    <2>1. f \in [0 .. m -> P]
      BY <1>1, <1>2
    <2>2. ASSUME NEW i \in 0 .. m, NEW j \in 0 .. m, f[i] = f[j] PROVE i = j
      <3>1. ~(i < j) /\ ~(j < i)
        BY <1>3, <2>2
      <3> QED
        BY <3>1
    <2> HIDE DEF f
    <2> QED
      BY <2>1, <2>2 DEF Injection, IsInjective
  <1>5. IsFiniteSet(P) /\ Cardinality(P) \in Nat
    BY PassedIsLeast, FS_Subset, FS_CardinalityType
  <1>6. IsFiniteSet(0 .. m) /\ Cardinality(0 .. m) = m + 1
    BY FS_Interval
  <1> HIDE DEF f
  <1>7. f \in Surjection(0 .. m, P)
    BY <1>4, <1>5, <1>6, FS_Injection DEF P
  <1>8. ASSUME NEW d \in P PROVE table[d].head = Null
    <2>1. PICK n \in 0 .. m : f[n] = d
      BY <1>7 DEF Surjection
    <2> QED
      BY <1>2, <2>1 DEF Headless
  <1> QED
    BY <1>8 DEF Headless, P

(* The query finds the nearest head when the way up is not longer than the depths
   that it climbs.                                                           *)
THEOREM FindsNearest ==
    ASSUME NEW table, NEW origin \in Departments, Active(table, origin),
           IsFiniteSet(Departments),
           Cardinality(Passed(table, origin)) <= MaxDepth + 1
    PROVE  Responsible(table, origin) = NearestHead(table, origin)
  <1> DEFINE g == Chain(table, origin)
  <1>0. MaxDepth \in Nat /\ ClimbsTo(table, origin, MaxDepth, g)
    BY ChainClimbs, DestinationAssumption
  <1>1. CASE \E n \in 0 .. MaxDepth : ~Headless(table, g[n])
    BY <1>1, HeadWithinDepth
  <1>2. CASE \A n \in 0 .. MaxDepth : Headless(table, g[n])
    <2>1. Responsible(table, origin) = Null
      BY <1>2, ResponsibleOfNone
    <2> HIDE DEF g
    <2>2. Headless(table, Passed(table, origin))
      <3>1. CASE \E n \in 0 .. MaxDepth :
                    n < MaxDepth /\ g[n + 1] \subseteq UNION {g[k] : k \in 0 .. n}
        <4>1. PICK n \in 0 .. MaxDepth :
                    n < MaxDepth /\ g[n + 1] \subseteq UNION {g[k] : k \in 0 .. n}
          BY <3>1
        <4>2. Passed(table, origin) \subseteq UNION {g[k] : k \in 0 .. n}
          BY <1>0, <4>1, PassedWithin
        <4>3. \A k \in 0 .. n : Headless(table, g[k])
          BY <1>0, <1>2
        <4> QED
          BY <4>2, <4>3 DEF Headless
      <3>2. CASE ~\E n \in 0 .. MaxDepth :
                    n < MaxDepth /\ g[n + 1] \subseteq UNION {g[k] : k \in 0 .. n}
        BY <1>0, <1>2, <3>2, NewAtEveryDepth
      <3> QED
        BY <3>1, <3>2
    <2>3. {d \in Passed(table, origin) : table[d].head # Null} = {}
      BY <2>2 DEF Headless
    <2> QED
      BY <2>1, <2>3 DEF NearestHead
  <1> QED
    BY <1>1, <1>2

(* From an inactive department the query climbs nowhere. *)
LEMMA InactiveFindsNone ==
    ASSUME NEW table, NEW origin \in Departments, ~Active(table, origin)
    PROVE  Responsible(table, origin) = Null
  <1> DEFINE g == Chain(table, origin)
             T == {n \in 0 .. MaxDepth : g[n] = {}}
  <1>0. MaxDepth \in Nat /\ ClimbsTo(table, origin, MaxDepth, g)
    BY ChainClimbs, DestinationAssumption
  <1> HIDE DEF g
  <1>1. 0 \in T
    BY <1>0 DEF ClimbsTo, Start
  <1>2. ASSUME NEW n \in 1 .. MaxDepth, n - 1 \in T PROVE n \in T
    BY <1>0, <1>2 DEF ClimbsTo, Parents
  <1> HIDE DEF T
  <1>3. 0 .. MaxDepth \subseteq T
    BY <1>0, <1>1, <1>2, UpToDepth
  <1>4. \A n \in 0 .. MaxDepth : Headless(table, g[n])
    BY <1>3 DEF T, Headless
  <1> QED
    BY <1>4, ResponsibleOfNone DEF g

(* Whom the query finds is the nearest head, however long the way up is. *)
THEOREM FoundIsNearest ==
    ASSUME NEW table, NEW origin \in Departments, Responsible(table, origin) # Null
    PROVE  /\ Active(table, origin)
           /\ Responsible(table, origin) = NearestHead(table, origin)
  <1>1. Active(table, origin)
    BY InactiveFindsNone
  <1>2. PICK n \in 0 .. MaxDepth : ~Headless(table, Chain(table, origin)[n])
    BY ResponsibleOfNone
  <1> QED
    BY <1>1, <1>2, HeadWithinDepth
=============================================================================
