-------------------------- MODULE Schedules_proofs --------------------------
(***************************************************************************)
(* Theorems about Schedules, for every set of schedules and sessions, every*)
(* budget, lifetime and retention.                                         *)
(***************************************************************************)
EXTENDS Schedules, SequenceTheorems, FiniteSetTheorems, WellFoundedInduction, TLAPS

(* Induction on numbers, for a property given as the set that has it.       *)


\* A set of numbers that is not empty has a least one.
LEMMA LeastNumber ==
  ASSUME NEW T \in SUBSET Nat, T # {}
  PROVE  \E n \in T : \A m \in T : n <= m
<1>1. PICK R : IsWellFoundedOn(R, Nat) /\ \A x, y \in Nat : <<x, y>> \in R <=> x < y
  <2> DEFINE R == OpToRel(<, Nat)
  <2>1. IsWellFoundedOn(R, Nat)
    BY NatLessThanWellFounded, Zenon
  <2>2. \A x, y \in Nat : <<x, y>> \in R <=> x < y
    BY Zenon DEF OpToRel
  <2> HIDE DEF R
  <2> QED BY <2>1, <2>2
<1>2. IsWellFoundedOn(R, Nat) /\ T \subseteq Nat
  BY <1>1
<1>3. \E n \in T : \A m \in T : ~(<<m, n>> \in R)
  BY <1>2, WFMin, Zenon
<1>4. PICK n \in T : \A m \in T : ~(<<m, n>> \in R)
  BY <1>3
<1>5. \A m \in T : n \in Nat /\ m \in Nat /\ ~(m < n)
  BY <1>1, <1>4
<1> QED BY <1>4, <1>5

\* A set of numbers that has 0, and n + 1 whenever it has n, has them all.
LEMMA EveryNumber ==
  ASSUME NEW B, 0 \in B, \A n \in Nat : n \in B => n + 1 \in B
  PROVE  \A n \in Nat : n \in B
<1> SUFFICES ASSUME NEW k \in Nat, k \notin B
             PROVE  FALSE
  OBVIOUS
<1> DEFINE T == {n \in Nat : n \notin B}
<1>1. T \in SUBSET Nat /\ T # {}
  OBVIOUS
<1>2. PICK n \in T : \A m \in T : n <= m
  <2> HIDE DEF T
  <2> QED BY <1>1, LeastNumber
<1>3. n \in Nat /\ n \notin B /\ n # 0
  BY <1>2
<1>4. n - 1 \in Nat /\ n - 1 + 1 = n /\ ~(n <= n - 1)
  BY <1>3
<1>5. n - 1 \in B
  BY <1>2, <1>4
<1> QED BY <1>3, <1>4, <1>5

(* The sum of a function on a finite set.  SumFunction is recursive: that    *)
(* its recursion has a solution, and that the order in which it takes the   *)
(* elements does not matter, is shown by induction on the size of the set.  *)

Rec(f, g, s) == IF s = {} THEN 0 ELSE LET x == CHOOSE x \in s : TRUE IN f[x] + g[s \ {x}]
Solves(g, f, S) == g \in [SUBSET S -> Nat] /\ \A s \in SUBSET S : g[s] = Rec(f, g, s)
InAnyOrder(g, f, S) == \A s \in SUBSET S : \A x \in s : g[s] = f[x] + g[s \ {x}]

LEMMA SmallerSet ==
  ASSUME NEW S, IsFiniteSet(S), NEW s \in SUBSET S, s # {}
  PROVE  /\ (CHOOSE x \in s : TRUE) \in s
         /\ \A x \in s : /\ s \ {x} \in SUBSET S
                         /\ Cardinality(s \ {x}) \in Nat
                         /\ Cardinality(s) = Cardinality(s \ {x}) + 1
<1>1. (CHOOSE x \in s : TRUE) \in s
  OBVIOUS
<1>2. IsFiniteSet(s) /\ Cardinality(s) \in Nat
  BY FS_Subset, FS_CardinalityType
<1>3. ASSUME NEW x \in s
      PROVE  /\ s \ {x} \in SUBSET S
             /\ Cardinality(s \ {x}) \in Nat
             /\ Cardinality(s) = Cardinality(s \ {x}) + 1
  <2>1. IsFiniteSet(s \ {x}) /\ Cardinality(s \ {x}) = Cardinality(s) - 1
    BY <1>2, FS_RemoveElement
  <2>2. Cardinality(s \ {x}) \in Nat
    BY <2>1, FS_CardinalityType
  <2> QED BY <1>2, <2>1, <2>2
<1> QED BY <1>1, <1>3

LEMMA RecOfSmaller ==
  ASSUME NEW S, IsFiniteSet(S), NEW f \in [S -> Nat], NEW g \in [SUBSET S -> Nat],
         NEW s \in SUBSET S
  PROVE  /\ Rec(f, g, s) \in Nat
         /\ \A h : (\A t \in SUBSET S : Cardinality(t) < Cardinality(s) => h[t] = g[t])
                     => Rec(f, h, s) = Rec(f, g, s)
<1>1. CASE s = {}
  BY <1>1 DEF Rec
<1>2. CASE s # {}
  <2> DEFINE x == CHOOSE x \in s : TRUE
  <2>1. /\ x \in S /\ s \ {x} \in SUBSET S
        /\ Cardinality(s \ {x}) \in Nat /\ Cardinality(s) = Cardinality(s \ {x}) + 1
    BY <1>2, SmallerSet
  <2>2. Rec(f, g, s) = f[x] + g[s \ {x}]
    BY <1>2 DEF Rec
  <2>3. \A h : Rec(f, h, s) = f[x] + h[s \ {x}]
    BY <1>2 DEF Rec
  <2> HIDE DEF x
  <2>4. Rec(f, g, s) \in Nat /\ Cardinality(s \ {x}) < Cardinality(s)
    BY <2>1, <2>2
  <2> QED BY <2>1, <2>2, <2>3, <2>4
<1> QED BY <1>1, <1>2

LEMMA SumExists ==
  ASSUME NEW S, IsFiniteSet(S), NEW f \in [S -> Nat]
  PROVE  \E h : Solves(h, f, S)
<1> DEFINE Good(g, n) == \A s \in SUBSET S : Cardinality(s) <= n => g[s] = Rec(f, g, s)
           B == {n \in Nat : \E g \in [SUBSET S -> Nat] : Good(g, n)}
<1>0. \A s \in SUBSET S : IsFiniteSet(s) /\ Cardinality(s) \in Nat
  BY FS_Subset, FS_CardinalityType
<1>1. 0 \in B
  <2> DEFINE g == [s \in SUBSET S |-> 0]
  <2>1. g \in [SUBSET S -> Nat]
    OBVIOUS
  <2>2. ASSUME NEW s \in SUBSET S, Cardinality(s) <= 0
        PROVE  g[s] = Rec(f, g, s)
    <3>1. s = {}
      BY <1>0, <2>2, FS_EmptySet
    <3> QED BY <3>1 DEF Rec
  <2> HIDE DEF g
  <2>3. Good(g, 0)
    BY <2>2
  <2> QED BY <2>1, <2>3
<1>2. ASSUME NEW n \in Nat, n \in B
      PROVE  n + 1 \in B
  <2>1. PICK g \in [SUBSET S -> Nat] : Good(g, n)
    BY <1>2
  <2> DEFINE h == [s \in SUBSET S |-> IF Cardinality(s) <= n THEN g[s] ELSE Rec(f, g, s)]
  <2>2. h \in [SUBSET S -> Nat]
    BY RecOfSmaller
  <2>3. ASSUME NEW s \in SUBSET S, Cardinality(s) <= n + 1
        PROVE  h[s] = Rec(f, h, s)
    <3>1. h[s] = Rec(f, g, s)
      BY <2>1
    <3>2. \A t \in SUBSET S : Cardinality(t) < Cardinality(s) => h[t] = g[t]
      BY <1>0, <2>3
    <3> HIDE DEF h
    <3>3. Rec(f, h, s) = Rec(f, g, s)
      BY <3>2, RecOfSmaller
    <3> QED BY <3>1, <3>3
  <2> HIDE DEF h
  <2>4. Good(h, n + 1) /\ n + 1 \in Nat
    BY <2>3
  <2> HIDE DEF Good
  <2> QED BY <2>2, <2>4
<1>3. Cardinality(S) \in B
  <2>1. \A n \in Nat : n \in B
    <3> HIDE DEF B
    <3> QED BY <1>1, <1>2, EveryNumber
  <2> QED BY <1>0, <2>1
<1>4. PICK h \in [SUBSET S -> Nat] : Good(h, Cardinality(S))
  BY <1>3
<1>5. \A s \in SUBSET S : h[s] = Rec(f, h, s)
  <2>1. \A s \in SUBSET S : Cardinality(s) <= Cardinality(S)
    BY FS_Subset
  <2> QED BY <1>4, <2>1
<1> QED BY <1>5 DEF Solves

LEMMA SumIsRecursive ==
  ASSUME NEW S, NEW f \in [S -> Nat], NEW h, Solves(h, f, S)
  PROVE  \E g : /\ SumFunction(f) = g[S] /\ DOMAIN g = SUBSET S
               /\ \A s \in SUBSET S : g[s] = Rec(f, g, s)
<1> DEFINE G == CHOOSE g : g = [s \in SUBSET S |-> Rec(f, g, s)]
<1>1. SumFunction(f) = G[S]
  <2>1. DOMAIN f = S
    OBVIOUS
  <2> QED BY <2>1 DEF SumFunction, SumFunctionOnSet, FoldFunctionOnSet, MapThenFoldSet, Rec
<1>2. h = [s \in SUBSET S |-> Rec(f, h, s)]
  <2> DEFINE k == [s \in SUBSET S |-> Rec(f, h, s)]
  <2>1. h = [s \in SUBSET S |-> h[s]]
    BY DEF Solves
  <2>2. h = k
    BY <2>1 DEF Solves
  <2> QED BY <2>2
<1>3. G = [s \in SUBSET S |-> Rec(f, G, s)]
  <2> HIDE DEF Rec
  <2> QED BY <1>2, Zenon
<1> HIDE DEF G
<1>4. DOMAIN G = SUBSET S /\ \A s \in SUBSET S : G[s] = Rec(f, G, s)
  <2> DEFINE k == [s \in SUBSET S |-> Rec(f, G, s)]
  <2>1. G = k
    BY <1>3, Zenon
  <2>2. DOMAIN k = SUBSET S /\ \A s \in SUBSET S : k[s] = Rec(f, G, s)
    OBVIOUS
  <2> HIDE DEF k
  <2> QED BY <2>1, <2>2
<1> QED BY <1>1, <1>4

LEMMA SumUnfolds ==
  ASSUME NEW S, IsFiniteSet(S), NEW f \in [S -> Nat]
  PROVE  \E g : Solves(g, f, S) /\ SumFunction(f) = g[S]
<1>1. PICK h : Solves(h, f, S)
  BY SumExists
<1>3. PICK g : /\ SumFunction(f) = g[S] /\ DOMAIN g = SUBSET S
               /\ \A s \in SUBSET S : g[s] = Rec(f, g, s)
  BY <1>1, SumIsRecursive
<1>4. \A s \in SUBSET S : g[s] = Rec(f, g, s)
  BY <1>3
<1>5. \A s \in SUBSET S : h[s] = Rec(f, h, s)
  BY <1>1 DEF Solves
<1>0. \A s \in SUBSET S : IsFiniteSet(s) /\ Cardinality(s) \in Nat
  BY FS_Subset, FS_CardinalityType
<1> DEFINE B == {n \in Nat : \A s \in SUBSET S : Cardinality(s) <= n => g[s] = h[s]}
<1>6. ASSUME NEW n \in Nat, NEW s \in SUBSET S, Cardinality(s) <= n,
             \A t \in SUBSET S : Cardinality(t) < n => g[t] = h[t]
      PROVE  g[s] = h[s]
  <2>1. \A t \in SUBSET S : Cardinality(t) < Cardinality(s) => g[t] = h[t]
    BY <1>0, <1>6
  <2>2. Rec(f, g, s) = Rec(f, h, s)
    BY <1>1, <2>1, RecOfSmaller DEF Solves
  <2> QED BY <1>4, <1>5, <2>2
<1>7. \A n \in Nat : n \in B
  <2>1. 0 \in B
    <3>1. ASSUME NEW s \in SUBSET S, Cardinality(s) <= 0
          PROVE  g[s] = h[s]
      <4>1. \A t \in SUBSET S : ~(Cardinality(t) < 0)
        BY <1>0
      <4> QED BY <3>1, <4>1, <1>6
    <3> QED BY <3>1
  <2>2. ASSUME NEW n \in Nat, n \in B
        PROVE  n + 1 \in B
    <3>1. ASSUME NEW s \in SUBSET S, Cardinality(s) <= n + 1
          PROVE  g[s] = h[s]
      <4>1. \A t \in SUBSET S : Cardinality(t) < n + 1 => g[t] = h[t]
        BY <1>0, <2>2
      <4> QED BY <3>1, <4>1, <1>6
    <3> QED BY <3>1
  <2> HIDE DEF B
  <2> QED BY <2>1, <2>2, EveryNumber
<1>8. \A s \in SUBSET S : g[s] = h[s]
  BY <1>0, <1>7
<1>9. h[S] = g[S]
  BY <1>8
<1> QED BY <1>1, <1>3, <1>9

LEMMA AnyOrder ==
  ASSUME NEW S, IsFiniteSet(S), NEW f \in [S -> Nat], NEW g, Solves(g, f, S)
  PROVE  InAnyOrder(g, f, S)
<1> DEFINE B == {n \in Nat : \A s \in SUBSET S :
                   Cardinality(s) <= n => \A x \in s : g[s] = f[x] + g[s \ {x}]}
<1>0. \A s \in SUBSET S : IsFiniteSet(s) /\ Cardinality(s) \in Nat
  BY FS_Subset, FS_CardinalityType
<1>1. 0 \in B
  <2>1. \A s \in SUBSET S : Cardinality(s) <= 0 => s = {}
    BY <1>0, FS_EmptySet
  <2> QED BY <2>1
<1>2. ASSUME NEW n \in Nat, n \in B
      PROVE  n + 1 \in B
  <2>1. ASSUME NEW s \in SUBSET S, Cardinality(s) <= n + 1, NEW x \in s
        PROVE  g[s] = f[x] + g[s \ {x}]
    <3> DEFINE y == CHOOSE y \in s : TRUE
    <3>1. /\ y \in s /\ s \ {y} \in SUBSET S /\ s \ {x} \in SUBSET S
          /\ Cardinality(s \ {y}) <= n /\ Cardinality(s \ {x}) <= n
      <4>1. s # {}
        OBVIOUS
      <4>2. /\ y \in s
            /\ \A z \in s : /\ s \ {z} \in SUBSET S
                            /\ Cardinality(s \ {z}) \in Nat
                            /\ Cardinality(s) = Cardinality(s \ {z}) + 1
        BY <4>1, SmallerSet
      <4> HIDE DEF y
      <4> QED BY <2>1, <4>2
    <3>2. g[s] = f[y] + g[s \ {y}]
      BY <3>1 DEF Rec, Solves
    <3> HIDE DEF y
    <3>3. CASE x = y
      BY <3>2, <3>3
    <3>4. CASE x # y
      <4>1. g[s \ {y}] = f[x] + g[(s \ {y}) \ {x}]
        BY <1>2, <3>1, <3>4
      <4>2. g[s \ {x}] = f[y] + g[(s \ {x}) \ {y}]
        BY <1>2, <3>1, <3>4
      <4>3. (s \ {y}) \ {x} = (s \ {x}) \ {y} /\ (s \ {y}) \ {x} \in SUBSET S
        OBVIOUS
      <4>4. f[x] \in Nat /\ f[y] \in Nat /\ g[(s \ {y}) \ {x}] \in Nat
        BY <3>1, <4>3 DEF Solves
      <4>5. g[(s \ {x}) \ {y}] = g[(s \ {y}) \ {x}]
        BY <4>3
      <4> QED BY <3>2, <4>1, <4>2, <4>4, <4>5
    <3> QED BY <3>3, <3>4
  <2> QED BY <2>1
<1>3. \A n \in Nat : n \in B
  <2> HIDE DEF B
  <2> QED BY <1>1, <1>2, EveryNumber
<1>4. ASSUME NEW s \in SUBSET S, NEW x \in s
      PROVE  g[s] = f[x] + g[s \ {x}]
  <2>1. Cardinality(s) \in B /\ Cardinality(s) <= Cardinality(s)
    BY <1>0, <1>3
  <2> QED BY <2>1
<1> QED BY <1>4 DEF InAnyOrder

LEMMA SumOfRest ==
  ASSUME NEW S, IsFiniteSet(S), NEW f \in [S -> Nat], NEW x \in S
  PROVE  /\ SumFunction(f) \in Nat
         /\ SumFunction([y \in S \ {x} |-> f[y]]) \in Nat
         /\ SumFunction(f) = f[x] + SumFunction([y \in S \ {x} |-> f[y]])
<1> DEFINE T == S \ {x}
           e == [y \in T |-> f[y]]
<1>1. IsFiniteSet(T) /\ T \in SUBSET S /\ e \in [T -> Nat]
  BY FS_RemoveElement
<1>2. \A y \in T : e[y] = f[y]
  OBVIOUS
<1> HIDE DEF e
<1>3. PICK g : Solves(g, f, S) /\ SumFunction(f) = g[S]
  BY SumUnfolds
<1>4. InAnyOrder(g, f, S)
  BY <1>3, AnyOrder
<1>5. PICK h : Solves(h, e, T) /\ SumFunction(e) = h[T]
  <2> HIDE DEF T
  <2> QED BY <1>1, SumUnfolds
<1>6. InAnyOrder(h, e, T)
  <2> HIDE DEF T
  <2> QED BY <1>1, <1>5, AnyOrder
<1>0. \A s \in SUBSET T : IsFiniteSet(s) /\ Cardinality(s) \in Nat
  BY <1>1, FS_Subset, FS_CardinalityType
<1> HIDE DEF T
<1> DEFINE B == {n \in Nat : \A s \in SUBSET T : Cardinality(s) <= n => h[s] = g[s]}
<1>7. 0 \in B
  <2>1. \A s \in SUBSET T : Cardinality(s) <= 0 => s = {}
    BY <1>0, FS_EmptySet
  <2>2. h[{}] = 0 /\ g[{}] = 0
    BY <1>3, <1>5 DEF Rec, Solves
  <2> QED BY <2>1, <2>2
<1>8. ASSUME NEW n \in Nat, n \in B
      PROVE  n + 1 \in B
  <2>1. ASSUME NEW s \in SUBSET T, Cardinality(s) <= n + 1
        PROVE  h[s] = g[s]
    <3>1. CASE s = {}
      BY <3>1, <1>3, <1>5 DEF Rec, Solves
    <3>2. CASE s # {}
      <4>1. PICK z : z \in s
        BY <3>2
      <4>2. s \ {z} \in SUBSET T /\ Cardinality(s \ {z}) <= n
        <5>1. /\ s \ {z} \in SUBSET T
              /\ Cardinality(s \ {z}) \in Nat
              /\ Cardinality(s) = Cardinality(s \ {z}) + 1
          BY <1>1, <3>2, <4>1, SmallerSet
        <5> QED BY <2>1, <5>1
      <4>3. h[s] = e[z] + h[s \ {z}]
        BY <1>6, <4>1 DEF InAnyOrder
      <4>4. g[s] = f[z] + g[s \ {z}]
        BY <1>1, <1>4, <4>1 DEF InAnyOrder
      <4>5. e[z] = f[z]
        BY <1>2, <4>1
      <4>6. h[s \ {z}] = g[s \ {z}]
        BY <1>8, <4>2
      <4> QED BY <4>3, <4>4, <4>5, <4>6
    <3> QED BY <3>1, <3>2
  <2> QED BY <2>1
<1>9. \A n \in Nat : n \in B
  <2> HIDE DEF B
  <2> QED BY <1>7, <1>8, EveryNumber
<1>10. h[T] = g[T]
  BY <1>0, <1>9
<1>11. g[S] = f[x] + g[T]
  BY <1>4 DEF T, InAnyOrder
<1>12. SumFunction(f) \in Nat /\ SumFunction(e) \in Nat
  BY <1>1, <1>3, <1>5 DEF Solves
<1> QED BY <1>3, <1>5, <1>10, <1>11, <1>12 DEF e, T

LEMMA SumOfNone ==
  ASSUME NEW f \in [{} -> Nat]
  PROVE  SumFunction(f) = 0
<1>1. IsFiniteSet({})
  BY FS_EmptySet
<1>2. PICK g : Solves(g, f, {}) /\ SumFunction(f) = g[{}]
  BY <1>1, SumUnfolds
<1> QED BY <1>2 DEF Rec, Solves

----------------------------------------------------------------------------
(* The occurrences of the manifest as a list of rows and as a set.          *)

Statuses == {"running", "completed"} \cup Unsettled
RunRecords == [id : Nat, schedule : Schedules, status : Statuses, reserved : Nat,
               used : Nat, owner : Nat, reviewed : BOOLEAN]
Of(some, s) == {run \in some : run.schedule = s}
Live(some, s) == {run \in Of(some, s) : run.status = "running"}
Over(some, s) == Of(some, s) \ Live(some, s)
OneEach(some) == \A a, b \in some : a.id = b.id => a = b
OnlyRuns(r, some) == r \in some /\ \A x \in some : (x.status = "running" <=> x = r)

LEMMA UsedOfRest ==
  ASSUME NEW A \in SUBSET RunRecords, IsFiniteSet(A), NEW r \in A
  PROVE  /\ UsedBy(A) \in Nat /\ UsedBy(A \ {r}) \in Nat
         /\ UsedBy(A) = UsedBy(A \ {r}) + r.used
<1> DEFINE f == [run \in A |-> run.used]
           g == [run \in A \ {r} |-> run.used]
           h == [run \in A \ {r} |-> f[run]]
<1>1. f \in [A -> Nat] /\ f[r] = r.used
  BY DEF RunRecords
<1>2. g = h
  OBVIOUS
<1>3. UsedBy(A) = SumFunction(f) /\ UsedBy(A \ {r}) = SumFunction(g)
  BY DEF UsedBy
<1>4. /\ SumFunction(f) \in Nat /\ SumFunction(h) \in Nat
      /\ SumFunction(f) = f[r] + SumFunction(h)
  <2> HIDE DEF f
  <2> QED BY <1>1, SumOfRest
<1>5. SumFunction(g) = SumFunction(h)
  <2> HIDE DEF g, h
  <2> QED BY <1>2
<1>6. r.used \in Nat
  BY DEF RunRecords
<1> HIDE DEF f, g, h
<1> QED BY <1>1, <1>3, <1>4, <1>5, <1>6

LEMMA ReservedOfOne ==
  ASSUME NEW r \in RunRecords
  PROVE  ReservedBy({r}) = r.reserved
<1> DEFINE f == [run \in {r} |-> run.reserved]
           h == [run \in {r} \ {r} |-> f[run]]
<1>1. f \in [{r} -> Nat] /\ f[r] = r.reserved /\ IsFiniteSet({r})
  BY FS_Singleton DEF RunRecords
<1>2. h \in [{} -> Nat]
  OBVIOUS
<1>3. ReservedBy({r}) = SumFunction(f)
  BY DEF ReservedBy
<1>4. SumFunction(f) = f[r] + SumFunction(h)
  <2> HIDE DEF f
  <2> QED BY <1>1, SumOfRest
<1>5. SumFunction(h) = 0
  <2> HIDE DEF h
  <2> QED BY <1>2, SumOfNone
<1>6. r.reserved \in Nat
  BY DEF RunRecords
<1> HIDE DEF f, h
<1> QED BY <1>1, <1>3, <1>4, <1>5, <1>6

LEMMA SumsOfNone == UsedBy({}) = 0 /\ ReservedBy({}) = 0
<1> DEFINE f == [run \in {} |-> run.used]
           g == [run \in {} |-> run.reserved]
<1>1. f \in [{} -> Nat] /\ g \in [{} -> Nat]
  OBVIOUS
<1>2. UsedBy({}) = SumFunction(f) /\ ReservedBy({}) = SumFunction(g)
  BY DEF UsedBy, ReservedBy
<1> HIDE DEF f, g
<1> QED BY <1>1, <1>2, SumOfNone

\* One row is replaced by another with the same number and schedule.
LEMMA RowReplaced ==
  ASSUME NEW A \in SUBSET RunRecords, IsFiniteSet(A), OneEach(A), NEW r \in A,
         NEW q \in RunRecords, q.id = r.id, q.schedule = r.schedule, q.status # "running",
         NEW s \in Schedules, NEW B, B = (A \ {r}) \cup {q}
  PROVE  /\ UsedBy(Over(A, s)) \in Nat
         /\ UsedBy(Over(B, s)) =
              UsedBy(Over(A, s) \ {r}) + (IF s = r.schedule THEN q.used ELSE 0)
         /\ Live(B, s) = Live(A, s) \ {r}
<1>1. \A x \in A : x.id = r.id => x = r
  BY DEF OneEach
<1>2. q \notin A \ {r} /\ B \subseteq RunRecords
  BY <1>1
<1>3. /\ Over(A, s) \in SUBSET RunRecords /\ IsFiniteSet(Over(A, s))
      /\ Over(B, s) \in SUBSET RunRecords /\ IsFiniteSet(Over(B, s))
  <2>1. IsFiniteSet(A \ {r})
    BY FS_RemoveElement
  <2>2. IsFiniteSet(B)
    BY <2>1, FS_AddElement
  <2>3. Over(A, s) \in SUBSET A /\ Over(B, s) \in SUBSET B
    BY DEF Over, Of
  <2> QED BY <1>2, <2>2, <2>3, FS_Subset
<1>4. UsedBy(Over(A, s)) \in Nat /\ UsedBy(Over(A, s) \ {r}) \in Nat
  <2>1. CASE r \in Over(A, s)
    BY <1>3, <2>1, UsedOfRest
  <2>2. CASE r \notin Over(A, s)
    <3>1. Over(A, s) \ {r} = Over(A, s)
      BY <2>2
    <3>2. CASE Over(A, s) = {}
      BY <3>1, <3>2, SumsOfNone
    <3>3. CASE Over(A, s) # {}
      <4>1. PICK x : x \in Over(A, s)
        BY <3>3
      <4>2. UsedBy(Over(A, s)) \in Nat
        BY <1>3, <4>1, UsedOfRest
      <4> QED BY <3>1, <4>2
    <3> QED BY <3>2, <3>3
  <2> QED BY <2>1, <2>2
<1>5. CASE s = r.schedule
  <2>1. q \in Over(B, s) /\ Over(B, s) \ {q} = Over(A, s) \ {r}
    BY <1>2, <1>5 DEF Over, Of, Live
  <2>2. UsedBy(Over(B, s)) = UsedBy(Over(B, s) \ {q}) + q.used
    <3> QED BY <1>3, <2>1, UsedOfRest
  <2>3. Live(B, s) = Live(A, s) \ {r}
    BY <1>2 DEF Live, Of
  <2>4. UsedBy(Over(B, s) \ {q}) = UsedBy(Over(A, s) \ {r})
    BY <2>1
  <2> QED BY <1>4, <1>5, <2>2, <2>3, <2>4
<1>6. CASE s # r.schedule
  <2>1. Over(B, s) = Over(A, s) \ {r}
    BY <1>6 DEF Over, Of, Live
  <2>2. Live(B, s) = Live(A, s) \ {r}
    BY <1>6 DEF Live, Of
  <2>3. UsedBy(Over(B, s)) = UsedBy(Over(A, s) \ {r})
    BY <2>1
  <2>4. UsedBy(Over(B, s)) =
          UsedBy(Over(A, s) \ {r}) + (IF s = r.schedule THEN q.used ELSE 0)
    BY <1>4, <1>6, <2>3
  <2> QED BY <1>4, <2>2, <2>4
<1> QED BY <1>5, <1>6

SettledIn(A, B, r, q, s) ==
  /\ Live(A, s) = (IF s = r.schedule THEN {r} ELSE {})
  /\ Live(B, s) = {}
  /\ UsedBy(Over(A, s)) \in Nat
  /\ UsedBy(Over(B, s)) = UsedBy(Over(A, s)) + (IF s = r.schedule THEN q.used ELSE 0)

LEMMA OccurrenceSettled ==
  ASSUME NEW A \in SUBSET RunRecords, IsFiniteSet(A), OneEach(A), NEW r, OnlyRuns(r, A),
         NEW q \in RunRecords, q.id = r.id, q.schedule = r.schedule, q.status # "running",
         NEW s \in Schedules, NEW B, B = (A \ {r}) \cup {q}
  PROVE  SettledIn(A, B, r, q, s)
<1>0. r \in A /\ \A x \in A : (x.status = "running" <=> x = r)
  BY DEF OnlyRuns
<1>1. Live(A, s) = (IF s = r.schedule THEN {r} ELSE {})
  BY <1>0 DEF Live, Of
<1>2. Over(A, s) \ {r} = Over(A, s)
  BY <1>0 DEF Over, Of, Live
<1> QED BY <1>0, <1>1, <1>2, RowReplaced DEF SettledIn

LEMMA OccurrenceReviewed ==
  ASSUME NEW A \in SUBSET RunRecords, IsFiniteSet(A), OneEach(A), NEW r \in A,
         NEW q \in RunRecords, q.id = r.id, q.schedule = r.schedule, q.status # "running",
         r.status # "running", q.used = r.used,
         NEW s \in Schedules, NEW B, B = (A \ {r}) \cup {q}
  PROVE  /\ Live(B, s) = Live(A, s)
         /\ UsedBy(Over(B, s)) = UsedBy(Over(A, s))
<1>1. Live(A, s) \ {r} = Live(A, s)
  BY DEF Live, Of
<1>2. /\ UsedBy(Over(A, s)) \in Nat
      /\ UsedBy(Over(B, s)) = UsedBy(Over(A, s) \ {r}) + (IF s = r.schedule THEN q.used ELSE 0)
      /\ Live(B, s) = Live(A, s) \ {r}
  BY RowReplaced
<1>3. Over(A, s) \in SUBSET RunRecords /\ IsFiniteSet(Over(A, s))
  <2>1. Over(A, s) \in SUBSET A
    BY DEF Over, Of
  <2> QED BY <2>1, FS_Subset
<1>4. UsedBy(Over(A, s)) = UsedBy(Over(A, s) \ {r}) + (IF s = r.schedule THEN r.used ELSE 0)
  <2>1. CASE s = r.schedule
    <3>1. r \in Over(A, s)
      BY <2>1 DEF Over, Of, Live
    <3> QED BY <1>3, <2>1, <3>1, UsedOfRest
  <2>2. CASE s # r.schedule
    <3>1. Over(A, s) \ {r} = Over(A, s)
      BY <2>2 DEF Over, Of
    <3> QED BY <1>2, <2>2, <3>1
  <2> QED BY <2>1, <2>2
<1>5. q.used \in Nat
  BY DEF RunRecords
<1> QED BY <1>1, <1>2, <1>4, <1>5

LEMMA OccurrenceForgotten ==
  ASSUME NEW A \in SUBSET RunRecords, IsFiniteSet(A), NEW r \in A, r.status # "running",
         NEW s \in Schedules
  PROVE  /\ Live(A \ {r}, s) = Live(A, s)
         /\ UsedBy(Over(A \ {r}, s)) \in Nat
         /\ UsedBy(Over(A, s)) =
              UsedBy(Over(A \ {r}, s)) + (IF s = r.schedule THEN r.used ELSE 0)
<1>1. Live(A \ {r}, s) = Live(A, s)
  BY DEF Live, Of
<1>2. Over(A \ {r}, s) = Over(A, s) \ {r}
  BY DEF Live, Of, Over
<1>3. Over(A, s) \in SUBSET RunRecords /\ IsFiniteSet(Over(A, s))
  <2>1. Over(A, s) \in SUBSET A
    BY DEF Over, Of
  <2> QED BY <2>1, FS_Subset
<1>4. CASE s = r.schedule
  <2>1. r \in Over(A, s)
    BY <1>4 DEF Over, Of, Live
  <2> QED BY <1>1, <1>2, <1>3, <1>4, <2>1, UsedOfRest
<1>5. CASE s # r.schedule
  <2>1. Over(A, s) \ {r} = Over(A, s)
    BY <1>5 DEF Over, Of
  <2>2. UsedBy(Over(A, s)) \in Nat
    <3>1. CASE Over(A, s) = {}
      BY <3>1, SumsOfNone
    <3>2. CASE Over(A, s) # {}
      <4>1. PICK x : x \in Over(A, s)
        BY <3>2
      <4> QED BY <1>3, <4>1, UsedOfRest
    <3> QED BY <3>1, <3>2
  <2> QED BY <1>1, <1>2, <1>5, <2>1, <2>2
<1> QED BY <1>4, <1>5

BegunIn(A, q, s) ==
  /\ Live(A \cup {q}, s) = (IF s = q.schedule THEN {q} ELSE {})
  /\ Over(A \cup {q}, s) = Over(A, s)

LEMMA OccurrenceBegun ==
  ASSUME NEW A \in SUBSET RunRecords, NEW q \in RunRecords, q.status = "running", q \notin A,
         \A x \in A : x.status # "running",
         NEW s \in Schedules
  PROVE  BegunIn(A, q, s)
BY DEF BegunIn, Live, Of, Over

NumberedRows(rows, last) ==
  \A n \in DOMAIN rows :
    /\ rows[n].id <= last
    /\ \A m \in DOMAIN rows : (rows[m].id = rows[n].id => m = n)

LEMMA RowsAsSet ==
  ASSUME NEW rows \in Seq(RunRecords)
  PROVE  /\ Len(rows) \in Nat /\ DOMAIN rows = 1..Len(rows)
         /\ \A n \in DOMAIN rows : rows[n] \in RunRecords /\ rows[n] \in ToSet(rows)
         /\ \A x \in ToSet(rows) : \E n \in DOMAIN rows : x = rows[n]
         /\ ToSet(rows) \in SUBSET RunRecords /\ IsFiniteSet(ToSet(rows))
<1>1. /\ Len(rows) \in Nat /\ DOMAIN rows = 1..Len(rows)
      /\ rows \in [1..Len(rows) -> RunRecords]
  BY LenProperties
<1>2. \A n \in DOMAIN rows : rows[n] \in RunRecords /\ rows[n] \in ToSet(rows)
  BY <1>1 DEF ToSet
<1>3. \A x \in ToSet(rows) : \E n \in DOMAIN rows : x = rows[n]
  BY DEF ToSet
<1>4. ToSet(rows) \in SUBSET RunRecords
  BY <1>2, <1>3
<1>5. IsFiniteSet(1..Len(rows))
  BY <1>1, FS_Interval
<1>6. rows \in Surjection(1..Len(rows), ToSet(rows))
  BY <1>1, <1>2, <1>3 DEF Surjection
<1>7. IsFiniteSet(ToSet(rows))
  BY <1>5, <1>6, FS_Surjection
<1> QED BY <1>1, <1>2, <1>3, <1>4, <1>7

LEMMA NumbersTell ==
  ASSUME NEW rows \in Seq(RunRecords), NEW last, NumberedRows(rows, last)
  PROVE  OneEach(ToSet(rows))
<1> SUFFICES ASSUME NEW a \in ToSet(rows), NEW b \in ToSet(rows), a.id = b.id
             PROVE  a = b
  BY DEF OneEach
<1>1. PICK n \in DOMAIN rows : a = rows[n]
  BY RowsAsSet
<1>2. PICK m \in DOMAIN rows : b = rows[m]
  BY RowsAsSet
<1> QED BY <1>1, <1>2 DEF NumberedRows

\* One row of the list is replaced.
LEMMA ListReplaced ==
  ASSUME NEW rows \in Seq(RunRecords), NEW last, NumberedRows(rows, last),
         NEW n \in DOMAIN rows, NEW q \in RunRecords, q.id = rows[n].id,
         NEW new, DOMAIN new = DOMAIN rows, new[n] = q,
         \A m \in DOMAIN rows \ {n} : new[m] = rows[m]
  PROVE  /\ NumberedRows(new, last)
         /\ ToSet(new) = (ToSet(rows) \ {rows[n]}) \cup {q}
<1>1. \A m \in DOMAIN rows : new[m] = IF m = n THEN q ELSE rows[m]
  OBVIOUS
<1>2. NumberedRows(new, last)
  BY <1>1 DEF NumberedRows
<1>3. ToSet(new) \subseteq (ToSet(rows) \ {rows[n]}) \cup {q}
  <2> SUFFICES ASSUME NEW m \in DOMAIN new
               PROVE  new[m] \in (ToSet(rows) \ {rows[n]}) \cup {q}
    BY DEF ToSet
  <2>1. CASE m = n
    BY <2>1
  <2>2. CASE m # n
    <3>1. new[m] = rows[m] /\ rows[m] \in ToSet(rows)
      BY <2>2, RowsAsSet
    <3>2. rows[m] # rows[n]
      BY <2>2 DEF NumberedRows
    <3> QED BY <3>1, <3>2
  <2> QED BY <2>1, <2>2
<1>4. (ToSet(rows) \ {rows[n]}) \cup {q} \subseteq ToSet(new)
  <2>1. q \in ToSet(new)
    BY DEF ToSet
  <2>2. ASSUME NEW x \in ToSet(rows) \ {rows[n]}
        PROVE  x \in ToSet(new)
    <3>1. PICK m \in DOMAIN rows : x = rows[m]
      BY RowsAsSet
    <3>2. m # n
      BY <2>2, <3>1
    <3>3. new[m] = x /\ m \in DOMAIN new
      BY <3>1, <3>2
    <3> QED BY <3>3 DEF ToSet
  <2> QED BY <2>1, <2>2
<1> QED BY <1>2, <1>3, <1>4

\* One row of the list is removed.
LEMMA ListShortened ==
  ASSUME NEW rows \in Seq(RunRecords), NEW last, NumberedRows(rows, last),
         NEW n \in DOMAIN rows,
         NEW new, new = RemoveAt(rows, n)
  PROVE  /\ new \in Seq(RunRecords) /\ NumberedRows(new, last)
         /\ ToSet(new) = ToSet(rows) \ {rows[n]}
<1> DEFINE before == SubSeq(rows, 1, n - 1)
           after == SubSeq(rows, n + 1, Len(rows))
           from(m) == IF m < n THEN m ELSE m + 1
<1>1. /\ Len(rows) \in Nat /\ DOMAIN rows = 1..Len(rows) /\ n \in 1..Len(rows)
      /\ \A m \in 1..Len(rows) : rows[m] \in RunRecords
  BY RowsAsSet
<1>2. /\ before \in Seq(RunRecords) /\ Len(before) = n - 1
      /\ \A m \in 1..(n - 1) : before[m] = rows[m]
  <2>1. \A m \in 1..(n - 1) : rows[m] \in RunRecords
    BY <1>1
  <2>2. /\ before \in Seq(RunRecords)
        /\ Len(before) = (IF 1 <= n - 1 THEN (n - 1) - 1 + 1 ELSE 0)
        /\ \A m \in 1..((n - 1) - 1 + 1) : before[m] = rows[1 + m - 1]
    <3> HIDE DEF before
    <3> QED BY <1>1, <2>1, SubSeqProperties DEF before
  <2> HIDE DEF before
  <2> QED BY <1>1, <2>2
<1>3. /\ after \in Seq(RunRecords) /\ Len(after) = Len(rows) - n
      /\ \A m \in 1..(Len(rows) - n) : after[m] = rows[n + m]
  <2>1. \A m \in (n + 1)..Len(rows) : rows[m] \in RunRecords
    BY <1>1
  <2>2. /\ after \in Seq(RunRecords)
        /\ Len(after) = (IF n + 1 <= Len(rows) THEN Len(rows) - (n + 1) + 1 ELSE 0)
        /\ \A m \in 1..(Len(rows) - (n + 1) + 1) : after[m] = rows[(n + 1) + m - 1]
    BY <1>1, <2>1, SubSeqProperties
  <2> HIDE DEF after
  <2>3. \A m \in 1..(Len(rows) - n) :
          m \in 1..(Len(rows) - (n + 1) + 1) /\ (n + 1) + m - 1 = n + m
    BY <1>1
  <2>4. \A m \in 1..(Len(rows) - n) : after[m] = rows[n + m]
    BY <2>2, <2>3
  <2>5. Len(after) = Len(rows) - n
    BY <1>1, <2>2
  <2> QED BY <2>2, <2>4, <2>5
<1>4. new = before \o after
  BY DEF RemoveAt
<1> HIDE DEF before, after
<1>5. /\ new \in Seq(RunRecords) /\ Len(new) = Len(rows) - 1
      /\ \A m \in 1..(Len(rows) - 1) :
           new[m] = IF m <= n - 1 THEN before[m] ELSE after[m - (n - 1)]
  <2>1. /\ before \o after \in Seq(RunRecords)
        /\ Len(before \o after) = Len(before) + Len(after)
        /\ \A m \in 1..(Len(before) + Len(after)) :
             (before \o after)[m] = IF m <= Len(before) THEN before[m]
                                    ELSE after[m - Len(before)]
    BY <1>2, <1>3, ConcatProperties
  <2>2. Len(before) + Len(after) = Len(rows) - 1
    BY <1>1, <1>2, <1>3
  <2> QED BY <1>2, <1>4, <2>1, <2>2
<1>6. DOMAIN new = 1..(Len(rows) - 1)
  BY <1>5, LenProperties
<1>7. \A m \in DOMAIN new : from(m) \in DOMAIN rows \ {n} /\ new[m] = rows[from(m)]
  <2> TAKE m \in DOMAIN new
  <2>1. CASE m < n
    BY <1>1, <1>2, <1>5, <1>6, <2>1
  <2>2. CASE ~(m < n)
    <3>1. m - (n - 1) \in 1..(Len(rows) - n) /\ n + (m - (n - 1)) = m + 1
      BY <1>1, <1>6, <2>2
    <3>2. new[m] = after[m - (n - 1)]
      BY <1>1, <1>5, <1>6, <2>2, SMTT(60)
    <3>3. m + 1 \in DOMAIN rows \ {n}
      BY <1>1, <1>6, <2>2
    <3> QED BY <1>3, <2>2, <3>1, <3>2, <3>3
  <2> QED BY <2>1, <2>2
<1>8. \A k \in DOMAIN rows \ {n} : \E m \in DOMAIN new : from(m) = k
  <2> TAKE k \in DOMAIN rows \ {n}
  <2>1. CASE k < n
    BY <1>1, <1>6, <2>1
  <2>2. CASE ~(k < n)
    <3>1. k - 1 \in DOMAIN new /\ ~(k - 1 < n) /\ k - 1 + 1 = k
      BY <1>1, <1>6, <2>2
    <3> QED BY <3>1
  <2> QED BY <2>1, <2>2
<1>9. \A m, k \in DOMAIN new : from(m) = from(k) => m = k
  BY <1>1, <1>6
<1> HIDE DEF from
<1>10. NumberedRows(new, last)
  BY <1>7, <1>9 DEF NumberedRows
<1>11. ToSet(new) = ToSet(rows) \ {rows[n]}
  <2>1. ASSUME NEW m \in DOMAIN new
        PROVE  new[m] \in ToSet(rows) \ {rows[n]}
    BY <1>1, <1>7, RowsAsSet DEF NumberedRows
  <2>2. ASSUME NEW x \in ToSet(rows) \ {rows[n]}
        PROVE  x \in ToSet(new)
    <3>1. PICK k \in DOMAIN rows : x = rows[k]
      BY RowsAsSet
    <3>2. PICK m \in DOMAIN new : from(m) = k
      BY <1>8, <3>1
    <3> QED BY <1>7, <3>1, <3>2 DEF ToSet
  <2>3. ToSet(new) \subseteq ToSet(rows) \ {rows[n]}
    BY <2>1 DEF ToSet
  <2> QED BY <2>2, <2>3
<1> QED BY <1>5, <1>10, <1>11

\* A row is added to the list, under the next number.
GrownBy(new, rows, q, last) ==
  /\ new \in Seq(RunRecords) /\ NumberedRows(new, last + 1)
  /\ ToSet(new) = ToSet(rows) \cup {q} /\ q \notin ToSet(rows)
  /\ \A m \in DOMAIN rows : m \in DOMAIN new /\ new[m] = rows[m]
  /\ \A m \in DOMAIN new \ DOMAIN rows : new[m] = q
  /\ \E m \in DOMAIN new : new[m] = q

LEMMA ListGrown ==
  ASSUME NEW rows \in Seq(RunRecords), NEW last \in Nat, NumberedRows(rows, last),
         NEW q \in RunRecords, q.id = last + 1,
         NEW new, new = Append(rows, q)
  PROVE  GrownBy(new, rows, q, last)
<1>1. /\ Len(rows) \in Nat /\ DOMAIN rows = 1..Len(rows)
      /\ \A m \in 1..Len(rows) : rows[m] \in RunRecords
  BY RowsAsSet
<1>2. /\ new \in Seq(RunRecords) /\ Len(new) = Len(rows) + 1
      /\ \A m \in 1..Len(rows) : new[m] = rows[m]
      /\ new[Len(rows) + 1] = q
  BY AppendProperties
<1>3. DOMAIN new = 1..(Len(rows) + 1)
  BY <1>2, LenProperties
<1>4. \A m \in DOMAIN new : m \in DOMAIN rows \/ m = Len(rows) + 1
  BY <1>1, <1>3
<1>5. \A m \in DOMAIN rows : rows[m].id <= last /\ rows[m].id \in Nat
  BY <1>1 DEF NumberedRows, RunRecords
<1>6. NumberedRows(new, last + 1)
  <2> SUFFICES ASSUME NEW n \in DOMAIN new
               PROVE  /\ new[n].id <= last + 1
                      /\ \A m \in DOMAIN new : (new[m].id = new[n].id => m = n)
    BY DEF NumberedRows
  <2>1. CASE n \in DOMAIN rows
    BY <1>1, <1>2, <1>4, <1>5, <2>1 DEF NumberedRows
  <2>2. CASE n = Len(rows) + 1
    BY <1>1, <1>2, <1>4, <1>5, <2>2
  <2> QED BY <1>4, <2>1, <2>2
<1>7. q \notin ToSet(rows)
  <2>1. ASSUME q \in ToSet(rows)
        PROVE  FALSE
    <3>1. PICK m \in DOMAIN rows : q = rows[m]
      BY <2>1, RowsAsSet
    <3> QED BY <1>5, <3>1
  <2> QED BY <2>1
<1>8. ToSet(new) = ToSet(rows) \cup {q}
  <2>1. ToSet(new) \subseteq ToSet(rows) \cup {q}
    BY <1>1, <1>2, <1>4 DEF ToSet
  <2>2. ToSet(rows) \cup {q} \subseteq ToSet(new)
    BY <1>1, <1>2, <1>3 DEF ToSet
  <2> QED BY <2>1, <2>2
<1> QED BY <1>1, <1>2, <1>3, <1>4, <1>6, <1>7, <1>8 DEF GrownBy

----------------------------------------------------------------------------
(* The invariant of the manifest.  Rows are told apart by their numbers, one *)
(* of them runs at most, what it may use is what its schedule's tokens say,  *)
(* and while it runs, its schedule has the tokens to pay for it.             *)

Identities == {"none"} \cup {Identity[w] : w \in Sessions}
ScheduleRecords == [at : {"absent", "present", "removed"}, enabled : BOOLEAN,
                    identity : Identities, expires : Nat, next : Nat, count : Nat,
                    used : Nat, reserved : Int]

ManifestTypes ==
  /\ clock \in Nat /\ occurred \in Nat
  /\ schedule \in [Schedules -> ScheduleRecords]
  /\ runs \in Seq(RunRecords)
  /\ pruned \in [Schedules -> Nat]
OneRuns ==
  \A n, m \in DOMAIN runs : runs[n].status = "running" /\ runs[m].status = "running" => n = m
RowsFit ==
  \A n \in DOMAIN runs :
    /\ runs[n].reserved = Tokens[runs[n].schedule]
    /\ runs[n].reviewed => runs[n].status # "running"
    /\ schedule[runs[n].schedule].at # "absent"
RecordsFit ==
  \A s \in Schedules :
    /\ schedule[s].enabled => schedule[s].at = "present"
    /\ schedule[s].at = "absent" => pruned[s] = 0
InBudget ==
  \A s \in Schedules : schedule[s].at = "present" =>
    /\ Live(ToSet(runs), s) = {} => schedule[s].used <= TotalTokens[s] + Overrun
    /\ Live(ToSet(runs), s) # {} => schedule[s].used + Tokens[s] <= TotalTokens[s]
ManifestInv ==
  /\ ManifestTypes
  /\ NumberedRows(runs, occurred)
  /\ OneRuns /\ RowsFit /\ RecordsFit
  /\ ChargedOnce /\ InBudget
  /\ EnabledIsReviewed

Charged(s, record, past, some) ==
  /\ record.reserved = ReservedBy(Live(some, s))
  /\ record.used = past + UsedBy(Over(some, s))

LEMMA ChargedBySet ==
  /\ \A s : Orphans(s) = Live(ToSet(runs), s)
  /\ ChargedOnce <=> \A s \in Schedules : schedule[s].at = "present" =>
                       Charged(s, schedule[s], pruned[s], ToSet(runs))
<1>1. \A s : /\ Orphans(s) = Live(ToSet(runs), s)
             /\ Occurrences(s) \ Orphans(s) = Over(ToSet(runs), s)
  BY DEF Orphans, Occurrences, Live, Over, Of
<1> QED BY <1>1 DEF ChargedOnce, Charged, Present

LEMMA ChargedBySetNext ==
  ChargedOnce' <=> \A s \in Schedules : schedule'[s].at = "present" =>
                     Charged(s, schedule'[s], pruned'[s], ToSet(runs'))
<1>1. \A s : /\ Orphans(s)' = Live(ToSet(runs'), s)
             /\ (Occurrences(s) \ Orphans(s))' = Over(ToSet(runs'), s)
  BY DEF Orphans, Occurrences, Live, Over, Of
<1> QED BY <1>1 DEF ChargedOnce, Charged, Present

\* Where no occurrence of a schedule has a row, none has been charged.
LEMMA NothingCharged ==
  ASSUME ManifestInv, NEW s \in Schedules, schedule[s].at = "absent"
  PROVE  /\ Live(ToSet(runs), s) = {}
         /\ ReservedBy(Live(ToSet(runs), s)) = 0
         /\ pruned[s] + UsedBy(Over(ToSet(runs), s)) = 0
<1>1. runs \in Seq(RunRecords)
  BY DEF ManifestInv, ManifestTypes
<1>2. ASSUME NEW x \in ToSet(runs), x.schedule = s
      PROVE  FALSE
  <2>1. PICK n \in DOMAIN runs : x = runs[n]
    BY <1>1, RowsAsSet
  <2> QED BY <1>2, <2>1 DEF ManifestInv, RowsFit
<1>3. Live(ToSet(runs), s) = {} /\ Over(ToSet(runs), s) = {}
  BY <1>2 DEF Live, Over, Of
<1>4. pruned[s] = 0
  BY DEF ManifestInv, RecordsFit
<1> QED BY <1>3, <1>4, SumsOfNone

\* A change of the records that charges nothing: every schedule keeps what it
\* has used and reserved, is created with nothing, or is removed.
LEMMA RecordsChange ==
  ASSUME ManifestInv, clock' \in Nat, UNCHANGED <<runs, pruned, occurred>>,
         schedule' \in [Schedules -> ScheduleRecords],
         \A s \in Schedules :
           \/ /\ schedule'[s].used = schedule[s].used
              /\ schedule'[s].reserved = schedule[s].reserved
              /\ \/ schedule'[s].at = schedule[s].at
                 \/ schedule[s].at = "present" /\ schedule'[s].at = "removed"
           \/ /\ schedule[s].at = "absent" /\ schedule'[s].at = "present"
              /\ schedule'[s].used = 0 /\ schedule'[s].reserved = 0,
         \A s \in Schedules : schedule'[s].enabled =>
           /\ schedule'[s].at = "present"
           /\ schedule[s].enabled \/ schedule[s].at = "absent" \/ ~InReview(s)
  PROVE  ManifestInv'
<1> USE DEF ManifestInv
<1>1. ManifestTypes'
  BY DEF ManifestTypes
<1>2. NumberedRows(runs, occurred)' /\ OneRuns'
  BY DEF NumberedRows, OneRuns
<1>3. RowsFit' /\ RecordsFit'
  <2>1. \A s \in Schedules : schedule'[s].at = "absent" => schedule[s].at = "absent"
    BY DEF ManifestTypes, ScheduleRecords
  <2>2. RecordsFit'
    BY <2>1 DEF RecordsFit
  <2>3. \A n \in DOMAIN runs : runs[n] \in RunRecords
    BY RowsAsSet DEF ManifestTypes
  <2>4. RowsFit'
    BY <2>1, <2>3 DEF RowsFit, RunRecords
  <2> QED BY <2>2, <2>4
<1>4. ChargedOnce'
  <2> SUFFICES ASSUME NEW s \in Schedules, schedule'[s].at = "present"
               PROVE  Charged(s, schedule'[s], pruned[s], ToSet(runs))
    BY ChargedBySetNext
  <2>1. CASE schedule[s].at = "present"
    BY <2>1, ChargedBySet DEF Charged
  <2>2. CASE schedule[s].at # "present"
    <3>1. schedule[s].at = "absent" /\ schedule'[s].used = 0 /\ schedule'[s].reserved = 0
      BY <2>2
    <3> QED BY <3>1, NothingCharged DEF Charged
  <2> QED BY <2>1, <2>2
<1>5. InBudget'
  <2> SUFFICES ASSUME NEW s \in Schedules, schedule'[s].at = "present"
               PROVE  /\ Live(ToSet(runs), s) = {} => schedule'[s].used <= TotalTokens[s] + Overrun
                      /\ Live(ToSet(runs), s) # {} =>
                           schedule'[s].used + Tokens[s] <= TotalTokens[s]
    BY DEF InBudget
  <2>1. CASE schedule[s].at = "present"
    BY <2>1 DEF InBudget
  <2>2. CASE schedule[s].at # "present"
    <3>1. schedule[s].at = "absent" /\ schedule'[s].used = 0
      BY <2>2
    <3>2. TotalTokens[s] \in Nat /\ Overrun \in Nat
      BY ScheduleShape
    <3> QED BY <3>1, <3>2, NothingCharged
  <2> QED BY <2>1, <2>2
<1>6. EnabledIsReviewed'
  <2> SUFFICES ASSUME NEW s \in Schedules, schedule'[s].enabled, NEW n \in DOMAIN runs,
                      runs[n].schedule = s, runs[n].status \in Unsettled
               PROVE  runs[n].reviewed
    BY DEF EnabledIsReviewed
  <2>1. CASE schedule[s].enabled
    BY <2>1 DEF EnabledIsReviewed
  <2>2. CASE schedule[s].at = "absent"
    BY <2>2 DEF RowsFit
  <2>3. CASE ~InReview(s)
    BY <2>3 DEF InReview, Unsettled
  <2> QED BY <2>1, <2>2, <2>3
<1> QED BY <1>1, <1>2, <1>3, <1>4, <1>5, <1>6

\* What follows when the row that runs is settled.
LEMMA OneRunsAsSet ==
  ASSUME ManifestInv, NEW n \in DOMAIN runs, runs[n].status = "running"
  PROVE  /\ runs[n] \in ToSet(runs) /\ runs[n] \in RunRecords
         /\ OnlyRuns(runs[n], ToSet(runs))
         /\ ToSet(runs) \in SUBSET RunRecords /\ IsFiniteSet(ToSet(runs))
         /\ OneEach(ToSet(runs))
<1>1. runs \in Seq(RunRecords) /\ NumberedRows(runs, occurred)
  BY DEF ManifestInv, ManifestTypes
<1>2. ASSUME NEW x \in ToSet(runs), x.status = "running"
      PROVE  x = runs[n]
  <2>1. PICK m \in DOMAIN runs : x = runs[m]
    BY <1>1, RowsAsSet
  <2> QED BY <1>2, <2>1 DEF ManifestInv, OneRuns
<1> QED BY <1>1, <1>2, RowsAsSet, NumbersTell DEF OnlyRuns

\* The row that runs is settled: its reservation is turned into what it used,
\* if its schedule is still in the manifest.
LEMMA RunSettles ==
  ASSUME ManifestInv, clock' \in Nat, UNCHANGED <<pruned, occurred>>,
         NEW n \in DOMAIN runs, runs[n].status = "running",
         NEW q \in RunRecords, q.id = runs[n].id, q.schedule = runs[n].schedule,
         q.status # "running", q.reserved = runs[n].reserved, q.reviewed = runs[n].reviewed,
         q.used <= Tokens[q.schedule] + Overrun,
         runs' \in Seq(RunRecords), DOMAIN runs' = DOMAIN runs,
         runs'[n] = q, \A m \in DOMAIN runs \ {n} : runs'[m] = runs[m],
         schedule' \in [Schedules -> ScheduleRecords],
         \A s \in Schedules : s # q.schedule => schedule'[s] = schedule[s],
         schedule'[q.schedule].at = schedule[q.schedule].at,
         schedule[q.schedule].at = "present" =>
           /\ schedule'[q.schedule].used = schedule[q.schedule].used + q.used
           /\ schedule'[q.schedule].reserved =
                schedule[q.schedule].reserved - runs[n].reserved,
         schedule'[q.schedule].enabled =>
           /\ schedule[q.schedule].enabled
           /\ q.status \notin Unsettled
  PROVE  ManifestInv'
<1> DEFINE r == runs[n]
           A == ToSet(runs)
           B == ToSet(runs')
<1>1. /\ r \in A /\ r \in RunRecords
      /\ OnlyRuns(r, A)
      /\ A \in SUBSET RunRecords /\ IsFiniteSet(A) /\ OneEach(A)
  BY OneRunsAsSet
<1>2. runs \in Seq(RunRecords) /\ NumberedRows(runs, occurred)
  BY DEF ManifestInv, ManifestTypes
<1>3. /\ runs' \in Seq(RunRecords) /\ NumberedRows(runs', occurred)
      /\ DOMAIN runs' = DOMAIN runs
      /\ runs'[n] = q /\ \A m \in DOMAIN runs \ {n} : runs'[m] = runs[m]
      /\ B = (A \ {r}) \cup {q}
  BY <1>2, ListReplaced
<1>4. q.schedule \in Schedules /\ q.used \in Nat /\ r.reserved \in Nat
  BY <1>1 DEF RunRecords
<1>5. \A s \in Schedules :
        /\ Live(A, s) = (IF s = r.schedule THEN {r} ELSE {})
        /\ Live(B, s) = {}
        /\ UsedBy(Over(A, s)) \in Nat
        /\ UsedBy(Over(B, s)) = UsedBy(Over(A, s)) + (IF s = r.schedule THEN q.used ELSE 0)
  <2> HIDE DEF A, B, r
  <2>1. q.schedule = r.schedule /\ q.id = r.id
    BY DEF r
  <2>2. B = (A \ {r}) \cup {q}
    BY <1>3
  <2>3. ASSUME NEW s \in Schedules
        PROVE  SettledIn(A, B, r, q, s)
    BY <1>1, <2>1, <2>2, OccurrenceSettled
  <2> QED BY <2>3 DEF SettledIn
<1>6. ManifestTypes'
  BY <1>3 DEF ManifestInv, ManifestTypes
<1>7. NumberedRows(runs, occurred)' /\ OneRuns'
  <2>1. \A m \in DOMAIN runs' : runs'[m].status # "running"
    BY <1>3 DEF ManifestInv, OneRuns
  <2> QED BY <1>3, <2>1 DEF OneRuns, NumberedRows
<1>8. RowsFit' /\ RecordsFit'
  <2>1. \A m \in DOMAIN runs : runs[m].schedule \in Schedules
    BY <1>2, RowsAsSet DEF RunRecords
  <2>2. \A s \in Schedules : schedule'[s].at = schedule[s].at
    BY <1>4
  <2>3. RowsFit'
    <3> SUFFICES ASSUME NEW m \in DOMAIN runs'
                 PROVE  /\ runs'[m].reserved = Tokens[runs'[m].schedule]
                        /\ runs'[m].reviewed => runs'[m].status # "running"
                        /\ schedule'[runs'[m].schedule].at # "absent"
      BY DEF RowsFit
    <3>1. CASE m = n
      BY <1>3, <1>4, <2>1, <2>2, <3>1 DEF ManifestInv, RowsFit
    <3>2. CASE m # n
      BY <1>3, <2>1, <2>2, <3>2 DEF ManifestInv, RowsFit
    <3> QED BY <3>1, <3>2
  <2>4. RecordsFit'
    BY <2>2 DEF ManifestInv, RecordsFit
  <2> QED BY <2>3, <2>4
<1>9. ASSUME NEW s \in Schedules, schedule'[s].at = "present"
      PROVE  /\ Charged(s, schedule'[s], pruned[s], B)
             /\ schedule'[s].used <= TotalTokens[s] + Overrun
  <2>0. /\ TotalTokens[s] \in Nat /\ Overrun \in Nat /\ Tokens[s] \in Nat
        /\ schedule[s].used \in Nat /\ schedule[s].reserved \in Int /\ pruned[s] \in Nat
    BY ScheduleShape DEF ManifestInv, ManifestTypes, ScheduleRecords
  <2>1. ReservedBy(Live(B, s)) = 0
    BY <1>5, SumsOfNone
  <2>2. CASE s = q.schedule
    <3>1. schedule[s].at = "present" /\ Live(A, s) = {r}
      BY <1>5, <1>9, <2>2
    <3>2. Charged(s, schedule[s], pruned[s], A)
      BY <3>1, ChargedBySet DEF ManifestInv
    <3>3. schedule[s].reserved = r.reserved
      BY <1>1, <3>1, <3>2, ReservedOfOne DEF Charged
    <3>4. schedule'[s].reserved = 0 /\ schedule'[s].used = schedule[s].used + q.used
      BY <1>4, <2>0, <2>2, <3>1, <3>3, SMTT(60)
    <3>5. schedule[s].used = pruned[s] + UsedBy(Over(A, s))
      BY <3>2 DEF Charged
    <3>6. UsedBy(Over(B, s)) = UsedBy(Over(A, s)) + q.used /\ UsedBy(Over(A, s)) \in Nat
      BY <1>5, <2>2
    <3>7. schedule[s].used + Tokens[s] <= TotalTokens[s]
      BY <3>1 DEF ManifestInv, InBudget
    <3>8. schedule'[s].used <= TotalTokens[s] + Overrun
      <4>1. q.used <= Tokens[s] + Overrun
        BY <2>2
      <4> DEFINE old == schedule[s].used
                 new == schedule'[s].used
                 limit == TotalTokens[s]
                 share == Tokens[s]
      <4>2. /\ old \in Nat /\ limit \in Nat /\ share \in Nat /\ new = old + q.used
            /\ old + share <= limit /\ q.used <= share + Overrun
            /\ q.used \in Nat /\ Overrun \in Nat
        BY <1>4, <2>0, <3>4, <3>7, <4>1
      <4> HIDE DEF old, new, limit, share
      <4>3. new <= limit + Overrun
        BY <4>2
      <4> QED BY <4>3 DEF new, limit
    <3>9. schedule'[s].used = pruned[s] + UsedBy(Over(B, s))
      BY <1>4, <2>0, <3>4, <3>5, <3>6
    <3> QED BY <2>1, <3>4, <3>8, <3>9 DEF Charged
  <2>3. CASE s # q.schedule
    <3>1. schedule'[s] = schedule[s] /\ Live(A, s) = {} /\ Live(B, s) = {}
      BY <1>5, <2>3
    <3>2. Charged(s, schedule[s], pruned[s], A) /\ schedule[s].used <= TotalTokens[s] + Overrun
      BY <1>9, <3>1, ChargedBySet DEF ManifestInv, InBudget
    <3>3. UsedBy(Over(B, s)) = UsedBy(Over(A, s))
      <4>1. /\ UsedBy(Over(A, s)) \in Nat
            /\ UsedBy(Over(B, s)) = UsedBy(Over(A, s)) + 0
        BY <1>5, <2>3
      <4> QED BY <4>1
    <3> QED BY <3>1, <3>2, <3>3 DEF Charged
  <2> QED BY <2>2, <2>3
<1>10. ChargedOnce' /\ InBudget'
  BY <1>5, <1>9, ChargedBySetNext DEF InBudget
<1>11. EnabledIsReviewed'
  <2> SUFFICES ASSUME NEW s \in Schedules, schedule'[s].enabled, NEW m \in DOMAIN runs',
                      runs'[m].schedule = s, runs'[m].status \in Unsettled
               PROVE  runs'[m].reviewed
    BY DEF EnabledIsReviewed
  <2>1. CASE s = q.schedule
    BY <1>3, <2>1 DEF ManifestInv, EnabledIsReviewed
  <2>2. CASE s # q.schedule
    BY <1>3, <2>2 DEF ManifestInv, EnabledIsReviewed
  <2> QED BY <2>1, <2>2
<1> QED BY <1>3, <1>6, <1>7, <1>8, <1>10, <1>11 DEF ManifestInv

\* Review of an outcome.
LEMMA ReviewKeepsManifest ==
  ASSUME ManifestInv, NEW n \in DOMAIN runs, Review(n)
  PROVE  ManifestInv'
<1> DEFINE r == runs[n]
           q == [runs[n] EXCEPT !.reviewed = TRUE]
           A == ToSet(runs)
           B == ToSet(runs')
<1>1. runs \in Seq(RunRecords) /\ NumberedRows(runs, occurred)
  BY DEF ManifestInv, ManifestTypes
<1>2. /\ r \in A /\ r \in RunRecords /\ A \in SUBSET RunRecords /\ IsFiniteSet(A)
      /\ Len(runs) \in Nat /\ DOMAIN runs = 1..Len(runs)
      /\ OneEach(A)
  BY <1>1, RowsAsSet, NumbersTell
<1>3. /\ q \in RunRecords /\ q.id = r.id /\ q.schedule = r.schedule
      /\ q.status = r.status /\ q.used = r.used /\ q.reserved = r.reserved /\ q.reviewed
      /\ r.status # "running"
  BY <1>2 DEF RunRecords, Review, Unsettled
<1>4. runs' = [runs EXCEPT ![n] = q]
  BY <1>1, <1>2, RowsAsSet DEF Review
<1>5. /\ runs' \in Seq(RunRecords) /\ DOMAIN runs' = DOMAIN runs
      /\ runs'[n] = q /\ \A m \in DOMAIN runs \ {n} : runs'[m] = runs[m]
  <2> HIDE DEF q
  <2>1. [runs EXCEPT ![n] = q] \in Seq(RunRecords)
    BY <1>1, <1>2, <1>3, ExceptSeq
  <2> QED BY <1>2, <1>4, <2>1
<1>6. UNCHANGED <<clock, schedule, occurred, pruned>>
  BY DEF Review
<1> HIDE DEF q
<1>7. NumberedRows(runs', occurred) /\ B = (A \ {r}) \cup {q}
  BY <1>1, <1>3, <1>5, ListReplaced
<1>8. \A s \in Schedules : Live(B, s) = Live(A, s) /\ UsedBy(Over(B, s)) = UsedBy(Over(A, s))
  <2> HIDE DEF A, B, r
  <2> TAKE s \in Schedules
  <2>1. q.status # "running"
    BY <1>3
  <2> QED BY <1>2, <1>3, <1>7, <2>1, OccurrenceReviewed
<1>9. ManifestTypes'
  BY <1>5, <1>6 DEF ManifestInv, ManifestTypes
<1>10. OneRuns' /\ RowsFit' /\ RecordsFit' /\ NumberedRows(runs, occurred)'
  <2>1. \A m \in DOMAIN runs :
          /\ runs'[m].status = runs[m].status /\ runs'[m].schedule = runs[m].schedule
          /\ runs'[m].reserved = runs[m].reserved
          /\ runs'[m].reviewed => runs[m].reviewed \/ runs[m].status # "running"
    BY <1>3, <1>5
  <2>2. OneRuns'
    BY <1>5, <2>1 DEF ManifestInv, OneRuns
  <2>3. RowsFit'
    BY <1>5, <1>6, <2>1 DEF ManifestInv, RowsFit
  <2>4. RecordsFit'
    BY <1>6 DEF ManifestInv, RecordsFit
  <2>5. NumberedRows(runs, occurred)'
    BY <1>6, <1>7 DEF NumberedRows
  <2> QED BY <2>2, <2>3, <2>4, <2>5
<1>11. ChargedOnce' /\ InBudget'
  <2>1. \A s \in Schedules : schedule[s].at = "present" =>
          Charged(s, schedule[s], pruned[s], B)
    BY <1>8, ChargedBySet DEF ManifestInv, Charged
  <2>2. ChargedOnce'
    BY <1>6, <2>1, ChargedBySetNext
  <2>3. InBudget'
    BY <1>6, <1>8 DEF ManifestInv, InBudget
  <2> QED BY <2>2, <2>3
<1>12. EnabledIsReviewed'
  <2> SUFFICES ASSUME NEW s \in Schedules, schedule[s].enabled, NEW m \in DOMAIN runs,
                      runs'[m].schedule = s, runs'[m].status \in Unsettled
               PROVE  runs'[m].reviewed
    BY <1>5, <1>6 DEF EnabledIsReviewed
  <2>1. CASE m = n
    BY <1>3, <1>5, <2>1
  <2>2. CASE m # n
    BY <1>5, <2>2 DEF ManifestInv, EnabledIsReviewed
  <2> QED BY <2>1, <2>2
<1> QED BY <1>9, <1>10, <1>11, <1>12 DEF ManifestInv

\* A new tenure takes over what an earlier worker left running.
LEMMA TakeOverKeepsManifest ==
  ASSUME ManifestInv, TakeOver, UNCHANGED <<clock, pruned, occurred>>
  PROVE  ManifestInv'
<1>1. /\ runs \in Seq(RunRecords) /\ NumberedRows(runs, occurred)
      /\ schedule \in [Schedules -> ScheduleRecords] /\ clock \in Nat
  BY DEF ManifestInv, ManifestTypes
<1>2. /\ Len(runs) \in Nat /\ DOMAIN runs = 1..Len(runs)
      /\ \A n \in DOMAIN runs : runs[n] \in RunRecords
      /\ \A x \in ToSet(runs) : \E n \in DOMAIN runs : x = runs[n]
  BY <1>1, RowsAsSet
<1>3. CASE \A n \in DOMAIN runs : runs[n].status # "running"
  <2>1. \A s : Orphans(s) = {}
    BY <1>2, <1>3, ChargedBySet DEF Live, Of
  <2>2. schedule' = schedule
    BY <1>1, <2>1 DEF TakeOver
  <2>3. runs' = runs
    <3>1. runs \in [1..Len(runs) -> RunRecords]
      BY <1>1, LenProperties
    <3> QED BY <1>2, <1>3, <3>1 DEF TakeOver
  <2> QED BY <1>1, <2>2, <2>3, RecordsChange DEF ManifestInv, RecordsFit
<1>4. CASE \E n \in DOMAIN runs : runs[n].status = "running"
  <2>1. PICK n \in DOMAIN runs : runs[n].status = "running"
    BY <1>4
  <2> DEFINE r == runs[n]
             q == [runs[n] EXCEPT !.status = "execution-uncertain", !.used = runs[n].reserved]
  <2>2. /\ OnlyRuns(r, ToSet(runs)) /\ r \in RunRecords
    BY <2>1, OneRunsAsSet
  <2>3. /\ r.schedule \in Schedules /\ r.reserved = Tokens[r.schedule] /\ r.reserved \in Nat
        /\ Tokens[r.schedule] <= Tokens[r.schedule] + Overrun
    <3>1. r.schedule \in Schedules /\ r.reserved = Tokens[r.schedule] /\ r.reserved \in Nat
      BY <2>2 DEF ManifestInv, RowsFit, RunRecords
    <3>2. Overrun \in Nat
      BY ScheduleShape
    <3> QED BY <3>1, <3>2
  <2>4. /\ q \in RunRecords /\ q.id = r.id /\ q.schedule = r.schedule
        /\ q.status = "execution-uncertain" /\ q.used = r.reserved /\ q.reserved = r.reserved
        /\ q.reviewed = r.reviewed
    BY <2>2 DEF RunRecords, Statuses, Unsettled
  <2>5. \A s \in Schedules : Orphans(s) = (IF s = r.schedule THEN {r} ELSE {})
    BY <2>2, ChargedBySet DEF OnlyRuns, Live, Of
  <2>6. ReservedBy({r}) = r.reserved
    BY <2>2, ReservedOfOne
  <2>7. /\ DOMAIN runs' = DOMAIN runs /\ runs'[n] = q
        /\ \A m \in DOMAIN runs \ {n} : runs'[m] = runs[m]
    <3>1. \A m \in DOMAIN runs \ {n} : runs[m].status # "running"
      BY <2>1 DEF ManifestInv, OneRuns
    <3> QED BY <2>1, <3>1 DEF TakeOver
  <2>8. runs' \in Seq(RunRecords)
    <3>1. runs' = [m \in 1..Len(runs) |-> runs'[m]]
      BY <1>2 DEF TakeOver
    <3>2. \A m \in 1..Len(runs) : runs'[m] \in RunRecords
      BY <1>2, <2>4, <2>7
    <3>3. runs' \in [1..Len(runs) -> RunRecords]
      BY <3>1, <3>2
    <3> QED BY <1>2, <3>3, SeqDef
  <2> HIDE DEF q
  <2>9. \A s \in Schedules : s # r.schedule => schedule'[s] = schedule[s]
    BY <2>5 DEF TakeOver
  <2>10. /\ schedule'[r.schedule].at = schedule[r.schedule].at
         /\ schedule'[r.schedule] \in ScheduleRecords
         /\ schedule[r.schedule].at = "present" =>
              /\ schedule'[r.schedule].used = schedule[r.schedule].used + r.reserved
              /\ schedule'[r.schedule].reserved = schedule[r.schedule].reserved - r.reserved
         /\ ~schedule'[r.schedule].enabled
    <3> DEFINE s == r.schedule
    <3>1. CASE schedule[s].at = "present"
      <4>1. Orphans(s) = {r} /\ Present(s)
        BY <2>3, <2>5, <3>1 DEF Present
      <4>2. schedule'[s] = [schedule[s] EXCEPT
                              !.used = @ + ReservedBy(Orphans(s)),
                              !.reserved = MaxOf0(@, ReservedBy(Orphans(s))),
                              !.enabled = FALSE]
        BY <2>3, <4>1 DEF TakeOver
      <4>3. schedule'[s] = [schedule[s] EXCEPT !.used = @ + r.reserved,
                              !.reserved = MaxOf0(@, r.reserved), !.enabled = FALSE]
        BY <2>6, <4>1, <4>2
      <4>4. schedule[s].reserved = r.reserved
        BY <2>3, <2>6, <3>1, <4>1, ChargedBySet DEF ManifestInv, Charged
      <4>5. schedule[s] \in ScheduleRecords
        BY <1>1, <2>3
      <4>6. MaxOf0(r.reserved, r.reserved) = 0 /\ r.reserved - r.reserved = 0
        BY <2>3 DEF MaxOf0
      <4>7. schedule'[s] = [schedule[s] EXCEPT !.used = @ + r.reserved,
                              !.reserved = 0, !.enabled = FALSE]
        BY <4>3, <4>4, <4>6
      <4> DEFINE old == schedule[s]
                 new == schedule'[s]
      <4>8. old.used \in Nat /\ r.reserved \in Nat /\ old \in ScheduleRecords
        BY <2>3, <4>5 DEF ScheduleRecords
      <4>9. new = [old EXCEPT !.used = old.used + r.reserved, !.reserved = 0, !.enabled = FALSE]
        BY <4>7
      <4> HIDE DEF old, new, r
      <4>10. /\ new.at = old.at /\ new.enabled = FALSE
             /\ new.used = old.used + r.reserved /\ new.reserved = 0
        BY <4>8, <4>9 DEF ScheduleRecords
      <4>11. old.used + r.reserved \in Nat /\ 0 \in Int /\ FALSE \in BOOLEAN
        BY <4>8
      <4>12. new \in ScheduleRecords
        BY <4>8, <4>9, <4>11 DEF ScheduleRecords
      <4> QED BY <4>4, <4>6, <4>10, <4>12 DEF old, new
    <3>2. CASE schedule[s].at # "present"
      <4>1. schedule'[s] = schedule[s]
        BY <2>3, <3>2 DEF TakeOver, Present
      <4>2. ~schedule[s].enabled
        BY <2>3, <3>2 DEF ManifestInv, RecordsFit
      <4> QED BY <1>1, <2>3, <3>2, <4>1, <4>2
    <3> QED BY <3>1, <3>2
  <2>11. schedule' \in [Schedules -> ScheduleRecords]
    <3>1. \A s \in Schedules : schedule'[s] \in ScheduleRecords
      BY <1>1, <2>9, <2>10
    <3>2. schedule' = [s \in Schedules |-> schedule'[s]]
      BY DEF TakeOver
    <3> QED BY <3>1, <3>2
  <2> QED BY <1>1, <2>1, <2>3, <2>4, <2>7, <2>8, <2>9, <2>10, <2>11, RunSettles
<1> QED BY <1>3, <1>4

\* finish: the occurrence of the worker that settles it is the row that runs.
LEMMA OwnedRow ==
  ASSUME ManifestInv, NEW w, NEW id, Owned(w, id)
  PROVE  LET n == CHOOSE n \in At(id) : TRUE IN
         /\ n \in DOMAIN runs /\ runs[n].id = id /\ runs[n].status = "running"
         /\ runs[n].schedule \in Schedules /\ schedule[runs[n].schedule].at = "present"
         /\ runs[n].owner = Owner(w) /\ worker.by = w
         /\ \A m \in DOMAIN runs : (runs[m].id = id => m = n)
<1>1. PICK m \in At(id) : /\ runs[m].status = "running" /\ runs[m].owner = Owner(w)
                          /\ worker.by = w /\ Present(runs[m].schedule)
  BY DEF Owned
<1>2. \A k \in At(id) : k = m
  BY <1>1 DEF At, ManifestInv, NumberedRows
<1>3. (CHOOSE n \in At(id) : TRUE) = m
  BY <1>1, <1>2
<1>4. m \in DOMAIN runs /\ runs[m] \in RunRecords /\ runs[m].id = id
  BY <1>1, RowsAsSet DEF At, ManifestInv, ManifestTypes
<1> QED BY <1>1, <1>2, <1>3, <1>4 DEF Present, RunRecords, At

LEMMA SettledKeepsManifest ==
  ASSUME ManifestInv, UNCHANGED <<clock, pruned, occurred>>,
         NEW w, NEW id, Owned(w, id),
         NEW status \in {"completed", "failed", "execution-uncertain"}, NEW used \in Nat,
         \A m \in DOMAIN runs : runs[m].id = id => used <= Tokens[runs[m].schedule] + Overrun,
         Settled(w, id, status, used)
  PROVE  ManifestInv'
<1> DEFINE n == CHOOSE n \in At(id) : TRUE
           r == runs[n]
           s == r.schedule
           q == [r EXCEPT !.status = status, !.used = used]
<1>1. /\ runs \in Seq(RunRecords) /\ clock \in Nat
      /\ schedule \in [Schedules -> ScheduleRecords]
  BY DEF ManifestInv, ManifestTypes
<1>2. /\ n \in DOMAIN runs /\ r.id = id /\ r.status = "running"
      /\ s \in Schedules /\ schedule[s].at = "present"
  BY OwnedRow, SMTT(60)
<1>3. /\ runs' = [runs EXCEPT ![n].status = status, ![n].used = used]
      /\ schedule' = [schedule EXCEPT ![s].used = schedule[s].used + used,
           ![s].reserved = @ - r.reserved,
           ![s].enabled = @ /\ status = "completed" /\ schedule[s].count < MaxOccurrences[s]
                            /\ schedule[s].used + used + Tokens[s] <= TotalTokens[s]
                            /\ clock < schedule[s].expires]
  BY DEF Settled
<1> HIDE DEF n
<1>4. /\ DOMAIN runs = 1..Len(runs) /\ Len(runs) \in Nat /\ r \in RunRecords
  BY <1>1, <1>2, RowsAsSet
<1>5. q \in RunRecords /\ q.id = r.id /\ q.schedule = s /\ q.status = status
      /\ q.used = used /\ q.reserved = r.reserved /\ q.reviewed = r.reviewed
  <2> HIDE DEF r
  <2>1. status \in Statuses
    BY DEF Statuses, Unsettled
  <2> QED BY <1>4, <2>1 DEF RunRecords, s
<1>6. /\ runs' \in Seq(RunRecords) /\ DOMAIN runs' = DOMAIN runs
      /\ runs'[n] = q /\ \A m \in DOMAIN runs \ {n} : runs'[m] = runs[m]
  <2>1. runs' = [runs EXCEPT ![n] = q]
    BY <1>2, <1>3
  <2> HIDE DEF q
  <2>2. [runs EXCEPT ![n] = q] \in Seq(RunRecords)
    BY <1>1, <1>2, <1>4, <1>5, ExceptSeq
  <2> QED BY <1>2, <2>1, <2>2
<1> DEFINE old == schedule[s]
           new == schedule'[s]
           on == old.enabled /\ status = "completed" /\ old.count < MaxOccurrences[s]
                   /\ old.used + used + Tokens[s] <= TotalTokens[s] /\ clock < old.expires
<1>7. /\ \A t \in Schedules : t # s => schedule'[t] = schedule[t]
      /\ new = [old EXCEPT !.used = old.used + used, !.reserved = old.reserved - r.reserved,
                           !.enabled = on]
      /\ schedule' = [t \in Schedules |-> schedule'[t]]
  BY <1>1, <1>2, <1>3
<1>8. old \in ScheduleRecords /\ r.reserved \in Nat
  BY <1>1, <1>2, <1>4 DEF RunRecords
<1>9. on \in BOOLEAN /\ (on => old.enabled /\ status = "completed")
  OBVIOUS
<1> HIDE DEF old, new, on, q, r, s
<1>10. /\ new.at = old.at /\ new.used = old.used + used
       /\ new.reserved = old.reserved - r.reserved /\ new.enabled = on
  BY <1>7, <1>8 DEF ScheduleRecords
<1>11. new \in ScheduleRecords
  <2>1. old.used + used \in Nat /\ old.reserved - r.reserved \in Int
    BY <1>8 DEF ScheduleRecords
  <2> QED BY <1>7, <1>8, <1>9, <2>1 DEF ScheduleRecords
<1>12. schedule' \in [Schedules -> ScheduleRecords]
  BY <1>1, <1>7, <1>11 DEF new
<1>13. q.status # "running" /\ q.used <= Tokens[q.schedule] + Overrun
  BY <1>2, <1>5 DEF r, s
<1>14. new.enabled => old.enabled /\ q.status \notin Unsettled
  BY <1>5, <1>9, <1>10 DEF Unsettled
<1>15. /\ runs[n].status = "running" /\ q.id = runs[n].id /\ q.schedule = runs[n].schedule
       /\ q.reserved = runs[n].reserved /\ q.reviewed = runs[n].reviewed
  BY <1>2, <1>5 DEF r, s
<1>16. /\ \A t \in Schedules : t # q.schedule => schedule'[t] = schedule[t]
       /\ schedule'[q.schedule].at = schedule[q.schedule].at
       /\ schedule'[q.schedule].used = schedule[q.schedule].used + q.used
       /\ schedule'[q.schedule].reserved = schedule[q.schedule].reserved - runs[n].reserved
       /\ schedule'[q.schedule].enabled =>
            schedule[q.schedule].enabled /\ q.status \notin Unsettled
  BY <1>5, <1>7, <1>10, <1>14 DEF old, new, r
<1> QED BY <1>1, <1>2, <1>5, <1>6, <1>12, <1>13, <1>15, <1>16, RunSettles

\* begin forgets the oldest occurrence that may be forgotten, if there are too
\* many, and keeps what it used.
Kept == IF Full THEN RemoveAt(runs, CHOOSE n \in Forgettable : \A m \in Forgettable : n <= m)
        ELSE runs
PastUse == IF Full
           THEN LET old == CHOOSE n \in Forgettable : \A m \in Forgettable : n <= m IN
                [pruned EXCEPT ![runs[old].schedule] = @ + runs[old].used]
           ELSE pruned

LEMMA OldestIsForgettable ==
  ASSUME ManifestInv, Forgettable # {}
  PROVE  LET old == CHOOSE n \in Forgettable : \A m \in Forgettable : n <= m IN
         old \in Forgettable /\ old \in DOMAIN runs /\ runs[old].status # "running"
<1>1. runs \in Seq(RunRecords)
  BY DEF ManifestInv, ManifestTypes
<1>2. Forgettable \in SUBSET Nat
  BY <1>1, RowsAsSet DEF Forgettable
<1>3. \E n \in Forgettable : \A m \in Forgettable : n <= m
  BY <1>2, LeastNumber
<1> DEFINE old == CHOOSE n \in Forgettable : \A m \in Forgettable : n <= m
<1>4. old \in Forgettable
  BY <1>3
<1> HIDE DEF old
<1>5. old \in DOMAIN runs /\ runs[old].status # "running"
  BY <1>4 DEF Forgettable, ManifestInv, RowsFit
<1> QED BY <1>4, <1>5 DEF old

LEMMA ForgettingKeepsUse ==
  ASSUME ManifestInv, Full => Forgettable # {},
         NEW past, past = PastUse
  PROVE  /\ Kept \in Seq(RunRecords) /\ NumberedRows(Kept, occurred)
         /\ ToSet(Kept) \subseteq ToSet(runs)
         /\ past \in [Schedules -> Nat]
         /\ \A s \in Schedules :
              /\ past[s] + UsedBy(Over(ToSet(Kept), s)) = pruned[s] + UsedBy(Over(ToSet(runs), s))
              /\ schedule[s].at = "absent" => past[s] = 0
<1>1. /\ runs \in Seq(RunRecords) /\ NumberedRows(runs, occurred)
      /\ pruned \in [Schedules -> Nat]
  BY DEF ManifestInv, ManifestTypes
<1>2. CASE ~Full
  BY <1>1, <1>2 DEF Kept, PastUse, ManifestInv, RecordsFit
<1>3. CASE Full
  <2> DEFINE old == CHOOSE n \in Forgettable : \A m \in Forgettable : n <= m
             r == runs[old]
             A == ToSet(runs)
  <2>1. old \in DOMAIN runs /\ r.status # "running"
    BY <1>3, OldestIsForgettable
  <2>2. Kept = RemoveAt(runs, old) /\ past = [pruned EXCEPT ![r.schedule] = @ + r.used]
    BY <1>3 DEF Kept, PastUse
  <2> HIDE DEF old
  <2>3. /\ Kept \in Seq(RunRecords) /\ NumberedRows(Kept, occurred)
        /\ ToSet(Kept) = A \ {r}
    BY <1>1, <2>1, <2>2, ListShortened
  <2>4. r \in RunRecords /\ r \in A /\ A \in SUBSET RunRecords /\ IsFiniteSet(A)
    BY <1>1, <2>1, RowsAsSet
  <2>5. r.schedule \in Schedules /\ r.used \in Nat
    BY <2>4 DEF RunRecords
  <2>6. schedule[r.schedule].at # "absent"
    BY <2>1 DEF ManifestInv, RowsFit
  <2> HIDE DEF r
  <2> DEFINE at == r.schedule
             more == pruned[at] + r.used
  <2>7. past \in [Schedules -> Nat] /\ \A s \in Schedules :
          past[s] = pruned[s] + (IF s = r.schedule THEN r.used ELSE 0) /\ pruned[s] \in Nat
    <3>1. at \in Schedules /\ more \in Nat /\ pruned[at] \in Nat
      BY <1>1, <2>5
    <3>2. past = [pruned EXCEPT ![at] = more]
      BY <2>2
    <3>3. more = pruned[at] + r.used
      OBVIOUS
    <3>4. at = r.schedule
      OBVIOUS
    <3> HIDE DEF at, more
    <3>5. past \in [Schedules -> Nat]
      BY <1>1, <3>1, <3>2
    <3>6. ASSUME NEW s \in Schedules
          PROVE  past[s] = pruned[s] + (IF s = r.schedule THEN r.used ELSE 0) /\ pruned[s] \in Nat
      <4>1. pruned[s] \in Nat
        BY <1>1
      <4>2. CASE s = at
        BY <1>1, <3>1, <3>2, <3>3, <3>4, <4>1, <4>2
      <4>3. CASE s # at
        BY <1>1, <3>1, <3>2, <3>4, <4>1, <4>3
      <4> QED BY <4>2, <4>3
    <3> QED BY <3>5, <3>6
  <2>8. ASSUME NEW s \in Schedules
        PROVE  /\ past[s] + UsedBy(Over(ToSet(Kept), s)) = pruned[s] + UsedBy(Over(A, s))
               /\ schedule[s].at = "absent" => past[s] = 0
    <3>1. /\ UsedBy(Over(A \ {r}, s)) \in Nat
          /\ UsedBy(Over(A, s)) =
               UsedBy(Over(A \ {r}, s)) + (IF s = r.schedule THEN r.used ELSE 0)
      <4> HIDE DEF A
      <4>1. r.status # "running"
        BY <2>1 DEF r
      <4> QED BY <2>4, <4>1, OccurrenceForgotten
    <3>2. past[s] = pruned[s] + (IF s = r.schedule THEN r.used ELSE 0) /\ pruned[s] \in Nat
      BY <2>7
    <3>3. UsedBy(Over(ToSet(Kept), s)) = UsedBy(Over(A \ {r}, s))
      BY <2>3
    <3>4. past[s] + UsedBy(Over(ToSet(Kept), s)) = pruned[s] + UsedBy(Over(A, s))
      <4> HIDE DEF A
      <4> QED BY <2>5, <3>1, <3>2, <3>3
    <3>5. schedule[s].at = "absent" => past[s] = 0
      BY <2>6, <3>2 DEF ManifestInv, RecordsFit
    <3> QED BY <3>4, <3>5
  <2> QED BY <2>3, <2>7, <2>8
<1> QED BY <1>2, <1>3

\* begin: an occurrence is added that may use what its schedule can still pay.
LEMMA BeginKeepsManifest ==
  ASSUME ManifestInv, NEW w, NEW fails, BeginWork(w, fails), job[w].schedule \in Schedules,
         Owner(w) \in Nat
  PROVE  /\ ManifestInv'
         /\ \A n \in DOMAIN runs' :
              runs'[n].id = occurred + 1 \/ \E m \in DOMAIN runs : runs'[n] = runs[m]
         /\ \E n \in DOMAIN runs' :
              /\ runs'[n].id = occurred + 1 /\ runs'[n].status = "running"
              /\ runs'[n].owner = Owner(w) /\ runs'[n].schedule = job[w].schedule
<1> DEFINE s == job[w].schedule
           A == ToSet(runs)
           K == ToSet(Kept)
           q == [id |-> occurred + 1, schedule |-> s, status |-> "running",
                 reserved |-> Tokens[s], used |-> 0, owner |-> Owner(w), reviewed |-> FALSE]
<1>1. /\ Admissible(w, s) /\ (Full => Forgettable # {})
      /\ occurred' = occurred + 1 /\ UNCHANGED clock
      /\ runs' = Append(Kept, q)
      /\ schedule' = [schedule EXCEPT ![s].next = clock + Cadence, ![s].count = @ + 1,
                                      ![s].reserved = @ + Tokens[s]]
      /\ pruned' = PastUse
  BY DEF BeginWork, Kept, PastUse
<1>2. /\ runs \in Seq(RunRecords) /\ NumberedRows(runs, occurred) /\ occurred \in Nat
      /\ schedule \in [Schedules -> ScheduleRecords] /\ clock \in Nat
      /\ pruned \in [Schedules -> Nat]
  BY SMTT(60) DEF ManifestInv, ManifestTypes
<1>3. /\ s \in Schedules /\ schedule[s].at = "present"
      /\ schedule[s].used + schedule[s].reserved + Tokens[s] <= TotalTokens[s]
      /\ \A n \in DOMAIN runs : runs[n].status # "running"
  BY <1>1 DEF Admissible, Affords, Present
<1>4. /\ Tokens[s] \in Nat /\ TotalTokens[s] \in Nat /\ Overrun \in Nat /\ Cadence \in Nat
  BY <1>3, ScheduleShape
<1>5. q \in RunRecords /\ q.id = occurred + 1 /\ q.status = "running" /\ q.schedule = s
      /\ q.owner = Owner(w) /\ q.reserved = Tokens[s] /\ q.reviewed = FALSE
  BY <1>2, <1>3, <1>4 DEF RunRecords, Statuses
<1>6. /\ Kept \in Seq(RunRecords) /\ NumberedRows(Kept, occurred) /\ K \subseteq A
      /\ pruned' \in [Schedules -> Nat]
      /\ \A t \in Schedules :
           /\ pruned'[t] + UsedBy(Over(K, t)) = pruned[t] + UsedBy(Over(A, t))
           /\ schedule[t].at = "absent" => pruned'[t] = 0
  BY <1>1, ForgettingKeepsUse
<1> HIDE DEF q
<1>6a. GrownBy(runs', Kept, q, occurred)
  BY <1>1, <1>2, <1>5, <1>6, ListGrown
<1>7. /\ runs' \in Seq(RunRecords) /\ NumberedRows(runs', occurred + 1)
      /\ ToSet(runs') = K \cup {q} /\ q \notin K
      /\ \A m \in DOMAIN Kept : m \in DOMAIN runs' /\ runs'[m] = Kept[m]
      /\ \A m \in DOMAIN runs' \ DOMAIN Kept : runs'[m] = q
      /\ \E m \in DOMAIN runs' : runs'[m] = q
  BY <1>6a DEF GrownBy
<1>8. \A x \in A : x.status # "running"
  BY <1>2, <1>3, RowsAsSet
<1>9. \A m \in DOMAIN Kept : \E n \in DOMAIN runs : Kept[m] = runs[n]
  BY <1>2, <1>6, RowsAsSet
<1>10. K \in SUBSET RunRecords
  BY <1>2, <1>6, RowsAsSet
<1> HIDE DEF s
<1>11. /\ \A t \in Schedules : t # s => schedule'[t] = schedule[t]
       /\ schedule'[s] = [schedule[s] EXCEPT !.next = clock + Cadence, !.count = @ + 1,
                                             !.reserved = @ + Tokens[s]]
       /\ schedule' = [t \in Schedules |-> schedule'[t]]
  BY <1>1, <1>2, <1>3
<1> DEFINE prior == schedule[s]
           new == schedule'[s]
<1>12. prior \in ScheduleRecords
  BY <1>2, <1>3
<1>13. new = [prior EXCEPT !.next = clock + Cadence, !.count = prior.count + 1,
                           !.reserved = prior.reserved + Tokens[s]]
  BY <1>11
<1> HIDE DEF prior, new
<1>14. /\ new.at = prior.at /\ new.used = prior.used /\ new.enabled = prior.enabled
       /\ new.reserved = prior.reserved + Tokens[s]
  BY <1>12, <1>13 DEF ScheduleRecords
<1>15. new \in ScheduleRecords
  <2>1. prior.count \in Nat /\ prior.reserved \in Int
    BY <1>12 DEF ScheduleRecords
  <2> DEFINE a == clock + Cadence
             b == prior.count + 1
             c == prior.reserved + Tokens[s]
  <2>2. a \in Nat
    BY <1>2, <1>4
  <2>3. b \in Nat
    BY <2>1
  <2>4. c \in Int
    BY <1>4, <2>1
  <2>5. new = [prior EXCEPT !.next = a, !.count = b, !.reserved = c]
    BY <1>13
  <2> HIDE DEF a, b, c
  <2> QED BY <1>12, <2>2, <2>3, <2>4, <2>5 DEF ScheduleRecords
<1>16. ManifestTypes'
  <2>1. schedule' \in [Schedules -> ScheduleRecords]
    BY <1>2, <1>11, <1>15 DEF new
  <2> QED BY <1>1, <1>2, <1>6, <1>7, <2>1, SMTT(60) DEF ManifestTypes
<1>17. OneRuns'
  <2>1. \A m \in DOMAIN Kept : Kept[m].status # "running"
    BY <1>3, <1>9
  <2>2. \A m \in DOMAIN runs' : runs'[m].status = "running" => runs'[m] = q
    BY <1>7, <2>1
  <2>3. \A m, n \in DOMAIN runs' : runs'[m].id = runs'[n].id => m = n
    BY <1>7 DEF NumberedRows
  <2> QED BY <2>2, <2>3 DEF OneRuns
<1>18. \A t \in Schedules : /\ schedule'[t].at = schedule[t].at
                            /\ schedule'[t].used = schedule[t].used
                            /\ schedule'[t].enabled = schedule[t].enabled
  BY <1>11, <1>14 DEF prior, new
<1>19. RowsFit' /\ RecordsFit'
  <2>1. \A n \in DOMAIN runs : runs[n].schedule \in Schedules
    BY <1>2, RowsAsSet DEF RunRecords
  <2>2. RowsFit'
    <3> SUFFICES ASSUME NEW m \in DOMAIN runs'
                 PROVE  /\ runs'[m].reserved = Tokens[runs'[m].schedule]
                        /\ runs'[m].reviewed => runs'[m].status # "running"
                        /\ schedule'[runs'[m].schedule].at # "absent"
      BY DEF RowsFit
    <3>1. CASE m \in DOMAIN Kept
      <4>1. PICK n \in DOMAIN runs : runs'[m] = runs[n]
        BY <1>7, <1>9, <3>1
      <4> QED BY <1>18, <2>1, <4>1 DEF ManifestInv, RowsFit
    <3>2. CASE m \notin DOMAIN Kept
      BY <1>3, <1>5, <1>7, <1>18, <3>2
    <3> QED BY <3>1, <3>2
  <2>3. RecordsFit'
    BY <1>6, <1>18 DEF ManifestInv, RecordsFit
  <2> QED BY <2>2, <2>3
<1>20. \A t \in Schedules :
         /\ Live(ToSet(runs'), t) = (IF t = s THEN {q} ELSE {})
         /\ Over(ToSet(runs'), t) = Over(K, t)
         /\ Live(A, t) = {}
  <2> HIDE DEF A, K
  <2>1. \A x \in K : x.status # "running"
    BY <1>6, <1>8
  <2>2. \A t \in Schedules : Live(A, t) = {}
    BY <1>8 DEF Live, Of
  <2>3. \A t \in Schedules : /\ Live(K \cup {q}, t) = (IF t = q.schedule THEN {q} ELSE {})
                             /\ Over(K \cup {q}, t) = Over(K, t)
    <3> TAKE t \in Schedules
    <3>1. q \in RunRecords /\ q.status = "running" /\ q \notin K
      BY <1>5, <1>7
    <3>2. BegunIn(K, q, t)
      BY <1>10, <2>1, <3>1, OccurrenceBegun
    <3> QED BY <3>2 DEF BegunIn
  <2> QED BY <1>5, <1>7, <2>2, <2>3
<1>21. ASSUME NEW t \in Schedules, schedule[t].at = "present"
       PROVE  /\ schedule[t].reserved = 0
              /\ schedule[t].used = pruned[t] + UsedBy(Over(A, t))
              /\ schedule[t].used <= TotalTokens[t] + Overrun
  <2>1. Charged(t, schedule[t], pruned[t], A) /\ Live(A, t) = {}
    BY <1>20, <1>21, ChargedBySet DEF ManifestInv
  <2> QED BY <1>21, <2>1, SumsOfNone DEF Charged, ManifestInv, InBudget
<1>22. ChargedOnce'
  <2> SUFFICES ASSUME NEW t \in Schedules, schedule'[t].at = "present"
               PROVE  Charged(t, schedule'[t], pruned'[t], ToSet(runs'))
    BY ChargedBySetNext
  <2>1. schedule[t].at = "present"
    BY <1>18
  <2>2. schedule'[t].used = pruned'[t] + UsedBy(Over(ToSet(runs'), t))
    BY <1>6, <1>18, <1>20, <1>21, <2>1
  <2>3. CASE t = s
    <3>1. ReservedBy(Live(ToSet(runs'), t)) = Tokens[s]
      BY <1>5, <1>20, <2>3, ReservedOfOne
    <3>2. schedule'[t].reserved = Tokens[s]
      BY <1>4, <1>14, <1>21, <2>1, <2>3 DEF prior, new
    <3> QED BY <2>2, <3>1, <3>2 DEF Charged
  <2>4. CASE t # s
    <3>1. ReservedBy(Live(ToSet(runs'), t)) = 0
      BY <1>20, <2>4, SumsOfNone
    <3>2. schedule'[t].reserved = 0
      BY <1>11, <1>21, <2>1, <2>4
    <3> QED BY <2>2, <3>1, <3>2 DEF Charged
  <2> QED BY <2>3, <2>4
<1>23. InBudget'
  <2> SUFFICES ASSUME NEW t \in Schedules, schedule'[t].at = "present"
               PROVE  /\ Live(ToSet(runs'), t) = {} =>
                           schedule'[t].used <= TotalTokens[t] + Overrun
                      /\ Live(ToSet(runs'), t) # {} =>
                           schedule'[t].used + Tokens[t] <= TotalTokens[t]
    BY DEF InBudget
  <2>1. CASE t = s
    <3>1. schedule[s].reserved = 0 /\ schedule[s].used \in Nat
      BY <1>3, <1>12, <1>21 DEF prior, ScheduleRecords, s
    <3>2. schedule[s].used + Tokens[s] <= TotalTokens[s]
      BY <1>3, <1>4, <3>1
    <3> QED BY <1>3, <1>18, <1>20, <2>1, <3>2
  <2>2. CASE t # s
    BY <1>18, <1>20, <1>21, <2>2
  <2> QED BY <2>1, <2>2
<1>24. EnabledIsReviewed'
  <2> SUFFICES ASSUME NEW t \in Schedules, schedule'[t].enabled, NEW m \in DOMAIN runs',
                      runs'[m].schedule = t, runs'[m].status \in Unsettled
               PROVE  runs'[m].reviewed
    BY DEF EnabledIsReviewed
  <2>1. m \in DOMAIN Kept
    BY <1>5, <1>7 DEF Unsettled
  <2>2. PICK n \in DOMAIN runs : runs'[m] = runs[n]
    BY <1>7, <1>9, <2>1
  <2> QED BY <1>18, <2>2 DEF ManifestInv, EnabledIsReviewed
<1>25. ManifestInv'
  <2>1. NumberedRows(runs, occurred)'
    BY <1>1, <1>7 DEF NumberedRows
  <2> QED BY <1>16, <1>17, <1>19, <1>22, <1>23, <1>24, <2>1 DEF ManifestInv
<1>26. \A n \in DOMAIN runs' :
         runs'[n].id = occurred + 1 \/ \E m \in DOMAIN runs : runs'[n] = runs[m]
  BY <1>5, <1>7, <1>9
<1> QED BY <1>5, <1>7, <1>25, <1>26 DEF s

----------------------------------------------------------------------------
(* The invariant of the workers: a session at work holds the worker's lease  *)
(* and the row of its occurrence, in the tenure in which it began.           *)

JobPlaces == {"none", "survey", "sweep", "admit", "begun", "work", "abandon", "report",
              "recover", "failed"}
AtWork == {"begun", "work", "abandon", "report"}
Jobs == [at : JobPlaces, manual : BOOLEAN, schedule : Schedules \cup {NoSchedule},
         occurrence : Nat, stale : SUBSET Schedules, seen : SUBSET Schedules]
WorkerTypes ==
  /\ worker \in [by : Sessions \cup {NoSession}, tenure : Nat]
  /\ control \in [Sessions -> {"off", "on", "aborted"}]
  /\ job \in [Sessions -> Jobs]
HoldsRow(w) ==
  \E n \in DOMAIN runs :
    /\ runs[n].id = job[w].occurrence /\ runs[n].status = "running"
    /\ runs[n].owner = worker.tenure /\ schedule[runs[n].schedule].at = "present"
JobFits(w) ==
  /\ job[w].at \in AtWork \cup {"admit", "recover"} => job[w].schedule \in Schedules
  /\ job[w].at \in AtWork \cup {"recover"} =>
       /\ job[w].occurrence <= occurred
       /\ \A n \in DOMAIN runs :
            runs[n].id = job[w].occurrence => runs[n].schedule = job[w].schedule
  /\ job[w].at \in AtWork => worker.by = w /\ HoldsRow(w)
WorkInv == WorkerTypes /\ \A w \in Sessions : JobFits(w)

LEMMA WorkInvOwns ==
  ASSUME WorkInv
  PROVE  WorkIsOwned
<1> SUFFICES ASSUME NEW w \in Sessions, job[w].at \in AtWork
             PROVE  /\ worker.by = w
                    /\ \A v \in Sessions \ {w} : job[v].at \notin AtWork
                    /\ Running(job[w].occurrence) /\ Owned(w, job[w].occurrence)
  BY DEF WorkIsOwned, AtWork
<1>1. worker.by = w /\ HoldsRow(w)
  BY DEF WorkInv, JobFits
<1>2. \A v \in Sessions \ {w} : job[v].at \notin AtWork
  BY <1>1 DEF WorkInv, JobFits
<1>3. Owner(w) = worker.tenure
  BY <1>1 DEF Owner
<1>4. Running(job[w].occurrence) /\ Owned(w, job[w].occurrence)
  BY <1>1, <1>3 DEF HoldsRow, Running, Owned, At, Present
<1> QED BY <1>1, <1>2, <1>4

\* A step in which the rows keep their numbers and schedules, and what it may
\* do to the job of a session.
RowsStay ==
  /\ DOMAIN runs' = DOMAIN runs
  /\ \A n \in DOMAIN runs :
       runs'[n].id = runs[n].id /\ runs'[n].schedule = runs[n].schedule
RunningStays ==
  \A n \in DOMAIN runs : runs[n].status = "running" =>
    /\ runs'[n].status = "running" /\ runs'[n].owner = runs[n].owner
    /\ schedule[runs[n].schedule].at = "present" =>
         schedule'[runs[n].schedule].at = "present"
JobGoesOn(w) ==
  /\ job'[w].at \in AtWork \cup {"recover"} =>
       /\ job[w].at \in AtWork \cup {"recover"}
       /\ job'[w].schedule = job[w].schedule /\ job'[w].occurrence = job[w].occurrence
  /\ job'[w].at \in AtWork => job[w].at \in AtWork /\ worker' = worker /\ RunningStays
  /\ job'[w].at = "admit" => job'[w].schedule \in Schedules

LEMMA WorkGoesOn ==
  ASSUME WorkInv, WorkerTypes', RowsStay, occurred' = occurred,
         \A w \in Sessions : JobGoesOn(w)
  PROVE  WorkInv'
<1> SUFFICES ASSUME NEW w \in Sessions
             PROVE  JobFits(w)'
  BY DEF WorkInv
<1>1. JobFits(w) /\ JobGoesOn(w)
  BY DEF WorkInv
<1>2. job'[w].at \in AtWork \cup {"admit", "recover"} => job'[w].schedule \in Schedules
  BY <1>1 DEF JobFits, JobGoesOn
<1>3. job'[w].at \in AtWork \cup {"recover"} =>
        /\ job'[w].occurrence <= occurred'
        /\ \A n \in DOMAIN runs' :
             runs'[n].id = job'[w].occurrence => runs'[n].schedule = job'[w].schedule
  BY <1>1 DEF JobFits, JobGoesOn, RowsStay
<1>4. ASSUME job'[w].at \in AtWork
      PROVE  worker'.by = w /\ HoldsRow(w)'
  <2>1. /\ job[w].at \in AtWork /\ worker' = worker /\ RunningStays
        /\ job'[w].occurrence = job[w].occurrence /\ worker.by = w
    BY <1>1, <1>4 DEF JobFits, JobGoesOn
  <2>2. PICK n \in DOMAIN runs :
          /\ runs[n].id = job[w].occurrence /\ runs[n].status = "running"
          /\ runs[n].owner = worker.tenure /\ schedule[runs[n].schedule].at = "present"
    BY <1>1, <2>1 DEF JobFits, HoldsRow
  <2>3. /\ n \in DOMAIN runs' /\ runs'[n].id = job'[w].occurrence
        /\ runs'[n].status = "running" /\ runs'[n].owner = worker'.tenure
        /\ schedule'[runs'[n].schedule].at = "present"
    BY <2>1, <2>2 DEF RowsStay, RunningStays
  <2> QED BY <2>1, <2>3 DEF HoldsRow
<1> QED BY <1>2, <1>3, <1>4 DEF JobFits

LEMMA OneActs ==
  ASSUME WorkInv, WorkerTypes', RowsStay, occurred' = occurred,
         NEW w \in Sessions, JobGoesOn(w),
         \A v \in Sessions \ {w} :
           job'[v] = job[v] /\ (worker.by = v => worker' = worker /\ RunningStays)
  PROVE  WorkInv'
<1>1. \A v \in Sessions \ {w} : JobGoesOn(v)
  BY DEF JobGoesOn, WorkInv, JobFits
<1>2. \A v \in Sessions : JobGoesOn(v)
  BY <1>1
<1> QED BY <1>2, WorkGoesOn

LEMMA NobodyActs ==
  ASSUME WorkInv, RowsStay, RunningStays, UNCHANGED <<occurred, worker, control, job>>
  PROVE  WorkInv'
<1>1. WorkerTypes'
  BY DEF WorkInv, WorkerTypes
<1>2. \A v \in Sessions : JobGoesOn(v)
  BY DEF JobGoesOn, WorkInv, JobFits
<1> QED BY <1>1, <1>2, WorkGoesOn

\* The end of a job, and of a tenure.
LEMMA ReleasedWorker ==
  ASSUME WorkerTypes, NEW w \in Sessions, Released(w)
  PROVE  /\ worker' \in [by : Sessions \cup {NoSession}, tenure : Nat]
         /\ control' \in [Sessions -> {"off", "on", "aborted"}]
         /\ worker.by # w => worker' = worker
BY DEF WorkerTypes, Released

LEMMA JobOver ==
  ASSUME WorkerTypes, NEW w \in Sessions, JobEnds(w)
  PROVE  /\ WorkerTypes' /\ JobGoesOn(w)
         /\ \A v \in Sessions \ {w} :
              job'[v] = job[v] /\ (worker.by = v => worker' = worker)
<1>1. NoJob \in Jobs /\ NoJob.at = "none"
  BY DEF NoJob, Jobs, JobPlaces
<1>2. /\ job' \in [Sessions -> Jobs] /\ job'[w] = NoJob
      /\ \A v \in Sessions \ {w} : job'[v] = job[v]
  BY <1>1 DEF JobEnds, WorkerTypes
<1>3. JobGoesOn(w)
  BY <1>1, <1>2 DEF JobGoesOn, AtWork
<1>4. Released(w) \/ UNCHANGED <<control, worker>>
  BY DEF JobEnds
<1>5. /\ worker' \in [by : Sessions \cup {NoSession}, tenure : Nat]
      /\ control' \in [Sessions -> {"off", "on", "aborted"}]
      /\ worker.by # w => worker' = worker
  BY <1>4, ReleasedWorker DEF WorkerTypes
<1> QED BY <1>2, <1>3, <1>5 DEF WorkerTypes

\* A job that goes to a place at which it does no work yet, or no more, or that
\* is at work and goes on.
LEMMA JobGoes ==
  ASSUME WorkerTypes, NEW w \in Sessions, NEW place \in JobPlaces, GoesTo(w, place)
  PROVE  /\ job' \in [Sessions -> Jobs] /\ job'[w].at = place
         /\ job'[w].schedule = job[w].schedule /\ job'[w].occurrence = job[w].occurrence
         /\ \A v \in Sessions \ {w} : job'[v] = job[v]
<1>1. job \in [Sessions -> Jobs] /\ job[w] \in Jobs
  BY DEF WorkerTypes
<1>2. [job[w] EXCEPT !.at = place] \in Jobs
  BY <1>1 DEF Jobs
<1> QED BY <1>1, <1>2 DEF GoesTo, Jobs

LEMMA QuietJob ==
  ASSUME WorkInv, UNCHANGED <<clock, schedule, runs, worker, control, occurred, pruned>>,
         NEW w \in Sessions, JobGoesOn(w), job' \in [Sessions -> Jobs],
         \A v \in Sessions \ {w} : job'[v] = job[v]
  PROVE  WorkInv'
<1>1. WorkerTypes' /\ RowsStay /\ RunningStays
  BY DEF WorkInv, WorkerTypes, RowsStay, RunningStays
<1> QED BY <1>1, OneActs

\* Changes of the manifest that leave its rows alone.
LEMMA QuietManifest ==
  ASSUME ManifestInv, UNCHANGED <<clock, schedule, runs, pruned, occurred>>
  PROVE  ManifestInv' /\ RowsStay /\ RunningStays
<1>1. RowsStay /\ RunningStays
  BY DEF RowsStay, RunningStays
<1>2. /\ clock' \in Nat /\ schedule' \in [Schedules -> ScheduleRecords]
      /\ \A s \in Schedules : schedule[s].enabled => schedule[s].at = "present"
  BY DEF ManifestInv, ManifestTypes, RecordsFit
<1> QED BY <1>1, <1>2, RecordsChange

SwitchedOff(off) ==
  [s \in Schedules |-> IF s \in off THEN [schedule[s] EXCEPT !.enabled = FALSE] ELSE schedule[s]]

LEMMA DisabledIsSwitchedOff ==
  ASSUME ManifestInv, NEW s \in Schedules
  PROVE  Disabled(s) = SwitchedOff({s}) /\ schedule = SwitchedOff({})
BY DEF Disabled, SwitchedOff, ManifestInv, ManifestTypes

LEMMA SwitchOffKeepsManifest ==
  ASSUME ManifestInv, UNCHANGED <<clock, runs, pruned, occurred>>,
         NEW off, schedule' = SwitchedOff(off)
  PROVE  ManifestInv' /\ RowsStay /\ RunningStays
<1>1. /\ schedule \in [Schedules -> ScheduleRecords] /\ clock' \in Nat
      /\ \A s \in Schedules : schedule[s].enabled => schedule[s].at = "present"
      /\ runs \in Seq(RunRecords)
  BY DEF ManifestInv, ManifestTypes, RecordsFit
<1>2. ASSUME NEW s \in Schedules
      PROVE  /\ schedule'[s] \in ScheduleRecords
             /\ schedule'[s].used = schedule[s].used
             /\ schedule'[s].reserved = schedule[s].reserved
             /\ schedule'[s].at = schedule[s].at
             /\ schedule'[s].enabled => schedule[s].enabled
  BY <1>1 DEF SwitchedOff, ScheduleRecords
<1>3. schedule' \in [Schedules -> ScheduleRecords]
  BY <1>2 DEF SwitchedOff
<1>4. \A n \in DOMAIN runs : runs[n].schedule \in Schedules
  BY <1>1, RowsAsSet DEF RunRecords
<1>5. RowsStay /\ RunningStays
  BY <1>2, <1>4 DEF RowsStay, RunningStays
<1> QED BY <1>1, <1>2, <1>3, <1>5, RecordsChange

----------------------------------------------------------------------------
(* Every action keeps both invariants.                                       *)

SInv == ManifestInv /\ WorkInv

LEMMA CommandsKeep ==
  ASSUME SInv, NEW w \in Sessions, NEW s \in Schedules, NEW yes \in BOOLEAN,
         Create(w, s, yes) \/ Enable(w, s) \/ DeleteLive(w, s)
  PROVE  SInv'
<1>1. /\ schedule \in [Schedules -> ScheduleRecords] /\ clock \in Nat
      /\ \A t \in Schedules : schedule[t].enabled => schedule[t].at = "present"
      /\ schedule[s] \in ScheduleRecords
  BY DEF SInv, ManifestInv, ManifestTypes, RecordsFit
<1>2. Lifetime[s] \in Nat /\ Cadence \in Nat /\ Identity[w] \in Identities
  BY ScheduleShape DEF Identities
<1>3. clock + Lifetime[s] \in Nat /\ clock + Cadence \in Nat
  BY <1>1, <1>2
<1>4. UNCHANGED <<clock, runs, worker, control, job, occurred, pruned>>
  BY DEF Create, Enable, DeleteLive
<1>5. CASE Create(w, s, yes)
  <2> DEFINE a == clock + Lifetime[s]
             b == clock + Cadence
             new == [at |-> "present", enabled |-> yes, identity |-> Identity[w], expires |-> a,
                     next |-> b, count |-> 0, used |-> 0, reserved |-> 0]
  <2>1. schedule' = [schedule EXCEPT ![s] = new] /\ schedule[s].at = "absent"
    BY <1>5 DEF Create
  <2>2. a \in Nat /\ b \in Nat
    BY <1>3
  <2> HIDE DEF a, b
  <2>3. new \in ScheduleRecords /\ new.at = "present" /\ new.used = 0 /\ new.reserved = 0
    BY <1>2, <2>2 DEF ScheduleRecords
  <2> HIDE DEF new
  <2>4. /\ schedule' \in [Schedules -> ScheduleRecords] /\ schedule'[s] = new
        /\ \A t \in Schedules : t # s => schedule'[t] = schedule[t]
    BY <1>1, <2>1, <2>3
  <2>5. \A t \in Schedules : schedule'[t].enabled =>
          /\ schedule'[t].at = "present"
          /\ schedule[t].enabled \/ schedule[t].at = "absent" \/ ~InReview(t)
    BY <1>1, <2>1, <2>3, <2>4
  <2>6. ManifestInv'
    BY <1>1, <1>4, <2>1, <2>3, <2>4, <2>5, RecordsChange DEF SInv
  <2>7. RowsStay /\ RunningStays
    <3>1. \A t : schedule[t].at = "present" /\ t \in Schedules => schedule'[t].at = "present"
      BY <2>3, <2>4
    <3>2. \A n \in DOMAIN runs : runs[n].schedule \in Schedules
      BY RowsAsSet DEF SInv, ManifestInv, ManifestTypes, RunRecords
    <3> QED BY <1>4, <3>1, <3>2 DEF RowsStay, RunningStays
  <2> QED BY <1>4, <2>6, <2>7, NobodyActs DEF SInv
<1>6. CASE Enable(w, s)
  <2> DEFINE b == clock + Cadence
             new == [schedule[s] EXCEPT !.enabled = TRUE, !.identity = Identity[w], !.next = b]
  <2>1. schedule' = [schedule EXCEPT ![s] = new] /\ schedule[s].at = "present" /\ ~InReview(s)
    BY <1>1, <1>6 DEF Enable, Present
  <2>2. b \in Nat
    BY <1>3
  <2> HIDE DEF b
  <2>3. /\ new \in ScheduleRecords /\ new.at = schedule[s].at /\ new.used = schedule[s].used
        /\ new.reserved = schedule[s].reserved
    BY <1>1, <1>2, <2>2 DEF ScheduleRecords
  <2> HIDE DEF new
  <2>4. /\ schedule' \in [Schedules -> ScheduleRecords] /\ schedule'[s] = new
        /\ \A t \in Schedules : t # s => schedule'[t] = schedule[t]
    BY <1>1, <2>1, <2>3
  <2>5. \A t \in Schedules : schedule'[t].enabled =>
          /\ schedule'[t].at = "present"
          /\ schedule[t].enabled \/ schedule[t].at = "absent" \/ ~InReview(t)
    BY <1>1, <2>1, <2>3, <2>4
  <2>6. ManifestInv'
    BY <1>1, <1>4, <2>1, <2>3, <2>4, <2>5, RecordsChange DEF SInv
  <2>7. RowsStay /\ RunningStays
    <3>1. \A t \in Schedules : schedule'[t].at = schedule[t].at
      BY <2>3, <2>4
    <3>2. \A n \in DOMAIN runs : runs[n].schedule \in Schedules
      BY RowsAsSet DEF SInv, ManifestInv, ManifestTypes, RunRecords
    <3> QED BY <1>4, <3>1, <3>2 DEF RowsStay, RunningStays
  <2> QED BY <1>4, <2>6, <2>7, NobodyActs DEF SInv
<1>7. CASE DeleteLive(w, s)
  <2>1. schedule' = SwitchedOff({s})
    BY <1>7, DisabledIsSwitchedOff DEF DeleteLive, SInv
  <2>2. ManifestInv' /\ RowsStay /\ RunningStays
    BY <1>4, <2>1, SwitchOffKeepsManifest DEF SInv
  <2> QED BY <1>4, <2>2, NobodyActs DEF SInv
<1> QED BY <1>5, <1>6, <1>7

\* Only a schedule whose occurrences need no review is removed, so that none of
\* them runs.
LEMMA DeleteKeeps ==
  ASSUME SInv, NEW s \in Schedules, Delete(s)
  PROVE  SInv'
<1> DEFINE new == [schedule[s] EXCEPT !.at = "removed", !.enabled = FALSE]
<1>1. /\ schedule \in [Schedules -> ScheduleRecords] /\ clock \in Nat
      /\ \A t \in Schedules : schedule[t].enabled => schedule[t].at = "present"
      /\ schedule[s] \in ScheduleRecords
  BY DEF SInv, ManifestInv, ManifestTypes, RecordsFit
<1>2. /\ UNCHANGED <<clock, runs, worker, control, job, occurred, pruned>>
      /\ schedule' = [schedule EXCEPT ![s] = new] /\ schedule[s].at = "present" /\ ~InReview(s)
  BY <1>1 DEF Delete, Present
<1>3. /\ new \in ScheduleRecords /\ new.at = "removed" /\ new.used = schedule[s].used
      /\ new.reserved = schedule[s].reserved /\ ~new.enabled
  BY <1>1 DEF ScheduleRecords
<1> HIDE DEF new
<1>4. /\ schedule' \in [Schedules -> ScheduleRecords] /\ schedule'[s] = new
      /\ \A t \in Schedules : t # s => schedule'[t] = schedule[t]
  BY <1>1, <1>2, <1>3
<1>5. \A t \in Schedules : schedule'[t].enabled =>
        /\ schedule'[t].at = "present"
        /\ schedule[t].enabled \/ schedule[t].at = "absent" \/ ~InReview(t)
  BY <1>1, <1>3, <1>4
<1>6. ManifestInv'
  BY <1>1, <1>2, <1>3, <1>4, <1>5, RecordsChange DEF SInv
<1>7. RowsStay /\ RunningStays
  <2>1. \A n \in DOMAIN runs : runs[n].status = "running" => runs[n].schedule # s
    BY <1>2 DEF InReview
  <2>2. \A n \in DOMAIN runs : runs[n].schedule \in Schedules
    BY RowsAsSet DEF SInv, ManifestInv, ManifestTypes, RunRecords
  <2> QED BY <1>2, <1>4, <2>1, <2>2 DEF RowsStay, RunningStays
<1> QED BY <1>2, <1>6, <1>7, NobodyActs DEF SInv

LEMMA ReviewKeeps ==
  ASSUME SInv, NEW n \in DOMAIN runs, Review(n)
  PROVE  SInv'
<1>1. ManifestInv'
  BY ReviewKeepsManifest DEF SInv
<1>2. UNCHANGED <<occurred, worker, control, job, schedule>>
  BY DEF Review
<1>3. runs \in Seq(RunRecords) /\ runs[n] \in RunRecords
  BY RowsAsSet DEF SInv, ManifestInv, ManifestTypes
<1>4. /\ DOMAIN runs' = DOMAIN runs
      /\ runs'[n] = [runs[n] EXCEPT !.reviewed = TRUE]
      /\ \A m \in DOMAIN runs : m # n => runs'[m] = runs[m]
  BY <1>3 DEF Review
<1>5. /\ runs'[n].id = runs[n].id /\ runs'[n].schedule = runs[n].schedule
      /\ runs'[n].status = runs[n].status /\ runs'[n].owner = runs[n].owner
  BY <1>3, <1>4 DEF RunRecords
<1>6. RowsStay /\ RunningStays
  BY <1>2, <1>4, <1>5 DEF RowsStay, RunningStays
<1> QED BY <1>1, <1>2, <1>6, NobodyActs DEF SInv

LEMMA PassKeeps ==
  ASSUME SInv, Pass \/ SchedulesAtRest \/ UNCHANGED scheduleVars
  PROVE  SInv'
<1>1. /\ clock' \in Nat
      /\ UNCHANGED <<schedule, runs, worker, control, job, occurred, pruned>>
  BY DEF Pass, SchedulesAtRest, scheduleVars, SInv, ManifestInv, ManifestTypes
<1>2. RowsStay /\ RunningStays
  BY <1>1 DEF RowsStay, RunningStays
<1>3. /\ schedule' \in [Schedules -> ScheduleRecords]
      /\ \A s \in Schedules : schedule[s].enabled => schedule[s].at = "present"
  BY <1>1 DEF SInv, ManifestInv, ManifestTypes, RecordsFit
<1>4. ManifestInv'
  BY <1>1, <1>3, RecordsChange DEF SInv
<1> QED BY <1>1, <1>2, <1>4, NobodyActs DEF SInv

\* Steps of a job that change nothing else, and its start in a tick.
LEMMA QuietStepsKeep ==
  ASSUME SInv, NEW w \in Sessions,
         Tick(w) \/ Survey(w) \/ Refused(w) \/ StartWork(w) \/ WorkEnds(w)
  PROVE  SInv'
<1>1. UNCHANGED <<clock, schedule, runs, worker, control, occurred, pruned>>
  BY DEF Tick, Survey, Refused, StartWork, WorkEnds
<1>2. ManifestInv'
  BY <1>1, QuietManifest DEF SInv
<1>3. RunningStays
  BY <1>1, QuietManifest DEF SInv
<1>4. job[w] \in Jobs /\ JobFits(w)
  BY DEF SInv, WorkInv, WorkerTypes
<1>5. /\ JobGoesOn(w) /\ job' \in [Sessions -> Jobs]
      /\ \A v \in Sessions \ {w} : job'[v] = job[v]
  <2>1. ASSUME NEW place \in JobPlaces, GoesTo(w, place),
               place \in AtWork => job[w].at \in AtWork,
               place = "recover" => job[w].at \in AtWork \cup {"recover"},
               place # "admit"
        PROVE  /\ JobGoesOn(w) /\ job' \in [Sessions -> Jobs]
               /\ \A v \in Sessions \ {w} : job'[v] = job[v]
    <3>1. /\ job' \in [Sessions -> Jobs] /\ job'[w].at = place
          /\ job'[w].schedule = job[w].schedule /\ job'[w].occurrence = job[w].occurrence
          /\ \A v \in Sessions \ {w} : job'[v] = job[v]
      BY <2>1, JobGoes DEF SInv, WorkInv
    <3> QED BY <1>1, <1>3, <2>1, <3>1 DEF JobGoesOn
  <2>2. CASE Tick(w)
    <3>1. GoesTo(w, "survey")
      BY <2>2 DEF Tick
    <3> QED BY <2>1, <3>1 DEF JobPlaces, AtWork
  <2>3. CASE Survey(w)
    <3> DEFINE seen == {s \in Schedules : Present(s) /\ schedule[s].enabled}
               stale == {s \in seen : schedule[s].identity # Identity[w]}
    <3>1. job' = [job EXCEPT ![w] = [job[w] EXCEPT !.at = "sweep", !.seen = seen,
                                                  !.stale = stale]]
      BY <2>3 DEF Survey
    <3>2. seen \in SUBSET Schedules /\ stale \in SUBSET Schedules
      OBVIOUS
    <3> HIDE DEF seen, stale
    <3> DEFINE new == [job[w] EXCEPT !.at = "sweep", !.seen = seen, !.stale = stale]
    <3>3. new \in Jobs /\ new.at = "sweep"
      BY <1>4, <3>2 DEF Jobs, JobPlaces
    <3> HIDE DEF new
    <3>4. /\ job' \in [Sessions -> Jobs] /\ job'[w] = new
          /\ \A v \in Sessions \ {w} : job'[v] = job[v]
      BY <3>1, <3>3 DEF SInv, WorkInv, WorkerTypes, new
    <3> QED BY <3>3, <3>4 DEF JobGoesOn, AtWork
  <2>4. CASE Refused(w)
    <3>1. GoesTo(w, "failed")
      BY <2>4 DEF Refused
    <3> QED BY <2>1, <3>1 DEF JobPlaces, AtWork
  <2>5. CASE StartWork(w)
    <3>1. job[w].at \in AtWork /\ \E place \in {"work", "abandon", "recover"} : GoesTo(w, place)
      BY <2>5 DEF StartWork, AtWork
    <3> QED BY <2>1, <3>1 DEF JobPlaces, AtWork
  <2>6. CASE WorkEnds(w)
    <3>1. job[w].at \in AtWork /\ \E place \in {"report", "recover"} : GoesTo(w, place)
      BY <2>6 DEF WorkEnds, AtWork
    <3> QED BY <2>1, <3>1 DEF JobPlaces, AtWork
  <2> QED BY <2>2, <2>3, <2>4, <2>5, <2>6
<1> QED BY <1>1, <1>2, <1>5, QuietJob DEF SInv

LEMMA SweepKeeps ==
  ASSUME SInv, NEW w \in Sessions, NEW s \in Schedules, NEW fails \in BOOLEAN,
         Sweep(w, s, fails)
  PROVE  SInv'
<1>1. UNCHANGED <<clock, runs, worker, control, occurred, pruned>>
  BY DEF Sweep
<1>2. \E off : schedule' = SwitchedOff(off)
  BY DisabledIsSwitchedOff DEF Sweep, SInv
<1>3. ManifestInv' /\ RowsStay /\ RunningStays
  BY <1>1, <1>2, SwitchOffKeepsManifest DEF SInv
<1>4. job \in [Sessions -> Jobs] /\ job[w] \in Jobs /\ job[w].at = "sweep"
  BY DEF SInv, WorkInv, WorkerTypes, Sweep
<1>5. /\ job' \in [Sessions -> Jobs] /\ job'[w].at \in {"sweep", "failed"}
      /\ \A v \in Sessions \ {w} : job'[v] = job[v]
  <2> DEFINE swept == [job[w] EXCEPT !.seen = @ \ {s}, !.stale = @ \ {s}]
             failed == [job[w] EXCEPT !.at = "failed"]
  <2>1. /\ swept \in Jobs /\ swept.at = "sweep" /\ failed \in Jobs /\ failed.at = "failed"
    BY <1>4 DEF Jobs, JobPlaces
  <2>2. job' = [job EXCEPT ![w] = swept] \/ job' = [job EXCEPT ![w] = failed]
    BY DEF Sweep
  <2> HIDE DEF swept, failed
  <2> QED BY <1>4, <2>1, <2>2
<1>6. JobGoesOn(w)
  BY <1>5 DEF JobGoesOn, AtWork
<1>7. WorkerTypes'
  BY <1>1, <1>5 DEF SInv, WorkInv, WorkerTypes
<1> QED BY <1>1, <1>3, <1>5, <1>6, <1>7, OneActs DEF SInv

LEMMA SelectKeeps ==
  ASSUME SInv, NEW w \in Sessions, Select(w)
  PROVE  SInv'
<1>1. UNCHANGED <<clock, schedule, runs, occurred, pruned>>
  BY DEF Select
<1>2. ManifestInv' /\ RowsStay /\ RunningStays
  BY <1>1, QuietManifest DEF SInv
<1>3. WorkerTypes
  BY DEF SInv, WorkInv
<1>4. CASE JobEnds(w)
  <2>1. /\ WorkerTypes' /\ JobGoesOn(w)
        /\ \A v \in Sessions \ {w} : job'[v] = job[v] /\ (worker.by = v => worker' = worker)
    BY <1>3, <1>4, JobOver
  <2> QED BY <1>1, <1>2, <2>1, OneActs DEF SInv
<1>5. CASE ~JobEnds(w)
  <2>1. PICK s \in FirstDue :
          /\ job' = [job EXCEPT ![w] = [NoJob EXCEPT !.schedule = s,
                       !.at = IF control[w] = "aborted" THEN "failed" ELSE "admit"]]
          /\ UNCHANGED <<control, worker>>
    BY <1>5 DEF Select
  <2>2. s \in Schedules
    BY DEF FirstDue, Due
  <2> DEFINE place == IF control[w] = "aborted" THEN "failed" ELSE "admit"
             new == [NoJob EXCEPT !.schedule = s, !.at = place]
  <2>3. place \in {"failed", "admit"} /\ job' = [job EXCEPT ![w] = new]
    BY <2>1
  <2> HIDE DEF place
  <2>4. new \in Jobs /\ new.at = place /\ new.schedule = s
    BY <2>2, <2>3 DEF NoJob, Jobs, JobPlaces
  <2> HIDE DEF new
  <2>5. /\ job' \in [Sessions -> Jobs] /\ job'[w] = new
        /\ \A v \in Sessions \ {w} : job'[v] = job[v]
    BY <1>3, <2>3, <2>4 DEF WorkerTypes
  <2>6. JobGoesOn(w)
    BY <2>2, <2>3, <2>4, <2>5 DEF JobGoesOn, AtWork
  <2>7. UNCHANGED <<clock, schedule, runs, worker, control, occurred, pruned>>
    BY <1>1, <2>1
  <2> QED BY <1>2, <2>5, <2>6, <2>7, QuietJob DEF SInv
<1> QED BY <1>4, <1>5

LEMMA GiveUpKeeps ==
  ASSUME SInv, NEW w \in Sessions, NEW fails \in BOOLEAN, GiveUp(w, fails)
  PROVE  SInv'
<1>1. UNCHANGED <<clock, runs, occurred, pruned>> /\ JobEnds(w)
  BY DEF GiveUp
<1>2. \E off : schedule' = SwitchedOff(off)
  BY DEF GiveUp, SwitchedOff
<1>3. ManifestInv' /\ RowsStay /\ RunningStays
  BY <1>1, <1>2, SwitchOffKeepsManifest DEF SInv
<1>4. /\ WorkerTypes' /\ JobGoesOn(w)
      /\ \A v \in Sessions \ {w} : job'[v] = job[v] /\ (worker.by = v => worker' = worker)
  BY <1>1, JobOver DEF SInv, WorkInv
<1> QED BY <1>1, <1>3, <1>4, OneActs DEF SInv

\* Whoever takes the worker's lease finds it free: nobody is at work.
LEMMA AcquireKeeps ==
  ASSUME SInv, NEW w \in Sessions, NEW fails \in BOOLEAN,
         \/ Start(w, fails)
         \/ \E s \in Schedules : StartManual(w, s, fails)
  PROVE  SInv'
<1>1. /\ UNCHANGED <<clock, occurred, pruned>> /\ AcquireWorker(w, fails)
      /\ control' = [control EXCEPT ![w] = IF fails THEN "off" ELSE "on"]
      /\ \/ job' = job
         \/ \E s \in Schedules :
              job' = [job EXCEPT ![w] = [NoJob EXCEPT !.at = "admit", !.manual = TRUE,
                                                      !.schedule = s]]
  BY DEF Start, StartManual
<1>2. /\ worker.by = NoSession /\ TakeOver
      /\ worker' = [by |-> IF fails THEN NoSession ELSE w, tenure |-> worker.tenure + 1]
  BY <1>1 DEF AcquireWorker
<1>3. ManifestInv'
  BY <1>1, <1>2, TakeOverKeepsManifest DEF SInv
<1>4. \A v \in Sessions : job[v].at \notin AtWork /\ worker.by # v
  BY <1>2, ScheduleShape DEF SInv, WorkInv, JobFits
<1>5. RowsStay
  <2>1. /\ DOMAIN runs = 1..Len(runs) /\ Len(runs) \in Nat
        /\ \A n \in DOMAIN runs : runs[n] \in RunRecords
    BY RowsAsSet DEF SInv, ManifestInv, ManifestTypes
  <2>2. /\ DOMAIN runs' = DOMAIN runs
        /\ \A n \in DOMAIN runs :
             \/ runs'[n] = runs[n]
             \/ runs'[n] = [runs[n] EXCEPT !.status = "execution-uncertain",
                                           !.used = runs[n].reserved]
    BY <1>2 DEF TakeOver
  <2> QED BY <2>1, <2>2 DEF RowsStay, RunRecords
<1>6. WorkerTypes
  BY DEF SInv, WorkInv
<1>7. /\ job' \in [Sessions -> Jobs]
      /\ \A v \in Sessions : \/ job'[v] = job[v]
                             \/ job'[v].at = "admit" /\ job'[v].schedule \in Schedules
  <2>1. CASE job' = job
    BY <1>6, <2>1 DEF WorkerTypes
  <2>2. CASE job' # job
    <3>1. PICK s \in Schedules :
            job' = [job EXCEPT ![w] = [NoJob EXCEPT !.at = "admit", !.manual = TRUE,
                                                    !.schedule = s]]
      BY <1>1, <2>2
    <3> DEFINE new == [NoJob EXCEPT !.at = "admit", !.manual = TRUE, !.schedule = s]
    <3>2. new \in Jobs /\ new.at = "admit" /\ new.schedule = s
      BY DEF NoJob, Jobs, JobPlaces
    <3> HIDE DEF new
    <3> QED BY <1>6, <3>1, <3>2 DEF WorkerTypes, new
  <2> QED BY <2>1, <2>2
<1>8. \A v \in Sessions : JobGoesOn(v)
  BY <1>4, <1>7 DEF JobGoesOn, AtWork, SInv, WorkInv, JobFits
<1>9. WorkerTypes'
  <2> DEFINE by == IF fails THEN NoSession ELSE w
             tenure == worker.tenure + 1
             on == IF fails THEN "off" ELSE "on"
  <2>1. /\ by \in Sessions \cup {NoSession} /\ on \in {"off", "on", "aborted"}
        /\ tenure \in Nat
    BY <1>6 DEF WorkerTypes
  <2>2. worker' = [by |-> by, tenure |-> tenure] /\ control' = [control EXCEPT ![w] = on]
    BY <1>1, <1>2
  <2> HIDE DEF by, tenure, on
  <2> QED BY <1>6, <1>7, <2>1, <2>2 DEF WorkerTypes
<1> QED BY <1>1, <1>3, <1>5, <1>8, <1>9, WorkGoesOn DEF SInv

LEMMA StopsKeep ==
  ASSUME SInv, NEW w \in Sessions, Stop(w) \/ Kill(w)
  PROVE  SInv'
<1>1. UNCHANGED <<clock, schedule, runs, occurred, pruned>>
  BY DEF Stop, Kill
<1>2. ManifestInv' /\ RowsStay /\ RunningStays
  BY <1>1, QuietManifest DEF SInv
<1>3. WorkerTypes
  BY DEF SInv, WorkInv
<1>4. NoJob \in Jobs /\ NoJob.at = "none"
  BY DEF NoJob, Jobs, JobPlaces
<1>5. /\ job' \in [Sessions -> Jobs]
      /\ \A v \in Sessions \ {w} : job'[v] = job[v]
      /\ job'[w] = job[w] \/ job'[w] = NoJob
      /\ \/ Released(w) /\ job'[w].at = "none"
         \/ control' = [control EXCEPT ![w] = "aborted"] /\ worker' = worker
  BY <1>3, <1>4 DEF Stop, Kill, WorkerTypes
<1>6. WorkerTypes' /\ (worker.by # w => worker' = worker)
  <2>1. CASE Released(w)
    BY <1>3, <1>5, <2>1, ReleasedWorker DEF WorkerTypes
  <2>2. CASE ~Released(w)
    BY <1>3, <1>5, <2>2 DEF WorkerTypes
  <2> QED BY <2>1, <2>2
<1>7. JobGoesOn(w)
  <2>1. JobFits(w)
    BY DEF SInv, WorkInv
  <2> QED BY <1>2, <1>4, <1>5, <2>1 DEF JobGoesOn, AtWork, JobFits
<1>8. \A v \in Sessions \ {w} : worker.by = v => worker' = worker
  BY <1>6
<1> QED BY <1>1, <1>2, <1>5, <1>6, <1>7, <1>8, OneActs DEF SInv

\* begin: the session that begins an occurrence holds the lease, and gets the
\* row that was added.
LEMMA BeginKeeps ==
  ASSUME SInv, NEW w \in Sessions, NEW fails \in BOOLEAN, BeginWork(w, fails)
  PROVE  SInv'
<1>1. WorkerTypes /\ job[w] \in Jobs /\ JobFits(w)
  BY DEF SInv, WorkInv, WorkerTypes
<1>2. job[w].at = "admit" /\ job[w].schedule \in Schedules
  BY <1>1 DEF BeginWork, JobFits
<1>3. Owner(w) \in Nat
  BY <1>1 DEF Owner, WorkerTypes
<1>4. /\ ManifestInv'
      /\ \A n \in DOMAIN runs' :
           runs'[n].id = occurred + 1 \/ \E m \in DOMAIN runs : runs'[n] = runs[m]
      /\ \E n \in DOMAIN runs' :
           /\ runs'[n].id = occurred + 1 /\ runs'[n].status = "running"
           /\ runs'[n].owner = Owner(w) /\ runs'[n].schedule = job[w].schedule
  BY <1>2, <1>3, BeginKeepsManifest, SMTT(60) DEF SInv
<1>5. /\ worker.by = w /\ schedule[job[w].schedule].at = "present"
      /\ occurred' = occurred + 1 /\ occurred \in Nat
      /\ UNCHANGED <<worker, control>>
      /\ \A n \in DOMAIN runs : runs[n].status # "running"
  BY DEF BeginWork, Admissible, Present, SInv, ManifestInv, ManifestTypes
<1>6. Owner(w) = worker.tenure
  BY <1>5, SMTT(60) DEF Owner
<1> DEFINE place == IF fails THEN "failed" ELSE "begun"
           number == occurred + 1
           new == [job[w] EXCEPT !.at = place, !.occurrence = number]
<1>7. job' = [job EXCEPT ![w] = new]
  BY DEF BeginWork
<1>8. place \in {"failed", "begun"} /\ number \in Nat /\ number = occurred + 1
  BY <1>5
<1> HIDE DEF place, number
<1>9. /\ new \in Jobs /\ new.at = place /\ new.occurrence = number
      /\ new.schedule = job[w].schedule
  BY <1>1, <1>8 DEF Jobs, JobPlaces
<1> HIDE DEF new
<1>10. /\ job' \in [Sessions -> Jobs] /\ job'[w] = new
       /\ \A v \in Sessions \ {w} : job'[v] = job[v]
  BY <1>1, <1>7, <1>9 DEF WorkerTypes
<1>11. WorkerTypes'
  BY <1>1, <1>5, <1>10 DEF WorkerTypes
<1>12. \A n, m \in DOMAIN runs' : runs'[n].id = runs'[m].id => n = m
  BY <1>4 DEF ManifestInv, NumberedRows
<1>13. \A s \in Schedules : schedule'[s].at = schedule[s].at
  <2> DEFINE s == job[w].schedule
             after == clock + Cadence
             count == schedule[s].count + 1
             tokens == schedule[s].reserved + Tokens[s]
             record == [schedule[s] EXCEPT !.next = after, !.count = count,
                                           !.reserved = tokens]
  <2>1. schedule' = [schedule EXCEPT ![s] = record]
    BY DEF BeginWork
  <2>2. schedule \in [Schedules -> ScheduleRecords] /\ s \in Schedules
    BY <1>2 DEF SInv, ManifestInv, ManifestTypes
  <2> HIDE DEF after, count, tokens
  <2>3. record.at = schedule[s].at
    BY <2>2 DEF ScheduleRecords
  <2> HIDE DEF record
  <2> QED BY <2>1, <2>2, <2>3, SMTT(60)
<1>14. JobFits(w)'
  <2>1. PICK n \in DOMAIN runs' :
          /\ runs'[n].id = occurred + 1 /\ runs'[n].status = "running"
          /\ runs'[n].owner = Owner(w) /\ runs'[n].schedule = job[w].schedule
    BY <1>4
  <2>2. \A m \in DOMAIN runs' : (runs'[m].id = job'[w].occurrence => m = n)
    BY <1>8, <1>9, <1>10, <1>12, <2>1
  <2>3. job'[w].schedule \in Schedules /\ job'[w].occurrence = occurred'
    BY <1>2, <1>5, <1>8, <1>9, <1>10
  <2>4. HoldsRow(w)' /\ worker'.by = w
    <3>1. runs'[n].id = job'[w].occurrence
      BY <1>8, <1>9, <1>10, <2>1
    <3>2. schedule'[runs'[n].schedule].at = "present"
      BY <1>2, <1>5, <1>13, <2>1
    <3> QED BY <1>5, <1>6, <2>1, <3>1, <3>2 DEF HoldsRow
  <2>5. occurred' \in Nat
    BY <1>5
  <2>6. \A m \in DOMAIN runs' :
          runs'[m].id = job'[w].occurrence => runs'[m].schedule = job'[w].schedule
    BY <1>9, <1>10, <2>1, <2>2
  <2>7. job'[w].occurrence <= occurred'
    BY <2>3, <2>5
  <2> QED BY <2>3, <2>4, <2>6, <2>7 DEF JobFits
<1>15. ASSUME NEW v \in Sessions \ {w}
       PROVE  JobFits(v)'
  <2>1. JobFits(v) /\ job'[v] = job[v] /\ job[v].at \notin AtWork
    BY <1>5, <1>10 DEF SInv, WorkInv, JobFits
  <2>2. job'[v].at \in AtWork \cup {"admit", "recover"} => job'[v].schedule \in Schedules
    BY <2>1 DEF JobFits
  <2>3. ASSUME job[v].at = "recover"
        PROVE  /\ job[v].occurrence <= occurred'
               /\ \A n \in DOMAIN runs' :
                    runs'[n].id = job[v].occurrence => runs'[n].schedule = job[v].schedule
    <3>1. /\ job[v].occurrence <= occurred /\ job[v].occurrence \in Nat
          /\ \A n \in DOMAIN runs :
               runs[n].id = job[v].occurrence => runs[n].schedule = job[v].schedule
      BY <2>1, <2>3 DEF JobFits, SInv, WorkInv, WorkerTypes, Jobs
    <3>2. \A n \in DOMAIN runs' :
            runs'[n].id = occurred + 1 \/ \E m \in DOMAIN runs : runs'[n] = runs[m]
      BY <1>4
    <3> QED BY <1>5, <3>1, <3>2
  <2> QED BY <2>1, <2>2, <2>3 DEF JobFits
<1>16. WorkInv'
  BY <1>11, <1>14, <1>15 DEF WorkInv
<1> QED BY <1>4, <1>16 DEF SInv

LEMMA SettledRowsStay ==
  ASSUME ManifestInv, NEW w, NEW id, Owned(w, id), NEW status, NEW used,
         Settled(w, id, status, used)
  PROVE  RowsStay
<1> DEFINE n == CHOOSE n \in At(id) : TRUE
           q == [runs[n] EXCEPT !.status = status, !.used = used]
<1>1. n \in DOMAIN runs
  BY OwnedRow, SMTT(60)
<1>2. runs' = [runs EXCEPT ![n].status = status, ![n].used = used]
  BY DEF Settled
<1> HIDE DEF n
<1>3. /\ Len(runs) \in Nat /\ DOMAIN runs = 1..Len(runs)
      /\ \A m \in DOMAIN runs : runs[m] \in RunRecords
      /\ runs' = [runs EXCEPT ![n] = q]
  <2>1. runs \in Seq(RunRecords)
    BY DEF ManifestInv, ManifestTypes
  <2> QED BY <1>1, <1>2, <2>1, RowsAsSet
<1>4. q.id = runs[n].id /\ q.schedule = runs[n].schedule
  BY <1>1, <1>3 DEF RunRecords
<1> HIDE DEF q
<1>5. /\ DOMAIN runs' = DOMAIN runs /\ runs'[n] = q
      /\ \A m \in DOMAIN runs : m # n => runs'[m] = runs[m]
  BY <1>1, <1>3
<1> QED BY <1>4, <1>5 DEF RowsStay

\* A session settles the occurrence of its job.
LEMMA SettlesItsOwn ==
  ASSUME SInv, UNCHANGED <<clock, pruned, occurred>>,
         NEW w \in Sessions, job[w].at \in AtWork \cup {"recover"},
         Owned(w, job[w].occurrence),
         NEW status \in {"completed", "failed", "execution-uncertain"}, NEW used \in Nat,
         used <= Tokens[job[w].schedule] + Overrun,
         Settled(w, job[w].occurrence, status, used)
  PROVE  ManifestInv' /\ RowsStay
<1>1. \A m \in DOMAIN runs :
        runs[m].id = job[w].occurrence => used <= Tokens[runs[m].schedule] + Overrun
  BY DEF SInv, WorkInv, JobFits
<1>2. ManifestInv'
  BY <1>1, SettledKeepsManifest DEF SInv
<1>3. RowsStay
  BY SettledRowsStay DEF SInv
<1> QED BY <1>2, <1>3

\* No other session is at work while one settles an occurrence of its own.
LEMMA SettlingIsAlone ==
  ASSUME SInv, NEW w \in Sessions, NEW id, Owned(w, id)
  PROVE  \A v \in Sessions \ {w} : worker.by # v
BY DEF Owned

LEMMA FinishKeeps ==
  ASSUME SInv, NEW w \in Sessions, NEW fails \in BOOLEAN, FinishWork(w, fails)
  PROVE  SInv'
<1> DEFINE id == job[w].occurrence
<1>1. /\ WorkerTypes /\ job[w] \in Jobs /\ JobFits(w) /\ job[w].at = "report"
      /\ UNCHANGED <<clock, occurred, pruned>>
  BY DEF FinishWork, SInv, WorkInv, WorkerTypes
<1>2. job[w].at \in AtWork /\ job[w].schedule \in Schedules
  BY <1>1 DEF AtWork, JobFits
<1>3. \/ /\ Owned(w, id)
         /\ \E o \in Outcomes(job[w].schedule) : Settled(w, id, o.status, o.used)
         /\ JobEnds(w) \/ (GoesTo(w, "recover") /\ UNCHANGED <<draining, control, worker>>)
      \/ /\ GoesTo(w, "recover")
         /\ UNCHANGED <<runs, schedule, control, worker>>
  BY DEF FinishWork
<1>4. ASSUME GoesTo(w, "recover"), UNCHANGED <<control, worker>>
      PROVE  /\ WorkerTypes' /\ JobGoesOn(w)
             /\ \A v \in Sessions \ {w} : job'[v] = job[v]
  <2>1. "recover" \in JobPlaces
    BY DEF JobPlaces
  <2>2. /\ job' \in [Sessions -> Jobs] /\ job'[w].at = "recover"
        /\ job'[w].schedule = job[w].schedule /\ job'[w].occurrence = job[w].occurrence
        /\ \A v \in Sessions \ {w} : job'[v] = job[v]
    BY <1>1, <1>4, <2>1, JobGoes
  <2>3. JobGoesOn(w)
    BY <1>2, <2>2 DEF JobGoesOn, AtWork
  <2> QED BY <1>1, <1>4, <2>2, <2>3 DEF WorkerTypes
<1>5. CASE Owned(w, id) /\ \E o \in Outcomes(job[w].schedule) : Settled(w, id, o.status, o.used)
  <2>1. PICK o \in Outcomes(job[w].schedule) : Settled(w, id, o.status, o.used)
    BY <1>5
  <2>2. Tokens[job[w].schedule] \in Nat /\ Overrun \in Nat
    BY <1>2, ScheduleShape
  <2>3. /\ o.status \in {"completed", "failed", "execution-uncertain"} /\ o.used \in Nat
        /\ o.used <= Tokens[job[w].schedule] + Overrun
    BY <2>2 DEF Outcomes
  <2>4. ManifestInv' /\ RowsStay
    BY <1>1, <1>2, <1>5, <2>1, <2>3, SettlesItsOwn
  <2>5. \A v \in Sessions \ {w} : worker.by # v
    BY <1>5, SettlingIsAlone
  <2>6. CASE JobEnds(w)
    <3>1. /\ WorkerTypes' /\ JobGoesOn(w)
          /\ \A v \in Sessions \ {w} : job'[v] = job[v]
      BY <1>1, <2>6, JobOver
    <3> QED BY <1>1, <2>4, <2>5, <3>1, OneActs DEF SInv
  <2>7. CASE ~JobEnds(w)
    <3>1. /\ WorkerTypes' /\ JobGoesOn(w)
          /\ \A v \in Sessions \ {w} : job'[v] = job[v]
      BY <1>3, <1>4, <2>7
    <3> QED BY <1>1, <2>4, <2>5, <3>1, OneActs DEF SInv
  <2> QED BY <2>6, <2>7
<1>6. CASE GoesTo(w, "recover") /\ UNCHANGED <<runs, schedule, control, worker>>
  <2>1. /\ WorkerTypes' /\ JobGoesOn(w)
        /\ \A v \in Sessions \ {w} : job'[v] = job[v]
    BY <1>4, <1>6
  <2>2. ManifestInv' /\ RowsStay /\ RunningStays
    BY <1>1, <1>6, QuietManifest DEF SInv
  <2> QED BY <1>1, <1>6, <2>1, <2>2, OneActs DEF SInv
<1> QED BY <1>3, <1>5, <1>6

LEMMA RecoverKeeps ==
  ASSUME SInv, NEW w \in Sessions, NEW fails \in BOOLEAN, RecoverWork(w, fails)
  PROVE  SInv'
<1> DEFINE id == job[w].occurrence
<1>1. /\ WorkerTypes /\ job[w] \in Jobs /\ JobFits(w) /\ job[w].at = "recover"
      /\ UNCHANGED <<clock, occurred, pruned, worker, control>> /\ GoesTo(w, "failed")
  BY DEF RecoverWork, SInv, WorkInv, WorkerTypes
<1>2. job[w].schedule \in Schedules
  BY <1>1 DEF JobFits
<1>3. \/ /\ Owned(w, id)
         /\ Settled(w, id, "execution-uncertain", Tokens[job[w].schedule])
      \/ UNCHANGED <<runs, schedule>>
  BY DEF RecoverWork
<1>4. "failed" \in JobPlaces
  BY DEF JobPlaces
<1>5. /\ job' \in [Sessions -> Jobs] /\ job'[w].at = "failed"
      /\ \A v \in Sessions \ {w} : job'[v] = job[v]
  BY <1>1, <1>4, JobGoes
<1>6. JobGoesOn(w)
  BY <1>5 DEF JobGoesOn, AtWork
<1>7. WorkerTypes'
  BY <1>1, <1>5 DEF WorkerTypes
<1>8. CASE Owned(w, id) /\ Settled(w, id, "execution-uncertain", Tokens[job[w].schedule])
  <2>1. Tokens[job[w].schedule] \in Nat /\ Overrun \in Nat
    BY <1>2, ScheduleShape
  <2> DEFINE used == Tokens[job[w].schedule]
  <2>2. used \in Nat /\ used <= Tokens[job[w].schedule] + Overrun
    BY <2>1
  <2>3. ManifestInv' /\ RowsStay
    <3> HIDE DEF used
    <3>1. Settled(w, id, "execution-uncertain", used)
      BY <1>8 DEF used
    <3> QED BY <1>1, <1>8, <2>2, <3>1, SettlesItsOwn
  <2>4. \A v \in Sessions \ {w} : worker.by # v
    BY <1>8, SettlingIsAlone
  <2> QED BY <1>1, <1>5, <1>6, <1>7, <2>3, <2>4, OneActs DEF SInv
<1>9. CASE UNCHANGED <<runs, schedule>>
  <2>1. ManifestInv' /\ RowsStay /\ RunningStays
    BY <1>1, <1>9, QuietManifest DEF SInv
  <2> QED BY <1>1, <1>5, <1>6, <1>7, <2>1, OneActs DEF SInv
<1> QED BY <1>3, <1>8, <1>9

----------------------------------------------------------------------------
(* The theorems.                                                             *)

LEMMA SInvInit ==
  ASSUME ScheduleInit
  PROVE  SInv
<1>1. runs = <<>> /\ runs \in Seq(RunRecords) /\ DOMAIN runs = {}
  BY DEF ScheduleInit
<1>2. ToSet(runs) = {}
  BY <1>1 DEF ToSet
<1>3. /\ Absent \in ScheduleRecords /\ Absent.at = "absent" /\ ~Absent.enabled
  BY DEF Absent, ScheduleRecords, Identities
<1>4. /\ schedule \in [Schedules -> ScheduleRecords]
      /\ \A s \in Schedules : schedule[s] = Absent /\ pruned[s] = 0
  BY <1>3 DEF ScheduleInit
<1>5. ManifestTypes
  BY <1>1, <1>4 DEF ManifestTypes, ScheduleInit
<1>6. NumberedRows(runs, occurred) /\ OneRuns /\ RowsFit /\ RecordsFit
  BY <1>1, <1>3, <1>4 DEF NumberedRows, OneRuns, RowsFit, RecordsFit
<1>7. ChargedOnce /\ InBudget /\ EnabledIsReviewed
  BY <1>3, <1>4 DEF ChargedOnce, InBudget, EnabledIsReviewed, Present
<1>8. NoJob \in Jobs /\ NoJob.at = "none"
  BY DEF NoJob, Jobs, JobPlaces
<1>9. WorkInv
  BY <1>8 DEF WorkInv, WorkerTypes, JobFits, AtWork, ScheduleInit
<1> QED BY <1>5, <1>6, <1>7, <1>9 DEF SInv, ManifestInv

LEMMA SInvStep ==
  ASSUME SInv, [ScheduleNext]_scheduleVars
  PROVE  SInv'
<1>1. ASSUME NEW w \in Sessions, WorkerStep(w) \/ Tick(w) \/ Stop(w) \/ Kill(w)
      PROVE  SInv'
  <2>1. CASE Survey(w) \/ StartWork(w) \/ WorkEnds(w) \/ Refused(w) \/ Tick(w)
    BY <2>1, QuietStepsKeep
  <2>2. CASE Select(w)
    BY <2>2, SelectKeeps
  <2>3. ASSUME NEW fails \in BOOLEAN, NEW s \in Schedules, Sweep(w, s, fails)
        PROVE  SInv'
    BY <2>3, SweepKeeps
  <2>4. ASSUME NEW fails \in BOOLEAN, BeginWork(w, fails)
        PROVE  SInv'
    BY <2>4, BeginKeeps
  <2>5. ASSUME NEW fails \in BOOLEAN, FinishWork(w, fails)
        PROVE  SInv'
    BY <2>5, FinishKeeps
  <2>6. ASSUME NEW fails \in BOOLEAN, RecoverWork(w, fails)
        PROVE  SInv'
    BY <2>6, RecoverKeeps
  <2>7. ASSUME NEW fails \in BOOLEAN, GiveUp(w, fails)
        PROVE  SInv'
    BY <2>7, GiveUpKeeps
  <2>8. CASE Stop(w) \/ Kill(w)
    BY <2>8, StopsKeep
  <2> QED BY <1>1, <2>1, <2>2, <2>3, <2>4, <2>5, <2>6, <2>7, <2>8 DEF WorkerStep
<1>2. ASSUME NEW w \in Sessions, NEW s \in Schedules, NEW yes \in BOOLEAN,
             \/ Enable(w, s) \/ DeleteLive(w, s) \/ Create(w, s, yes)
      PROVE  SInv'
  BY <1>2, CommandsKeep
<1>3. ASSUME NEW w \in Sessions, NEW fails \in BOOLEAN,
             Start(w, fails) \/ \E s \in Schedules : StartManual(w, s, fails)
      PROVE  SInv'
  BY <1>3, AcquireKeeps
<1>4. ASSUME NEW s \in Schedules, Delete(s)
      PROVE  SInv'
  BY <1>4, DeleteKeeps
<1>5. ASSUME NEW n \in DOMAIN runs, Review(n)
      PROVE  SInv'
  BY <1>5, ReviewKeeps
<1>6. CASE Pass \/ SchedulesAtRest \/ UNCHANGED scheduleVars
  BY <1>6, PassKeeps
<1>7. TRUE \in BOOLEAN
  OBVIOUS
<1> QED BY <1>1, <1>2, <1>3, <1>4, <1>5, <1>6, <1>7 DEF ScheduleNext

\* The inductive invariant: manifest and workers fit each other.
THEOREM ScheduleIsConsistent == ScheduleSpec => []SInv
<1>1. ScheduleInit => SInv
  BY SInvInit
<1>2. SInv /\ [ScheduleNext]_scheduleVars => SInv'
  BY SInvStep
<1> QED BY <1>1, <1>2, PTL DEF ScheduleSpec

\* Every occurrence is charged to its schedule once, whatever becomes of it:
\* begin, finish, the recovery of a failed run and the take-over of a dead
\* worker's row never lose a reservation or count one twice.
THEOREM OccurrencesAreChargedOnce == ScheduleSpec => []ChargedOnce
<1>1. SInv => ChargedOnce
  BY DEF SInv, ManifestInv
<1> QED BY <1>1, ScheduleIsConsistent, PTL

\* What a schedule has used and reserved stays within its lifetime's tokens but
\* for the overrun of the last call.
LEMMA SpendingIsBounded ==
  ASSUME ManifestInv
  PROVE  WithinBudget
<1> SUFFICES ASSUME NEW s \in Schedules, schedule[s].at = "present"
             PROVE  schedule[s].used + schedule[s].reserved <= TotalTokens[s] + Overrun
  BY DEF WithinBudget, Present
<1> DEFINE A == ToSet(runs)
<1>1. /\ runs \in Seq(RunRecords) /\ schedule[s] \in ScheduleRecords
      /\ Charged(s, schedule[s], pruned[s], A)
  BY ChargedBySet DEF ManifestInv, ManifestTypes
<1>2. Tokens[s] \in Nat /\ TotalTokens[s] \in Nat /\ Overrun \in Nat /\ schedule[s].used \in Nat
  BY <1>1, ScheduleShape DEF ScheduleRecords
<1>3. CASE Live(A, s) = {}
  <2>1. schedule[s].reserved = 0
    BY <1>1, <1>3, SumsOfNone DEF Charged
  <2>2. schedule[s].used <= TotalTokens[s] + Overrun
    BY <1>3 DEF ManifestInv, InBudget
  <2> QED BY <1>2, <2>1, <2>2
<1>4. CASE Live(A, s) # {}
  <2>1. PICK r \in A : r.schedule = s /\ r.status = "running"
    BY <1>4 DEF Live, Of
  <2>2. PICK n \in DOMAIN runs : r = runs[n]
    BY <1>1, <2>1, RowsAsSet
  <2>3. r \in RunRecords /\ r.reserved = Tokens[s]
    BY <1>1, <2>1, <2>2, RowsAsSet DEF ManifestInv, RowsFit
  <2>4. OneRuns /\ NumberedRows(runs, occurred)
    BY DEF ManifestInv
  <2>5. Live(A, s) = {r}
    <3>1. \A x \in A : x.status = "running" => x = r
      BY <1>1, <2>1, <2>2, <2>4, RowsAsSet DEF OneRuns
    <3> QED BY <2>1, <3>1 DEF Live, Of
  <2>6. ReservedBy(Live(A, s)) = Tokens[s]
    BY <2>3, <2>5, ReservedOfOne
  <2>7. schedule[s].used + Tokens[s] <= TotalTokens[s]
    BY <1>4 DEF ManifestInv, InBudget
  <2> QED BY <1>1, <1>2, <2>6, <2>7 DEF Charged
<1> QED BY <1>3, <1>4

THEOREM SpendingStaysWithinBudget == ScheduleSpec => []WithinBudget
<1>1. SInv => WithinBudget
  BY SpendingIsBounded DEF SInv
<1> QED BY <1>1, ScheduleIsConsistent, PTL

\* The work of an occurrence is under way in one session at most, which holds
\* the worker's lease in the tenure in which the row was added.
THEOREM WorkHasOneOwner == ScheduleSpec => []WorkIsOwned
<1>1. SInv => WorkIsOwned
  BY WorkInvOwns DEF SInv
<1> QED BY <1>1, ScheduleIsConsistent, PTL

\* No schedule is enabled over an outcome that is bad or unknown and not
\* reviewed: whatever settles a row that way also disables its schedule.
THEOREM EnabledOnlyAfterReview == ScheduleSpec => []EnabledIsReviewed
<1>1. SInv => EnabledIsReviewed
  BY DEF SInv, ManifestInv
<1> QED BY <1>1, ScheduleIsConsistent, PTL

=============================================================================
