------------------------- MODULE Projection_proofs -------------------------
(***************************************************************************)
(* What the attendance calendar says is exact, for every calendar, report, *)
(* timetable, target and selection: the hours it counts are those of the   *)
(* timetable, and its predictions follow from them.                        *)
(*                                                                         *)
(* The sums and the merging of classes are folds.  Facts about them are    *)
(* proved by a least counterexample, a set of finite sets or of numbers    *)
(* that is shown to be empty.                                              *)
(***************************************************************************)
EXTENDS Projection, FiniteSetTheorems, WellFoundedInduction, TLAPS

(* Induction, by a least counterexample.                                   *)
LEMMA LeastNumber ==
  ASSUME NEW T, T \subseteq Nat, T # {}
  PROVE  \E n \in T : \A m \in T : n <= m
<1>1. PICK n \in T : \A m \in T : <<m, n>> \notin OpToRel(<, Nat)
  BY WFMin, NatLessThanWellFounded
<1>2. \A m \in T : ~(m < n)
  BY <1>1 DEF OpToRel
<1> QED
  BY <1>2

(* Of finite sets one is the smallest.                                     *)
LEMMA SmallestSet ==
  ASSUME NEW F, F # {}, \A s \in F : IsFiniteSet(s)
  PROVE  \E s \in F : \A t \in F : ~(Cardinality(t) < Cardinality(s))
<1> DEFINE T == {Cardinality(s) : s \in F}
<1>1. T \subseteq Nat /\ T # {}
  BY FS_CardinalityType
<1>2. PICK n \in T : \A m \in T : n <= m
  BY <1>1, LeastNumber
<1>3. PICK s \in F : n = Cardinality(s)
  BY <1>2
<1>4. \A t \in F : n <= Cardinality(t) /\ Cardinality(t) \in Nat /\ n \in Nat
  BY <1>1, <1>2
<1> QED
  BY <1>3, <1>4

----------------------------------------------------------------------------
(* Sums over finite sets                                                   *)

(* The library's sum, taken apart: the element it takes first, and the     *)
(* sums of all subsets it recurses over.                                   *)
Pick(s) == CHOOSE x \in s : TRUE
Step(f, g, s) == IF s = {} THEN 0 ELSE f[Pick(s)] + g[s \ {Pick(s)}]
Partial(f, S) == CHOOSE g : g = [s \in SUBSET S |-> Step(f, g, s)]

(* A subset without one of its elements is smaller.                        *)
LEMMA Smaller ==
  ASSUME NEW S, IsFiniteSet(S), NEW x \in S
  PROVE  /\ IsFiniteSet(S \ {x}) /\ Cardinality(S \ {x}) = Cardinality(S) - 1
         /\ Cardinality(S) \in Nat /\ Cardinality(S) > 0
         /\ Cardinality(S \ {x}) < Cardinality(S)
<1>1. IsFiniteSet(S \ {x}) /\ Cardinality(S \ {x}) = Cardinality(S) - 1
  BY FS_RemoveElement
<1>2. Cardinality(S) \in Nat /\ Cardinality(S \ {x}) \in Nat
  BY <1>1, FS_CardinalityType
<1> QED
  BY <1>1, <1>2

(* The partial sums the library recurses over exist.                       *)
LEMMA PartialDefined ==
  ASSUME NEW f, NEW S, IsFiniteSet(S)
  PROVE  Partial(f, S) = [s \in SUBSET S |-> Step(f, Partial(f, S), s)]
<1> DEFINE Good(g, n) == \A s \in SUBSET S : Cardinality(s) <= n => g[s] = Step(f, g, s)
           Bad == {n \in Nat : ~ \E g : Good(g, n)}
<1>1. \A s \in SUBSET S : IsFiniteSet(s) /\ Cardinality(s) \in Nat /\ Cardinality(s) <= Cardinality(S)
  BY FS_Subset, FS_CardinalityType
<1>2. \A x, s : s \in SUBSET S /\ s # {} => Pick(s) \in s /\ s \ {Pick(s)} \in SUBSET S
  BY DEF Pick
<1>3. Bad = {}
  <2> SUFFICES ASSUME Bad # {} PROVE FALSE
    OBVIOUS
  <2>1. PICK n \in Bad : \A m \in Bad : n <= m
    BY LeastNumber
  <2>2. n # 0
    <3>1. Good([s \in SUBSET S |-> 0], 0)
      <4> SUFFICES ASSUME NEW s \in SUBSET S, Cardinality(s) <= 0
                   PROVE  s = {}
        BY DEF Step
      <4> QED
        BY <1>1, FS_EmptySet
    <3> QED
      BY <3>1
  <2>3. n - 1 \in Nat /\ n - 1 \notin Bad
    BY <2>1, <2>2
  <2>4. PICK g : Good(g, n - 1)
    BY <2>3
  <2> DEFINE h == [s \in SUBSET S |-> Step(f, g, s)]
  <2>5. Good(h, n)
    <3> SUFFICES ASSUME NEW s \in SUBSET S, Cardinality(s) <= n, s # {}
                 PROVE  h[s \ {Pick(s)}] = g[s \ {Pick(s)}]
      BY <1>2 DEF Step
    <3> DEFINE t == s \ {Pick(s)}
    <3>1. t \in SUBSET S /\ Cardinality(t) <= n - 1
      BY <1>1, <1>2, Smaller
    <3>2. g[t] = Step(f, g, t)
      BY <2>4, <3>1
    <3> QED
      BY <3>1, <3>2
  <2> QED
    BY <2>5
<1>4. PICK g : Good(g, Cardinality(S))
  BY <1>3, FS_CardinalityType
<1> DEFINE h == [s \in SUBSET S |-> g[s]]
<1>5. h = [s \in SUBSET S |-> Step(f, h, s)]
  BY <1>1, <1>2, <1>4 DEF Step
<1> QED
  BY <1>5 DEF Partial

(* ... which is what each of them says of itself.                          *)
LEMMA PartialAt ==
  ASSUME NEW f, NEW S, IsFiniteSet(S), NEW s \in SUBSET S
  PROVE  Partial(f, S)[s] = Step(f, Partial(f, S), s)
<1>1. \A g : g = [t \in SUBSET S |-> Step(f, g, t)] => g[s] = Step(f, g, s)
  OBVIOUS
<1> HIDE DEF Partial
<1> QED
  BY <1>1, PartialDefined

(* A sum takes one element after the other, in an order of its own.        *)
LEMMA SumStep ==
  ASSUME NEW f, NEW S, IsFiniteSet(S)
  PROVE  /\ S = {} => SumFunctionOnSet(f, S) = 0
         /\ S # {} => /\ Pick(S) \in S
                      /\ SumFunctionOnSet(f, S) = f[Pick(S)] + SumFunctionOnSet(f, S \ {Pick(S)})
<1>1. \A T : SumFunctionOnSet(f, T) = Partial(f, T)[T]
  BY DEF SumFunctionOnSet, FoldFunctionOnSet, MapThenFoldSet, Partial, Step, Pick
<1>2. CASE S = {}
  BY <1>1, <1>2, PartialAt DEF Step
<1>3. CASE S # {}
  <2> DEFINE U == S \ {Pick(S)}
  <2>1. Pick(S) \in S /\ U \in SUBSET S /\ IsFiniteSet(U)
    BY <1>3, FS_Subset DEF Pick
  <2> DEFINE F == {s \in SUBSET U : Partial(f, S)[s] # Partial(f, U)[s]}
  <2>2. F = {}
    <3> SUFFICES ASSUME F # {} PROVE FALSE
      OBVIOUS
    <3>1. PICK s \in F : \A t \in F : ~(Cardinality(t) < Cardinality(s))
      <4>1. \A t \in F : IsFiniteSet(t)
        BY <2>1, FS_Subset
      <4> QED
        BY <4>1, SmallestSet
    <3> DEFINE t == s \ {Pick(s)}
    <3>2. Partial(f, S)[s] = Step(f, Partial(f, S), s) /\ Partial(f, U)[s] = Step(f, Partial(f, U), s)
      <4>1. s \in SUBSET S /\ s \in SUBSET U
        BY <2>1
      <4> QED
        BY <2>1, <4>1, PartialAt
    <3>3. s # {}
      BY <3>2 DEF Step
    <3>4. Pick(s) \in s /\ IsFiniteSet(s)
      BY <2>1, <3>3, FS_Subset DEF Pick
    <3>5. t \notin F
      BY <3>1, <3>4, Smaller
    <3> QED
      BY <3>2, <3>5 DEF Step
  <2>3. Partial(f, S)[S] = f[Pick(S)] + Partial(f, S)[U]
    BY <1>3, PartialAt DEF Step
  <2> QED
    BY <1>1, <2>1, <2>2, <2>3
<1> QED
  BY <1>2, <1>3

(* Nothing sums up to nothing.                                             *)
LEMMA SumEmpty == \A f : SumFunctionOnSet(f, {}) = 0
  BY SumStep, FS_EmptySet

(* A sum of numbers is one.                                                *)
LEMMA SumInt ==
  ASSUME NEW f, NEW S, IsFiniteSet(S), \A x \in S : f[x] \in Int
  PROVE  SumFunctionOnSet(f, S) \in Int
<1> DEFINE F == {s \in SUBSET S : SumFunctionOnSet(f, s) \notin Int}
<1> SUFFICES ASSUME F # {} PROVE FALSE
  OBVIOUS
<1>1. \A s \in SUBSET S : IsFiniteSet(s)
  BY FS_Subset
<1>2. PICK s \in F : \A t \in F : ~(Cardinality(t) < Cardinality(s))
  BY <1>1, SmallestSet
<1> DEFINE t == s \ {Pick(s)}
<1>3. s # {} /\ Pick(s) \in s /\ SumFunctionOnSet(f, s) = f[Pick(s)] + SumFunctionOnSet(f, t)
  BY <1>1, <1>2, SumStep
<1>4. t \notin F
  BY <1>1, <1>2, <1>3, Smaller
<1> QED
  BY <1>3, <1>4

(* Any element may be the first.                                           *)
LEMMA SumRemove ==
  ASSUME NEW f, NEW S, IsFiniteSet(S), \A x \in S : f[x] \in Int, NEW e \in S
  PROVE  SumFunctionOnSet(f, S) = f[e] + SumFunctionOnSet(f, S \ {e})
<1> DEFINE F == {s \in SUBSET S : \E x \in s : SumFunctionOnSet(f, s) # f[x] + SumFunctionOnSet(f, s \ {x})}
<1> SUFFICES ASSUME F # {} PROVE FALSE
  OBVIOUS
<1>1. \A s \in SUBSET S : IsFiniteSet(s) /\ SumFunctionOnSet(f, s) \in Int
  BY FS_Subset, SumInt
<1>2. PICK s \in F : \A t \in F : ~(Cardinality(t) < Cardinality(s))
  BY <1>1, SmallestSet
<1>3. PICK x \in s : SumFunctionOnSet(f, s) # f[x] + SumFunctionOnSet(f, s \ {x})
  BY <1>2
<1> DEFINE y == Pick(s)
<1>4. y \in s /\ SumFunctionOnSet(f, s) = f[y] + SumFunctionOnSet(f, s \ {y})
  BY <1>1, <1>2, <1>3, SumStep
<1>5. y # x
  BY <1>3, <1>4
<1>6. s \ {y} \notin F /\ s \ {x} \notin F
  BY <1>1, <1>2, <1>3, <1>4, Smaller
<1>7. /\ SumFunctionOnSet(f, s \ {y}) = f[x] + SumFunctionOnSet(f, (s \ {y}) \ {x})
      /\ SumFunctionOnSet(f, s \ {x}) = f[y] + SumFunctionOnSet(f, (s \ {x}) \ {y})
  BY <1>4, <1>5, <1>6
<1>8. (s \ {y}) \ {x} = (s \ {x}) \ {y}
  OBVIOUS
<1>9. f[x] \in Int /\ f[y] \in Int /\ SumFunctionOnSet(f, (s \ {x}) \ {y}) \in Int
  BY <1>1, <1>4
<1> QED
  BY <1>3, <1>4, <1>7, <1>8, <1>9

(* One element more.                                                       *)
LEMMA SumAdd ==
  ASSUME NEW f, NEW S, IsFiniteSet(S), NEW e, e \notin S, \A x \in S \cup {e} : f[x] \in Int
  PROVE  SumFunctionOnSet(f, S \cup {e}) = SumFunctionOnSet(f, S) + f[e]
<1>1. IsFiniteSet(S \cup {e}) /\ (S \cup {e}) \ {e} = S
  BY FS_AddElement
<1>2. SumFunctionOnSet(f, S) \in Int
  BY SumInt
<1> QED
  BY <1>1, <1>2, SumRemove

(* Two disjoint sets.                                                      *)
LEMMA SumUnion ==
  ASSUME NEW f, NEW S, NEW T, IsFiniteSet(S), IsFiniteSet(T), S \cap T = {},
         \A x \in S \cup T : f[x] \in Int
  PROVE  SumFunctionOnSet(f, S \cup T) = SumFunctionOnSet(f, S) + SumFunctionOnSet(f, T)
<1> DEFINE F == {t \in SUBSET T :
                  SumFunctionOnSet(f, S \cup t) # SumFunctionOnSet(f, S) + SumFunctionOnSet(f, t)}
<1> SUFFICES ASSUME F # {} PROVE FALSE
  OBVIOUS
<1>1. \A t \in SUBSET T : IsFiniteSet(t) /\ IsFiniteSet(S \cup t) /\ SumFunctionOnSet(f, t) \in Int
  BY FS_Subset, FS_Union, SumInt
<1>2. PICK t \in F : \A u \in F : ~(Cardinality(u) < Cardinality(t))
  BY <1>1, SmallestSet
<1>3. SumFunctionOnSet(f, S) \in Int
  BY SumInt
<1>4. t # {}
  <2>1. SumFunctionOnSet(f, {}) = 0
    BY SumStep, FS_EmptySet
  <2>2. S \cup {} = S
    OBVIOUS
  <2>3. {} \notin F
    BY <1>3, <2>1, <2>2
  <2> QED
    BY <1>2, <2>3
<1>5. PICK e \in t : TRUE
  BY <1>4
<1> DEFINE u == t \ {e}
<1>6. u \notin F
  BY <1>1, <1>2, Smaller
<1>7. SumFunctionOnSet(f, S \cup u) = SumFunctionOnSet(f, S) + SumFunctionOnSet(f, u)
  BY <1>6
<1>8. SumFunctionOnSet(f, t) = SumFunctionOnSet(f, u) + f[e]
  <2>1. t = u \cup {e} /\ e \notin u
    OBVIOUS
  <2> QED
    BY <1>1, <2>1, SumAdd
<1>9. SumFunctionOnSet(f, S \cup t) = SumFunctionOnSet(f, S \cup u) + f[e]
  <2>1. S \cup t = (S \cup u) \cup {e} /\ e \notin S \cup u
    OBVIOUS
  <2> QED
    BY <1>1, <2>1, SumAdd
<1>10. f[e] \in Int /\ SumFunctionOnSet(f, u) \in Int
  BY <1>1
<1> QED
  BY <1>2, <1>3, <1>7, <1>8, <1>9, <1>10

(* A sum depends on nothing but the numbers.                               *)
LEMMA SumSame ==
  ASSUME NEW f, NEW g, NEW S, IsFiniteSet(S), \A x \in S : f[x] = g[x]
  PROVE  SumFunctionOnSet(f, S) = SumFunctionOnSet(g, S)
<1> DEFINE F == {s \in SUBSET S : SumFunctionOnSet(f, s) # SumFunctionOnSet(g, s)}
<1> SUFFICES ASSUME F # {} PROVE FALSE
  OBVIOUS
<1>1. \A s \in SUBSET S : IsFiniteSet(s)
  BY FS_Subset
<1>2. PICK s \in F : \A t \in F : ~(Cardinality(t) < Cardinality(s))
  BY <1>1, SmallestSet
<1> DEFINE t == s \ {Pick(s)}
<1>3. s # {}
  BY <1>2, SumEmpty
<1>4. /\ Pick(s) \in s
      /\ SumFunctionOnSet(f, s) = f[Pick(s)] + SumFunctionOnSet(f, t)
      /\ SumFunctionOnSet(g, s) = g[Pick(s)] + SumFunctionOnSet(g, t)
  BY <1>1, <1>2, <1>3, SumStep
<1>5. t \notin F
  BY <1>1, <1>2, <1>4, Smaller
<1> QED
  BY <1>2, <1>4, <1>5

(* A sum of smaller numbers is smaller.                                    *)
LEMMA SumAtMost ==
  ASSUME NEW f, NEW g, NEW S, IsFiniteSet(S), \A x \in S : f[x] \in Int /\ g[x] \in Int /\ f[x] <= g[x]
  PROVE  SumFunctionOnSet(f, S) <= SumFunctionOnSet(g, S)
<1> DEFINE F == {s \in SUBSET S : ~(SumFunctionOnSet(f, s) <= SumFunctionOnSet(g, s))}
<1> SUFFICES ASSUME F # {} PROVE FALSE
  OBVIOUS
<1>1. \A s \in SUBSET S : IsFiniteSet(s) /\ SumFunctionOnSet(f, s) \in Int /\ SumFunctionOnSet(g, s) \in Int
  BY FS_Subset, SumInt
<1>2. PICK s \in F : \A t \in F : ~(Cardinality(t) < Cardinality(s))
  BY <1>1, SmallestSet
<1> DEFINE t == s \ {Pick(s)}
<1>3. s # {}
  BY <1>2, SumEmpty
<1>4. /\ Pick(s) \in s
      /\ SumFunctionOnSet(f, s) = f[Pick(s)] + SumFunctionOnSet(f, t)
      /\ SumFunctionOnSet(g, s) = g[Pick(s)] + SumFunctionOnSet(g, t)
  BY <1>1, <1>2, <1>3, SumStep
<1>5. t \notin F
  BY <1>1, <1>2, <1>4, Smaller
<1>6. /\ f[Pick(s)] \in Int /\ g[Pick(s)] \in Int /\ f[Pick(s)] <= g[Pick(s)]
      /\ SumFunctionOnSet(f, t) \in Int /\ SumFunctionOnSet(g, t) \in Int
      /\ SumFunctionOnSet(f, t) <= SumFunctionOnSet(g, t)
  BY <1>1, <1>4, <1>5
<1> QED
  BY <1>1, <1>2, <1>4, <1>6

(* A sum of natural numbers is one.                                        *)
LEMMA SumNat ==
  ASSUME NEW f, NEW S, IsFiniteSet(S), \A x \in S : f[x] \in Nat
  PROVE  SumFunctionOnSet(f, S) \in Nat
<1> DEFINE F == {s \in SUBSET S : SumFunctionOnSet(f, s) \notin Nat}
<1> SUFFICES ASSUME F # {} PROVE FALSE
  OBVIOUS
<1>1. \A s \in SUBSET S : IsFiniteSet(s)
  BY FS_Subset
<1>2. PICK s \in F : \A t \in F : ~(Cardinality(t) < Cardinality(s))
  BY <1>1, SmallestSet
<1> DEFINE t == s \ {Pick(s)}
<1>3. s # {}
  BY <1>2, SumEmpty
<1>4. Pick(s) \in s /\ SumFunctionOnSet(f, s) = f[Pick(s)] + SumFunctionOnSet(f, t)
  BY <1>1, <1>2, <1>3, SumStep
<1>5. t \notin F
  BY <1>1, <1>2, <1>4, Smaller
<1> QED
  BY <1>2, <1>4, <1>5

(* The same numbers under other names.                                     *)
LEMMA SumRenamed ==
  ASSUME NEW f, NEW g, NEW S, IsFiniteSet(S), NEW name,
         \A x \in S : g[x] = f[name[x]] /\ g[x] \in Int,
         \A x, y \in S : name[x] = name[y] => x = y
  PROVE  SumFunctionOnSet(g, S) = SumFunctionOnSet(f, {name[x] : x \in S})
<1> DEFINE Names(s) == {name[x] : x \in s}
           F == {s \in SUBSET S : SumFunctionOnSet(g, s) # SumFunctionOnSet(f, Names(s))}
<1> SUFFICES ASSUME F # {} PROVE FALSE
  OBVIOUS
<1>1. \A s \in SUBSET S : IsFiniteSet(s) /\ IsFiniteSet(Names(s))
  <2> SUFFICES ASSUME NEW s \in SUBSET S PROVE IsFiniteSet(s) /\ IsFiniteSet(Names(s))
    OBVIOUS
  <2>1. [x \in s |-> name[x]] \in Surjection(s, Names(s))
    BY DEF Surjection
  <2> QED
    BY <2>1, FS_Subset, FS_Surjection
<1>2. PICK s \in F : \A t \in F : ~(Cardinality(t) < Cardinality(s))
  BY <1>1, SmallestSet
<1>3. s # {}
  BY <1>2, SumEmpty
<1>4. PICK e \in s : TRUE
  BY <1>3
<1> DEFINE t == s \ {e}
<1>5. t \notin F /\ t \in SUBSET S
  BY <1>1, <1>2, <1>4, Smaller
<1>6. SumFunctionOnSet(g, t \cup {e}) = SumFunctionOnSet(g, t) + g[e]
  BY <1>1, <1>5, SumAdd
<1>7. SumFunctionOnSet(f, Names(t) \cup {name[e]}) = SumFunctionOnSet(f, Names(t)) + f[name[e]]
  <2>1. name[e] \notin Names(t) /\ \A x \in Names(t) \cup {name[e]} : f[x] \in Int
    OBVIOUS
  <2>2. IsFiniteSet(Names(t))
    BY <1>1, <1>5
  <2> HIDE DEF Names
  <2> QED
    BY <2>1, <2>2, SumAdd
<1>8. s = t \cup {e} /\ Names(s) = Names(t) \cup {name[e]}
  OBVIOUS
<1> QED
  BY <1>2, <1>5, <1>6, <1>7, <1>8

----------------------------------------------------------------------------
(* The classes shown                                                       *)

(* The greatest of finitely many numbers.                                  *)
LEMMA Greatest ==
  ASSUME NEW n \in Nat, NEW S, S \subseteq 0 .. n, S # {}
  PROVE  Max(S) \in S /\ \A x \in S : x <= Max(S)
<1> DEFINE T == {n - x : x \in S}
<1>1. \A x \in S : x \in Int /\ n - x \in Nat /\ n - x \in T
  OBVIOUS
<1>2. PICK m \in T : \A l \in T : m <= l
  <2>1. T \subseteq Nat /\ T # {}
    BY <1>1
  <2> QED
    BY <2>1, LeastNumber
<1>3. PICK y \in S : m = n - y
  BY <1>2
<1>4. \A x \in S : y >= x
  <2> HIDE DEF T
  <2> QED
    BY <1>1, <1>2, <1>3
<1> QED
  BY <1>4 DEF Max

(* The lists the library builds when it merges a sequence from the left.   *)
Extended(seq, g, s) == IF s = {} THEN <<>> ELSE Merged(g[s \ {Max(s)}], seq[Max(s)])
Lists(seq) == CHOOSE g : g = [s \in SUBSET DOMAIN seq |-> Extended(seq, g, s)]

(* They exist.                                                             *)
LEMMA ListsDefined ==
  ASSUME NEW seq, NEW n \in Nat, DOMAIN seq = 1 .. n
  PROVE  Lists(seq) = [s \in SUBSET DOMAIN seq |-> Extended(seq, Lists(seq), s)]
<1> DEFINE S == DOMAIN seq
           Good(g, m) == \A s \in SUBSET S : Cardinality(s) <= m => g[s] = Extended(seq, g, s)
           Bad == {m \in Nat : ~ \E g : Good(g, m)}
<1>0. IsFiniteSet(S)
  BY FS_Interval
<1>1. \A s \in SUBSET S : IsFiniteSet(s) /\ Cardinality(s) \in Nat /\ Cardinality(s) <= Cardinality(S)
  BY <1>0, FS_Subset, FS_CardinalityType
<1>2. \A s : s \in SUBSET S /\ s # {} => Max(s) \in s /\ s \ {Max(s)} \in SUBSET S
  <2> SUFFICES ASSUME NEW s \in SUBSET S, s # {} PROVE Max(s) \in s
    OBVIOUS
  <2>1. s \subseteq 0 .. n
    OBVIOUS
  <2> QED
    BY <2>1, Greatest
<1>3. Bad = {}
  <2> SUFFICES ASSUME Bad # {} PROVE FALSE
    OBVIOUS
  <2>1. PICK m \in Bad : \A l \in Bad : m <= l
    BY LeastNumber
  <2>2. m # 0
    <3>1. Good([s \in SUBSET S |-> <<>>], 0)
      <4> SUFFICES ASSUME NEW s \in SUBSET S, Cardinality(s) <= 0
                   PROVE  s = {}
        BY DEF Extended
      <4> QED
        BY <1>1, FS_EmptySet
    <3> QED
      BY <3>1
  <2>3. m - 1 \in Nat /\ m - 1 \notin Bad
    BY <2>1, <2>2
  <2>4. PICK g : Good(g, m - 1)
    BY <2>3
  <2> DEFINE h == [s \in SUBSET S |-> Extended(seq, g, s)]
  <2>5. Good(h, m)
    <3> SUFFICES ASSUME NEW s \in SUBSET S, Cardinality(s) <= m, s # {}
                 PROVE  h[s \ {Max(s)}] = g[s \ {Max(s)}]
      BY <1>2 DEF Extended
    <3> DEFINE t == s \ {Max(s)}
    <3>1. t \in SUBSET S /\ Cardinality(t) < Cardinality(s)
      BY <1>1, <1>2, Smaller
    <3>2. Cardinality(t) \in Nat /\ Cardinality(s) \in Nat /\ m \in Nat
      BY <1>1, <2>1, <3>1
    <3>3. Cardinality(t) <= m - 1
      BY <3>1, <3>2
    <3>4. g[t] = Extended(seq, g, t)
      BY <2>4, <3>1, <3>3
    <3> QED
      BY <3>1, <3>4
  <2> QED
    BY <2>5
<1>4. PICK g : Good(g, Cardinality(S))
  BY <1>0, <1>3, FS_CardinalityType
<1> DEFINE h == [s \in SUBSET S |-> g[s]]
<1>5. h = [s \in SUBSET S |-> Extended(seq, h, s)]
  BY <1>1, <1>2, <1>4 DEF Extended
<1> QED
  BY <1>5 DEF Lists

(* Merging a sequence takes its elements one after the other.              *)
LEMMA MergedStep ==
  ASSUME NEW seq, NEW n \in Nat, DOMAIN seq = 1 .. n
  PROVE  \E lists : /\ lists[0] = <<>>
                    /\ \A k \in 1 .. n : lists[k] = Merged(lists[k - 1], seq[k])
                    /\ FoldLeft(Merged, <<>>, seq) = lists[n]
<1> DEFINE lists == [k \in 0 .. n |-> Lists(seq)[1 .. k]]
<1>1. \A s \in SUBSET DOMAIN seq : Lists(seq)[s] = Extended(seq, Lists(seq), s)
  <2>1. \A g : g = [s \in SUBSET DOMAIN seq |-> Extended(seq, g, s)]
               => \A s \in SUBSET DOMAIN seq : g[s] = Extended(seq, g, s)
    OBVIOUS
  <2> QED
    BY <2>1, ListsDefined
<1>2. FoldLeft(Merged, <<>>, seq) = Lists(seq)[DOMAIN seq]
  BY DEF FoldLeft, MapThenFoldSet, Lists, Extended
<1>3. lists[0] = <<>>
  <2>1. 1 .. 0 = {} /\ {} \in SUBSET DOMAIN seq
    OBVIOUS
  <2>2. Lists(seq)[{}] = <<>>
    BY <1>1, <2>1 DEF Extended
  <2> QED
    BY <2>1, <2>2
<1>4. ASSUME NEW k \in 1 .. n PROVE lists[k] = Merged(lists[k - 1], seq[k])
  <2>1. 1 .. k \subseteq 0 .. n /\ 1 .. k # {} /\ 1 .. k \in SUBSET DOMAIN seq
    <3>1. k \in Nat /\ k <= n /\ k >= 1
      OBVIOUS
    <3>2. \A x \in 1 .. k : x \in 0 .. n /\ x \in 1 .. n
      BY <3>1
    <3>3. 1 .. k \subseteq 0 .. n
      BY <3>2
    <3>4. 1 .. k \subseteq DOMAIN seq
      BY <3>2
    <3>5. k \in 1 .. k
      BY <3>1
    <3> QED
      BY <3>3, <3>4, <3>5
  <2>2. Max(1 .. k) \in 1 .. k /\ \A x \in 1 .. k : x <= Max(1 .. k)
    BY <2>1, Greatest
  <2>3. Max(1 .. k) = k
    BY <2>2
  <2>4. (1 .. k) \ {k} = 1 .. (k - 1) /\ k - 1 \in 0 .. n /\ k \in 0 .. n
    OBVIOUS
  <2>5. Lists(seq)[1 .. k] = Merged(Lists(seq)[1 .. (k - 1)], seq[k])
    BY <1>1, <2>1, <2>3, <2>4 DEF Extended
  <2> QED
    BY <2>4, <2>5
<1>5. lists[n] = Lists(seq)[DOMAIN seq]
  OBVIOUS
<1> HIDE DEF lists
<1> QED
  BY <1>2, <1>3, <1>4, <1>5

(* Lists of classes, each of which ends after it starts.                   *)
Valid(list) == list \in Seq(Entry) /\ \A n \in DOMAIN list : list[n].start < list[n].end
(* What a class adds to the hours of a course.                             *)
Share(e, code, from) == IF e.code = code /\ e.start >= from THEN Hours(e) ELSE 0

(* A class has hours, and a number of them.                                *)
LEMMA EntryHours ==
  ASSUME NEW e \in Entry, e.start < e.end
  PROVE  Hours(e) \in Nat \ {0} /\ \A code, from : Share(e, code, from) \in Nat
BY DEF Entry, Hours, Share

(* So has any list of them.                                                *)
LEMMA ValidHours ==
  ASSUME NEW list, Valid(list), NEW code, NEW from
  PROVE  /\ IsFiniteSet(DOMAIN list) /\ \A n \in DOMAIN list : Hours(list[n]) \in Nat
         /\ HoursOf(list, code, from) \in Nat
<1>1. IsFiniteSet(DOMAIN list)
  <2>1. Len(list) \in Nat /\ DOMAIN list = 1 .. Len(list)
    BY DEF Valid
  <2> QED
    BY <2>1, FS_Interval
<1>2. \A n \in DOMAIN list : Hours(list[n]) \in Nat
  BY EntryHours DEF Valid
<1> DEFINE f == [n \in DOMAIN list |-> Hours(list[n])]
           S == {n \in DOMAIN list : list[n].code = code /\ list[n].start >= from}
<1>3. IsFiniteSet(S) /\ \A n \in S : f[n] \in Nat
  BY <1>1, <1>2, FS_Subset
<1>4. SumFunctionOnSet(f, S) \in Nat
  <2> HIDE DEF f, S
  <2> QED
    BY <1>3, SumNat
<1> QED
  BY <1>1, <1>2, <1>4 DEF HoursOf

(* One class more at the end.                                              *)
LEMMA HoursAppend ==
  ASSUME NEW list, Valid(list), NEW e \in Entry, e.start < e.end, NEW code, NEW from
  PROVE  /\ Valid(Append(list, e))
         /\ HoursOf(Append(list, e), code, from) = HoursOf(list, code, from) + Share(e, code, from)
<1> DEFINE more == Append(list, e)
           m == Len(list) + 1
           Of(l) == {n \in DOMAIN l : l[n].code = code /\ l[n].start >= from}
           f == [n \in DOMAIN list |-> Hours(list[n])]
           g == [n \in DOMAIN more |-> Hours(more[n])]
<1>0. /\ HoursOf(list, code, from) = SumFunctionOnSet(f, Of(list))
      /\ HoursOf(more, code, from) = SumFunctionOnSet(g, Of(more))
      /\ HoursOf(list, code, from) \in Int
  <2>1. HoursOf(list, code, from) \in Int
    BY ValidHours
  <2> QED
    BY <2>1 DEF HoursOf
<1>1. /\ DOMAIN list = 1 .. Len(list) /\ Len(list) \in Nat /\ DOMAIN more = DOMAIN list \cup {m}
      /\ m \notin DOMAIN list /\ more[m] = e /\ \A n \in DOMAIN list : more[n] = list[n]
  BY DEF Valid
<1>2. Valid(more)
  BY <1>1 DEF Valid
<1>3. IsFiniteSet(Of(list)) /\ \A n \in Of(list) : g[n] = f[n] /\ f[n] \in Int
  <2>1. Of(list) \subseteq DOMAIN list
    OBVIOUS
  <2>2. IsFiniteSet(Of(list))
    BY <2>1, ValidHours, FS_Subset
  <2>3. \A n \in DOMAIN list : g[n] = f[n] /\ f[n] \in Int
    BY <1>1, ValidHours
  <2> QED
    BY <2>1, <2>2, <2>3
<1>4. SumFunctionOnSet(g, Of(list)) = SumFunctionOnSet(f, Of(list))
  <2> HIDE DEF f, g, Of
  <2> QED
    BY <1>3, SumSame
<1>5. g[m] = Hours(e) /\ Hours(e) \in Int
  BY <1>1, EntryHours
<1>6. CASE e.code = code /\ e.start >= from
  <2>1. Of(more) = Of(list) \cup {m} /\ m \notin Of(list)
    BY <1>1, <1>6
  <2>2. SumFunctionOnSet(g, Of(list) \cup {m}) = SumFunctionOnSet(g, Of(list)) + g[m]
    <3> HIDE DEF f, g, Of, m
    <3> QED
      BY <1>3, <1>5, <2>1, SumAdd
  <2> HIDE DEF f, g, Of, more
  <2> QED
    BY <1>0, <1>2, <1>4, <1>5, <1>6, <2>1, <2>2 DEF Share, more
<1>7. CASE ~(e.code = code /\ e.start >= from)
  <2>1. Of(more) = Of(list)
    BY <1>1, <1>7
  <2> HIDE DEF f, g, Of, more
  <2> QED
    BY <1>0, <1>2, <1>4, <1>7, <2>1 DEF Share, more
<1> QED
  BY <1>6, <1>7

(* Merging a class into the one before it keeps the hours of every course; *)
(* of those that start late enough it may lose some, and adds none.        *)
LEMMA HoursMerged ==
  ASSUME NEW list, Valid(list), NEW e \in Entry, e.start < e.end, NEW code, NEW from \in Nat
  PROVE  /\ Valid(Merged(list, e))
         /\ HoursOf(Merged(list, e), code, from) <= HoursOf(list, code, from) + Share(e, code, from)
         /\ from = 0 =>
               HoursOf(Merged(list, e), code, from) = HoursOf(list, code, from) + Share(e, code, from)
<1>1. HoursOf(list, code, from) \in Int /\ Share(e, code, from) \in Int
  BY ValidHours, EntryHours
<1>2. CASE Merged(list, e) = Append(list, e)
  <2>1. HoursOf(Append(list, e), code, from) = HoursOf(list, code, from) + Share(e, code, from)
    BY HoursAppend
  <2>2. Valid(Append(list, e))
    BY HoursAppend
  <2> QED
    BY <1>1, <1>2, <2>1, <2>2
<1>3. CASE list # <<>> /\ SameClass(Last(list), e) /\ Last(list).end = e.start
  <2> DEFINE front == Front(list)
             last == Last(list)
             both == [last EXCEPT !.end = e.end, !.hours = Hours(last) + Hours(e)]
  <2>1. /\ Valid(front) /\ last \in Entry /\ last.start < last.end
        /\ list = Append(front, last)
    BY <1>3 DEF Valid, Front, Last
  <2>2. Hours(last) \in Nat \ {0} /\ Hours(e) \in Nat \ {0}
    BY <2>1, EntryHours
  <2> HIDE DEF last, front
  <2>3. /\ both \in Entry /\ both.end = e.end /\ both.hours = Hours(last) + Hours(e)
        /\ both.code = last.code /\ both.start = last.start
    <3> DEFINE h == Hours(last) + Hours(e)
    <3>1. h \in Nat \ {0}
      BY <2>2
    <3> DEFINE J(t, k) == [last EXCEPT !.end = t, !.hours = k]
    <3>2. ASSUME NEW t \in Nat, NEW k \in Nat \ {0}
          PROVE  /\ J(t, k) \in Entry /\ J(t, k).end = t /\ J(t, k).hours = k
                 /\ J(t, k).code = last.code /\ J(t, k).start = last.start
      BY <2>1 DEF Entry
    <3>3. e.end \in Nat
      BY DEF Entry
    <3> HIDE DEF h
    <3>4. both = J(e.end, h)
      BY DEF h
    <3> HIDE DEF both, J
    <3>5. /\ both \in Entry /\ both.end = e.end /\ both.hours = h
          /\ both.code = last.code /\ both.start = last.start
      BY <2>1, <3>1, <3>2, <3>3, <3>4
    <3> QED
      BY <3>5 DEF h
  <2>4. both.start < both.end /\ both.code = e.code /\ both.start <= e.start
    BY <1>3, <2>1, <2>3 DEF Entry, SameClass, last
  <2>5. Hours(both) = Hours(last) + Hours(e)
    BY <2>2, <2>3, TimetableAssumption DEF Hours
  <2> HIDE DEF both
  <2>6. /\ Share(both, code, from) <= Share(last, code, from) + Share(e, code, from)
        /\ from = 0 => Share(both, code, from) = Share(last, code, from) + Share(e, code, from)
    BY <2>1, <2>2, <2>3, <2>4, <2>5 DEF Share, Entry
  <2>7. Merged(list, e) = Append(front, both)
    BY <1>3 DEF Merged, front, both, last
  <2>8. /\ Valid(Append(front, both))
        /\ HoursOf(Append(front, both), code, from) = HoursOf(front, code, from) + Share(both, code, from)
        /\ HoursOf(list, code, from) = HoursOf(front, code, from) + Share(last, code, from)
    BY <2>1, <2>3, <2>4, HoursAppend
  <2>9. /\ HoursOf(front, code, from) \in Int /\ Share(both, code, from) \in Int
        /\ Share(last, code, from) \in Int
    BY <2>1, <2>3, <2>4, ValidHours, EntryHours
  <2> QED
    BY <1>1, <2>6, <2>7, <2>8, <2>9
<1> QED
  BY <1>2, <1>3 DEF Merged

(* Nothing is no class.                                                    *)
LEMMA HoursNone == Valid(<<>>) /\ \A code, from : HoursOf(<<>>, code, from) = 0
<1>1. Valid(<<>>)
  BY DEF Valid
<1>2. ASSUME NEW code, NEW from PROVE HoursOf(<<>>, code, from) = 0
  <2>1. {n \in DOMAIN <<>> : <<>>[n].code = code /\ <<>>[n].start >= from} = {}
    OBVIOUS
  <2> QED
    BY <2>1, SumEmpty DEF HoursOf
<1> QED
  BY <1>1, <1>2

(* The classes shown have the hours of those they are merged from.         *)
LEMMA HoursKept ==
  ASSUME NEW seq, Valid(seq), NEW code, NEW from \in Nat
  PROVE  LET shown == FoldLeft(Merged, <<>>, seq) IN
         /\ Valid(shown)
         /\ HoursOf(shown, code, from) <= HoursOf(seq, code, from)
         /\ from = 0 => HoursOf(shown, code, from) = HoursOf(seq, code, from)
<1> DEFINE n == Len(seq)
<1>1. n \in Nat /\ DOMAIN seq = 1 .. n
  BY DEF Valid
<1>2. PICK lists : /\ lists[0] = <<>>
                   /\ \A k \in 1 .. n : lists[k] = Merged(lists[k - 1], seq[k])
                   /\ FoldLeft(Merged, <<>>, seq) = lists[n]
  BY <1>1, MergedStep
<1> DEFINE Kept(list, part) == /\ Valid(list) /\ Valid(part)
                               /\ HoursOf(list, code, from) <= HoursOf(part, code, from)
                               /\ from = 0 => HoursOf(list, code, from) = HoursOf(part, code, from)
           Bad == {k \in 0 .. n : ~Kept(lists[k], SubSeq(seq, 1, k))}
<1>3. Bad = {}
  <2> SUFFICES ASSUME Bad # {} PROVE FALSE
    OBVIOUS
  <2>1. PICK k \in Bad : \A m \in Bad : k <= m
    <3>1. Bad \subseteq Nat
      OBVIOUS
    <3> QED
      BY <3>1, LeastNumber
  <2>2. k # 0
    <3>1. SubSeq(seq, 1, 0) = <<>>
      BY DEF Valid
    <3>2. Kept(<<>>, <<>>)
      BY HoursNone
    <3> HIDE DEF Kept
    <3> QED
      BY <1>2, <3>1, <3>2
  <2> DEFINE before == lists[k - 1]
             part == SubSeq(seq, 1, k - 1)
             e == seq[k]
  <2>3. k \in 1 .. n /\ k - 1 \in 0 .. n /\ k - 1 \notin Bad
    BY <1>1, <2>1, <2>2
  <2>4. Kept(before, part)
    BY <2>3
  <2>5. e \in Entry /\ e.start < e.end /\ SubSeq(seq, 1, k) = Append(part, e) /\ lists[k] = Merged(before, e)
    BY <1>1, <1>2, <2>3 DEF Valid
  <2> HIDE DEF before, part, e
  <2>6. /\ Valid(Merged(before, e)) /\ Valid(Append(part, e))
        /\ HoursOf(Append(part, e), code, from) = HoursOf(part, code, from) + Share(e, code, from)
        /\ HoursOf(Merged(before, e), code, from) <= HoursOf(before, code, from) + Share(e, code, from)
        /\ from = 0 =>
              HoursOf(Merged(before, e), code, from) = HoursOf(before, code, from) + Share(e, code, from)
    BY <2>4, <2>5, HoursMerged, HoursAppend
  <2>7. /\ HoursOf(before, code, from) \in Int /\ HoursOf(part, code, from) \in Int
        /\ Share(e, code, from) \in Int /\ HoursOf(Merged(before, e), code, from) \in Int
    BY <2>4, <2>5, <2>6, ValidHours, EntryHours
  <2>8. Kept(Merged(before, e), Append(part, e))
    BY <2>4, <2>6, <2>7
  <2> QED
    BY <2>5, <2>8
<1>4. Kept(lists[n], SubSeq(seq, 1, n))
  BY <1>1, <1>3
<1>5. SubSeq(seq, 1, n) = seq
  BY DEF Valid
<1> QED
  BY <1>2, <1>4, <1>5

----------------------------------------------------------------------------
(* The hours taught are those the timetable lists                          *)

(* The report's classes are ordered by start, then by their place in it.   *)
LEMMA BeforeOrders ==
  /\ \A i \in DOMAIN Timetable : ~Before(i, i)
  /\ \A i, j \in DOMAIN Timetable : Before(i, j) \/ Before(j, i) \/ i = j
  /\ \A i, j, k \in DOMAIN Timetable : Before(i, j) /\ Before(j, k) => Before(i, k)
<1>1. \A i \in DOMAIN Timetable : i \in Nat /\ Timetable[i].start \in Nat
  <2>1. \A i \in DOMAIN Timetable : i \in Nat /\ Timetable[i] \in Entry
    BY TimetableAssumption
  <2> QED
    BY <2>1 DEF Entry
<1> QED
  BY <1>1 DEF Before

(* So any of them can be put in order, each once.                          *)
LEMMA SortedOnce ==
  ASSUME NEW taken, taken \subseteq DOMAIN Timetable
  PROVE  /\ IsFiniteSet(taken) /\ Cardinality(taken) \in Nat
         /\ Sorted(taken) \in [1 .. Cardinality(taken) -> taken]
         /\ \A m, k \in 1 .. Cardinality(taken) : Sorted(taken)[m] = Sorted(taken)[k] => m = k
         /\ \A i \in taken : \E m \in 1 .. Cardinality(taken) : Sorted(taken)[m] = i
<1> DEFINE n == Cardinality(taken)
           Preds(i) == {j \in taken : Before(j, i)}
           rank == [i \in taken |-> Cardinality(Preds(i))]
<1>1. IsFiniteSet(taken) /\ n \in Nat
  <2>1. IsFiniteSet(DOMAIN Timetable)
    BY TimetableAssumption, FS_Interval
  <2> QED
    BY <2>1, FS_Subset, FS_CardinalityType
<1>2. \A i \in taken : IsFiniteSet(Preds(i)) /\ Cardinality(Preds(i)) \in Nat
  BY <1>1, FS_Subset, FS_CardinalityType
<1>3. ASSUME NEW i \in taken PROVE rank[i] \in 0 .. n - 1
  <2>1. Preds(i) \subseteq taken \ {i}
    BY BeforeOrders
  <2>2. IsFiniteSet(taken \ {i}) /\ Cardinality(taken \ {i}) = n - 1
    BY <1>1, Smaller
  <2>3. Cardinality(Preds(i)) <= n - 1
    BY <2>1, <2>2, FS_Subset
  <2> QED
    BY <1>1, <1>2, <2>3
<1>4. ASSUME NEW i \in taken, NEW k \in taken, Before(i, k) PROVE rank[i] < rank[k]
  <2>1. Preds(i) \subseteq Preds(k) \ {i} /\ i \in Preds(k)
    BY <1>4, BeforeOrders
  <2>2. IsFiniteSet(Preds(k) \ {i}) /\ Cardinality(Preds(k) \ {i}) < Cardinality(Preds(k))
    BY <1>2, <2>1, Smaller
  <2>3. Cardinality(Preds(i)) <= Cardinality(Preds(k) \ {i}) /\ Cardinality(Preds(k) \ {i}) \in Nat
    BY <2>1, <2>2, FS_Subset, FS_CardinalityType
  <2> QED
    BY <1>2, <2>2, <2>3
<1>5. \A m \in 1 .. n : \E i \in taken : rank[i] = m - 1
  <2>1. rank \in Injection(taken, 0 .. n - 1)
    <3>1. \A i, k \in taken : rank[i] = rank[k] => i = k
      <4> HIDE DEF rank
      <4> QED
        BY <1>1, <1>3, <1>4, BeforeOrders
    <3>2. rank \in [taken -> 0 .. n - 1]
      BY <1>3
    <3> QED
      BY <3>1, <3>2 DEF Injection, IsInjective
  <2>2. IsFiniteSet(0 .. n - 1) /\ Cardinality(0 .. n - 1) = n
    BY <1>1, FS_Interval
  <2>3. rank \in Surjection(taken, 0 .. n - 1)
    BY <2>1, <2>2, FS_Injection
  <2>4. \A m \in 1 .. n : m - 1 \in 0 .. n - 1
    BY <1>1
  <2>5. \A r \in 0 .. n - 1 : \E i \in taken : rank[i] = r
    BY <2>3 DEF Surjection
  <2> HIDE DEF rank, n
  <2> QED
    BY <2>4, <2>5
<1> DEFINE Ordered(p) == \A m, k \in DOMAIN p : m < k => Before(p[m], p[k])
           place == [m \in 1 .. n |-> CHOOSE i \in taken : rank[i] = m - 1]
<1>6. place \in [1 .. n -> taken] /\ Ordered(place)
  <2>1. \A m \in 1 .. n : place[m] \in taken /\ rank[place[m]] = m - 1
    BY <1>5
  <2>2. ASSUME NEW m \in 1 .. n, NEW k \in 1 .. n, m < k PROVE Before(place[m], place[k])
    <3>1. place[m] \in taken /\ place[k] \in taken /\ rank[place[m]] < rank[place[k]]
      <4> HIDE DEF rank, place
      <4> QED
        BY <1>1, <2>1, <2>2
    <3>2. ~Before(place[k], place[m]) /\ place[m] # place[k]
      <4> HIDE DEF rank, place
      <4> QED
        BY <1>3, <1>4, <3>1
    <3> QED
      BY <3>1, <3>2, BeforeOrders
  <2> QED
    BY <2>1, <2>2
<1>7. Sorted(taken) \in [1 .. n -> taken] /\ Ordered(Sorted(taken))
  <2> HIDE DEF place
  <2> QED
    BY <1>6 DEF Sorted
<1>8. \A m, k \in 1 .. n : Sorted(taken)[m] = Sorted(taken)[k] => m = k
  <2>1. \A m, k \in 1 .. n : m < k => Before(Sorted(taken)[m], Sorted(taken)[k])
    BY <1>7
  <2>2. \A m, k \in 1 .. n : m < k \/ k < m \/ m = k
    BY <1>1
  <2>3. \A m \in 1 .. n : Sorted(taken)[m] \in DOMAIN Timetable
    BY <1>7
  <2> QED
    BY <2>1, <2>2, <2>3, BeforeOrders
<1>9. Sorted(taken) \in Surjection(1 .. n, taken)
  <2>1. Sorted(taken) \in Injection(1 .. n, taken)
    BY <1>7, <1>8 DEF Injection, IsInjective
  <2>2. Cardinality(1 .. n) = n
    BY <1>1, FS_Interval
  <2> QED
    BY <1>1, <2>1, <2>2, FS_Injection
<1> QED
  BY <1>1, <1>7, <1>8, <1>9 DEF Surjection

(* The classes of the report are classes.                                  *)
LEMMA TimetableValid == Valid(Timetable) /\ IsFiniteSet(DOMAIN Timetable)
<1>1. Valid(Timetable)
  BY TimetableAssumption DEF Valid
<1> QED
  BY <1>1, ValidHours

(* The hours a day gives a course are those listed for it, whatever is     *)
(* merged; of those from some hour on, no more than listed.                *)
LEMMA TaughtAsListed ==
  ASSUME NEW d, NEW code, NEW filter, NEW from \in Nat
  PROVE  /\ TaughtHours(d, code, filter, from) \in Nat /\ Listed(d, code, filter, from) \in Nat
         /\ TaughtHours(d, code, filter, from) <= Listed(d, code, filter, from)
         /\ from = 0 => TaughtHours(d, code, filter, from) = Listed(d, code, filter, from)
<1> DEFINE f == [i \in DOMAIN Timetable |-> Hours(Timetable[i])]
           L == {i \in DOMAIN Timetable :
                   /\ DayState(d).kind = "teaching" /\ Timetable[i].order = DayState(d).order
                   /\ filter = None \/ Timetable[i].batch \in {None, filter}
                   /\ Timetable[i].code = code /\ Timetable[i].start >= from}
<1>1. Listed(d, code, filter, from) = SumFunctionOnSet(f, L)
  BY DEF Listed
<1>2. \A i \in DOMAIN Timetable : Timetable[i] \in Entry /\ f[i] \in Nat
  BY TimetableValid, EntryHours DEF Valid
<1>3. IsFiniteSet(L) /\ L \subseteq DOMAIN Timetable
  BY TimetableValid, FS_Subset
<1>4. SumFunctionOnSet(f, L) \in Nat
  <2> HIDE DEF f, L
  <2> QED
    BY <1>2, <1>3, SumNat
<1>5. CASE DayState(d).kind # "teaching"
  <2>1. L = {} /\ Classes(d, filter) = <<>>
    BY <1>5 DEF Classes
  <2> HIDE DEF f, L
  <2>2. SumFunctionOnSet(f, L) = 0 /\ TaughtHours(d, code, filter, from) = 0
    BY <2>1, SumEmpty, HoursNone DEF TaughtHours
  <2> QED
    BY <1>1, <2>2
<1>6. CASE DayState(d).kind = "teaching"
  <2> DEFINE taken == Taken(d, filter)
             n == Cardinality(taken)
             order == Sorted(taken)
             seq == [m \in DOMAIN order |-> Timetable[order[m]]]
             g == [m \in DOMAIN seq |-> Hours(seq[m])]
             S == {m \in DOMAIN seq : seq[m].code = code /\ seq[m].start >= from}
  <2>1. /\ taken \subseteq DOMAIN Timetable /\ n \in Nat
        /\ order \in [1 .. n -> taken] /\ DOMAIN order = 1 .. n
        /\ \A m, k \in 1 .. n : order[m] = order[k] => m = k
        /\ \A i \in taken : \E m \in 1 .. n : order[m] = i
    <3>1. taken \subseteq DOMAIN Timetable
      BY DEF Taken
    <3> HIDE DEF taken
    <3> QED
      BY <3>1, SortedOnce
  <2>2. L = {i \in taken : Timetable[i].code = code /\ Timetable[i].start >= from}
    BY <1>6 DEF Taken
  <2> HIDE DEF taken, n, order, f, L
  <2>3. /\ seq \in [1 .. n -> Entry]
        /\ \A m \in 1 .. n : seq[m] = Timetable[order[m]] /\ seq[m].start < seq[m].end
    BY <1>2, <2>1, TimetableValid DEF Valid
  <2>4. Valid(seq)
    <3> HIDE DEF seq
    <3> QED
      BY <2>1, <2>3 DEF Valid
  <2>5. SumFunctionOnSet(g, S) = SumFunctionOnSet(f, {order[m] : m \in S})
    <3>1. IsFiniteSet(S)
      <4>1. S \subseteq 1 .. n /\ IsFiniteSet(1 .. n)
        BY <2>1, FS_Interval
      <4> QED
        BY <4>1, FS_Subset
    <3>2. \A m \in S : g[m] = f[order[m]] /\ g[m] \in Int
      BY <1>2, <2>1 DEF f
    <3>3. \A m, k \in S : order[m] = order[k] => m = k
      BY <2>1
    <3> HIDE DEF g, S
    <3> QED
      BY <3>1, <3>2, <3>3, SumRenamed
  <2>6. {order[m] : m \in S} = L
    <3>1. S = {m \in 1 .. n : Timetable[order[m]].code = code /\ Timetable[order[m]].start >= from}
      BY <2>1
    <3> HIDE DEF S, seq, g
    <3>2. \A m \in S : order[m] \in L
      BY <2>1, <2>2, <3>1
    <3>3. ASSUME NEW i \in L PROVE \E m \in S : order[m] = i
      BY <2>1, <2>2, <3>1
    <3> QED
      BY <3>2, <3>3
  <2>7. HoursOf(seq, code, from) = Listed(d, code, filter, from)
    BY <1>1, <2>5, <2>6 DEF HoursOf
  <2>8. TaughtHours(d, code, filter, from) = HoursOf(FoldLeft(Merged, <<>>, seq), code, from)
    BY <1>6 DEF TaughtHours, Classes, order, taken
  <2> HIDE DEF seq
  <2>9. /\ Valid(FoldLeft(Merged, <<>>, seq))
        /\ HoursOf(FoldLeft(Merged, <<>>, seq), code, from) <= HoursOf(seq, code, from)
        /\ from = 0 => HoursOf(FoldLeft(Merged, <<>>, seq), code, from) = HoursOf(seq, code, from)
    BY <2>4, HoursKept
  <2>10. TaughtHours(d, code, filter, from) \in Nat
    BY <2>8, <2>9, ValidHours
  <2> QED
    BY <1>1, <1>4, <2>7, <2>8, <2>9, <2>10
<1> QED
  BY <1>5, <1>6

----------------------------------------------------------------------------
(* Predictions                                                             *)

(* Integer division.                                                       *)
LEMMA Quotient ==
  ASSUME NEW a \in Int, NEW b \in Nat \ {0}
  PROVE  a \div b \in Int /\ b * (a \div b) <= a /\ a < b * (a \div b) + b
OBVIOUS

(* ... rounded up.                                                         *)
LEMMA Ceiling ==
  ASSUME NEW a \in Int, NEW b \in Nat \ {0}
  PROVE  CeilDiv(a, b) \in Int /\ a <= b * CeilDiv(a, b) /\ b * CeilDiv(a, b) < a + b
<1>1. b * (- ((- a) \div b)) = - (b * ((- a) \div b))
  BY Quotient
<1> QED BY Quotient, <1>1 DEF CeilDiv

(* The hours needed are the fewest that reach the target; they can only be *)
(* out of reach if every hour has to be attended and one was not.          *)
LEMMA NeededExact ==
  ASSUME NEW p \in Nat, NEW c \in Nat, p <= c
  PROVE  LET n == Needed(p, c)
             reaches(k) == 100 * (p + k) >= Target * (c + k) IN
         /\ n = None => Target = 100 /\ p < c
         /\ n # None => n \in Nat /\ reaches(n) /\ (n = 0 \/ ~reaches(n - 1))
<1> DEFINE a == Target * c - 100 * p
           b == 100 - Target
           q == CeilDiv(a, b)
           reaches(k) == 100 * (p + k) >= Target * (c + k)
<1>0. Target \in 1 .. 100 /\ None \notin Int /\ Target * c \in Int
  <2>1. Target \in 1 .. 100 /\ None \notin Int
    BY TargetAssumption, TimetableAssumption
  <2>2. Target * c \in Int
    BY <2>1
  <2> QED
    BY <2>1, <2>2
<1>1. CASE 100 * p >= Target * c
  BY <1>0, <1>1 DEF Needed
<1>2. CASE ~(100 * p >= Target * c) /\ Target >= 100
  BY <1>0, <1>2 DEF Needed
<1>3. CASE ~(100 * p >= Target * c) /\ ~(Target >= 100)
  <2>1. a \in Nat \ {0} /\ b \in Nat \ {0}
    BY <1>0, <1>3
  <2>2. q \in Int /\ a <= b * q /\ b * q < a + b
    <3> HIDE DEF a, b
    <3> QED
      BY <2>1, Ceiling
  <2>3. q > 0
    <3>1. ASSUME q <= 0 PROVE b * q <= 0
      BY <2>1, <2>2, <3>1
    <3> QED
      BY <2>1, <2>2, <3>1
  <2>4. \A k \in Int : reaches(k) <=> a <= b * k
    <3>1. ASSUME NEW k \in Int
          PROVE  /\ Target * (c + k) = Target * c + Target * k
                 /\ (100 - Target) * k = 100 * k - Target * k
       BY <1>0
    <3> QED BY <3>1, <1>0
  <2>5. b * (q - 1) = b * q - b
    BY <2>1, <2>2
  <2>6. Needed(p, c) = q
    BY <1>3 DEF Needed
  <2> HIDE DEF a, b, q, reaches
  <2>7. reaches(q) /\ ~reaches(q - 1) /\ q \in Nat
    BY <2>1, <2>2, <2>3, <2>4, <2>5
  <2> QED BY <1>0, <2>6, <2>7 DEF reaches
<1> QED BY <1>1, <1>2, <1>3

(* The hours that can be missed are the most that keep the target.         *)
LEMMA CanMissExact ==
  ASSUME NEW p \in Nat, NEW c \in Nat \ {0}
  PROVE  LET n == CanMiss(p, c)
             keeps(k) == 100 * p >= Target * (c + k) IN
         n \in Nat /\ ~keeps(n + 1) /\ (n = 0 \/ keeps(n))
<1> DEFINE q == (100 * p) \div Target
           keeps(k) == 100 * p >= Target * (c + k)
<1>0. Target \in 1 .. 100
  BY TargetAssumption
<1>1. q \in Int /\ Target * q <= 100 * p /\ 100 * p < Target * q + Target
  BY <1>0, Quotient
<1>2. \A k \in Int : keeps(k) <=> c + k <= q
  <2> SUFFICES ASSUME NEW k \in Int PROVE keeps(k) <=> c + k <= q
    OBVIOUS
  <2>1. CASE c + k <= q
    <3>1. Target * (c + k) <= Target * q
      BY <1>0, <1>1, <2>1
    <3> QED BY <1>0, <1>1, <3>1
  <2>2. CASE c + k >= q + 1
    <3>1. Target * (c + k) >= Target * (q + 1)
      BY <1>0, <1>1, <2>2
    <3>2. Target * (q + 1) = Target * q + Target
      BY <1>0, <1>1
    <3> QED BY <1>0, <1>1, <3>1, <3>2
  <2> QED BY <1>1, <2>1, <2>2
<1>3. CASE p > 0
  <2>1. CanMiss(p, c) = Most(0, q - c)
    BY <1>3 DEF CanMiss
  <2> HIDE DEF q, keeps
  <2> QED BY <1>1, <1>2, <2>1 DEF Most, keeps
<1>4. CASE p = 0
  <2>1. \A k \in Nat \ {0} : Target * k > 0
    BY <1>0
  <2>2. CanMiss(p, c) = 0 /\ 100 * p = 0 /\ c + (0 + 1) \in Nat \ {0}
    BY <1>4 DEF CanMiss
  <2>3. Target * (c + (0 + 1)) > 0 /\ Target * (c + (0 + 1)) \in Int
    <3> DEFINE k == c + (0 + 1)
    <3>1. k \in Nat \ {0}
      BY <2>2
    <3> HIDE DEF k
    <3>2. Target * k > 0 /\ Target * k \in Int
      BY <1>0, <2>1, <3>1
    <3> QED
      BY <3>2 DEF k
  <2>4. ~keeps(0 + 1)
    BY <2>2, <2>3
  <2> HIDE DEF keeps
  <2> QED
    BY <2>2, <2>4 DEF keeps
<1> QED BY <1>3, <1>4

(* Whatever hours are attended, missed and corrected, the prediction is    *)
(* exact.                                                                  *)
LEMMA PredictExact ==
  ASSUME NEW c \in Counts, NEW attend \in Nat, NEW miss \in Nat, NEW od \in Nat
  PROVE  /\ Exact(Predict(c, attend, miss, od))
         /\ Predict(c, attend, miss, od).needed \in Nat \cup {None}
<1> DEFINE p == c.present + Least(od, c.conducted - c.present) + attend
           q == c.conducted + attend + miss
           r == Predict(c, attend, miss, od)
<1>1. p \in Nat /\ q \in Nat /\ p <= q
  BY CountsAssumption DEF Least
<1>2. r = [present |-> p, conducted |-> q,
           needed |-> IF q = 0 THEN None ELSE Needed(p, q), canMiss |-> IF q = 0 THEN 0 ELSE CanMiss(p, q)]
  BY DEF Predict
<1> HIDE DEF p, q, r
<1>3. CASE q = 0
  BY <1>2, <1>3 DEF Exact, r
<1>4. CASE q # 0
  <2>1. r.present = p /\ r.conducted = q /\ r.needed = Needed(p, q) /\ r.canMiss = CanMiss(p, q)
    BY <1>2, <1>4
  <2>2. Exact(r)
    <3>1. q \in Nat \ {0}
      BY <1>1, <1>4
    <3> DEFINE n == Needed(p, q)
               m == CanMiss(p, q)
    <3>2. /\ n = None => Target = 100 /\ p < q
          /\ n # None => n \in Nat /\ 100 * (p + n) >= Target * (q + n)
                         /\ (n = 0 \/ ~(100 * (p + (n - 1)) >= Target * (q + (n - 1))))
      BY <1>1, NeededExact
    <3>3. /\ ~(100 * p >= Target * (q + (m + 1)))
          /\ m = 0 \/ 100 * p >= Target * (q + m)
      BY <1>1, <3>1, CanMissExact
    <3> HIDE DEF n, m
    <3> QED
      BY <2>1, <3>2, <3>3 DEF Exact, n, m
  <2>3. r.needed \in Nat \cup {None}
    BY <1>1, <2>1, NeededExact
  <2> QED
    BY <2>2, <2>3 DEF r
<1> QED
  BY <1>3, <1>4

----------------------------------------------------------------------------
(* The dialog                                                              *)

TypeOK ==
  /\ calendar \in Calendars \cup {NoCalendar} /\ courses \in Reports \cup {<<>>}
  /\ today \in Day /\ hour \in Hour /\ batch \in Batches
  /\ selected \in [Day -> Actions \cup {"none"}] /\ action \in Actions
  /\ open \in BOOLEAN /\ enabled \in SUBSET Day

(* A day that could not be selected now is alone, and has had every button *)
(* drawn again.                                                            *)
Drawn == Stale = {} \/ ((\E d \in Day : Stale = {d}) /\ enabled = Clickable)

IInv == TypeOK /\ Drawn

(* Nothing is selected at first.                                           *)
LEMMA InitIInv == Init => IInv
<1>1. Init => Stale = {}
  BY DEF Init, Stale, Nothing
<1> QED
  BY <1>1 DEF Init, IInv, TypeOK, Drawn, Nothing, Actions, Batches

(* Every step keeps the types.                                             *)
LEMMA StepTypeOK == TypeOK /\ [Next]_vars => TypeOK'
<1> SUFFICES ASSUME TypeOK, [Next]_vars PROVE TypeOK'
  OBVIOUS
<1> USE DEF TypeOK
<1>1. Clickable' \in SUBSET Day
  BY DEF Clickable
<1>2. CASE Update
  BY <1>2 DEF Update, Nothing, Batches
<1>3. CASE SignOut
  BY <1>3 DEF SignOut, Nothing, Batches
<1>4. CASE FilterBatch
  BY <1>4 DEF FilterBatch, report
<1>5. CASE Open
  BY <1>1, <1>5 DEF Open, Render, report
<1>6. CASE Close
  BY <1>6 DEF Close, report
<1>7. CASE ChooseAction
  BY <1>1, <1>7 DEF ChooseAction, Render, report
<1>8. CASE Clear
  BY <1>1, <1>8 DEF Clear, Render, report, Nothing
<1>9. CASE Turn
  BY <1>1, <1>9 DEF Turn, Render, report
<1>10. ASSUME NEW d \in Day, Click(d) PROVE TypeOK'
  BY <1>1, <1>10 DEF Click, Render, report
<1>11. CASE UNCHANGED vars
  BY <1>11 DEF vars
<1> QED
  BY <1>2, <1>3, <1>4, <1>5, <1>6, <1>7, <1>8, <1>9, <1>10, <1>11 DEF Next

(* A drawing after which no other days are stale.                          *)
LEMMA Redrawn ==
  ASSUME Drawn, Render, Stale' \subseteq Stale
  PROVE  Drawn'
  BY DEF Drawn, Render

(* Whoever clicks a day that cannot be selected now does so on buttons     *)
(* drawn earlier, while no day is stale.                                   *)
LEMMA ClickDrawn ==
  ASSUME TypeOK, Drawn, NEW d \in Day, Click(d)
  PROVE  Drawn'
<1>1. /\ d \in enabled /\ \A e \in Day \ {d} : selected'[e] = selected[e]
      /\ selected'[d] = IF selected[d] = action THEN "none" ELSE action
      /\ UNCHANGED <<calendar, today, action>>
  BY DEF TypeOK, Click, report
<1>2. enabled' = Clickable'
  BY DEF Click, Render
<1>3. \A e \in Day : e # d => (e \in Stale' <=> e \in Stale)
  BY <1>1 DEF Stale, DayState
<1>4. CASE d \in Clickable
  <2>1. d \notin Stale'
    BY <1>1, <1>4 DEF Stale, Clickable, DayState
  <2>2. Stale' \subseteq Stale
    BY <1>3, <2>1 DEF Stale
  <2> QED
    BY <1>2, <2>2 DEF Drawn
<1>5. CASE d \notin Clickable
  <2>1. Stale = {}
    BY <1>1, <1>5 DEF Drawn
  <2>2. Stale' = {} \/ Stale' = {d}
    BY <1>3, <2>1 DEF Stale
  <2> QED
    BY <1>2, <2>2 DEF Drawn
<1> QED
  BY <1>4, <1>5

(* A report empties the selection; what else changes draws every button.   *)
LEMMA StepIInv == IInv /\ [Next]_vars => IInv'
<1> SUFFICES ASSUME IInv, [Next]_vars PROVE Drawn'
  BY StepTypeOK DEF IInv
<1> USE DEF IInv
<1>1. UNCHANGED <<calendar, today, selected>> => Stale' = Stale
  BY DEF Stale, DayState
<1>2. selected' = Nothing => Stale' = {}
  BY DEF Stale, Nothing
<1>3. CASE Update \/ SignOut \/ Clear
  BY <1>2, <1>3 DEF Update, SignOut, Clear, Drawn
<1>4. CASE FilterBatch \/ Close \/ UNCHANGED vars
  <2>1. UNCHANGED <<calendar, today, selected, action, enabled>>
    BY <1>4 DEF FilterBatch, Close, vars, report
  <2>2. Clickable' = Clickable
    BY <2>1 DEF Clickable, DayState
  <2> QED
    BY <1>1, <2>1, <2>2 DEF Drawn
<1>5. CASE Open \/ ChooseAction \/ Turn
  <2>1. Render /\ UNCHANGED <<calendar, today, selected>>
    BY <1>5 DEF Open, ChooseAction, Turn, report
  <2> QED
    BY <1>1, <2>1, Redrawn
<1>6. ASSUME NEW d \in Day, Click(d) PROVE Drawn'
  BY <1>6, ClickDrawn
<1> QED
  BY <1>3, <1>4, <1>5, <1>6 DEF Next

(* The invariant holds in every state.                                     *)
THEOREM Invariant == Spec => []IInv
  BY InitIInv, StepIInv, PTL DEF Spec

(* At most one day is selected that the dialog would not offer now,        *)
(* whatever reports arrive behind it, for every calendar and every day.    *)
THEOREM OneDayIsStale == Spec => []OneStaleDay
<1>1. IInv => OneStaleDay
  BY FS_EmptySet, FS_Singleton DEF IInv, Drawn, OneStaleDay
<1> QED
  BY <1>1, Invariant, PTL

(* The days that count are days of the calendar; those ahead are attended  *)
(* or missed.                                                              *)
LEMMA DaysCounted ==
  ASSUME IInv
  PROVE  /\ Dates \subseteq Day /\ IsFiniteSet(Dates) /\ IsFiniteSet(Day)
         /\ {d \in Dates : Field(d) = "miss"} = Leaves
         /\ {d \in Dates : Field(d) = "od"} = {d \in Day : d < today /\ selected[d] = "od"}
         /\ {d \in Dates : Field(d) = "attend"} \cup Leaves
              = {d \in Day : /\ d >= today
                             /\ \/ selected[d] # "none"
                                \/ d < today + MaxSpan /\ \E l \in Leaves : d <= l}
<1>1. /\ IsFiniteSet(Day) /\ Day = 1 .. Cardinality(Day) /\ Cardinality(Day) \in Nat
      /\ today \in Day /\ MaxSpan \in Nat /\ \A d \in Day : d \in Nat
  BY DayAssumption, FS_CardinalityType DEF IInv, TypeOK
<1>2. \A d \in Day : d \in Span <=> /\ d >= today /\ d < today + MaxSpan
                                    /\ \E l \in Leaves : d <= l
  <2>1. CASE Leaves = {}
    BY <2>1 DEF Span
  <2>2. CASE Leaves # {}
    <3>1. Leaves \subseteq 0 .. Cardinality(Day)
      BY <1>1 DEF Leaves
    <3>2. Max(Leaves) \in Leaves /\ \A l \in Leaves : l <= Max(Leaves)
      BY <1>1, <2>2, <3>1, Greatest
    <3>3. Max(Leaves) \in Day /\ \A l \in Leaves : l \in Day
      BY <3>2 DEF Leaves
    <3>4. ASSUME NEW d \in Day
          PROVE  (\E l \in Leaves : d <= l) <=> d <= Max(Leaves)
      BY <1>1, <3>2, <3>3
    <3>5. Span = today .. Least(Max(Leaves), today + MaxSpan - 1)
      BY <2>2 DEF Span
    <3>6. ASSUME NEW d \in Day
          PROVE  d \in Span <=> d >= today /\ d <= Max(Leaves) /\ d < today + MaxSpan
      BY <1>1, <3>3, <3>5 DEF Least
    <3> QED
      BY <3>4, <3>6
  <2> QED
    BY <2>1, <2>2
<1>3. Span \subseteq Day
  <2>1. CASE Leaves = {}
    BY <2>1 DEF Span
  <2>2. CASE Leaves # {}
    <3>1. Leaves \subseteq 0 .. Cardinality(Day)
      BY <1>1 DEF Leaves
    <3>2. Max(Leaves) \in Leaves
      BY <1>1, <2>2, <3>1, Greatest
    <3>3. Max(Leaves) \in Day
      BY <3>2 DEF Leaves
    <3>4. Span = today .. Least(Max(Leaves), today + MaxSpan - 1)
      BY <2>2 DEF Span
    <3> QED
      BY <1>1, <3>3, <3>4 DEF Least
  <2> QED
    BY <2>1, <2>2
<1>4. Dates \subseteq Day /\ IsFiniteSet(Dates)
  BY <1>1, <1>3, FS_Subset DEF Dates
<1>5. \A d \in Day : d \in Dates <=> d \in Span \/ selected[d] # "none"
  BY DEF Dates
<1>6. \A d \in Day : selected[d] \in {"none", "leave", "attend", "od"}
  BY DEF IInv, TypeOK, Actions
<1>7. {d \in Dates : Field(d) = "miss"} = Leaves
  BY <1>1, <1>4, <1>5, <1>6 DEF Field, Leaves
<1>8. {d \in Dates : Field(d) = "od"} = {d \in Day : d < today /\ selected[d] = "od"}
  BY <1>1, <1>4, <1>5, <1>6 DEF Field
<1>9. \A d \in Day : (d \in Dates /\ Field(d) = "attend") \/ d \in Leaves
                     <=> /\ d >= today
                         /\ \/ selected[d] # "none"
                            \/ d < today + MaxSpan /\ \E l \in Leaves : d <= l
  BY <1>1, <1>2, <1>4, <1>5, <1>6 DEF Field, Leaves
<1>10. Leaves \subseteq Day
  BY DEF Leaves
<1> QED
  BY <1>1, <1>4, <1>7, <1>8, <1>9, <1>10

(* The hours of a set of days, as the page adds them up and as listed.     *)
LEMMA DaysListed ==
  ASSUME IInv, NEW code, NEW days, days \subseteq Dates
  PROVE  /\ SumFunctionOnSet([d \in Dates |-> TaughtHours(d, code, batch, 0)], days) = Sum(days, code)
         /\ Sum(days, code) \in Nat
<1> DEFINE f == [d \in Dates |-> TaughtHours(d, code, batch, 0)]
           g == [d \in days |-> Listed(d, code, batch, 0)]
<1>1. IsFiniteSet(days)
  BY DaysCounted, FS_Subset
<1>2. \A d \in days : f[d] = g[d] /\ g[d] \in Nat
  BY TaughtAsListed
<1>3. DOMAIN g = days /\ Sum(days, code) = SumFunctionOnSet(g, DOMAIN g)
  BY DEF Sum, SumFunction
<1> HIDE DEF f, g
<1>4. SumFunctionOnSet(f, days) = SumFunctionOnSet(g, days) /\ SumFunctionOnSet(g, days) \in Nat
  BY <1>1, <1>2, SumSame, SumNat
<1> QED
  BY <1>3, <1>4 DEF f

(* The same for the days of two lists that share none.                     *)
LEMMA DaysApart ==
  ASSUME IInv, NEW code, NEW S, NEW T, S \cup T \subseteq Dates, S \cap T = {}
  PROVE  Sum(S, code) + Sum(T, code) = Sum(S \cup T, code)
<1> DEFINE f == [d \in Dates |-> TaughtHours(d, code, batch, 0)]
<1>1. IsFiniteSet(S) /\ IsFiniteSet(T)
  BY DaysCounted, FS_Subset
<1>2. \A d \in S \cup T : f[d] \in Int
  BY TaughtAsListed
<1>3. SumFunctionOnSet(f, S) = Sum(S, code) /\ SumFunctionOnSet(f, T) = Sum(T, code)
      /\ SumFunctionOnSet(f, S \cup T) = Sum(S \cup T, code)
  BY DaysListed
<1> HIDE DEF f
<1> QED
  BY <1>1, <1>2, <1>3, SumUnion

(* A field of the impact is the sum of the days counted in it.             *)
LEMMA ImpactListed ==
  ASSUME IInv, NEW code, NEW field \in {"attend", "miss", "od"}
  PROVE  /\ Impact(code)[field] = Sum({d \in Dates : Field(d) = field}, code)
         /\ Impact(code)[field] \in Nat
<1>1. {d \in Dates : Field(d) = field} \subseteq Dates
  OBVIOUS
<1>2. Impact(code)[field]
        = SumFunctionOnSet([d \in Dates |-> TaughtHours(d, code, batch, 0)], {d \in Dates : Field(d) = field})
  BY DEF Impact
<1> QED
  BY <1>1, <1>2, DaysListed

(* Every hour ahead is attended or missed, once; the corrections are the   *)
(* past days marked as such.                                               *)
LEMMA Accounted == IInv => HoursAccounted
<1> SUFFICES ASSUME IInv, NEW code \in DOMAIN courses
             PROVE  LET impact == Impact(code)
                        ahead == {d \in Day : /\ d >= today
                                              /\ \/ selected[d] # "none"
                                                 \/ d < today + MaxSpan /\ \E l \in Leaves : d <= l} IN
                    /\ impact["attend"] + impact["miss"] = Sum(ahead, code)
                    /\ impact["miss"] = Sum(Leaves, code)
                    /\ impact["od"] = Sum({d \in Day : d < today /\ selected[d] = "od"}, code)
  BY DEF HoursAccounted
<1> DEFINE In(field) == {d \in Dates : Field(d) = field}
<1>1. /\ Impact(code)["attend"] = Sum(In("attend"), code)
      /\ Impact(code)["miss"] = Sum(In("miss"), code)
      /\ Impact(code)["od"] = Sum(In("od"), code)
  BY ImpactListed
<1>2. Sum(In("attend"), code) + Sum(In("miss"), code) = Sum(In("attend") \cup In("miss"), code)
  <2>1. In("attend") \cup In("miss") \subseteq Dates /\ In("attend") \cap In("miss") = {}
    OBVIOUS
  <2> HIDE DEF In
  <2> QED
    BY <2>1, DaysApart
<1> QED
  BY <1>1, <1>2, DaysCounted

(* Up to the last leave, and as far as the page looks ahead, every hour of *)
(* a course is either attended or missed, once, for every timetable,       *)
(* calendar and selection, whatever classes are merged; a past day counts  *)
(* as a correction or, selected on a stale button, for nothing.            *)
THEOREM HoursAreAccounted == Spec => []HoursAccounted
  BY Invariant, Accounted, PTL

(* Of the days it may be, the first is one.                                *)
LEMMA RecoveryReached ==
  ASSUME IInv, NEW code, NEW needed, needed = Predict(courses[code], 0, 0, 0).needed,
         needed \in Nat \cup {None}, Recovery(code) \notin {0, None}
  PROVE  /\ needed \in Nat /\ Recovery(code) \in Int
         /\ SumFunction([e \in today .. Recovery(code) |-> TaughtHours(e, code, None, IF e = today THEN hour ELSE 0)])
              >= needed
<1> DEFINE By(d) ==
        SumFunction([e \in today .. d |-> TaughtHours(e, code, None, IF e = today THEN hour ELSE 0)])
           Reached == {d \in today .. today + MaxSpan - 1 :
                         /\ By(d) >= needed
                         /\ \A e \in today .. d : DayState(e).kind # "unknown"}
<1>1. today \in Nat /\ MaxSpan \in Nat
  BY DayAssumption, FS_CardinalityType DEF IInv, TypeOK
<1>2. needed # None /\ Reached # {} /\ Recovery(code) = Min(Reached)
  BY DEF Recovery
<1>3. Reached \subseteq Nat
  BY <1>1
<1>4. PICK d \in Reached : \A e \in Reached : d <= e
  BY <1>2, <1>3, LeastNumber
<1>5. Min(Reached) \in Reached
  BY <1>4 DEF Min
<1> QED
  BY <1>1, <1>2, <1>5

(* The timetable gives at least the hours the page counts until then.      *)
LEMMA GivenAtLeast ==
  ASSUME IInv, NEW code, NEW day \in Int
  PROVE  LET By ==
          SumFunction([e \in today .. day |-> TaughtHours(e, code, None, IF e = today THEN hour ELSE 0)]) IN
         By \in Int /\ GivenUntil(day, code) \in Int /\ By <= GivenUntil(day, code)
<1> DEFINE From(e) == IF e = today THEN hour ELSE 0
           S == today .. day
           f == [e \in S |-> TaughtHours(e, code, None, From(e))]
           g == [e \in S |-> Listed(e, code, None, From(e))]
<1>1. IsFiniteSet(S)
  BY DayAssumption, FS_CardinalityType, FS_Interval DEF IInv, TypeOK
<1>2. \A e \in S : From(e) \in Nat
  BY DayAssumption DEF IInv, TypeOK
<1>3. \A e \in S : f[e] \in Int /\ g[e] \in Int /\ f[e] <= g[e]
  <2> HIDE DEF From
  <2> QED
    BY <1>2, TaughtAsListed
<1>4. SumFunction(f) = SumFunctionOnSet(f, S) /\ SumFunction(g) = SumFunctionOnSet(g, S)
  BY DEF SumFunction
<1>5. GivenUntil(day, code) = SumFunction(g)
  BY DEF GivenUntil
<1>6. SumFunction(f) \in Int /\ SumFunction(g) \in Int /\ SumFunction(f) <= SumFunction(g)
  <2> HIDE DEF f, g, S
  <2> QED
    BY <1>1, <1>3, <1>4, SumInt, SumAtMost
<1> QED
  BY <1>5, <1>6

(* What the page says is exact in every state of the dialog.               *)
LEMMA AllExact == IInv => PredictionsExact
<1> SUFFICES ASSUME IInv, NEW code \in DOMAIN courses
             PROVE  /\ Exact(Predict(courses[code], 0, 0, 0)) /\ Exact(Projected(code))
                    /\ Recovery(code) \notin {0, None}
                         => GivenUntil(Recovery(code), code) >= Predict(courses[code], 0, 0, 0).needed
  BY DEF PredictionsExact
<1>1. courses[code] \in Counts
  BY DEF IInv, TypeOK, Counts, Range
<1>2. Exact(Predict(courses[code], 0, 0, 0)) /\ Predict(courses[code], 0, 0, 0).needed \in Nat \cup {None}
  BY <1>1, PredictExact
<1>3. Exact(Projected(code))
  BY <1>1, ImpactListed, PredictExact DEF Projected
<1>4. ASSUME Recovery(code) \notin {0, None}
      PROVE  GivenUntil(Recovery(code), code) >= Predict(courses[code], 0, 0, 0).needed
  <2> DEFINE needed == Predict(courses[code], 0, 0, 0).needed
             day == Recovery(code)
             taught ==
                     SumFunction([e \in today .. day |-> TaughtHours(e, code, None, IF e = today THEN hour ELSE 0)])
  <2>1. needed \in Nat /\ day \in Int /\ taught >= needed
    BY <1>2, <1>4, RecoveryReached
  <2>2. taught \in Int /\ GivenUntil(day, code) \in Int /\ taught <= GivenUntil(day, code)
    <3> HIDE DEF day
    <3> QED
      BY <2>1, GivenAtLeast
  <2> HIDE DEF needed, day, taught
  <2>3. GivenUntil(day, code) >= needed
    BY <2>1, <2>2
  <2> QED
    BY <2>3 DEF needed, day
<1> QED
  BY <1>2, <1>3, <1>4

(* Needed hours are the fewest and missable hours the most, before and     *)
(* after the selection, and nobody is told to be back at the target before *)
(* the timetable has given the hours, for every report and timetable.      *)
THEOREM PredictionsAreExact == Spec => []PredictionsExact
  BY Invariant, AllExact, PTL
=============================================================================
