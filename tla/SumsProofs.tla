----------------------------- MODULE SumsProofs -----------------------------
(***************************************************************************)
(* Sums over finite sets, as FiniteSetsExt defines them: a function on the *)
(* subsets of the set that takes one element after another out of it.      *)
(* The induction is over inclusion: among the finite subsets that would be *)
(* a counterexample one is the smallest.                                   *)
(***************************************************************************)
EXTENDS Integers, FiniteSetsExt, FiniteSetTheorems, TLAPS

\* A subset of S is in G when all that it strictly includes are.
Inductive(G, S) ==
  \A T \in SUBSET S : (\A U \in SUBSET T : U # T => U \in G) => T \in G

LEMMA SubsetInduction ==
  ASSUME NEW S, IsFiniteSet(S), NEW G, Inductive(G, S)
  PROVE  S \in G
<1> PICK bad : bad = (SUBSET S) \ G
  OBVIOUS
<1> SUFFICES ASSUME bad # {} PROVE FALSE
  OBVIOUS
<1>1. bad \subseteq FiniteSubsetsOf(S)
  BY FS_Subset DEF FiniteSubsetsOf
<1>2. \E T \in bad : \A U \in bad : ~ (<<U, T>> \in StrictSubsetOrdering(S))
  <2> PICK R, F : R = StrictSubsetOrdering(S) /\ F = FiniteSubsetsOf(S)
    OBVIOUS
  <2>1. IsWellFoundedOn(R, F)
    BY FS_StrictSubsetOrderingWellFounded
  <2> QED
    BY <1>1, <2>1, WFMin
<1> PICK T \in bad : \A U \in bad : <<U, T>> \notin StrictSubsetOrdering(S)
  BY <1>2
<1>3. \A U \in SUBSET T : U # T => U \in G
  BY DEF StrictSubsetOrdering
<1> QED
  BY <1>3 DEF Inductive

-----------------------------------------------------------------------------
(* The function by which a sum is defined.                                 *)

FirstOf(s) == CHOOSE x \in s : TRUE

SumStep(f, g, s) == IF s = {} THEN 0 ELSE f[FirstOf(s)] + g[s \ {FirstOf(s)}]

Sums(f, g, S) == g = [s \in SUBSET S |-> SumStep(f, g, s)]

SumOver(f, S) == MapThenSumSet(LAMBDA x : f[x], S)

LEMMA FirstIsIn == \A s : s # {} => FirstOf(s) \in s
BY DEF FirstOf

\* It is determined by the values that are added.
LEMMA SumsAgree ==
  ASSUME NEW S, IsFiniteSet(S), NEW T, NEW U, S \subseteq T, S \subseteq U,
         NEW f, NEW e, \A x \in S : f[x] = e[x],
         NEW g, Sums(f, g, T), NEW h, Sums(e, h, U)
  PROVE  g[S] = h[S]
<1> PICK same : \A s : s \in same <=> s \in SUBSET S /\ g[s] = h[s]
  <2> DEFINE all == {s \in SUBSET S : g[s] = h[s]}
  <2>1. \A s : s \in all <=> s \in SUBSET S /\ g[s] = h[s]
    OBVIOUS
  <2> HIDE DEF all
  <2> QED
    BY <2>1
<1>1. ASSUME NEW s \in SUBSET S, \A u \in SUBSET s : u # s => u \in same
      PROVE  s \in same
  <2>1. g[s] = SumStep(f, g, s) /\ h[s] = SumStep(e, h, s)
    BY DEF Sums
  <2>2. CASE s = {}
    BY <2>1, <2>2 DEF SumStep
  <2>3. CASE s # {}
    <3> PICK x : x = FirstOf(s)
      OBVIOUS
    <3>1. x \in s
      BY <2>3, FirstIsIn
    <3>2. s \ {x} \in same
      BY <1>1, <3>1
    <3>3. g[s \ {x}] = h[s \ {x}] /\ f[x] = e[x]
      BY <3>1, <3>2
    <3> QED
      BY <2>1, <2>3, <3>3 DEF SumStep
  <2> QED
    BY <2>2, <2>3
<1>2. Inductive(same, S)
  BY <1>1 DEF Inductive
<1> QED
  BY <1>2, SubsetInduction

\* It exists for every finite set.
LEMMA SumsExist ==
  ASSUME NEW S, IsFiniteSet(S), NEW f
  PROVE  \E g : Sums(f, g, S)
<1> PICK good : \A T : T \in good <=> T \in SUBSET S /\ \E g : Sums(f, g, T)
  <2> DEFINE all == {T \in SUBSET S : \E g : Sums(f, g, T)}
  <2>1. \A T : T \in all <=> T \in SUBSET S /\ \E g : Sums(f, g, T)
    OBVIOUS
  <2> HIDE DEF all
  <2> QED
    BY <2>1
<1>1. ASSUME NEW T \in SUBSET S, \A U \in SUBSET T : U # T => U \in good
      PROVE  T \in good
  <2> DEFINE sub(U) == CHOOSE g : Sums(f, g, U)
             rest(s) == s \ {FirstOf(s)}
             val(s) == IF s = {} THEN 0 ELSE f[FirstOf(s)] + sub(rest(s))[rest(s)]
  <2>1. ASSUME NEW s \in SUBSET T, s # {}
        PROVE  rest(s) \in SUBSET T /\ rest(s) # T /\ Sums(f, sub(rest(s)), rest(s))
    <3>1. FirstOf(s) \in s
      BY <2>1, FirstIsIn
    <3>2. rest(s) \in SUBSET T /\ rest(s) # T
      BY <3>1
    <3>3. \E g : Sums(f, g, rest(s))
      BY <1>1, <3>2
    <3> QED
      BY <3>2, <3>3
  <2> HIDE DEF sub
  <2> PICK k : k = [s \in SUBSET T |-> val(s)]
    OBVIOUS
  <2>2. ASSUME NEW s \in SUBSET T, s # {}
        PROVE  k[rest(s)] = sub(rest(s))[rest(s)]
    <3> PICK u : u = rest(s)
      OBVIOUS
    <3>1. u \in SUBSET T /\ Sums(f, sub(u), u) /\ k[u] = val(u)
      BY <2>1, <2>2
    <3>2. sub(u)[u] = SumStep(f, sub(u), u)
      BY <3>1 DEF Sums
    <3>3. CASE u = {}
      BY <3>1, <3>2, <3>3 DEF SumStep
    <3>4. CASE u # {}
      <4>1. rest(u) \in SUBSET u /\ Sums(f, sub(rest(u)), rest(u)) /\ IsFiniteSet(rest(u))
        BY <2>1, <3>1, <3>4, FS_Subset
      <4>2. sub(rest(u))[rest(u)] = sub(u)[rest(u)]
        <5> PICK v, g, h : v = rest(u) /\ g = sub(rest(u)) /\ h = sub(u)
          OBVIOUS
        <5>1. v \subseteq u /\ v \subseteq v /\ Sums(f, g, v) /\ Sums(f, h, u) /\ IsFiniteSet(v)
          BY <3>1, <4>1
        <5>2. g[v] = h[v]
          BY <5>1, SumsAgree
        <5> QED
          BY <5>2
      <4> QED
        BY <3>1, <3>2, <3>4, <4>2 DEF SumStep
    <3> QED
      BY <3>3, <3>4
  <2>3. ASSUME NEW s \in SUBSET T PROVE k[s] = SumStep(f, k, s)
    BY <2>2, <2>3 DEF SumStep
  <2>4. Sums(f, k, T)
    BY <2>3 DEF Sums
  <2> QED
    BY <2>4
<1>2. Inductive(good, S)
  BY <1>1 DEF Inductive
<1> QED
  BY <1>2, SubsetInduction

LEMMA SumIsDefined ==
  ASSUME NEW S, IsFiniteSet(S), NEW f
  PROVE  \E g : Sums(f, g, S) /\ SumOver(f, S) = g[S]
<1> PICK k : Sums(f, k, S)
  BY SumsExist
<1>1. \E g : g = [s \in SUBSET S |-> SumStep(f, g, s)]
  BY DEF Sums
<1>2. \E g : g = [s \in SUBSET S |-> SumStep(f, g, s)] /\ SumOver(f, S) = g[S]
  BY <1>1 DEF SumStep, FirstOf, SumOver, MapThenSumSet, MapThenFoldSet
<1> QED
  BY <1>2 DEF Sums

-----------------------------------------------------------------------------
(* What is known of sums.                                                  *)

LEMMA SumOfNone == ASSUME NEW f PROVE SumOver(f, {}) = 0
<1> PICK g : Sums(f, g, {}) /\ SumOver(f, {}) = g[{}]
  BY SumIsDefined, FS_EmptySet
<1> QED
  BY DEF Sums, SumStep

LEMMA SumsAlike ==
  ASSUME NEW S, IsFiniteSet(S), NEW f, NEW e, \A x \in S : f[x] = e[x]
  PROVE  SumOver(f, S) = SumOver(e, S)
<1> PICK g : Sums(f, g, S) /\ SumOver(f, S) = g[S]
  BY SumIsDefined
<1> PICK h : Sums(e, h, S) /\ SumOver(e, S) = h[S]
  BY SumIsDefined
<1> QED
  BY SumsAgree

LEMMA SumTakesFirst ==
  ASSUME NEW S, IsFiniteSet(S), S # {}, NEW f
  PROVE  SumOver(f, S) = f[FirstOf(S)] + SumOver(f, S \ {FirstOf(S)})
<1> PICK r : r = S \ {FirstOf(S)}
  OBVIOUS
<1>1. r \subseteq S /\ IsFiniteSet(r)
  BY FS_RemoveElement
<1> PICK g : Sums(f, g, S) /\ SumOver(f, S) = g[S]
  BY SumIsDefined
<1> PICK h : Sums(f, h, r) /\ SumOver(f, r) = h[r]
  BY <1>1, SumIsDefined
<1>2. g[r] = h[r]
  BY <1>1, SumsAgree
<1>3. g[S] = f[FirstOf(S)] + g[r]
  BY DEF Sums, SumStep
<1> QED
  BY <1>2, <1>3

\* A sum of integers is one, and any element may be taken out of it.
LEMMA SumSplits ==
  ASSUME NEW S, IsFiniteSet(S), NEW f, \A x \in S : f[x] \in Int
  PROVE  /\ SumOver(f, S) \in Int
         /\ \A x \in S : SumOver(f, S) = f[x] + SumOver(f, S \ {x})
<1> DEFINE Splits(T) == /\ SumOver(f, T) \in Int
                        /\ \A x \in T : SumOver(f, T) = f[x] + SumOver(f, T \ {x})
<1> PICK good : \A T : T \in good <=> T \in SUBSET S /\ Splits(T)
  <2> HIDE DEF Splits
  <2> DEFINE all == {T \in SUBSET S : Splits(T)}
  <2>1. \A T : T \in all <=> T \in SUBSET S /\ Splits(T)
    OBVIOUS
  <2> HIDE DEF all
  <2> QED
    BY <2>1
<1>1. ASSUME NEW T \in SUBSET S, \A U \in SUBSET T : U # T => U \in good
      PROVE  T \in good
  <2>1. IsFiniteSet(T)
    BY FS_Subset
  <2>2. CASE T = {}
    BY <2>2, SumOfNone
  <2>3. CASE T # {}
    <3> PICK a : a = FirstOf(T)
      OBVIOUS
    <3>1. a \in T /\ SumOver(f, T) = f[a] + SumOver(f, T \ {a})
      BY <2>1, <2>3, FirstIsIn, SumTakesFirst
    <3>2. T \ {a} \in good
      BY <1>1, <3>1
    <3>3. SumOver(f, T) \in Int
      BY <3>1, <3>2
    <3>4. ASSUME NEW x \in T, x # a PROVE SumOver(f, T) = f[x] + SumOver(f, T \ {x})
      <4> PICK U, V, W : U = T \ {a} /\ V = T \ {x} /\ W = T \ {a, x}
        OBVIOUS
      <4>1. U \ {x} = W /\ V \ {a} = W /\ x \in U /\ a \in V
        BY <3>1, <3>4
      <4>2. U \in good /\ V \in good /\ W \in good
        BY <1>1, <3>1
      <4>3. SumOver(f, U) = f[x] + SumOver(f, W) /\ SumOver(f, V) = f[a] + SumOver(f, W)
        BY <4>1, <4>2
      <4>4. SumOver(f, T) = f[a] + SumOver(f, U)
        BY <3>1
      <4>5. f[x] \in Int /\ f[a] \in Int /\ SumOver(f, W) \in Int
        BY <3>1, <4>2
      <4>6. SumOver(f, T) = f[x] + SumOver(f, V)
        BY <4>3, <4>4, <4>5
      <4> QED
        BY <4>6
    <3> QED
      BY <3>1, <3>3, <3>4
  <2> QED
    BY <2>2, <2>3
<1>2. Inductive(good, S)
  BY <1>1 DEF Inductive
<1> QED
  BY <1>2, SubsetInduction

\* An element more adds its value.
LEMMA SumGrows ==
  ASSUME NEW S, IsFiniteSet(S), NEW a, a \notin S, NEW f, \A x \in S \cup {a} : f[x] \in Int
  PROVE  SumOver(f, S \cup {a}) = SumOver(f, S) + f[a]
<1>1. IsFiniteSet(S \cup {a}) /\ (S \cup {a}) \ {a} = S
  BY FS_AddElement
<1>2. SumOver(f, S \cup {a}) = f[a] + SumOver(f, S)
  BY <1>1, SumSplits
<1>3. SumOver(f, S) \in Int
  BY SumSplits
<1> QED
  BY <1>2, <1>3

=============================================================================
