----------------------------- MODULE DataFacts ------------------------------
(***************************************************************************)
(* Facts about the data of the models, for all sets and sequences: sums    *)
(* over finite sets (MapThenSumSet of the community modules), what Without *)
(* leaves of a sequence, and what Append, Tail, \o, SubSeq and Max give.   *)
(*                                                                         *)
(* The library defines a sum as the value at S of the function CHOSEN      *)
(* among those that satisfy a recursive equation over SUBSET S, and        *)
(* Without is the value of a recursive function. That such an equation has *)
(* exactly one solution is proved here from well-foundedness, of strict    *)
(* inclusion between subsets of a finite set and of < on the naturals:     *)
(* take a least place where two solutions would differ, or where none is   *)
(* left to be taken. No induction theorem with an operator parameter is    *)
(* needed.                                                                 *)
(***************************************************************************)
EXTENDS SeqWithout, SequencesExt, FiniteSetsExt, FiniteSetTheorems, SequenceTheorems, WellFoundedInduction, TLAPS

-------------------------------------------------------------------------------
(* Sums: when one term changes, when the set gains a member, when its      *)
(* members are renamed.                                                    *)

\* The sum of f over S.
SumOver(f, S) == MapThenSumSet(LAMBDA x : f[x], S)

\* The member the fold of the library takes first.
Pick(s) == CHOOSE x \in s : TRUE

\* g gives every subset of T its sum.
SumStep(g, f, T) ==
    g = [s \in SUBSET T |-> IF s = {} THEN 0 ELSE f[Pick(s)] + g[s \ {Pick(s)}]]

\* A set of subsets of a finite set has a least one.
LEMMA LeastSubset ==
    ASSUME NEW S, IsFiniteSet(S), NEW B, B \subseteq SUBSET S, B # {}
    PROVE  \E T \in B : \A U \in B : U \subseteq T => U = T
<1>1. IsWellFoundedOn(StrictSubsetOrdering(S), SUBSET S)
  BY FS_StrictSubsetOrderingWellFounded, FS_FiniteSubsetsOfFinite
<1>2. PICK T \in B : \A U \in B : ~ (<<U, T>> \in StrictSubsetOrdering(S))
  BY <1>1, WFMin
<1>3. ASSUME NEW U \in B, U \subseteq T, U # T PROVE FALSE
  <2>1. <<U, T>> \in (SUBSET S) \X (SUBSET S) OBVIOUS
  <2>2. <<U, T>> \in StrictSubsetOrdering(S) BY <2>1, <1>3 DEF StrictSubsetOrdering
  <2> QED BY <2>2, <1>2
<1> QED BY <1>3

\* A set that has members has a picked one.
LEMMA PickIn == \A s : s # {} => Pick(s) \in s
  BY DEF Pick

\* The equation at one subset.
LEMMA SumStepAt ==
    ASSUME NEW f, NEW g, NEW T, SumStep(g, f, T), NEW s \in SUBSET T
    PROVE  g[s] = IF s = {} THEN 0 ELSE f[Pick(s)] + g[s \ {Pick(s)}]
  BY DEF SumStep

\* The equation has at most one solution.
LEMMA SumStepUnique ==
    ASSUME NEW f, NEW S, IsFiniteSet(S), NEW T \in SUBSET S, NEW R \in SUBSET S,
           NEW g, NEW h, SumStep(g, f, T), SumStep(h, f, R)
    PROVE  \A s \in (SUBSET T) \cap (SUBSET R) : g[s] = h[s]
<1> DEFINE B == {s \in (SUBSET T) \cap (SUBSET R) : g[s] # h[s]}
<1> SUFFICES ASSUME B # {} PROVE FALSE
  OBVIOUS
<1>1. PICK s \in B : \A u \in B : u \subseteq s => u = s
  <2>1. B \subseteq SUBSET S OBVIOUS
  <2> HIDE DEF B
  <2> QED BY <2>1, LeastSubset
<1>2. CASE s = {} BY <1>2, SumStepAt
<1>3. CASE s # {}
  <2> DEFINE r == s \ {Pick(s)}
  <2>1. r \in (SUBSET T) \cap (SUBSET R) /\ r \subseteq s /\ r # s BY <1>3, PickIn
  <2>2. g[r] = h[r] BY <2>1, <1>1
  <2>3. s \in SUBSET T /\ s \in SUBSET R OBVIOUS
  <2>4. g[s] = f[Pick(s)] + g[r] BY <1>3, <2>3, SumStepAt
  <2>5. h[s] = f[Pick(s)] + h[r] BY <1>3, <2>3, SumStepAt
  <2> QED BY <2>2, <2>4, <2>5
<1> QED BY <1>2, <1>3

\* The equation has a solution.
LEMMA SumStepExists ==
    ASSUME NEW f, NEW S, IsFiniteSet(S)
    PROVE  \E g : SumStep(g, f, S)
<1> DEFINE B == {T \in SUBSET S : ~ \E g : SumStep(g, f, T)}
<1> SUFFICES ASSUME B # {} PROVE FALSE
  OBVIOUS
<1>1. PICK T \in B : \A U \in B : U \subseteq T => U = T
  <2>1. B \subseteq SUBSET S OBVIOUS
  <2> HIDE DEF B
  <2> QED BY <2>1, LeastSubset
<1>2. ASSUME NEW U \in SUBSET T, U # T PROVE \E g : SumStep(g, f, U)
  BY <1>1, <1>2
<1> DEFINE part(U) == CHOOSE g : SumStep(g, f, U)
<1>3. ASSUME NEW U \in SUBSET T, U # T PROVE SumStep(part(U), f, U)
  BY <1>2, <1>3
<1> DEFINE last == IF T = {} THEN 0 ELSE f[Pick(T)] + part(T \ {Pick(T)})[T \ {Pick(T)}]
           g == [s \in SUBSET T |-> IF s = T THEN last ELSE part(s)[s]]
<1>4. ASSUME NEW s \in SUBSET T
      PROVE  g[s] = IF s = {} THEN 0 ELSE f[Pick(s)] + g[s \ {Pick(s)}]
  <2> DEFINE r == s \ {Pick(s)}
  <2>1. CASE s = T
    <3>1. CASE T = {} BY <2>1, <3>1
    <3>2. CASE T # {}
      <4>1. r \in SUBSET T /\ r # T BY <2>1, <3>2, PickIn
      <4>2. g[r] = part(r)[r] BY <4>1
      <4> QED BY <4>2, <2>1, <3>2
    <3> QED BY <3>1, <3>2
  <2>2. CASE s # T /\ s = {}
    <3>1. g[s] = part(s)[s] BY <2>2
    <3>2. SumStep(part(s), f, s) BY <1>3, <2>2
    <3> HIDE DEF part
    <3>3. part(s)[s] = 0 BY <3>2, <2>2, SumStepAt
    <3> QED BY <3>1, <3>3, <2>2
  <2>3. CASE s # T /\ s # {}
    <3>1. g[s] = part(s)[s] BY <2>3
    <3>2. SumStep(part(s), f, s) BY <1>3, <2>3
    <3>3. r \in SUBSET s /\ r # s /\ r # T BY <2>3, PickIn
    <3>4. SumStep(part(r), f, r) BY <1>3, <3>3
    <3>5. g[r] = part(r)[r] BY <3>3
    <3> HIDE DEF part, g
    <3>6. part(s)[s] = f[Pick(s)] + part(s)[r] BY <3>2, <2>3, SumStepAt
    <3>7. part(s)[r] = part(r)[r]
      <4>1. s \in SUBSET S /\ r \in SUBSET S BY <3>3
      <4>2. r \in (SUBSET s) \cap (SUBSET r) BY <3>3
      <4> HIDE DEF r
      <4> QED BY <3>2, <3>4, <4>1, <4>2, SumStepUnique
    <3> QED BY <3>1, <3>5, <3>6, <3>7, <2>3
  <2> QED BY <2>1, <2>2, <2>3
<1>5. SumStep(g, f, T)
  <2> DEFINE h == [s \in SUBSET T |-> IF s = {} THEN 0 ELSE f[Pick(s)] + g[s \ {Pick(s)}]]
  <2>1. \A s \in SUBSET T : g[s] = h[s] BY <1>4
  <2>2. g = h BY <2>1
  <2> HIDE DEF g
  <2> QED BY <2>2 DEF SumStep
<1> QED BY <1>1, <1>5

\* The library's fold is the solution.
LEMMA SumIsStep ==
    ASSUME NEW f, NEW S
    PROVE  SumOver(f, S) = (CHOOSE g : SumStep(g, f, S))[S]
  BY DEF SumOver, MapThenSumSet, MapThenFoldSet, SumStep, Pick

\* The sum takes its picked member off first.
LEMMA SumDef ==
    ASSUME NEW f, NEW S, IsFiniteSet(S)
    PROVE  SumOver(f, S) = IF S = {} THEN 0 ELSE f[Pick(S)] + SumOver(f, S \ {Pick(S)})
<1> DEFINE of(U) == CHOOSE g : SumStep(g, f, U)
<1>1. \A U \in SUBSET S : SumStep(of(U), f, U)
  <2> SUFFICES ASSUME NEW U \in SUBSET S PROVE \E g : SumStep(g, f, U)
    OBVIOUS
  <2> QED BY SumStepExists, FS_Subset
<1>2. \A U : SumOver(f, U) = of(U)[U] BY SumIsStep
<1> HIDE DEF of
<1>3. CASE S = {} BY <1>1, <1>2, <1>3, SumStepAt
<1>4. CASE S # {}
  <2> DEFINE r == S \ {Pick(S)}
  <2>1. r \in SUBSET S OBVIOUS
  <2>2. of(S)[S] = f[Pick(S)] + of(S)[r] BY <1>1, <1>4, SumStepAt
  <2>3. r \in (SUBSET S) \cap (SUBSET r) OBVIOUS
  <2>4. SumStep(of(S), f, S) /\ SumStep(of(r), f, r) BY <1>1, <2>1
  <2>5. of(S)[r] = of(r)[r]
    <3> HIDE DEF r
    <3> QED BY <2>1, <2>3, <2>4, SumStepUnique
  <2> QED BY <2>2, <2>5, <1>2, <1>4
<1> QED BY <1>3, <1>4

\* Nothing adds up to zero.
LEMMA SumEmpty == \A f : SumOver(f, {}) = 0
  BY SumDef, FS_EmptySet

\* A sum of integers is an integer.
LEMMA SumInt ==
    ASSUME NEW f, NEW S, IsFiniteSet(S), \A x \in S : f[x] \in Int
    PROVE  SumOver(f, S) \in Int
<1> DEFINE B == {T \in SUBSET S : SumOver(f, T) \notin Int}
<1> SUFFICES ASSUME B # {} PROVE FALSE
  OBVIOUS
<1>1. PICK T \in B : \A U \in B : U \subseteq T => U = T
  <2>1. B \subseteq SUBSET S OBVIOUS
  <2> HIDE DEF B
  <2> QED BY <2>1, LeastSubset
<1>2. IsFiniteSet(T) BY FS_Subset
<1>3. T # {} BY SumEmpty
<1>4. SumOver(f, T) = f[Pick(T)] + SumOver(f, T \ {Pick(T)}) BY <1>2, <1>3, SumDef
<1>5. T \ {Pick(T)} \notin B BY <1>1, <1>3, PickIn
<1>6. f[Pick(T)] \in Int BY <1>3, PickIn
<1> QED BY <1>4, <1>5, <1>6

\* Any member may be taken off first.
LEMMA SumRemove ==
    ASSUME NEW f, NEW S, IsFiniteSet(S), \A x \in S : f[x] \in Int, NEW x \in S
    PROVE  SumOver(f, S) = f[x] + SumOver(f, S \ {x})
<1> DEFINE B == {T \in SUBSET S : \E y \in T : SumOver(f, T) # f[y] + SumOver(f, T \ {y})}
<1> SUFFICES ASSUME B # {} PROVE FALSE
  OBVIOUS
<1>1. PICK T \in B : \A U \in B : U \subseteq T => U = T
  <2>1. B \subseteq SUBSET S OBVIOUS
  <2> HIDE DEF B
  <2> QED BY <2>1, LeastSubset
<1>2. PICK y \in T : SumOver(f, T) # f[y] + SumOver(f, T \ {y}) OBVIOUS
<1> DEFINE z == Pick(T)
<1>3. z \in T BY PickIn
<1>4. IsFiniteSet(T) /\ IsFiniteSet(T \ {y}) /\ IsFiniteSet((T \ {y}) \ {z}) BY FS_Subset
<1>5. SumOver(f, T) = f[z] + SumOver(f, T \ {z}) BY <1>4, SumDef
<1>6. y # z BY <1>2, <1>5
<1> HIDE DEF z
<1>7. T \ {y} \notin B /\ T \ {z} \notin B BY <1>1, <1>3
<1>8. SumOver(f, T \ {z}) = f[y] + SumOver(f, (T \ {z}) \ {y}) BY <1>6, <1>7
<1>9. SumOver(f, T \ {y}) = f[z] + SumOver(f, (T \ {y}) \ {z}) BY <1>3, <1>6, <1>7
<1>10. (T \ {y}) \ {z} = (T \ {z}) \ {y} OBVIOUS
<1>11. SumOver(f, (T \ {y}) \ {z}) \in Int BY <1>4, SumInt
<1>12. f[y] \in Int /\ f[z] \in Int BY <1>3
<1>13. SumOver(f, (T \ {z}) \ {y}) \in Int BY <1>10, <1>11
<1>14. SumOver(f, T) = f[z] + (f[y] + SumOver(f, (T \ {z}) \ {y})) BY <1>5, <1>8 DEF z
<1>15. SumOver(f, T \ {y}) = f[z] + SumOver(f, (T \ {z}) \ {y}) BY <1>9, <1>10
<1>16. SumOver(f, T) = f[y] + SumOver(f, T \ {y}) BY <1>12, <1>13, <1>14, <1>15
<1> QED BY <1>2, <1>16

\* Equal terms have equal sums.
LEMMA SumEqual ==
    ASSUME NEW f, NEW g, NEW S, IsFiniteSet(S), \A x \in S : f[x] = g[x]
    PROVE  SumOver(f, S) = SumOver(g, S)
<1> DEFINE B == {T \in SUBSET S : SumOver(f, T) # SumOver(g, T)}
<1> SUFFICES ASSUME B # {} PROVE FALSE
  OBVIOUS
<1>1. PICK T \in B : \A U \in B : U \subseteq T => U = T
  <2>1. B \subseteq SUBSET S OBVIOUS
  <2> HIDE DEF B
  <2> QED BY <2>1, LeastSubset
<1>2. IsFiniteSet(T) BY FS_Subset
<1>3. T # {} BY SumEmpty
<1>4. SumOver(f, T) = f[Pick(T)] + SumOver(f, T \ {Pick(T)}) BY <1>2, <1>3, SumDef
<1>5. SumOver(g, T) = g[Pick(T)] + SumOver(g, T \ {Pick(T)}) BY <1>2, <1>3, SumDef
<1>6. T \ {Pick(T)} \notin B BY <1>1, <1>3, PickIn
<1> QED BY <1>3, <1>4, <1>5, <1>6, PickIn

\* A sum of natural numbers is one.
LEMMA SumNat ==
    ASSUME NEW f, NEW S, IsFiniteSet(S), \A x \in S : f[x] \in Nat
    PROVE  SumOver(f, S) \in Nat
<1> DEFINE B == {T \in SUBSET S : SumOver(f, T) \notin Nat}
<1> SUFFICES ASSUME B # {} PROVE FALSE
  OBVIOUS
<1>1. PICK T \in B : \A U \in B : U \subseteq T => U = T
  <2>1. B \subseteq SUBSET S OBVIOUS
  <2> HIDE DEF B
  <2> QED BY <2>1, LeastSubset
<1>2. IsFiniteSet(T) BY FS_Subset
<1>3. T # {} BY SumEmpty
<1>4. SumOver(f, T) = f[Pick(T)] + SumOver(f, T \ {Pick(T)}) BY <1>2, <1>3, SumDef
<1>5. T \ {Pick(T)} \notin B BY <1>1, <1>3, PickIn
<1>6. f[Pick(T)] \in Nat BY <1>3, PickIn
<1> QED BY <1>4, <1>5, <1>6

\* One term changes.
LEMMA SumExcept ==
    ASSUME NEW f, NEW g, NEW S, IsFiniteSet(S), NEW x \in S,
           \A y \in S : f[y] \in Int /\ g[y] \in Int,
           \A y \in S \ {x} : f[y] = g[y]
    PROVE  SumOver(g, S) = SumOver(f, S) + g[x] - f[x]
<1>1. SumOver(f, S) = f[x] + SumOver(f, S \ {x}) BY SumRemove
<1>2. SumOver(g, S) = g[x] + SumOver(g, S \ {x}) BY SumRemove
<1>3. IsFiniteSet(S \ {x}) BY FS_Subset
<1>4. SumOver(f, S \ {x}) = SumOver(g, S \ {x}) BY <1>3, SumEqual
<1>5. SumOver(f, S \ {x}) \in Int BY <1>3, SumInt
<1> QED BY <1>1, <1>2, <1>4, <1>5

\* The set gains a member.
LEMMA SumAdd ==
    ASSUME NEW f, NEW S, IsFiniteSet(S), NEW x, x \notin S,
           \A y \in S \cup {x} : f[y] \in Int
    PROVE  SumOver(f, S \cup {x}) = SumOver(f, S) + f[x]
<1>1. IsFiniteSet(S \cup {x}) BY FS_AddElement
<1>2. SumOver(f, S \cup {x}) = f[x] + SumOver(f, (S \cup {x}) \ {x}) BY <1>1, SumRemove
<1>3. (S \cup {x}) \ {x} = S OBVIOUS
<1>4. SumOver(f, S) \in Int BY SumInt
<1>5. f[x] \in Int OBVIOUS
<1>6. SumOver(f, S \cup {x}) = f[x] + SumOver(f, S) BY <1>2, <1>3
<1> QED BY <1>4, <1>5, <1>6

\* What the definition of a sum computes, however its terms are written.
LEMMA SumValue ==
    ASSUME NEW f, NEW S, IsFiniteSet(S), NEW g, SumStep(g, f, S)
    PROVE  g[S] = SumOver(f, S)
<1> DEFINE h == CHOOSE h : SumStep(h, f, S)
<1>1. SumStep(h, f, S) BY SumStepExists
<1>2. SumOver(f, S) = h[S] BY SumIsStep
<1> HIDE DEF h
<1>3. S \in (SUBSET S) \cap (SUBSET S) OBVIOUS
<1>4. S \in SUBSET S OBVIOUS
<1>5. g[S] = h[S] BY <1>1, <1>3, <1>4, SumStepUnique
<1> QED BY <1>2, <1>5

\* The members of the set renamed.
LEMMA SumRename ==
    ASSUME NEW f, NEW g, NEW b, NEW S, IsFiniteSet(S),
           \A x \in S : f[x] \in Int /\ g[b[x]] = f[x],
           \A x, y \in S : b[x] = b[y] => x = y,
           NEW R, R = {b[x] : x \in S}
    PROVE  SumOver(f, S) = SumOver(g, R)
<1> DEFINE im(T) == {b[x] : x \in T}
           B == {T \in SUBSET S : SumOver(f, T) # SumOver(g, im(T))}
<1> SUFFICES ASSUME B # {} PROVE FALSE
  OBVIOUS
<1>1. PICK T \in B : \A U \in B : U \subseteq T => U = T
  <2>1. B \subseteq SUBSET S OBVIOUS
  <2> HIDE DEF B
  <2> QED BY <2>1, LeastSubset
<1>2. IsFiniteSet(T) BY FS_Subset
<1>3. T # {} BY SumEmpty
<1> DEFINE z == Pick(T)
<1>4. z \in T BY <1>3, PickIn
<1> HIDE DEF z
<1>5. SumOver(f, T) = f[z] + SumOver(f, T \ {z}) BY <1>2, <1>4, SumRemove
<1>6. T \ {z} \notin B BY <1>1, <1>4
<1>7. SumOver(f, T \ {z}) = SumOver(g, im(T \ {z})) BY <1>6
<1>8. im(T \ {z}) = im(T) \ {b[z]} BY <1>4
<1>9. IsFiniteSet(im(T))
  <2> DEFINE bT == [x \in T |-> b[x]]
  <2>1. bT \in Surjection(T, im(T)) BY DEF Surjection
  <2> HIDE DEF bT, im
  <2> QED BY <1>2, <2>1, FS_Surjection
<1>10. \A y \in im(T) : g[y] \in Int OBVIOUS
<1>11. b[z] \in im(T) BY <1>4
<1>12. SumOver(g, im(T)) = g[b[z]] + SumOver(g, im(T) \ {b[z]})
  <2> HIDE DEF im
  <2> QED BY <1>9, <1>10, <1>11, SumRemove
<1>13. g[b[z]] = f[z] BY <1>4
<1>14. SumOver(g, im(T)) = SumOver(f, T)
  <2> HIDE DEF im, B
  <2> QED BY <1>5, <1>7, <1>8, <1>12, <1>13
<1> QED BY <1>14

\* Terms that are all zero add up to zero.
LEMMA SumZero ==
    ASSUME NEW f, NEW S, IsFiniteSet(S), \A x \in S : f[x] = 0
    PROVE  SumOver(f, S) = 0
<1> DEFINE B == {T \in SUBSET S : SumOver(f, T) # 0}
<1> SUFFICES ASSUME B # {} PROVE FALSE
  OBVIOUS
<1>1. PICK T \in B : \A U \in B : U \subseteq T => U = T
  <2>1. B \subseteq SUBSET S OBVIOUS
  <2> HIDE DEF B
  <2> QED BY <2>1, LeastSubset
<1>2. IsFiniteSet(T) BY FS_Subset
<1>3. T # {} BY SumEmpty
<1>4. SumOver(f, T) = f[Pick(T)] + SumOver(f, T \ {Pick(T)}) BY <1>2, <1>3, SumDef
<1>5. T \ {Pick(T)} \notin B BY <1>1, <1>3, PickIn
<1>6. f[Pick(T)] = 0 BY <1>3, PickIn
<1> QED BY <1>4, <1>5, <1>6

-------------------------------------------------------------------------------
(* What Without leaves *)

\* A set of naturals has a least one.
LEMMA LeastNatural ==
    ASSUME NEW B, B \subseteq Nat, B # {}
    PROVE  \E n \in B : \A m \in B : n <= m
<1>1. IsWellFoundedOn(OpToRel(<, Nat), Nat) BY NatLessThanWellFounded
<1>2. PICK n \in B : \A m \in B : ~ (<<m, n>> \in OpToRel(<, Nat))
  BY <1>1, WFMin
<1>3. \A m \in B : ~ (m < n)
  BY <1>2 DEF OpToRel
<1> QED BY <1>3

\* `left` gives every n what is left of the first n members of s.
LeftStep(left, s, gone, len) ==
    left = [n \in 0..len |-> IF n = 0 THEN <<>>
                             ELSE IF s[n] \in gone THEN left[n - 1]
                             ELSE Append(left[n - 1], s[n])]

\* The recursive definition has a solution.
LEMMA LeftExists ==
    ASSUME NEW s, NEW gone, NEW len \in Nat
    PROVE  \E left : LeftStep(left, s, gone, len)
<1> DEFINE B == {n \in Nat : ~ \E left : LeftStep(left, s, gone, n)}
<1> SUFFICES ASSUME B # {} PROVE FALSE
  OBVIOUS
<1>1. PICK n \in B : \A m \in B : n <= m
  <2>1. B \subseteq Nat OBVIOUS
  <2> HIDE DEF B
  <2> QED BY <2>1, LeastNatural
<1>2. CASE n = 0
  <2> DEFINE one == [i \in 0..0 |-> <<>>]
  <2>1. LeftStep(one, s, gone, 0) BY DEF LeftStep
  <2> QED BY <2>1, <1>2, <1>1
<1>3. CASE n # 0
  <2>1. n - 1 \in Nat /\ n - 1 \notin B BY <1>1, <1>3
  <2>2. PICK g : LeftStep(g, s, gone, n - 1) BY <2>1
  <2> DEFINE more == [i \in 0..n |-> IF i = n THEN IF s[n] \in gone THEN g[n - 1] ELSE Append(g[n - 1], s[n])
                                    ELSE g[i]]
             step == [i \in 0..n |-> IF i = 0 THEN <<>>
                                    ELSE IF s[i] \in gone THEN more[i - 1]
                                    ELSE Append(more[i - 1], s[i])]
  <2>3. ASSUME NEW i \in 0..n PROVE more[i] = step[i]
    <3>1. CASE i = n
      <4>1. more[n - 1] = g[n - 1] BY <1>3, <2>1
      <4> QED BY <4>1, <3>1, <1>3
    <3>2. CASE i # n
      <4>1. i \in 0..(n - 1) BY <3>2
      <4>2. more[i] = g[i] BY <3>2
      <4>3. g[i] = IF i = 0 THEN <<>> ELSE IF s[i] \in gone THEN g[i - 1] ELSE Append(g[i - 1], s[i])
        BY <2>2, <4>1 DEF LeftStep
      <4>4. i # 0 => more[i - 1] = g[i - 1] BY <3>2
      <4> HIDE DEF more
      <4> QED BY <4>2, <4>3, <4>4
    <3> QED BY <3>1, <3>2
  <2>4. more = step BY <2>3
  <2>5. LeftStep(more, s, gone, n)
    <3> HIDE DEF more
    <3> QED BY <2>4 DEF LeftStep
  <2> QED BY <2>5, <1>1
<1> QED BY <1>2, <1>3

\* So the definition is the value of a solution.
LEMMA WithoutIsLeft ==
    ASSUME NEW s, NEW gone, Len(s) \in Nat
    PROVE  \E left : LeftStep(left, s, gone, Len(s)) /\ Without(s, gone) = left[Len(s)]
<1> DEFINE left == CHOOSE g : LeftStep(g, s, gone, Len(s))
<1>1. LeftStep(left, s, gone, Len(s)) BY LeftExists
<1>2. Without(s, gone) = left[Len(s)] BY DEF Without, LeftStep
<1> HIDE DEF left
<1> QED BY <1>1, <1>2

\* What the first n members of s leave.
Firsts(s, n) == {s[k] : k \in 1..n}
InOrder(s, n, l) ==
    \A p, q \in DOMAIN l : p < q => \E k, j \in 1..n : k < j /\ s[k] = l[p] /\ s[j] = l[q]
Leaves(s, gone, n, l) ==
    /\ InOrder(s, n, l)
    /\ IsFiniteSet(Firsts(s, n))
    /\ Len(l) <= n
    /\ ToSet(l) = Firsts(s, n) \ gone
    /\ IsInjective(s) => IsInjective(l) /\ Len(l) = n - Cardinality(gone \cap Firsts(s, n))

LEMMA LeavesStart ==
    ASSUME NEW s, NEW gone
    PROVE  Leaves(s, gone, 0, <<>>)
<1>1. Firsts(s, 0) = {} BY DEF Firsts
<1>2. gone \cap Firsts(s, 0) = {} BY <1>1
<1>3. Cardinality(gone \cap Firsts(s, 0)) = 0 BY <1>2, FS_EmptySet
<1>4. IsInjective(<<>>) /\ ToSet(<<>>) = {} BY DEF IsInjective, ToSet
<1>5. InOrder(s, 0, <<>>) BY DEF InOrder
<1>6. Len(<<>>) = 0 /\ Len(<<>>) = 0 - Cardinality(gone \cap Firsts(s, 0)) BY <1>3
<1>7. ToSet(<<>>) = Firsts(s, 0) \ gone /\ IsFiniteSet(Firsts(s, 0)) BY <1>1, <1>4, FS_EmptySet
<1> QED BY <1>4, <1>5, <1>6, <1>7 DEF Leaves

LEMMA LeavesStep ==
    ASSUME NEW S, NEW s \in Seq(S), NEW gone, NEW n \in 1..Len(s), NEW l \in Seq(S),
           Leaves(s, gone, n - 1, l)
    PROVE  Leaves(s, gone, n, IF s[n] \in gone THEN l ELSE Append(l, s[n]))
<1> DEFINE before == Firsts(s, n - 1)
           now == Firsts(s, n)
<1>1. now = before \cup {s[n]} BY DEF Firsts
<1>2. IsInjective(s) => s[n] \notin before BY DEF Firsts, IsInjective
<1>3. IsFiniteSet(before) /\ IsFiniteSet(gone \cap before) /\ IsFiniteSet(now)
  <2>1. IsFiniteSet(before) BY DEF Leaves
  <2> HIDE DEF before, now
  <2> QED BY <2>1, <1>1, FS_Intersection, FS_AddElement
<1>4. s[n] \in S /\ Len(l) \in Nat /\ l \in [1..Len(l) -> S] OBVIOUS
<1>5. CASE s[n] \in gone
  <2>1. gone \cap now = (gone \cap before) \cup {s[n]} BY <1>1, <1>5
  <2>2. IsInjective(s) => Cardinality(gone \cap now) = Cardinality(gone \cap before) + 1
    BY <2>1, <1>2, <1>3, FS_AddElement
  <2>3. Cardinality(gone \cap before) \in Nat BY <1>3, FS_CardinalityType
  <2>4. now \ gone = before \ gone BY <1>1, <1>5
  <2>5. InOrder(s, n, l)
    <3>1. \A i \in 1..(n - 1) : i \in 1..n OBVIOUS
    <3> QED BY <3>1 DEF Leaves, InOrder
  <2> HIDE DEF now, before
  <2> QED BY <2>2, <2>3, <2>4, <2>5, <1>3, <1>4, <1>5 DEF Leaves, now, before
<1>6. CASE s[n] \notin gone
  <2> DEFINE m == Append(l, s[n])
  <2>1. gone \cap now = gone \cap before BY <1>1, <1>6
  <2>2. now \ gone = (before \ gone) \cup {s[n]} BY <1>1, <1>6
  <2>3. Len(m) = Len(l) + 1 /\ DOMAIN m = 1..(Len(l) + 1)
        /\ \A i \in 1..Len(l) : m[i] = l[i]
    BY <1>4
  <2>4. m[Len(l) + 1] = s[n] BY <1>4
  <2> HIDE DEF m
  <2>5. ToSet(m) = ToSet(l) \cup {s[n]}
    <3>1. \A i \in 1..(Len(l) + 1) : i \in 1..Len(l) \/ i = Len(l) + 1 BY <1>4
    <3>2. DOMAIN l = 1..Len(l) BY <1>4
    <3>3. Len(l) + 1 \in 1..(Len(l) + 1) /\ \A i \in 1..Len(l) : i \in 1..(Len(l) + 1) BY <1>4
    <3> QED BY <2>3, <2>4, <3>1, <3>2, <3>3 DEF ToSet
  <2>6. IsInjective(s) => s[n] \notin ToSet(l) BY <1>2 DEF Leaves
  <2>7. IsInjective(l) /\ s[n] \notin ToSet(l) => IsInjective(m)
    <3>1. DOMAIN l = 1..Len(l) BY <1>4
    <3> SUFFICES ASSUME IsInjective(l), s[n] \notin ToSet(l),
                        NEW i \in 1..(Len(l) + 1), NEW j \in 1..(Len(l) + 1), m[i] = m[j]
                 PROVE  i = j
      BY <2>3 DEF IsInjective
    <3>2. \A k \in 1..Len(l) : l[k] \in ToSet(l) BY <3>1 DEF ToSet
    <3>3. CASE i \in 1..Len(l) /\ j \in 1..Len(l) BY <3>3, <3>1, <2>3 DEF IsInjective
    <3>4. CASE i = Len(l) + 1 /\ j \in 1..Len(l) BY <3>4, <3>2, <2>3, <2>4
    <3>5. CASE i \in 1..Len(l) /\ j = Len(l) + 1 BY <3>5, <3>2, <2>3, <2>4
    <3> QED BY <3>3, <3>4, <3>5, <1>4
  <2>8. Cardinality(gone \cap before) \in Nat BY <1>3, FS_CardinalityType
  <2>9. Leaves(s, gone, n, m)
    <3> HIDE DEF now, before
    <3>1. ToSet(m) = now \ gone BY <2>2, <2>5 DEF Leaves, before
    <3>2. Len(m) <= n BY <2>3, <1>4 DEF Leaves
    <3>3. IsInjective(s) => IsInjective(m) BY <2>6, <2>7 DEF Leaves
    <3>4. IsInjective(s) => Len(m) = n - Cardinality(gone \cap now)
      <4>1. IsInjective(s) => Len(l) = (n - 1) - Cardinality(gone \cap before) BY DEF Leaves, before
      <4> DEFINE c == Cardinality(gone \cap before)
                 k == Len(l)
      <4>2. c \in Nat /\ k \in Nat /\ n \in Nat BY <2>8, <1>4
      <4>3. Cardinality(gone \cap now) = c BY <2>1
      <4>4. Len(m) = k + 1 BY <2>3
      <4> HIDE DEF c, k
      <4>5. k = (n - 1) - c => k + 1 = n - c BY <4>2
      <4> QED BY <4>1, <4>3, <4>4, <4>5 DEF c, k
    <3>5. InOrder(s, n, m)
      <4> SUFFICES ASSUME NEW p \in DOMAIN m, NEW q \in DOMAIN m, p < q
                   PROVE  \E k, j \in 1..n : k < j /\ s[k] = m[p] /\ s[j] = m[q]
        BY DEF InOrder
      <4>1. \A i \in 1..(n - 1) : i \in 1..n /\ i < n OBVIOUS
      <4>2. p \in 1..Len(l) /\ DOMAIN l = 1..Len(l) BY <2>3, <1>4
      <4>3. CASE q \in 1..Len(l)
        <5>1. PICK k \in 1..(n - 1), j \in 1..(n - 1) : k < j /\ s[k] = l[p] /\ s[j] = l[q]
          BY <4>2, <4>3 DEF Leaves, InOrder
        <5> QED BY <5>1, <4>1, <4>2, <4>3, <2>3
      <4>4. CASE q = Len(l) + 1
        <5>1. l[p] \in before BY <4>2 DEF Leaves, ToSet, before
        <5>2. PICK k \in 1..(n - 1) : s[k] = l[p] BY <5>1 DEF before, Firsts
        <5>3. m[q] = s[n] /\ m[p] = l[p] /\ n \in 1..n BY <4>2, <4>4, <2>3, <2>4
        <5> QED BY <5>2, <5>3, <4>1
      <4> QED BY <4>3, <4>4, <2>3
    <3> QED BY <3>1, <3>2, <3>3, <3>4, <3>5, <1>3 DEF Leaves, now
  <2> QED BY <2>9, <1>6 DEF m
<1> QED BY <1>5, <1>6

LEMMA WithoutLeaves ==
    ASSUME NEW S, NEW s \in Seq(S), NEW gone
    PROVE  Without(s, gone) \in Seq(S) /\ Leaves(s, gone, Len(s), Without(s, gone))
<1>1. Len(s) \in Nat OBVIOUS
<1>2. PICK left : LeftStep(left, s, gone, Len(s)) /\ Without(s, gone) = left[Len(s)]
  BY <1>1, WithoutIsLeft
<1> DEFINE B == {n \in 0..Len(s) : ~ (left[n] \in Seq(S) /\ Leaves(s, gone, n, left[n]))}
<1> SUFFICES ASSUME B # {} PROVE FALSE
  BY <1>1, <1>2
<1>3. PICK n \in B : \A m \in B : n <= m
  <2>1. B \subseteq Nat BY <1>1
  <2> HIDE DEF B
  <2> QED BY <2>1, LeastNatural
<1>4. left[n] = IF n = 0 THEN <<>> ELSE IF s[n] \in gone THEN left[n - 1] ELSE Append(left[n - 1], s[n])
  BY <1>2 DEF LeftStep
<1>5. CASE n = 0
  <2>1. left[n] = <<>> BY <1>4, <1>5
  <2>2. <<>> \in Seq(S) /\ Leaves(s, gone, 0, <<>>) BY LeavesStart
  <2>3. left[n] \in Seq(S) /\ Leaves(s, gone, n, left[n]) BY <2>1, <2>2, <1>5
  <2> QED BY <2>3, <1>3
<1>6. CASE n # 0
  <2>1. n \in 1..Len(s) /\ n - 1 \in 0..Len(s) /\ n - 1 \notin B BY <1>1, <1>3, <1>6
  <2>2. left[n - 1] \in Seq(S) /\ Leaves(s, gone, n - 1, left[n - 1]) BY <2>1
  <2>3. left[n] = IF s[n] \in gone THEN left[n - 1] ELSE Append(left[n - 1], s[n]) BY <1>4, <1>6
  <2>4. s[n] \in S BY <2>1
  <2> HIDE DEF B
  <2>5. left[n] \in Seq(S) BY <2>2, <2>3, <2>4
  <2>6. Leaves(s, gone, n, left[n]) BY <2>1, <2>2, <2>3, LeavesStep
  <2> QED BY <2>5, <2>6, <1>3 DEF B
<1> QED BY <1>5, <1>6

\* What Without leaves: a sequence, no longer, of the other members; each once if
\* each was there once, and then fewer by the members that went.
LEMMA WithoutProperties ==
    ASSUME NEW S, NEW s \in Seq(S), NEW gone
    PROVE  /\ Without(s, gone) \in Seq(S)
           /\ Len(Without(s, gone)) <= Len(s)
           /\ ToSet(Without(s, gone)) = ToSet(s) \ gone
           /\ InOrder(s, Len(s), Without(s, gone))
           /\ IsInjective(s) =>
                 /\ IsInjective(Without(s, gone))
                 /\ Len(Without(s, gone)) = Len(s) - Cardinality(gone \cap ToSet(s))
<1>1. Firsts(s, Len(s)) = ToSet(s) BY DEF Firsts, ToSet
<1> QED BY <1>1, WithoutLeaves DEF Leaves

-------------------------------------------------------------------------------
(* Sequences and naturals *)

LEMMA AppendedMembers ==
    ASSUME NEW S, NEW q \in Seq(S), NEW w \in S
    PROVE  /\ ToSet(Append(q, w)) = ToSet(q) \cup {w}
           /\ DOMAIN Append(q, w) = 1..(Len(q) + 1) /\ DOMAIN q = 1..Len(q) /\ Len(q) \in Nat
           /\ \A n \in 1..Len(q) : Append(q, w)[n] = q[n]
           /\ Append(q, w)[Len(q) + 1] = w
<1>1. /\ DOMAIN Append(q, w) = 1..(Len(q) + 1) /\ DOMAIN q = 1..Len(q) /\ Len(q) \in Nat
      /\ \A n \in 1..Len(q) : Append(q, w)[n] = q[n]
      /\ Append(q, w)[Len(q) + 1] = w
  OBVIOUS
<1>2. \A i \in 1..(Len(q) + 1) : i \in 1..Len(q) \/ i = Len(q) + 1 BY <1>1
<1>3. Len(q) + 1 \in 1..(Len(q) + 1) /\ \A i \in 1..Len(q) : i \in 1..(Len(q) + 1) BY <1>1
<1>4. ToSet(Append(q, w)) = ToSet(q) \cup {w} BY <1>1, <1>2, <1>3 DEF ToSet
<1> QED BY <1>1, <1>4

LEMMA TailMembers ==
    ASSUME NEW S, NEW q \in Seq(S), q # <<>>
    PROVE  /\ Head(q) = q[1] /\ 1 \in DOMAIN q /\ Len(q) \in Nat /\ Tail(q) \in Seq(S)
           /\ DOMAIN Tail(q) = 1..(Len(q) - 1) /\ DOMAIN q = 1..Len(q)
           /\ \A n \in 1..(Len(q) - 1) : Tail(q)[n] = q[n + 1]
           /\ \A n \in DOMAIN q : n # 1 => n - 1 \in DOMAIN Tail(q) /\ Tail(q)[n - 1] = q[n]
           /\ ToSet(q) = {Head(q)} \cup ToSet(Tail(q))
<1>1. /\ Head(q) = q[1] /\ 1 \in DOMAIN q /\ Len(q) \in Nat /\ Tail(q) \in Seq(S)
      /\ DOMAIN Tail(q) = 1..(Len(q) - 1) /\ DOMAIN q = 1..Len(q)
      /\ \A n \in 1..(Len(q) - 1) : Tail(q)[n] = q[n + 1]
  OBVIOUS
<1>2. \A n \in DOMAIN q : n # 1 => n - 1 \in DOMAIN Tail(q) /\ Tail(q)[n - 1] = q[n]
  <2> SUFFICES ASSUME NEW n \in DOMAIN q, n # 1 PROVE n - 1 \in DOMAIN Tail(q) /\ Tail(q)[n - 1] = q[n]
    OBVIOUS
  <2>1. n - 1 \in 1..(Len(q) - 1) /\ (n - 1) + 1 = n BY <1>1
  <2> QED BY <2>1, <1>1
<1>3. \A n \in 1..(Len(q) - 1) : n + 1 \in DOMAIN q BY <1>1
<1>4. ToSet(q) = {Head(q)} \cup ToSet(Tail(q))
  <2> DEFINE r == Tail(q)
  <2>1. \A n \in DOMAIN r : n + 1 \in DOMAIN q /\ r[n] = q[n + 1] BY <1>1, <1>3
  <2>2. \A n \in DOMAIN q : n = 1 \/ (n - 1 \in DOMAIN r /\ r[n - 1] = q[n]) BY <1>2
  <2> HIDE DEF r
  <2>3. ASSUME NEW e \in ToSet(r) PROVE e \in ToSet(q)
    <3>1. PICK n \in DOMAIN r : r[n] = e BY DEF ToSet
    <3> QED BY <3>1, <2>1 DEF ToSet
  <2>4. ASSUME NEW e \in ToSet(q) PROVE e = Head(q) \/ e \in ToSet(r)
    <3>1. PICK n \in DOMAIN q : q[n] = e BY DEF ToSet
    <3> QED BY <3>1, <2>2, <1>1 DEF ToSet
  <2>5. Head(q) \in ToSet(q) BY <1>1 DEF ToSet
  <2> QED BY <2>3, <2>4, <2>5 DEF r
<1> QED BY <1>1, <1>2, <1>4

LEMMA MaxIs ==
    ASSUME NEW b \in Nat, NEW S \in SUBSET (0..b), S # {}
    PROVE  Max(S) \in S /\ \A y \in S : y <= Max(S)
<1> DEFINE U == {n \in Nat : \A x \in S : x <= n}
<1>1. b \in U OBVIOUS
<1>2. PICK n \in U : \A m \in U : n <= m
  <2>1. U \subseteq Nat /\ U # {} BY <1>1
  <2> HIDE DEF U
  <2> QED BY <2>1, LeastNatural
<1>3. n \in Nat /\ \A x \in S : x <= n BY <1>2
<1>4. n \in S
  <2> SUFFICES ASSUME n \notin S PROVE FALSE
    OBVIOUS
  <2>1. \A x \in S : x \in Nat /\ x < n BY <1>3
  <2>2. n # 0
    <3>1. PICK x \in S : TRUE OBVIOUS
    <3>2. x \in Nat /\ x < n BY <2>1
    <3> QED BY <3>2
  <2>3. n - 1 \in Nat /\ \A x \in S : x <= n - 1 BY <1>3, <2>1, <2>2
  <2>4. n - 1 \in U BY <2>3
  <2>5. n <= n - 1 BY <2>4, <1>2
  <2> QED BY <2>5, <1>3
<1>5. \A x \in S : n >= x BY <1>3
<1>6. \E x \in S : \A y \in S : x >= y BY <1>4, <1>5
<1>7. Max(S) \in S /\ \A y \in S : Max(S) >= y BY <1>6 DEF Max
<1>8. \A y \in S : y \in Nat OBVIOUS
<1>9. Max(S) \in Nat BY <1>7, <1>8
<1> QED BY <1>7, <1>8, <1>9

LEMMA Fewer ==
    ASSUME NEW S, NEW T, NEW s \in Seq(S), ToSet(s) \subseteq T
    PROVE  s \in Seq(T)
<1>1. DOMAIN s = 1..Len(s) /\ Len(s) \in Nat /\ \A i \in 1..Len(s) : s[i] \in T BY DEF ToSet
<1>2. s = [i \in 1..Len(s) |-> s[i]] OBVIOUS
<1> QED BY <1>1, <1>2

LEMMA Joined ==
    ASSUME NEW S, NEW s \in Seq(S), NEW r \in Seq(S)
    PROVE  /\ s \o r \in Seq(S) /\ Len(s \o r) = Len(s) + Len(r)
           /\ DOMAIN s = 1..Len(s) /\ Len(s) \in Nat /\ Len(r) \in Nat
           /\ \A i \in DOMAIN s : i \in DOMAIN (s \o r) /\ (s \o r)[i] = s[i]
           /\ \A i \in DOMAIN (s \o r) : Len(s) < i => (s \o r)[i] \in ToSet(r)
           /\ \A x \in ToSet(r) : \E i \in DOMAIN (s \o r) : Len(s) < i /\ (s \o r)[i] = x
           /\ ToSet(s) \cup ToSet(r) \subseteq ToSet(s \o r)
<1> DEFINE j == s \o r
           len == Len(s)
           add == Len(r)
<1>1. /\ j \in Seq(S) /\ Len(j) = len + add
      /\ \A i \in 1..(len + add) : j[i] = IF i <= len THEN s[i] ELSE r[i - len]
  BY ConcatProperties
<1>2. len \in Nat /\ add \in Nat /\ DOMAIN s = 1..len /\ DOMAIN r = 1..add OBVIOUS
<1> HIDE DEF j, len, add
<1>3. DOMAIN j = 1..(len + add) BY <1>1
<1>4. \A i \in DOMAIN s : i \in DOMAIN j /\ j[i] = s[i] BY <1>1, <1>2, <1>3
<1>5. ASSUME NEW i \in DOMAIN j, len < i PROVE j[i] \in ToSet(r)
  <2>1. i - len \in DOMAIN r /\ j[i] = r[i - len] BY <1>1, <1>2, <1>3, <1>5
  <2> QED BY <2>1 DEF ToSet
<1>6. ASSUME NEW x \in ToSet(r) PROVE \E i \in DOMAIN j : len < i /\ j[i] = x
  <2>1. PICK k \in DOMAIN r : r[k] = x BY DEF ToSet
  <2>2. len + k \in DOMAIN j /\ len < len + k /\ len + k - len = k BY <2>1, <1>2, <1>3
  <2>3. j[len + k] = x BY <2>1, <2>2, <1>1, <1>2, <1>3
  <2> QED BY <2>2, <2>3
<1>7. ToSet(s) \cup ToSet(r) \subseteq ToSet(j) BY <1>4, <1>6 DEF ToSet
<1> QED BY <1>1, <1>2, <1>4, <1>5, <1>6, <1>7 DEF j, len, add

\* What follows the first n.
LEMMA After ==
    ASSUME NEW S, NEW s \in Seq(S), NEW n \in Nat
    PROVE  /\ SubSeq(s, n + 1, Len(s)) \in Seq(S)
           /\ n <= Len(s) => Len(SubSeq(s, n + 1, Len(s))) = Len(s) - n
           /\ \A m \in DOMAIN SubSeq(s, n + 1, Len(s)) :
                 n + m \in DOMAIN s /\ n < n + m /\ SubSeq(s, n + 1, Len(s))[m] = s[n + m]
           /\ \A p \in DOMAIN s : n < p => s[p] \in ToSet(SubSeq(s, n + 1, Len(s)))
<1> DEFINE len == Len(s)
           r == SubSeq(s, n + 1, len)
<1>1. len \in Nat /\ DOMAIN s = 1..len OBVIOUS
<1>2. \A i \in (n + 1)..len : s[i] \in S BY <1>1
<1>3. /\ r \in Seq(S) /\ Len(r) = (IF n + 1 <= len THEN len - (n + 1) + 1 ELSE 0)
      /\ \A i \in 1..(len - (n + 1) + 1) : r[i] = s[(n + 1) + i - 1]
  <2>1. n + 1 \in Int /\ len \in Int BY <1>1
  <2> HIDE DEF len
  <2> QED BY <1>2, <2>1, SubSeqProperties
<1> HIDE DEF r, len
<1>4. len - (n + 1) + 1 = len - n BY <1>1
<1>5. Len(r) = IF n <= len THEN len - n ELSE 0 BY <1>1, <1>3, <1>4
<1>6. DOMAIN r = 1..(len - n)
  <2>1. DOMAIN r = 1..Len(r) BY <1>3
  <2>2. CASE n <= len BY <2>1, <2>2, <1>5
  <2>3. CASE ~ (n <= len)
    <3>1. 1..(len - n) = {} /\ 1..0 = {} BY <2>3, <1>1
    <3> QED BY <3>1, <2>1, <2>3, <1>5
  <2> QED BY <2>2, <2>3
<1>7. \A m \in DOMAIN r : n + m \in DOMAIN s /\ n < n + m /\ r[m] = s[n + m]
  <2> SUFFICES ASSUME NEW m \in 1..(len - n) PROVE n + m \in 1..len /\ n < n + m /\ r[m] = s[n + m]
    BY <1>1, <1>6
  <2>1. (n + 1) + m - 1 = n + m /\ n + m \in 1..len /\ n < n + m BY <1>1
  <2> QED BY <2>1, <1>3, <1>4
<1>8. ASSUME NEW p \in DOMAIN s, n < p PROVE s[p] \in ToSet(r)
  <2>1. p - n \in DOMAIN r /\ n + (p - n) = p BY <1>1, <1>6, <1>8
  <2>2. r[p - n] = s[p] BY <2>1, <1>7
  <2> QED BY <2>1, <2>2 DEF ToSet
<1> QED BY <1>3, <1>5, <1>7, <1>8 DEF r, len

=============================================================================
