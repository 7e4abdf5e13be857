---------------------------- MODULE LibraryFacts ----------------------------
(***************************************************************************)
(* What the operators of the library do that the models are built from:    *)
(* the queues of Bull and of the connection pool as sequences, the money   *)
(* of a currency and the payments open on a sub-account as sums.           *)
(***************************************************************************)
EXTENDS SequencesExt, SequenceTheorems, FiniteSetTheorems, TLAPS

-----------------------------------------------------------------------------
(* Sequences without repetition, as the sets of what they hold.            *)

LEMMA AppendSet ==
  ASSUME NEW S, NEW s \in Seq(S), NEW e \in S
  PROVE  /\ Append(s, e) \in Seq(S)
         /\ ToSet(Append(s, e)) = ToSet(s) \cup {e}
         /\ IsInjective(s) /\ e \notin ToSet(s) => IsInjective(Append(s, e))
BY AppendProperties, LenProperties DEF ToSet, IsInjective

LEMMA PrependSet ==
  ASSUME NEW S, NEW s \in Seq(S), NEW e \in S
  PROVE  /\ <<e>> \o s \in Seq(S)
         /\ ToSet(<<e>> \o s) = {e} \cup ToSet(s)
         /\ IsInjective(s) /\ e \notin ToSet(s) => IsInjective(<<e>> \o s)
<1> DEFINE t == <<e>> \o s
<1>1. <<e>> \in Seq(S) /\ Len(<<e>>) = 1 /\ <<e>>[1] = e
  OBVIOUS
<1>2. /\ t \in Seq(S) /\ Len(t) = 1 + Len(s)
      /\ \A i \in 1..(1 + Len(s)) : t[i] = IF i <= 1 THEN e ELSE s[i - 1]
  BY <1>1, ConcatProperties
<1>3. Len(s) \in Nat /\ DOMAIN s = 1..Len(s) /\ DOMAIN t = 1..(1 + Len(s))
  BY <1>2, LenProperties
<1>4. t[1] = e /\ \A i \in 1..Len(s) : i + 1 \in DOMAIN t /\ t[i + 1] = s[i]
  BY <1>2, <1>3
<1> HIDE DEF t
<1>5. ToSet(t) = {e} \cup ToSet(s)
  <2>1. ASSUME NEW i \in DOMAIN t
        PROVE  t[i] \in {e} \cup ToSet(s)
    BY <1>2, <1>3 DEF ToSet
  <2>2. ASSUME NEW i \in DOMAIN s
        PROVE  s[i] \in ToSet(t)
    BY <1>3, <1>4 DEF ToSet
  <2>3. e \in ToSet(t)
    BY <1>3, <1>4 DEF ToSet
  <2> QED
    BY <2>1, <2>2, <2>3 DEF ToSet
<1>6. ASSUME IsInjective(s), e \notin ToSet(s)
      PROVE  IsInjective(t)
  <2>1. \A i \in 1..Len(s) : s[i] # e
    BY <1>3, <1>6 DEF ToSet
  <2> SUFFICES ASSUME NEW i \in 1..(1 + Len(s)), NEW j \in 1..(1 + Len(s)), t[i] = t[j]
               PROVE  i = j
    BY <1>3 DEF IsInjective
  <2>2. i = 1 <=> j = 1
    BY <1>2, <1>3, <2>1
  <2>3. CASE i # 1 /\ j # 1
    <3>1. i - 1 \in DOMAIN s /\ j - 1 \in DOMAIN s /\ s[i - 1] = s[j - 1]
      BY <1>2, <1>3, <2>3
    <3> QED
      BY <1>3, <1>6, <3>1 DEF IsInjective
  <2> QED
    BY <2>2, <2>3
<1> QED
  BY <1>2, <1>5, <1>6 DEF t

LEMMA TailSet ==
  ASSUME NEW S, NEW s \in Seq(S), s # <<>>
  PROVE  /\ Head(s) \in ToSet(s)
         /\ Tail(s) \in Seq(S)
         /\ ToSet(Tail(s)) \subseteq ToSet(s)
         /\ IsInjective(s) => IsInjective(Tail(s)) /\ ToSet(Tail(s)) = ToSet(s) \ {Head(s)}
<1>1. /\ Len(s) \in Nat \ {0} /\ DOMAIN s = 1..Len(s) /\ Head(s) = s[1]
      /\ Tail(s) \in Seq(S) /\ Len(Tail(s)) = Len(s) - 1
      /\ \A i \in 1..Len(Tail(s)) : Tail(s)[i] = s[i + 1]
  BY LenProperties, EmptySeq, HeadTailProperties
<1>2. DOMAIN Tail(s) = 1..(Len(s) - 1)
  BY <1>1, LenProperties
<1>3. Head(s) \in ToSet(s)
  BY <1>1 DEF ToSet
<1>4. ASSUME NEW i \in 1..Len(s), i # 1
      PROVE  s[i] \in ToSet(Tail(s))
  <2>1. i - 1 \in DOMAIN Tail(s) /\ Tail(s)[i - 1] = s[i]
    BY <1>1, <1>2, <1>4
  <2> QED
    BY <2>1 DEF ToSet
<1>5. ASSUME NEW i \in DOMAIN Tail(s)
      PROVE  i + 1 \in 1..Len(s) /\ i + 1 # 1 /\ Tail(s)[i] = s[i + 1]
  BY <1>1, <1>2
<1>6. ToSet(Tail(s)) \subseteq ToSet(s)
  BY <1>1, <1>5 DEF ToSet
<1>7. ASSUME IsInjective(s)
      PROVE  IsInjective(Tail(s)) /\ ToSet(Tail(s)) = ToSet(s) \ {Head(s)}
  <2>1. \A i, j \in 1..Len(s) : s[i] = s[j] => i = j
    BY <1>1, <1>7 DEF IsInjective
  <2>2. ASSUME NEW i \in DOMAIN Tail(s), NEW j \in DOMAIN Tail(s), Tail(s)[i] = Tail(s)[j]
        PROVE  i = j
    BY <1>2, <1>5, <2>1, <2>2
  <2>3. Head(s) \notin ToSet(Tail(s))
    BY <1>1, <1>5, <2>1 DEF ToSet
  <2>4. ToSet(s) \subseteq ToSet(Tail(s)) \cup {Head(s)}
    BY <1>1, <1>4 DEF ToSet
  <2> QED
    BY <1>6, <2>2, <2>3, <2>4 DEF IsInjective
<1> QED
  BY <1>1, <1>3, <1>6, <1>7

LEMMA FrontSet ==
  ASSUME NEW S, NEW s \in Seq(S), s # <<>>
  PROVE  /\ Last(s) \in ToSet(s)
         /\ Front(s) \in Seq(S)
         /\ IsInjective(s) => IsInjective(Front(s)) /\ ToSet(Front(s)) = ToSet(s) \ {Last(s)}
<1>1. Len(s) \in Nat \ {0} /\ DOMAIN s = 1..Len(s)
  BY LenProperties, EmptySeq
<1>2. /\ Front(s) \in Seq(S) /\ Len(Front(s)) = Len(s) - 1
      /\ \A i \in 1..(Len(s) - 1) : Front(s)[i] = s[i]
  BY <1>1, SubSeqProperties DEF Front
<1>3. DOMAIN Front(s) = 1..(Len(s) - 1)
  BY <1>1, <1>2, LenProperties
<1>4. Last(s) \in ToSet(s)
  BY <1>1 DEF Last, ToSet
<1>5. ASSUME IsInjective(s)
      PROVE  IsInjective(Front(s)) /\ ToSet(Front(s)) = ToSet(s) \ {Last(s)}
  <2>1. \A i, j \in 1..Len(s) : s[i] = s[j] => i = j
    BY <1>1, <1>5 DEF IsInjective
  <2>2. IsInjective(Front(s))
    BY <1>1, <1>2, <1>3, <2>1 DEF IsInjective
  <2>3. ASSUME NEW i \in 1..Len(s), s[i] # Last(s)
        PROVE  s[i] \in ToSet(Front(s))
    <3>1. i \in 1..(Len(s) - 1)
      BY <1>1, <2>3 DEF Last
    <3> QED
      BY <1>2, <1>3, <3>1 DEF ToSet
  <2>4. ASSUME NEW i \in 1..(Len(s) - 1)
        PROVE  Front(s)[i] \in ToSet(s) /\ Front(s)[i] # Last(s)
    BY <1>1, <1>2, <2>1 DEF ToSet, Last
  <2> QED
    BY <1>1, <1>3, <2>2, <2>3, <2>4 DEF ToSet
<1> QED
  BY <1>2, <1>4, <1>5

LEMMA ContainsSet ==
  ASSUME NEW S, NEW s \in Seq(S), NEW e
  PROVE  Contains(s, e) <=> e \in ToSet(s)
BY LenProperties DEF Contains, ToSet

\* SetToSeq puts every element of a finite set in the sequence, once.
LEMMA SetToSeqSet ==
  ASSUME NEW S, IsFiniteSet(S)
  PROVE  /\ SetToSeq(S) \in Seq(S)
         /\ IsInjective(SetToSeq(S))
         /\ ToSet(SetToSeq(S)) = S
<1> DEFINE n == Cardinality(S)
           s == SetToSeq(S)
<1>1. n \in Nat /\ ExistsBijection(1..n, S)
  BY FS_CardinalityType
<1>2. \E f \in [1..n -> S] : IsInjective(f)
  BY <1>1 DEF ExistsBijection, Bijection, Injection
<1>3. s \in [1..n -> S] /\ IsInjective(s)
  BY <1>2 DEF SetToSeq
<1>4. s \in Seq(S)
  BY <1>1, <1>3, SeqDef
<1> HIDE DEF s
<1>5. s \in Injection(1..n, S)
  BY <1>3 DEF Injection
<1>6. IsFiniteSet(1..n) /\ Cardinality(1..n) = n
  BY <1>1, FS_Interval
<1>7. s \in Surjection(1..n, S)
  BY <1>5, <1>6, FS_Injection
<1>8. \A e \in S : \E i \in 1..n : s[i] = e
  BY <1>7 DEF Surjection
<1>9. ToSet(s) = S
  BY <1>3, <1>8 DEF ToSet
<1> QED
  BY <1>3, <1>4, <1>9 DEF s

-----------------------------------------------------------------------------
(* Sums of a function over a finite set: the order in which the elements    *)
(* are chosen does not matter.  SumFunctionOnSet is a recursive function on *)
(* the subsets of its set; IsSum is what its definition says of it.         *)

ChosenFrom(s) == CHOOSE x \in s : TRUE

IsSum(h, f, S) ==
  h = [s \in SUBSET S |-> IF s = {} THEN 0 ELSE f[ChosenFrom(s)] + h[s \ {ChosenFrom(s)}]]

LEMMA ChosenIn == ASSUME NEW s, s # {} PROVE ChosenFrom(s) \in s
BY DEF ChosenFrom

\* What holds of a set when it holds of all smaller ones holds of a finite set.
LEMMA SubsetInduction ==
  ASSUME NEW S, IsFiniteSet(S), NEW Good,
         \A T \in SUBSET S : (\A U \in SUBSET T : U # T => U \in Good) => T \in Good
  PROVE  \A T \in SUBSET S : T \in Good
<1> DEFINE Bad == (SUBSET S) \ Good
<1> SUFFICES ASSUME Bad # {}
             PROVE  FALSE
  OBVIOUS
<1>1. Bad \subseteq SUBSET S
  OBVIOUS
<1>2. FiniteSubsetsOf(S) = SUBSET S
  BY FS_FiniteSubsetsOfFinite
<1>3. IsWellFoundedOn(StrictSubsetOrdering(S), FiniteSubsetsOf(S))
  BY FS_StrictSubsetOrderingWellFounded
<1>4. IsWellFoundedOn(StrictSubsetOrdering(S), SUBSET S)
  BY <1>2, <1>3
<1>5. PICK T \in Bad : \A U \in Bad : ~(<<U, T>> \in StrictSubsetOrdering(S))
  <2> HIDE DEF Bad
  <2> QED BY <1>1, <1>4, WFMin
<1>6. \A U \in SUBSET T : U # T => U \in Good
  BY <1>5 DEF StrictSubsetOrdering
<1> QED
  BY <1>5, <1>6

LEMMA SumUnique ==
  ASSUME NEW f, NEW S, IsFiniteSet(S), NEW T, NEW g, NEW h, IsSum(g, f, S), IsSum(h, f, T)
  PROVE  \A U \in SUBSET (S \cap T) : g[U] = h[U]
<1> DEFINE Good == {U \in SUBSET (S \cap T) : g[U] = h[U]}
<1>1. IsFiniteSet(S \cap T)
  BY FS_Intersection
<1>2. ASSUME NEW U \in SUBSET (S \cap T), \A V \in SUBSET U : V # U => V \in Good
      PROVE  U \in Good
  <2>1. CASE U = {}
    BY <2>1 DEF IsSum
  <2>2. CASE U # {}
    <3> DEFINE x == ChosenFrom(U)
    <3>1. U \ {x} \in Good
      BY <1>2, <2>2, ChosenIn
    <3>2. g[U] = f[x] + g[U \ {x}] /\ h[U] = f[x] + h[U \ {x}]
      BY <2>2 DEF IsSum
    <3> QED
      BY <3>1, <3>2
  <2> QED
    BY <2>1, <2>2
<1> HIDE DEF Good
<1>3. \A U \in SUBSET (S \cap T) : U \in Good
  BY <1>1, <1>2, SubsetInduction
<1> QED
  BY <1>3 DEF Good

LEMMA SumExists ==
  ASSUME NEW f, NEW S, IsFiniteSet(S)
  PROVE  \E h : IsSum(h, f, S)
<1> DEFINE H(T) == CHOOSE h : IsSum(h, f, T)
           Good == {T \in SUBSET S : \E h : IsSum(h, f, T)}
<1>1. ASSUME NEW T \in SUBSET S, \A U \in SUBSET T : U # T => U \in Good
      PROVE  T \in Good
  <2> DEFINE h == [s \in SUBSET T |-> IF s = {} THEN 0
                     ELSE f[ChosenFrom(s)] + H(s \ {ChosenFrom(s)})[s \ {ChosenFrom(s)}]]
  <2>1. ASSUME NEW U \in SUBSET T, U # T
        PROVE  IsFiniteSet(U) /\ IsSum(H(U), f, U)
    BY <1>1, <2>1, FS_Subset
  <2> HIDE DEF H
  <2>2. ASSUME NEW U \in SUBSET T, U # T
        PROVE  h[U] = H(U)[U]
    <3>1. CASE U = {}
      BY <2>1, <2>2, <3>1 DEF IsSum
    <3>2. CASE U # {}
      <4> DEFINE V == U \ {ChosenFrom(U)}
      <4>1. V \in SUBSET T /\ V # T
        BY <2>2
      <4>2. H(U)[V] = H(V)[V]
        BY <2>1, <2>2, <4>1, SumUnique
      <4>3. H(U)[U] = f[ChosenFrom(U)] + H(U)[V]
        BY <2>1, <2>2, <3>2 DEF IsSum
      <4> QED
        BY <3>2, <4>2, <4>3
    <3> QED
      BY <3>1, <3>2
  <2>3. ASSUME NEW s \in SUBSET T, s # {}
        PROVE  h[s] = f[ChosenFrom(s)] + h[s \ {ChosenFrom(s)}]
    <3>1. s \ {ChosenFrom(s)} \in SUBSET T /\ s \ {ChosenFrom(s)} # T
      BY <2>3, ChosenIn
    <3> QED
      BY <2>2, <2>3, <3>1
  <2>4. h[{}] = 0
    OBVIOUS
  <2>5. h = [s \in SUBSET T |-> h[s]]
    OBVIOUS
  <2> HIDE DEF h
  <2>6. h = [s \in SUBSET T |-> IF s = {} THEN 0 ELSE f[ChosenFrom(s)] + h[s \ {ChosenFrom(s)}]]
    BY <2>3, <2>4, <2>5
  <2> QED
    BY <2>6 DEF IsSum
<1> HIDE DEF Good
<1>2. \A T \in SUBSET S : T \in Good
  BY <1>1, SubsetInduction
<1> QED
  BY <1>2 DEF Good

LEMMA SumIs ==
  ASSUME NEW f, NEW S, IsFiniteSet(S)
  PROVE  \E h : IsSum(h, f, S) /\ SumFunctionOnSet(f, S) = h[S]
<1> DEFINE h == CHOOSE h : IsSum(h, f, S)
<1>1. IsSum(h, f, S)
  BY SumExists
<1>2. SumFunctionOnSet(f, S) = h[S]
  BY DEF SumFunctionOnSet, FoldFunctionOnSet, MapThenFoldSet, IsSum, ChosenFrom
<1> QED
  BY <1>1, <1>2

LEMMA SumEmpty == ASSUME NEW f PROVE SumFunctionOnSet(f, {}) = 0
<1>1. PICK h : IsSum(h, f, {}) /\ SumFunctionOnSet(f, {}) = h[{}]
  BY SumIs, FS_EmptySet
<1> QED
  BY <1>1 DEF IsSum

LEMMA SumChosen ==
  ASSUME NEW f, NEW S, IsFiniteSet(S), S # {}
  PROVE  SumFunctionOnSet(f, S)
           = f[ChosenFrom(S)] + SumFunctionOnSet(f, S \ {ChosenFrom(S)})
<1> DEFINE x == ChosenFrom(S)
           R == S \ {x}
<1>1. IsFiniteSet(R)
  BY FS_RemoveElement
<1>2. PICK h : IsSum(h, f, S) /\ SumFunctionOnSet(f, S) = h[S]
  BY SumIs
<1>3. PICK g : IsSum(g, f, R) /\ SumFunctionOnSet(f, R) = g[R]
  BY <1>1, SumIs
<1>4. h[S] = f[x] + h[R]
  BY <1>2 DEF IsSum
<1>5. R \in SUBSET (S \cap R)
  OBVIOUS
<1>6. h[R] = g[R]
  <2> HIDE DEF R
  <2> QED BY <1>2, <1>3, <1>5, SumUnique
<1> QED
  BY <1>2, <1>3, <1>4, <1>6

LEMMA SumInt ==
  ASSUME NEW f, NEW S, IsFiniteSet(S), \A x \in S : f[x] \in Int
  PROVE  SumFunctionOnSet(f, S) \in Int
<1> DEFINE Good == {T \in SUBSET S : SumFunctionOnSet(f, T) \in Int}
<1>1. ASSUME NEW T \in SUBSET S, \A U \in SUBSET T : U # T => U \in Good
      PROVE  T \in Good
  <2>1. CASE T = {}
    BY <2>1, SumEmpty
  <2>2. CASE T # {}
    <3>1. T \ {ChosenFrom(T)} \in Good /\ f[ChosenFrom(T)] \in Int
      BY <1>1, <2>2, ChosenIn
    <3>2. IsFiniteSet(T)
      BY FS_Subset
    <3> QED
      BY <2>2, <3>1, <3>2, SumChosen
  <2> QED
    BY <2>1, <2>2
<1> HIDE DEF Good
<1>2. \A T \in SUBSET S : T \in Good
  BY <1>1, SubsetInduction
<1> QED
  BY <1>2 DEF Good

\* Functions that agree on a set have the same sum over it.
LEMMA SumSame ==
  ASSUME NEW f, NEW g, NEW S, IsFiniteSet(S), \A x \in S : f[x] = g[x]
  PROVE  SumFunctionOnSet(f, S) = SumFunctionOnSet(g, S)
<1> DEFINE Good == {T \in SUBSET S : SumFunctionOnSet(f, T) = SumFunctionOnSet(g, T)}
<1>1. ASSUME NEW T \in SUBSET S, \A U \in SUBSET T : U # T => U \in Good
      PROVE  T \in Good
  <2>1. CASE T = {}
    BY <2>1, SumEmpty
  <2>2. CASE T # {}
    <3>1. T \ {ChosenFrom(T)} \in Good /\ f[ChosenFrom(T)] = g[ChosenFrom(T)]
      BY <1>1, <2>2, ChosenIn
    <3>2. IsFiniteSet(T)
      BY FS_Subset
    <3>3. SumFunctionOnSet(f, T) = f[ChosenFrom(T)] + SumFunctionOnSet(f, T \ {ChosenFrom(T)})
      BY <2>2, <3>2, SumChosen
    <3>4. SumFunctionOnSet(g, T) = g[ChosenFrom(T)] + SumFunctionOnSet(g, T \ {ChosenFrom(T)})
      BY <2>2, <3>2, SumChosen
    <3> QED
      BY <3>1, <3>3, <3>4
  <2> QED
    BY <2>1, <2>2
<1> HIDE DEF Good
<1>2. \A T \in SUBSET S : T \in Good
  BY <1>1, SubsetInduction
<1> QED
  BY <1>2 DEF Good

\* Any element may be added last, not the chosen one only.
LEMMA SumRemove ==
  ASSUME NEW f, NEW S, IsFiniteSet(S), \A x \in S : f[x] \in Int, NEW e \in S
  PROVE  SumFunctionOnSet(f, S) = f[e] + SumFunctionOnSet(f, S \ {e})
<1> DEFINE Sum(T) == SumFunctionOnSet(f, T)
           Good == {T \in SUBSET S : \A y \in T : Sum(T) = f[y] + Sum(T \ {y})}
<1>1. ASSUME NEW T \in SUBSET S, \A U \in SUBSET T : U # T => U \in Good, NEW y \in T
      PROVE  Sum(T) = f[y] + Sum(T \ {y})
  <2> DEFINE x == ChosenFrom(T)
             R == (T \ {y}) \ {x}
  <2>1. x \in T
    BY ChosenIn
  <2>2. IsFiniteSet(T)
    BY FS_Subset
  <2>3. Sum(T) = f[x] + Sum(T \ {x})
    BY <2>2, SumChosen
  <2>4. CASE y = x
    BY <2>3, <2>4
  <2>5. CASE y # x
    <3>1. T \ {x} \in Good /\ T \ {y} \in Good
      BY <1>1, <2>1
    <3>2. Sum(T \ {y}) = f[x] + Sum(R)
      BY <2>1, <2>5, <3>1
    <3>3. (T \ {x}) \ {y} = R
      OBVIOUS
    <3>4. Sum(T \ {x}) = f[y] + Sum(R)
      BY <2>5, <3>1, <3>3
    <3>5. Sum(R) \in Int /\ f[x] \in Int /\ f[y] \in Int
      <4>1. IsFiniteSet(R) /\ \A z \in R : f[z] \in Int
        BY FS_Subset
      <4> HIDE DEF R
      <4> QED BY <2>1, <4>1, SumInt
    <3> HIDE DEF Sum, R, Good
    <3> QED
      BY <2>3, <3>2, <3>4, <3>5
  <2> QED
    BY <2>4, <2>5
<1>2. \A T \in SUBSET S : (\A U \in SUBSET T : U # T => U \in Good) => T \in Good
  BY <1>1
<1> HIDE DEF Good
<1>3. \A T \in SUBSET S : T \in Good
  BY <1>2, SubsetInduction
<1> QED
  BY <1>3 DEF Good

\* A change at one element is a change of the sum.
LEMMA SumChange ==
  ASSUME NEW f, NEW g, NEW S, IsFiniteSet(S), NEW e \in S,
         \A x \in S : f[x] \in Int, g[e] \in Int, \A x \in S \ {e} : g[x] = f[x]
  PROVE  SumFunctionOnSet(g, S) = SumFunctionOnSet(f, S) + (g[e] - f[e])
<1>1. IsFiniteSet(S \ {e})
  BY FS_RemoveElement
<1>2. SumFunctionOnSet(g, S \ {e}) = SumFunctionOnSet(f, S \ {e})
  BY <1>1, SumSame
<1>3. SumFunctionOnSet(f, S) = f[e] + SumFunctionOnSet(f, S \ {e})
  BY SumRemove
<1>4. SumFunctionOnSet(g, S) = g[e] + SumFunctionOnSet(g, S \ {e})
  <2>1. \A x \in S : g[x] \in Int
    OBVIOUS
  <2> QED BY <2>1, SumRemove
<1>5. SumFunctionOnSet(f, S \ {e}) \in Int
  BY <1>1, SumInt
<1> QED
  BY <1>2, <1>3, <1>4, <1>5

\* A part of a set counts no more than the whole where nothing counts below zero.
LEMMA SumMonotone ==
  ASSUME NEW f, NEW S, IsFiniteSet(S), \A x \in S : f[x] \in Nat, NEW P \in SUBSET S
  PROVE  SumFunctionOnSet(f, P) <= SumFunctionOnSet(f, S)
<1> DEFINE Sum(T) == SumFunctionOnSet(f, T)
           Good == {T \in SUBSET S : P \subseteq T => Sum(P) <= Sum(T)}
<1>1. Sum(P) \in Int
  <2>1. IsFiniteSet(P) /\ \A x \in P : f[x] \in Int
    BY FS_Subset
  <2> QED BY <2>1, SumInt
<1>2. ASSUME NEW T \in SUBSET S, \A U \in SUBSET T : U # T => U \in Good, P \subseteq T
      PROVE  Sum(P) <= Sum(T)
  <2>1. CASE T = P
    BY <1>1, <2>1
  <2>2. CASE T # P
    <3>1. PICK y \in T : y \notin P
      BY <1>2, <2>2
    <3>2. IsFiniteSet(T) /\ IsFiniteSet(T \ {y})
      BY FS_Subset
    <3>3. \A x \in T : f[x] \in Int
      OBVIOUS
    <3>4. Sum(T) = f[y] + Sum(T \ {y}) /\ Sum(T \ {y}) \in Int
      BY <3>2, <3>3, SumRemove, SumInt
    <3>5. Sum(P) <= Sum(T \ {y})
      BY <1>2, <3>1
    <3>6. f[y] \in Nat
      OBVIOUS
    <3> HIDE DEF Sum, Good
    <3> QED
      BY <1>1, <3>4, <3>5, <3>6
  <2> QED
    BY <2>1, <2>2
<1>3. \A T \in SUBSET S : (\A U \in SUBSET T : U # T => U \in Good) => T \in Good
  BY <1>2
<1> HIDE DEF Good
<1>4. \A T \in SUBSET S : T \in Good
  BY <1>3, SubsetInduction
<1> QED
  BY <1>4 DEF Good
=============================================================================
