----------------------------- MODULE ScoreProofs -----------------------------
(***************************************************************************)
(* The two scores, for every finding, every workspace and every estate:    *)
(* that the breakdown of a priority explains it and that learning about a  *)
(* finding never lowers it (PriorityScore), that a worsening trend is real *)
(* and that the composite is a mean of what was measured (SecurityScore).  *)
(***************************************************************************)
EXTENDS PriorityScore, SecurityScore, FiniteSetTheorems, NaturalsInduction,
        WellFoundedInduction, SequenceTheorems, TLAPS

-----------------------------------------------------------------------------
(* Sums.  The sum of natural numbers over a finite set counts its units.   *)

\* A set of numbers with 0 and the successor of each member has them all.
LEMMA Counting ==
  ASSUME NEW T, 0 \in T, \A n \in Nat : n \in T => n + 1 \in T
  PROVE  Nat \subseteq T
<1> DEFINE R == OpToRel(<, Nat)
           Missing == Nat \ T
<1>1. IsWellFoundedOn(R, Nat)
  BY NatLessThanWellFounded
<1>2. \A m, n \in Nat : m < n => <<m, n>> \in R
  BY DEF OpToRel
<1> HIDE DEF R
<1> SUFFICES ASSUME Missing # {} PROVE FALSE
  OBVIOUS
<1>3. PICK n \in Missing : \A m \in Missing : ~(<<m, n>> \in R)
  BY <1>1, WFMin
<1>4. n \in Nat /\ n # 0 /\ n \notin T
  BY <1>3
<1>5. n - 1 \in Nat /\ n - 1 < n
  BY <1>4
<1>6. n - 1 \in T
  BY <1>2, <1>3, <1>4, <1>5
<1>7. (n - 1) + 1 \in T
  BY <1>5, <1>6
<1> QED BY <1>4, <1>7

\* One unit for each point of each member.
Units(w, S) == UNION {{x} \X (1..w[x]) : x \in S}

LEMMA UnitsFinite ==
  ASSUME NEW S, IsFiniteSet(S), NEW w, \A x \in S : w[x] \in Nat
  PROVE  IsFiniteSet(Units(w, S))
<1> DEFINE g == [x \in S |-> {x} \X (1..w[x])]
           G == {{x} \X (1..w[x]) : x \in S}
<1>1. g \in Surjection(S, G)
  BY DEF Surjection
<1>2. IsFiniteSet(G)
  BY <1>1, FS_Surjection
<1>3. ASSUME NEW x \in S PROVE IsFiniteSet({x} \X (1..w[x]))
  <2>1. IsFiniteSet({x})
    BY FS_Singleton
  <2>2. w[x] \in Int /\ 1 \in Int
    OBVIOUS
  <2>3. IsFiniteSet(1..w[x])
    BY <2>2, FS_Interval
  <2> HIDE DEF G, g
  <2> QED BY <2>1, <2>3, FS_Product
<1>4. \A T \in G : IsFiniteSet(T)
  BY <1>3
<1> HIDE DEF G
<1>5. IsFiniteSet(UNION G)
  BY <1>2, <1>4, FS_UNION
<1> QED BY <1>5 DEF G, Units

LEMMA UnitsOfOne ==
  ASSUME NEW S, IsFiniteSet(S), NEW w, \A x \in S : w[x] \in Nat, NEW x \in S
  PROVE  Cardinality(Units(w, S)) = w[x] + Cardinality(Units(w, S \ {x}))
<1> DEFINE A == {x} \X (1..w[x])
           B == Units(w, S \ {x})
<1>1. Units(w, S) = A \cup B /\ A \cap B = {}
  BY DEF Units
<1>2. IsFiniteSet(S \ {x}) /\ IsFiniteSet({x}) /\ IsFiniteSet(1..w[x])
  <2>1. IsFiniteSet(S \ {x})
    BY FS_RemoveElement
  <2>2. IsFiniteSet({x})
    BY FS_Singleton
  <2>3. w[x] \in Int /\ 1 \in Int
    OBVIOUS
  <2>4. IsFiniteSet(1..w[x])
    BY <2>3, FS_Interval
  <2> QED BY <2>1, <2>2, <2>4
<1>3. IsFiniteSet(B)
  BY <1>2, UnitsFinite
<1>4. Cardinality({x}) = 1 /\ Cardinality(1..w[x]) = w[x]
  <2>1. w[x] \in Nat
    OBVIOUS
  <2>2. Cardinality(1..w[x]) = IF 1 > w[x] THEN 0 ELSE w[x] - 1 + 1
    BY <2>1, FS_Interval
  <2>3. Cardinality(1..w[x]) = w[x]
    BY <2>1, <2>2
  <2> QED BY <2>3, FS_Singleton
<1>5. IsFiniteSet(A) /\ Cardinality(A) = w[x]
  <2>1. IsFiniteSet(A) /\ Cardinality(A) = Cardinality({x}) * Cardinality(1..w[x])
    BY <1>2, FS_Product
  <2> QED BY <1>4, <2>1
<1> HIDE DEF A, B
<1>6. Cardinality(A \cup B) = Cardinality(A) + Cardinality(B) - Cardinality(A \cap B)
  BY <1>3, <1>5, FS_Union
<1>7. Cardinality(A) \in Nat /\ Cardinality(B) \in Nat /\ Cardinality(A \cap B) = 0
  BY <1>1, <1>3, <1>5, FS_CardinalityType, FS_EmptySet
<1>8. Cardinality(Units(w, S)) = w[x] + Cardinality(B)
  BY <1>1, <1>5, <1>6, <1>7
<1> QED BY <1>8 DEF B

LEMMA UnitsOfNone ==
  ASSUME NEW w
  PROVE  Cardinality(Units(w, {})) = 0
<1>1. Units(w, {}) = {}
  BY DEF Units
<1> QED BY <1>1, FS_EmptySet

\* The member the fold of a set takes next.
Chosen(s) == CHOOSE x \in s : TRUE

\* What the fold of a sum has to satisfy.
Folds(w, S, it) ==
  it = [s \in SUBSET S |-> IF s = {} THEN 0 ELSE w[Chosen(s)] + it[s \ {Chosen(s)}]]

\* Folding a sum counts the units.
LEMMA SumCounts ==
  ASSUME NEW S, IsFiniteSet(S), NEW w, \A x \in S : w[x] \in Nat
  PROVE  SumFunctionOnSet(w, S) = Cardinality(Units(w, S))
<1> DEFINE iter == CHOOSE it : Folds(w, S, it)
           count == [s \in SUBSET S |-> Cardinality(Units(w, s))]
           T == {n \in Nat : \A s \in SUBSET S : Cardinality(s) = n => iter[s] = count[s]}
<1>1. SumFunctionOnSet(w, S) = iter[S]
  BY DEF SumFunctionOnSet, FoldFunctionOnSet, MapThenFoldSet, Folds, Chosen
<1>2. ASSUME NEW s \in SUBSET S, s # {}
      PROVE  /\ Chosen(s) \in s /\ s \ {Chosen(s)} \in SUBSET S
             /\ count[s] = w[Chosen(s)] + count[s \ {Chosen(s)}]
  <2>1. Chosen(s) \in s
    BY <1>2 DEF Chosen
  <2>2. IsFiniteSet(s) /\ \A x \in s : w[x] \in Nat
    BY FS_Subset
  <2>3. Cardinality(Units(w, s)) = w[Chosen(s)] + Cardinality(Units(w, s \ {Chosen(s)}))
    BY <2>1, <2>2, UnitsOfOne
  <2>4. s \ {Chosen(s)} \in SUBSET S
    OBVIOUS
  <2> QED BY <2>1, <2>3, <2>4
<1>3. count[{}] = 0
  <2>1. {} \in SUBSET S
    OBVIOUS
  <2> QED BY <2>1, UnitsOfNone
<1>4. Folds(w, S, count)
  <2>1. \A s \in SUBSET S :
          count[s] = IF s = {} THEN 0 ELSE w[Chosen(s)] + count[s \ {Chosen(s)}]
    BY <1>2, <1>3
  <2>2. count = [s \in SUBSET S |-> count[s]]
    OBVIOUS
  <2> HIDE DEF count
  <2> QED BY <2>1, <2>2 DEF Folds
<1>5. Folds(w, S, iter)
  BY <1>4
<1> HIDE DEF iter, count
<1>6. \A s \in SUBSET S :
        iter[s] = IF s = {} THEN 0 ELSE w[Chosen(s)] + iter[s \ {Chosen(s)}]
  BY <1>5 DEF Folds
<1>7. 0 \in T
  <2>1. ASSUME NEW s \in SUBSET S, Cardinality(s) = 0 PROVE iter[s] = count[s]
    <3>1. s = {}
      BY <2>1, FS_Subset, FS_EmptySet
    <3> QED BY <1>3, <1>6, <3>1
  <2> QED BY <2>1
<1>8. ASSUME NEW n \in Nat, n \in T PROVE n + 1 \in T
  <2>2. \A s \in SUBSET S : Cardinality(s) = n => iter[s] = count[s]
    BY <1>8
  <2> HIDE DEF T
  <2>1. ASSUME NEW s \in SUBSET S, Cardinality(s) = n + 1 PROVE iter[s] = count[s]
    <3>1. IsFiniteSet(s)
      BY FS_Subset
    <3>2. s # {}
      BY <2>1, FS_EmptySet
    <3>3. Chosen(s) \in s /\ s \ {Chosen(s)} \in SUBSET S
      BY <1>2, <3>2
    <3>4. Cardinality(s \ {Chosen(s)}) =
            IF Chosen(s) \in s THEN Cardinality(s) - 1 ELSE Cardinality(s)
      BY <3>1, FS_RemoveElement
    <3>5. Cardinality(s \ {Chosen(s)}) = n
      BY <2>1, <3>3, <3>4
    <3>6. iter[s \ {Chosen(s)}] = count[s \ {Chosen(s)}]
      BY <2>2, <3>3, <3>5
    <3>7. iter[s] = w[Chosen(s)] + iter[s \ {Chosen(s)}]
      BY <1>6, <3>2
    <3>8. count[s] = w[Chosen(s)] + count[s \ {Chosen(s)}]
      BY <1>2, <3>2
    <3> QED BY <3>6, <3>7, <3>8
  <2> QED BY <2>1 DEF T
<1>9. S \in SUBSET S /\ Cardinality(S) \in Nat
  BY FS_CardinalityType
<1> HIDE DEF T
<1>10. \A n \in Nat : n \in T => n + 1 \in T
  BY <1>8
<1>11. Cardinality(S) \in T
  BY <1>7, <1>9, <1>10, Counting
<1>12. iter[S] = count[S]
  BY <1>9, <1>11 DEF T
<1> QED BY <1>1, <1>9, <1>12 DEF count

LEMMA SumType ==
  ASSUME NEW S, IsFiniteSet(S), NEW w, \A x \in S : w[x] \in Nat
  PROVE  SumFunctionOnSet(w, S) \in Nat
BY SumCounts, UnitsFinite, FS_CardinalityType

LEMMA SumOfNone ==
  ASSUME NEW w
  PROVE  SumFunctionOnSet(w, {}) = 0
<1>1. IsFiniteSet({}) /\ \A x \in {} : w[x] \in Nat
  BY FS_EmptySet
<1> QED BY <1>1, SumCounts, UnitsOfNone

LEMMA SumOfMore ==
  ASSUME NEW S, IsFiniteSet(S), NEW w, NEW x, x \notin S, \A y \in S \cup {x} : w[y] \in Nat
  PROVE  SumFunctionOnSet(w, S \cup {x}) = SumFunctionOnSet(w, S) + w[x]
<1> DEFINE X == S \cup {x}
<1>1. IsFiniteSet(X) /\ x \in X /\ X \ {x} = S
  BY FS_AddElement
<1>2. (\A y \in X : w[y] \in Nat) /\ (\A y \in S : w[y] \in Nat) /\ w[x] \in Nat
  OBVIOUS
<1> HIDE DEF X
<1>3. Cardinality(Units(w, X)) = w[x] + Cardinality(Units(w, X \ {x}))
  BY <1>1, <1>2, UnitsOfOne
<1>4. SumFunctionOnSet(w, X) = Cardinality(Units(w, X))
  BY <1>1, <1>2, SumCounts
<1>5. SumFunctionOnSet(w, S) = Cardinality(Units(w, S)) /\ SumFunctionOnSet(w, S) \in Nat
  BY <1>2, SumCounts, SumType
<1> QED BY <1>1, <1>2, <1>3, <1>4, <1>5 DEF X

\* A sum over fewer, of no larger numbers, is no larger.
LEMMA SumMonotone ==
  ASSUME NEW S, IsFiniteSet(S), NEW T \in SUBSET S, NEW v, NEW w,
         \A x \in S : w[x] \in Nat, \A x \in T : v[x] \in Nat /\ v[x] <= w[x]
  PROVE  SumFunctionOnSet(v, T) <= SumFunctionOnSet(w, S)
<1>1. IsFiniteSet(T)
  BY FS_Subset
<1>2. Units(v, T) \subseteq Units(w, S)
  <2> SUFFICES ASSUME NEW x \in T, NEW u \in {x} \X (1..v[x])
               PROVE  u \in {x} \X (1..w[x])
    BY DEF Units
  <2>1. v[x] \in Nat /\ w[x] \in Nat /\ v[x] <= w[x]
    OBVIOUS
  <2>2. \A i \in 1..v[x] : i \in 1..w[x]
    BY <2>1
  <2> QED BY <2>2
<1>3. IsFiniteSet(Units(w, S))
  BY UnitsFinite
<1>4. Cardinality(Units(v, T)) <= Cardinality(Units(w, S))
  BY <1>2, <1>3, FS_Subset
<1>5. SumFunctionOnSet(v, T) = Cardinality(Units(v, T))
  BY <1>1, SumCounts
<1>6. SumFunctionOnSet(w, S) = Cardinality(Units(w, S))
  BY SumCounts
<1> QED BY <1>4, <1>5, <1>6

-----------------------------------------------------------------------------
(* Arithmetic.                                                             *)

LEMMA MaxOfTwo ==
  ASSUME NEW a \in Int, NEW b \in Int
  PROVE  Max({a, b}) = IF a >= b THEN a ELSE b
BY DEF Max

LEMMA MinOfTwo ==
  ASSUME NEW a \in Int, NEW b \in Int
  PROVE  Min({a, b}) = IF a =< b THEN a ELSE b
BY DEF Min

\* One number more on a sequence.
LEMMA SumAppend ==
  ASSUME NEW s \in Seq(Nat), NEW n \in Nat
  PROVE  /\ SumFunction(Append(s, n)) = SumFunction(s) + n
         /\ SumFunction(s) \in Nat
<1> DEFINE t == Append(s, n)
           k == Len(s) + 1
<1>1. /\ Len(s) \in Nat /\ DOMAIN s = 1..Len(s) /\ t \in Seq(Nat) /\ DOMAIN t = 1..k
      /\ t[k] = n /\ (\A i \in 1..Len(s) : t[i] = s[i] /\ s[i] \in Nat)
  <2>1. Len(s) \in Nat /\ DOMAIN s = 1..Len(s)
    BY LenProperties
  <2>2. t \in Seq(Nat) /\ Len(t) = k /\ t[k] = n /\ \A i \in 1..Len(s) : t[i] = s[i]
    BY AppendProperties
  <2>3. DOMAIN t = 1..k
    BY <2>2, LenProperties
  <2>4. \A i \in 1..Len(s) : s[i] \in Nat
    BY ElementOfSeq
  <2> QED BY <2>1, <2>2, <2>3, <2>4
<1>2. 1..k = 1..Len(s) \cup {k} /\ k \notin 1..Len(s)
  BY <1>1
<1>3. IsFiniteSet(1..Len(s))
  <2>1. 1 \in Int /\ Len(s) \in Int
    BY <1>1
  <2> QED BY <2>1, FS_Interval
<1> HIDE DEF t, k
<1>4. \A y \in 1..Len(s) \cup {k} : t[y] \in Nat
  BY <1>1
<1>5. SumFunctionOnSet(t, 1..Len(s) \cup {k}) = SumFunctionOnSet(t, 1..Len(s)) + t[k]
  BY <1>2, <1>3, <1>4, SumOfMore
<1>6. SumFunctionOnSet(t, 1..Len(s)) = SumFunctionOnSet(s, 1..Len(s))
  <2> DEFINE D == 1..Len(s)
  <2>1. \A i \in D : t[i] \in Nat /\ s[i] \in Nat /\ t[i] <= s[i] /\ s[i] <= t[i]
    BY <1>1
  <2>2. IsFiniteSet(D) /\ D \in SUBSET D
    BY <1>3
  <2> HIDE DEF D
  <2>3. SumFunctionOnSet(t, D) <= SumFunctionOnSet(s, D)
    BY <2>1, <2>2, SumMonotone
  <2>4. SumFunctionOnSet(s, D) <= SumFunctionOnSet(t, D)
    BY <2>1, <2>2, SumMonotone
  <2>5. SumFunctionOnSet(s, D) \in Nat /\ SumFunctionOnSet(t, D) \in Nat
    BY <2>1, <2>2, SumType
  <2>6. SumFunctionOnSet(t, D) = SumFunctionOnSet(s, D)
    BY <2>3, <2>4, <2>5
  <2> QED BY <2>6 DEF D
<1>7. SumFunction(s) = SumFunctionOnSet(s, 1..Len(s))
  BY <1>1 DEF SumFunction
<1>8. SumFunction(t) = SumFunctionOnSet(t, 1..Len(s) \cup {k})
  BY <1>1, <1>2 DEF SumFunction
<1>9. SumFunctionOnSet(s, 1..Len(s)) \in Nat
  BY <1>1, <1>3, SumType
<1> QED BY <1>1, <1>5, <1>6, <1>7, <1>8, <1>9 DEF t

LEMMA RoundNat ==
  ASSUME NEW a \in Nat, NEW b \in Nat \ {0}
  PROVE  Round(a, b) \in Nat /\ (a = 0 => Round(a, b) = 0)
<1>1. a \div b \in Nat /\ a % b \in Nat
  OBVIOUS
<1>2. a = 0 => a \div b = 0 /\ a % b = 0
  OBVIOUS
<1> QED BY <1>1, <1>2 DEF Round

-----------------------------------------------------------------------------
(* The weights and the signals of a finding.                               *)

\* What the rows of a finding, its advisory and its target may say.
SignalType ==
  [severity : Severities, criticality : Criticalities, kev : BOOLEAN,
   epss : {"none", "low", "notable"}, vector : Vectors \cup {NoVector},
   scope : {"unknown", "runtime", "development"}, label : {"none"} \cup {p[1] : p \in Postures},
   env : {"none"} \cup {p[2] : p \in Postures}, fix : {"unknown", "fixable", "no_known_fix"}]

\* Any number may be stored as a weight, of whatever the API names.
KnownSignals ==
  /\ signals \in SignalType
  /\ \A s \in DOMAIN weightRows : weightRows[s] \in Int

LEMMA KnownInit == ScoreInit => KnownSignals
<1> SUFFICES ASSUME ScoreInit PROVE KnownSignals
  OBVIOUS
<1>1. signals \in SignalType
  BY DEF ScoreInit, SignalType
<1>2. DOMAIN weightRows = {}
  BY DEF ScoreInit
<1> QED BY <1>1, <1>2 DEF KnownSignals

LEMMA KnownNext == KnownSignals /\ [ScoreNext]_scoreVars => KnownSignals'
<1> SUFFICES ASSUME KnownSignals, [ScoreNext]_scoreVars PROVE KnownSignals'
  OBVIOUS
<1> USE DEF KnownSignals
<1>1. ASSUME NEW e \in {"low", "notable"}, Learn("epss", e) PROVE KnownSignals'
  BY <1>1 DEF Learn, SignalType
<1>2. ASSUME NEW v \in Vectors, Learn("vector", v) PROVE KnownSignals'
  BY <1>2 DEF Learn, SignalType
<1>3. ASSUME NEW s \in {"runtime", "development"}, Learn("scope", s) PROVE KnownSignals'
  BY <1>3 DEF Learn, SignalType
<1>4. ASSUME NEW x \in {"fixable", "no_known_fix"}, Learn("fix", x) PROVE KnownSignals'
  BY <1>4 DEF Learn, SignalType
<1>5. CASE ListKev
  BY <1>5 DEF ListKev, SignalType
<1>6. ASSUME NEW p \in Postures, EditTarget(p[1], p[2]) PROVE KnownSignals'
  BY <1>6 DEF EditTarget, SignalType
<1>7. ASSUME NEW s \in Signal, NEW h \in Int,
             weightRows' = [x \in DOMAIN weightRows \cup {s} |->
                              IF x = s THEN h ELSE weightRows[x]],
             UNCHANGED signals
      PROVE  KnownSignals'
  BY <1>7
<1>8. ASSUME NEW s \in Signal, NEW h \in PutWeights \cup {-2}, SetScoringWeight(s, h)
      PROVE  KnownSignals'
  <2>1. h \in Int
    BY ScoreAssumption
  <2> QED BY <1>7, <1>8, <2>1 DEF SetScoringWeight
<1>9. ASSUME NEW s \in Signal, NEW h \in {Garbage, -2, MAX_WEIGHT + 20}, StoreWeight(s, h)
      PROVE  KnownSignals'
  <2>1. h \in Int
    BY DEF Garbage, MAX_WEIGHT
  <2> QED BY <1>7, <1>9, <2>1 DEF StoreWeight
<1>10. ASSUME NEW s \in Signal, DeleteScoringWeight(s) PROVE KnownSignals'
  BY <1>10 DEF DeleteScoringWeight
<1>11. CASE UNCHANGED scoreVars
  BY <1>11 DEF scoreVars
<1> QED BY <1>1, <1>2, <1>3, <1>4, <1>5, <1>6, <1>8, <1>9, <1>10, <1>11 DEF ScoreNext

LEMMA KnownInvariant == ScoreSpec => []KnownSignals
<1> QED BY KnownInit, KnownNext, PTL DEF ScoreSpec

Weights == [Signal -> 0..MAX_WEIGHT]

\* resolve_weights answers with weights in range, whatever is stored.
LEMMA WeightsInRange ==
  ASSUME NEW stored, \A s \in DOMAIN stored : stored[s] \in Int
  PROVE  ResolveWeights(stored) \in Weights
<1>1. \A s \in Signal : BASELINE_WEIGHTS[s] \in 0..MAX_WEIGHT
  BY DEF Signal, BASELINE_WEIGHTS, MAX_WEIGHT
<1>2. ASSUME NEW n \in Int PROVE Min({MAX_WEIGHT, Max({0, n})}) \in 0..MAX_WEIGHT
  <2>1. PICK m : m = Max({0, n})
    OBVIOUS
  <2>2. m \in Nat
    BY <2>1, MaxOfTwo
  <2>3. Min({MAX_WEIGHT, m}) \in 0..MAX_WEIGHT
    BY <2>2, MinOfTwo DEF MAX_WEIGHT
  <2> QED BY <2>1, <2>3
<1> QED BY <1>1, <1>2 DEF ResolveWeights, Weights

\* A workspace without rows has the weights of before.
LEMMA WeightsOfNone == ResolveWeights(<<>>) = BASELINE_WEIGHTS
<1>1. DOMAIN <<>> = {}
  OBVIOUS
<1>2. ResolveWeights(<<>>) = [s \in Signal |-> BASELINE_WEIGHTS[s]]
  BY <1>1 DEF ResolveWeights
<1>3. BASELINE_WEIGHTS = [s \in Signal |-> BASELINE_WEIGHTS[s]]
  BY DEF BASELINE_WEIGHTS, Signal
<1> QED BY <1>2, <1>3

LEMMA WeightFields ==
  ASSUME NEW w \in Weights
  PROVE  /\ w.severity \in 0..20 /\ w.criticality \in 0..20 /\ w.kev \in 0..20 /\ w.epss \in 0..20
         /\ w.cvss \in 0..20 /\ w.exposure \in 0..20 /\ w.fixability \in 0..20 /\ w.scope \in 0..20
BY DEF Weights, Signal, BASELINE_WEIGHTS, MAX_WEIGHT

\* The CVSS signal offers a natural number, and nothing when it has no weight.
LEMMA CvssNat ==
  ASSUME NEW v, Comparable(v), NEW h \in Nat
  PROVE  CvssPoints(v, h) \in Nat /\ (h = 0 => CvssPoints(v, h) = 0)
<1> DEFINE D == Decoded(v)
           g == [m \in D |-> Exploitable[m][v[m]]]
           sum == SumFunction(g)
           n == Cardinality(D)
<1>1. D \subseteq {"AV", "AC", "PR", "UI"} /\ D # {}
  BY DEF Comparable, Decoded, Exploitable
<1>2. IsFiniteSet({"AV", "AC", "PR", "UI"})
  <2>1. IsFiniteSet({"AV"})
    BY FS_Singleton
  <2>2. IsFiniteSet({"AV"} \cup {"AC"})
    BY <2>1, FS_AddElement
  <2>3. IsFiniteSet(({"AV"} \cup {"AC"}) \cup {"PR"})
    BY <2>2, FS_AddElement
  <2>4. IsFiniteSet((({"AV"} \cup {"AC"}) \cup {"PR"}) \cup {"UI"})
    BY <2>3, FS_AddElement
  <2>5. (({"AV"} \cup {"AC"}) \cup {"PR"}) \cup {"UI"} = {"AV", "AC", "PR", "UI"}
    OBVIOUS
  <2> QED BY <2>4, <2>5
<1>3. IsFiniteSet(D)
  BY <1>1, <1>2, FS_Subset
<1>4. ASSUME NEW m \in D PROVE Exploitable[m][v[m]] \in Nat
  <2>1. v[m] \in DOMAIN Exploitable[m]
    BY DEF Decoded
  <2>2. CASE m = "AV"
    BY <2>1, <2>2 DEF Exploitable
  <2>3. CASE m = "AC"
    BY <2>1, <2>3 DEF Exploitable
  <2>4. CASE m = "PR"
    BY <2>1, <2>4 DEF Exploitable
  <2>5. CASE m = "UI"
    BY <2>1, <2>5 DEF Exploitable
  <2> HIDE DEF D
  <2> QED BY <1>1, <2>2, <2>3, <2>4, <2>5
<1>5. sum \in Nat
  <2>1. DOMAIN g = D /\ \A m \in D : g[m] \in Nat
    BY <1>4
  <2> HIDE DEF g, D
  <2> QED BY <1>3, <2>1, SumType DEF SumFunction
<1>6. n \in Nat \ {0}
  BY <1>1, <1>3, FS_CardinalityType, FS_EmptySet
<1>7. CvssPoints(v, h) = Round(CVSS_EXPLOITABILITY_MAX_POINTS * h * sum, 200 * n)
  BY DEF CvssPoints
<1> HIDE DEF sum, n
<1>8. PICK a : a = CVSS_EXPLOITABILITY_MAX_POINTS * h * sum
  OBVIOUS
<1>9. a \in Nat /\ (h = 0 => a = 0)
  BY <1>5, <1>8 DEF CVSS_EXPLOITABILITY_MAX_POINTS
<1>10. 200 * n \in Nat \ {0}
  BY <1>6
<1> QED BY <1>7, <1>8, <1>9, <1>10, RoundNat

-----------------------------------------------------------------------------
(* The steps of a breakdown.                                               *)

\* What each signal offers to add.
EpssOffer(f, w) == IF ~f.kev /\ f.epss = "notable" THEN (EPSS_BUMP * w.epss) \div 2 ELSE 0
CvssOffer(f, w) == IF Comparable(f.vector) THEN CvssPoints(f.vector, w.cvss) ELSE 0
ScopeOffer(f, w) == IF f.scope = "runtime" THEN (DEPENDENCY_SCOPE_POINTS * w.scope) \div 2 ELSE 0
ExposureOffer(f, w) ==
  (INTERNET_EXPOSURE_MAX_POINTS * w.exposure * Exposure(f.label, f.env).factor) \div 4
FixOffer(f, w) == IF f.fix = "fixable" THEN (FIXABILITY_POINTS * w.fixability) \div 2 ELSE 0

LEMMA ExposureFactor ==
  ASSUME NEW label, NEW env
  PROVE  Exposure(label, env).factor \in 0..2
<1>1. CASE label = "public"
  BY <1>1 DEF Exposure
<1>2. CASE label = "private"
  BY <1>2 DEF Exposure
<1>3. CASE label \notin {"public", "private"} /\ (label = "production" \/ env = "production")
  BY <1>3 DEF Exposure
<1>4. CASE label \notin {"public", "private"} /\ ~(label = "production" \/ env = "production")
  BY <1>4 DEF Exposure
<1> QED BY <1>1, <1>2, <1>3, <1>4

LEMMA OffersNat ==
  ASSUME NEW f, NEW w \in Weights
  PROVE  /\ EpssOffer(f, w) \in Nat /\ CvssOffer(f, w) \in Nat /\ ScopeOffer(f, w) \in Nat
         /\ ExposureOffer(f, w) \in Nat /\ FixOffer(f, w) \in Nat
<1>1. \A h \in 0..20 : (EPSS_BUMP * h) \div 2 \in Nat
  BY DEF EPSS_BUMP
<1>2. EpssOffer(f, w) \in Nat
  BY <1>1, WeightFields DEF EpssOffer
<1>3. w.cvss \in Nat
  BY WeightFields
<1>4. CvssOffer(f, w) \in Nat
  BY <1>3, CvssNat DEF CvssOffer
<1>5. \A h \in 0..20 : (DEPENDENCY_SCOPE_POINTS * h) \div 2 \in Nat
  BY DEF DEPENDENCY_SCOPE_POINTS
<1>6. ScopeOffer(f, w) \in Nat
  BY <1>5, WeightFields DEF ScopeOffer
<1>7. \A h \in 0..20, k \in 0..2 : (INTERNET_EXPOSURE_MAX_POINTS * h * k) \div 4 \in Nat
  <2> TAKE h \in 0..20, k \in 0..2
  <2>1. k = 0 \/ k = 1 \/ k = 2
    OBVIOUS
  <2> QED BY <2>1 DEF INTERNET_EXPOSURE_MAX_POINTS
<1>8. ExposureOffer(f, w) \in Nat
  BY <1>7, WeightFields, ExposureFactor DEF ExposureOffer
<1>9. \A h \in 0..20 : (FIXABILITY_POINTS * h) \div 2 \in Nat
  BY DEF FIXABILITY_POINTS
<1>10. FixOffer(f, w) \in Nat
  BY <1>9, WeightFields DEF FixOffer
<1> QED BY <1>2, <1>4, <1>6, <1>8, <1>10

\* The fields of a breakdown so far.
Account == [score : BASE_UNIT..MAX_SCORE, capped : BOOLEAN, points : Seq(Nat)]

\* The points s and the unit make up the score a, unless the base product p
\* alone is above the maximum.
Adds(a, s, p) ==
  /\ a \in BASE_UNIT..MAX_SCORE /\ s \in Seq(Nat) /\ Len(s) >= 2
  /\ BASE_UNIT + s[1] + s[2] = p
  /\ BASE_UNIT + SumFunction(s) = IF a >= p THEN a ELSE p
  /\ p > MAX_SCORE => a = MAX_SCORE
  /\ p <= MAX_SCORE => a >= p

\* A breakdown so far explains its score, and says when the product was cut off.
Explains(at, p) ==
  /\ at \in Account
  /\ Adds(at.score, at.points, p)
  /\ p > MAX_SCORE => at.capped

\* The criticality that counts.
Clamped(n) == Max({1, Min({5, n})})

LEMMA ClampedRange ==
  ASSUME NEW n \in Int
  PROVE  Clamped(n) \in 1..5
<1>1. PICK m : m = Min({5, n})
  OBVIOUS
<1>2. m \in Int /\ m <= 5
  BY <1>1, MinOfTwo
<1>3. Max({1, m}) \in 1..5
  BY <1>2, MaxOfTwo
<1> QED BY <1>1, <1>3 DEF Clamped

\* The base product in its four parts.
Product(f, w) ==
  LET x == (f.severity - 1) * w.severity
      y == (Clamped(f.criticality) - 1) * w.criticality
  IN  40 + 20 * x + 20 * y + 10 * (x * y)

LEMMA TwoPoints ==
  ASSUME NEW a \in Nat, NEW b \in Nat
  PROVE  SumFunction(<<a, b>>) = a + b
<1>1. PICK s : s = <<a, b>>
  OBVIOUS
<1>2. s[1] = a /\ s[2] = b
  BY <1>1
<1>3. DOMAIN s = ({} \cup {1}) \cup {2}
  BY <1>1
<1>4. IsFiniteSet({}) /\ IsFiniteSet({} \cup {1})
  BY FS_EmptySet, FS_AddElement
<1>5. /\ 1 \notin {} /\ (\A y \in {} \cup {1} : s[y] \in Nat)
      /\ 2 \notin {} \cup {1} /\ (\A y \in ({} \cup {1}) \cup {2} : s[y] \in Nat)
  BY <1>2
<1>6. SumFunctionOnSet(s, {} \cup {1}) = SumFunctionOnSet(s, {}) + s[1]
  BY <1>4, <1>5, SumOfMore
<1>7. SumFunctionOnSet(s, ({} \cup {1}) \cup {2}) = SumFunctionOnSet(s, {} \cup {1}) + s[2]
  BY <1>4, <1>5, SumOfMore
<1>8. SumFunctionOnSet(s, {}) = 0
  BY SumOfNone
<1>9. SumFunction(s) = SumFunctionOnSet(s, ({} \cup {1}) \cup {2})
  BY <1>3 DEF SumFunction
<1>10. SumFunctionOnSet(s, {} \cup {1}) = a
  BY <1>2, <1>6, <1>8
<1>11. SumFunction(s) = a + b
  BY <1>2, <1>7, <1>9, <1>10
<1> QED BY <1>1, <1>11

LEMMA BaseExplains ==
  ASSUME NEW f, f.severity \in 1..5, f.criticality \in Int, NEW w \in Weights
  PROVE  /\ Product(f, w) \in Nat /\ Product(f, w) >= BASE_UNIT
         /\ Explains(BaseProduct(f, w), Product(f, w))
         /\ BaseProduct(f, w).score = IF Product(f, w) <= MAX_SCORE THEN Product(f, w) ELSE MAX_SCORE
<1> DEFINE c == Clamped(f.criticality)
           sev  == BASE_UNIT * (2 + (f.severity - 1) * w.severity)
           both == sev * (2 + (c - 1) * w.criticality)
           at == BaseProduct(f, w)
<1>1. w.severity \in Nat /\ w.criticality \in Nat /\ c \in 1..5
  BY WeightFields, ClampedRange
<1>2. at = [score |-> Min({MAX_SCORE, both \div 4}), capped |-> both \div 4 > MAX_SCORE,
            points |-> <<sev \div 2 - BASE_UNIT, both \div 4 - sev \div 2>>]
  BY DEF BaseProduct, Clamped
<1> HIDE DEF c, at
<1>3. PICK x \in Nat : x = (f.severity - 1) * w.severity
  BY <1>1
<1>4. PICK y \in Nat : y = (c - 1) * w.criticality
  BY <1>1
<1>5. PICK z \in Nat : z = x * y
  OBVIOUS
<1>6. sev = 80 + 40 * x
  BY <1>3 DEF BASE_UNIT
<1>7. both = 160 + 80 * x + 80 * y + 40 * z
  <2>1. both = (80 + 40 * x) * (2 + y)
    BY <1>4, <1>6
  <2> QED BY <1>5, <2>1
<1>8. Product(f, w) = 40 + 20 * x + 20 * y + 10 * z
  BY <1>3, <1>4, <1>5 DEF Product, c
<1> HIDE DEF sev, both
<1>9. PICK p : p = Product(f, w)
  OBVIOUS
<1>10. p \in Nat /\ p >= 40 /\ both \div 4 = p /\ sev \div 2 = 40 + 20 * x /\ p >= 40 + 20 * x
  BY <1>6, <1>7, <1>8, <1>9
<1>11. PICK a \in Nat : a = sev \div 2 - BASE_UNIT
  BY <1>10 DEF BASE_UNIT
<1>12. PICK b \in Nat : b = both \div 4 - sev \div 2
  BY <1>10
<1>13. at = [score |-> Min({MAX_SCORE, p}), capped |-> p > MAX_SCORE, points |-> <<a, b>>]
  BY <1>2, <1>10, <1>11, <1>12
<1>14. Min({MAX_SCORE, p}) = IF MAX_SCORE <= p THEN MAX_SCORE ELSE p
  BY <1>10, MinOfTwo DEF MAX_SCORE
<1>15. at.score = IF p <= MAX_SCORE THEN p ELSE MAX_SCORE
  BY <1>10, <1>13, <1>14 DEF MAX_SCORE
<1>16. at.capped \in BOOLEAN /\ at.capped = (p > MAX_SCORE)
  <2>1. at.capped = (p > MAX_SCORE)
    BY <1>13
  <2>2. (p > MAX_SCORE) \in BOOLEAN
    BY <1>10 DEF MAX_SCORE
  <2> QED BY <2>1, <2>2, Zenon
<1>17. at.points = <<a, b>> /\ at.points \in Seq(Nat) /\ Len(at.points) = 2
       /\ at.points[1] = a /\ at.points[2] = b
  BY <1>13
<1>18. SumFunction(at.points) = a + b /\ 40 + a + b = p
  BY <1>10, <1>11, <1>12, <1>17, TwoPoints DEF BASE_UNIT
<1>19. at.score \in BASE_UNIT..MAX_SCORE
  BY <1>10, <1>15 DEF BASE_UNIT, MAX_SCORE
<1>20. at \in Account
  <2>1. DOMAIN at = {"score", "capped", "points"} /\ at = [score |-> at.score, capped |-> at.capped, points |-> at.points]
    BY <1>13, Zenon
  <2> QED BY <1>16, <1>17, <1>19, <2>1 DEF Account
<1>21. Explains(at, p)
  <2>1. PICK r : r = at.score
    OBVIOUS
  <2>2. Adds(r, <<a, b>>, p)
    BY <1>10, <1>15, <1>17, <1>18, <1>19, <2>1 DEF Adds, BASE_UNIT, MAX_SCORE
  <2>3. Adds(at.score, at.points, p)
    BY <1>17, <2>1, <2>2, Zenon
  <2>4. p > MAX_SCORE => at.capped
    BY <1>16, Zenon
  <2> QED BY <1>20, <2>3, <2>4, Zenon DEF Explains
<1> QED BY <1>9, <1>10, <1>15, <1>21 DEF at, BASE_UNIT

LEMMA AccountExcept ==
  ASSUME NEW at \in Account, NEW r, NEW q, NEW c \in BOOLEAN
  PROVE  /\ [at EXCEPT !.score = r, !.points = q, !.capped = c]
              \in [score : {r}, capped : BOOLEAN, points : {q}]
         /\ [at EXCEPT !.score = r, !.points = q, !.capped = c].capped = c
         /\ [at EXCEPT !.score = r, !.points = q] \in [score : {r}, capped : BOOLEAN, points : {q}]
         /\ [at EXCEPT !.score = r, !.points = q].capped = at.capped
BY DEF Account

\* Adding points: the three fields.
LEMMA AddFields ==
  ASSUME NEW at \in Account, NEW n \in Nat, NEW r, r = Min({MAX_SCORE, at.score + n})
  PROVE  /\ AddPoints(at, n) \in [score : {r}, capped : BOOLEAN,
                                  points : {Append(at.points, r - at.score)}]
         /\ at.capped => AddPoints(at, n).capped
<1>1. PICK q : q = Append(at.points, r - at.score)
  OBVIOUS
<1>2. PICK c \in BOOLEAN : c = (at.capped \/ at.score + n > MAX_SCORE)
  BY Zenon
<1>3. AddPoints(at, n) = [at EXCEPT !.score = r, !.points = q, !.capped = c]
  BY <1>1, <1>2, Zenon DEF AddPoints
<1>4. AddPoints(at, n).capped = c
  <2>1. [at EXCEPT !.score = r, !.points = q, !.capped = c].capped = c
    BY AccountExcept
  <2> QED BY <1>3, <2>1
<1>5. at.capped => AddPoints(at, n).capped
  BY <1>2, <1>4, Zenon
<1>6. AddPoints(at, n) \in [score : {r}, capped : BOOLEAN, points : {q}]
  <2>1. [at EXCEPT !.score = r, !.points = q, !.capped = c]
          \in [score : {r}, capped : BOOLEAN, points : {q}]
    BY AccountExcept
  <2> QED BY <1>3, <2>1, Zenon
<1> QED BY <1>1, <1>5, <1>6, Zenon

\* The score with the floor of a KEV listing.
Floor(w) == Min({MAX_SCORE, (KEV_FLOOR * w.kev) \div 2})
AtLeast(f, w, score) == IF f.kev THEN Max({score, Floor(w)}) ELSE score

\* The floor: the three fields.
LEMMA KevFields ==
  ASSUME NEW f, NEW w, NEW at \in Account, NEW r, r = AtLeast(f, w, at.score)
  PROVE  /\ KevFloor(f, w, at) \in [score : {r}, capped : BOOLEAN,
                                    points : {Append(at.points, r - at.score)}]
         /\ at.capped => KevFloor(f, w, at).capped
<1>1. PICK q : q = Append(at.points, r - at.score)
  OBVIOUS
<1>2. KevFloor(f, w, at) = [at EXCEPT !.score = r, !.points = q]
  BY <1>1, Zenon DEF KevFloor, AtLeast, Floor
<1>3. KevFloor(f, w, at).capped = at.capped
  <2>1. [at EXCEPT !.score = r, !.points = q].capped = at.capped
    BY DEF Account
  <2> QED BY <1>2, <2>1
<1>4. at.capped => KevFloor(f, w, at).capped
  BY <1>3, Zenon
<1>5. KevFloor(f, w, at) \in [score : {r}, capped : BOOLEAN, points : {q}]
  <2>1. [at EXCEPT !.score = r, !.points = q] \in [score : {r}, capped : BOOLEAN, points : {q}]
    BY DEF Account
  <2> QED BY <1>2, <2>1, Zenon
<1> QED BY <1>1, <1>4, <1>5, Zenon

\* A step that raises the score and records by how much keeps it explained.
LEMMA RaiseAdds ==
  ASSUME NEW p \in Nat, NEW a, NEW s, Adds(a, s, p), NEW r \in a..MAX_SCORE
  PROVE  Adds(r, Append(s, r - a), p)
<1>1. a \in 40..1000 /\ s \in Seq(Nat) /\ Len(s) >= 2
  BY DEF Adds, BASE_UNIT, MAX_SCORE
<1>2. r \in 40..1000 /\ a <= r /\ r - a \in Nat
  BY <1>1 DEF MAX_SCORE
<1>3. PICK n \in Nat : n = r - a
  BY <1>2
<1>4. PICK q : q = Append(s, n)
  OBVIOUS
<1>5. SumFunction(q) = SumFunction(s) + n /\ SumFunction(s) \in Nat
  BY <1>1, <1>4, SumAppend
<1>6. q \in Seq(Nat) /\ Len(q) >= 2 /\ q[1] = s[1] /\ q[2] = s[2]
  <2>1. /\ q \in Seq(Nat) /\ Len(q) = Len(s) + 1
        /\ \A i \in 1..Len(s) : q[i] = s[i]
    BY <1>1, <1>4, AppendProperties
  <2>2. Len(s) \in Nat
    BY <1>1, LenProperties
  <2>3. 1 \in 1..Len(s) /\ 2 \in 1..Len(s)
    BY <1>1, <2>2
  <2> QED BY <1>1, <2>1, <2>2, <2>3
<1>7. 40 + s[1] + s[2] = p
  BY DEF Adds, BASE_UNIT
<1>8. (p > 1000 => a = 1000) /\ (p <= 1000 => a >= p)
  BY DEF Adds, MAX_SCORE
<1>9. 40 + SumFunction(s) = IF a >= p THEN a ELSE p
  BY DEF Adds, BASE_UNIT
<1>10. 40 + SumFunction(q) = IF r >= p THEN r ELSE p
  BY <1>1, <1>2, <1>3, <1>5, <1>8, <1>9
<1>11. (p > 1000 => r = 1000) /\ (p <= 1000 => r >= p)
  BY <1>1, <1>2, <1>8
<1>12. 40 + q[1] + q[2] = p
  BY <1>6, <1>7
<1>13. Adds(r, q, p)
  BY <1>2, <1>6, <1>10, <1>11, <1>12 DEF Adds, BASE_UNIT, MAX_SCORE
<1> QED BY <1>3, <1>4, <1>13

\* No more than the maximum.
Raise(score, n) == IF score + n <= MAX_SCORE THEN score + n ELSE MAX_SCORE

LEMMA AddAdds ==
  ASSUME NEW p \in Nat, NEW at \in Account, Adds(at.score, at.points, p), NEW n \in Nat
  PROVE  /\ AddPoints(at, n) \in Account
         /\ Adds(AddPoints(at, n).score, AddPoints(at, n).points, p)
         /\ AddPoints(at, n).score = Raise(at.score, n)
<1>1. PICK a : a = at.score
  OBVIOUS
<1>2. PICK s : s = at.points
  OBVIOUS
<1>3. Adds(a, s, p)
  BY <1>1, <1>2, Zenon
<1>4. a \in BASE_UNIT..MAX_SCORE
  BY <1>3, Zenon DEF Adds
<1>5. PICK r : r = Min({MAX_SCORE, a + n})
  BY Zenon
<1>6. r \in a..MAX_SCORE /\ r = Raise(a, n)
  <2>1. a \in 40..1000
    BY <1>4 DEF BASE_UNIT, MAX_SCORE
  <2>2. Min({1000, a + n}) = IF 1000 <= a + n THEN 1000 ELSE a + n
    BY <2>1, MinOfTwo
  <2> QED BY <1>5, <2>1, <2>2 DEF Raise, MAX_SCORE
<1>7. PICK q : q = Append(s, r - a)
  BY Zenon
<1>8. Adds(r, q, p)
  BY <1>3, <1>6, <1>7, RaiseAdds, Zenon
<1>9. AddPoints(at, n) \in [score : {r}, capped : BOOLEAN, points : {q}]
  BY <1>1, <1>2, <1>5, <1>7, AddFields, Zenon
<1>10. r \in BASE_UNIT..MAX_SCORE /\ q \in Seq(Nat)
  BY <1>8, Zenon DEF Adds
<1>11. /\ AddPoints(at, n).score = r /\ AddPoints(at, n).points = q
       /\ AddPoints(at, n) \in Account
  BY <1>9, <1>10 DEF Account
<1> QED BY <1>1, <1>6, <1>8, <1>11, Zenon

LEMMA AddExplains ==
  ASSUME NEW p \in Nat, NEW at, Explains(at, p), NEW n \in Nat
  PROVE  Explains(AddPoints(at, n), p) /\ AddPoints(at, n).score = Raise(at.score, n)
<1>1. at \in Account /\ Adds(at.score, at.points, p) /\ (p > MAX_SCORE => at.capped)
  BY Zenon DEF Explains
<1>2. /\ AddPoints(at, n) \in Account
      /\ Adds(AddPoints(at, n).score, AddPoints(at, n).points, p)
      /\ AddPoints(at, n).score = Raise(at.score, n)
  BY <1>1, AddAdds, Zenon
<1>3. at.capped => AddPoints(at, n).capped
  BY <1>1, AddFields, Zenon
<1> QED BY <1>1, <1>2, <1>3, Zenon DEF Explains

LEMMA FloorIs ==
  ASSUME NEW w \in Weights
  PROVE  Floor(w) \in 0..MAX_SCORE /\ (w.kev = 2 => Floor(w) = KEV_FLOOR)
<1>1. PICK h \in 0..20 : h = w.kev
  BY WeightFields
<1>2. PICK m \in Nat : m = 450 * h
  OBVIOUS
<1>3. (KEV_FLOOR * w.kev) \div 2 = m
  BY <1>1, <1>2 DEF KEV_FLOOR
<1>4. Floor(w) = Min({MAX_SCORE, m})
  BY <1>3, Zenon DEF Floor
<1>5. Min({MAX_SCORE, m}) = IF 1000 <= m THEN 1000 ELSE m
  BY MinOfTwo DEF MAX_SCORE
<1>6. Floor(w) = IF 1000 <= m THEN 1000 ELSE m
  BY <1>4, <1>5
<1>7. Floor(w) \in 0..1000
  BY <1>6
<1>8. w.kev = 2 => Floor(w) = 900
  BY <1>1, <1>2, <1>6
<1> QED BY <1>7, <1>8 DEF MAX_SCORE, KEV_FLOOR

LEMMA AtLeastIs ==
  ASSUME NEW f, NEW w \in Weights, NEW a \in BASE_UNIT..MAX_SCORE
  PROVE  AtLeast(f, w, a) \in a..MAX_SCORE
<1>1. CASE f.kev
  <2>1. PICK k : k = Floor(w)
    OBVIOUS
  <2>2. k \in 0..MAX_SCORE
    BY <2>1, FloorIs
  <2>3. AtLeast(f, w, a) = Max({a, k})
    BY <1>1, <2>1 DEF AtLeast
  <2>4. a \in 40..1000 /\ k \in 0..1000
    BY <2>2 DEF BASE_UNIT, MAX_SCORE
  <2>5. Max({a, k}) = IF a >= k THEN a ELSE k
    BY <2>4, MaxOfTwo
  <2>6. AtLeast(f, w, a) \in a..1000
    BY <2>3, <2>4, <2>5, SMTT(60)
  <2> QED BY <2>6 DEF MAX_SCORE
<1>2. CASE ~f.kev
  <2>1. AtLeast(f, w, a) = a
    BY <1>2 DEF AtLeast
  <2> QED BY <2>1 DEF BASE_UNIT, MAX_SCORE
<1> QED BY <1>1, <1>2

LEMMA KevAdds ==
  ASSUME NEW f, NEW w \in Weights, NEW p \in Nat,
         NEW at \in Account, Adds(at.score, at.points, p)
  PROVE  /\ KevFloor(f, w, at) \in Account
         /\ Adds(KevFloor(f, w, at).score, KevFloor(f, w, at).points, p)
         /\ KevFloor(f, w, at).score = AtLeast(f, w, at.score)
<1>1. PICK a : a = at.score
  OBVIOUS
<1>2. PICK s : s = at.points
  OBVIOUS
<1>3. Adds(a, s, p)
  BY <1>1, <1>2, Zenon
<1>4. a \in BASE_UNIT..MAX_SCORE
  BY <1>3, Zenon DEF Adds
<1>5. PICK r : r = AtLeast(f, w, a)
  BY Zenon
<1>6. r \in a..MAX_SCORE
  BY <1>4, <1>5, AtLeastIs, Zenon
<1>7. PICK q : q = Append(s, r - a)
  BY Zenon
<1>8. Adds(r, q, p)
  BY <1>3, <1>6, <1>7, RaiseAdds, Zenon
<1>9. KevFloor(f, w, at) \in [score : {r}, capped : BOOLEAN, points : {q}]
  BY <1>1, <1>2, <1>5, <1>7, KevFields, Zenon
<1>10. r \in BASE_UNIT..MAX_SCORE /\ q \in Seq(Nat)
  BY <1>8, Zenon DEF Adds
<1>11. /\ KevFloor(f, w, at).score = r /\ KevFloor(f, w, at).points = q
       /\ KevFloor(f, w, at) \in Account
  BY <1>9, <1>10 DEF Account
<1> QED BY <1>1, <1>5, <1>8, <1>11, Zenon

LEMMA KevExplains ==
  ASSUME NEW f, NEW w \in Weights, NEW p \in Nat, NEW at, Explains(at, p)
  PROVE  Explains(KevFloor(f, w, at), p) /\ KevFloor(f, w, at).score = AtLeast(f, w, at.score)
<1>1. at \in Account /\ Adds(at.score, at.points, p)
  BY Zenon DEF Explains
<1>2. p > MAX_SCORE => at.capped
  BY Zenon DEF Explains
<1>3. /\ KevFloor(f, w, at) \in Account
      /\ Adds(KevFloor(f, w, at).score, KevFloor(f, w, at).points, p)
      /\ KevFloor(f, w, at).score = AtLeast(f, w, at.score)
  BY <1>1, KevAdds
<1>4. at.capped => KevFloor(f, w, at).capped
  BY <1>1, KevFields, Zenon
<1> QED BY <1>2, <1>3, <1>4, Zenon DEF Explains

\* The score after each step.
ScoreChain(f, w) ==
  LET base == IF Product(f, w) <= MAX_SCORE THEN Product(f, w) ELSE MAX_SCORE
      s1 == Raise(AtLeast(f, w, base), EpssOffer(f, w))
      s2 == Raise(s1, CvssOffer(f, w))
      s3 == Raise(s2, ScopeOffer(f, w))
      s4 == Raise(s3, ExposureOffer(f, w))
  IN  Raise(s4, FixOffer(f, w))

\* The whole breakdown explains its score.
LEMMA BreakdownExplains ==
  ASSUME NEW f, f.severity \in 1..5, f.criticality \in Int,
         NEW stored, \A s \in DOMAIN stored : stored[s] \in Int
  PROVE  LET w == ResolveWeights(stored)
         IN  /\ Product(f, w) \in Nat
             /\ Explains(Breakdown(f, stored), Product(f, w))
             /\ Score(f, stored) = ScoreChain(f, w)
<1>1. PICK w \in Weights : w = ResolveWeights(stored)
  BY WeightsInRange
<1>2. PICK p : p = Product(f, w)
  OBVIOUS
<1>3. PICK a0 : a0 = BaseProduct(f, w)
  OBVIOUS
<1>4. /\ p \in Nat /\ Explains(a0, p)
      /\ a0.score = IF Product(f, w) <= MAX_SCORE THEN Product(f, w) ELSE MAX_SCORE
  BY <1>2, <1>3, BaseExplains
<1>5. PICK a1 : a1 = KevFloor(f, w, a0)
  OBVIOUS
<1>6. Explains(a1, p) /\ a1.score = AtLeast(f, w, a0.score)
  BY <1>4, <1>5, KevExplains
<1>7. PICK a2 : a2 = AddPoints(a1, EpssOffer(f, w))
  OBVIOUS
<1>8. Explains(a2, p) /\ a2.score = Raise(a1.score, EpssOffer(f, w))
  BY <1>4, <1>6, <1>7, OffersNat, AddExplains
<1>9. PICK a3 : a3 = AddPoints(a2, CvssOffer(f, w))
  OBVIOUS
<1>10. Explains(a3, p) /\ a3.score = Raise(a2.score, CvssOffer(f, w))
  BY <1>4, <1>8, <1>9, OffersNat, AddExplains
<1>11. PICK a4 : a4 = AddPoints(a3, ScopeOffer(f, w))
  OBVIOUS
<1>12. Explains(a4, p) /\ a4.score = Raise(a3.score, ScopeOffer(f, w))
  BY <1>4, <1>10, <1>11, OffersNat, AddExplains
<1>13. PICK a5 : a5 = AddPoints(a4, ExposureOffer(f, w))
  OBVIOUS
<1>14. Explains(a5, p) /\ a5.score = Raise(a4.score, ExposureOffer(f, w))
  BY <1>4, <1>12, <1>13, OffersNat, AddExplains
<1>15. PICK a6 : a6 = AddPoints(a5, FixOffer(f, w))
  OBVIOUS
<1>16. Explains(a6, p) /\ a6.score = Raise(a5.score, FixOffer(f, w))
  BY <1>4, <1>14, <1>15, OffersNat, AddExplains
<1>17. Breakdown(f, stored) = a6
  BY <1>1, <1>3, <1>5, <1>7, <1>9, <1>11, <1>13, <1>15
     DEF Breakdown, EpssOffer, CvssOffer, ScopeOffer, ExposureOffer, FixOffer
<1>18. a6.score = ScoreChain(f, w)
  BY <1>4, <1>6, <1>8, <1>10, <1>12, <1>14, <1>16 DEF ScoreChain
<1> QED BY <1>1, <1>2, <1>4, <1>16, <1>17, <1>18 DEF Score

LEMMA RaiseNothing ==
  ASSUME NEW a \in BASE_UNIT..MAX_SCORE
  PROVE  Raise(a, 0) = a
BY DEF Raise, BASE_UNIT, MAX_SCORE

\* The score of a workspace without weights of its own.
LEMMA ScoreOfNone ==
  ASSUME NEW f, f.severity \in 1..5, f.criticality \in Int
  PROVE  LET old == Min({MAX_SCORE, BASE_UNIT * f.severity * Clamped(f.criticality)})
         IN  ScoreChain(f, BASELINE_WEIGHTS) =
               IF f.kev THEN Max({old, KEV_FLOOR})
               ELSE IF f.epss = "notable" THEN Min({MAX_SCORE, old + EPSS_BUMP}) ELSE old
<1> DEFINE old == Min({MAX_SCORE, BASE_UNIT * f.severity * Clamped(f.criticality)})
<1>1. PICK w : w = BASELINE_WEIGHTS
  OBVIOUS
<1>2. w \in Weights
  BY <1>1 DEF Weights, BASELINE_WEIGHTS, Signal, MAX_WEIGHT
<1>3. /\ w.severity = 2 /\ w.criticality = 2 /\ w.kev = 2 /\ w.epss = 2
      /\ w.cvss = 0 /\ w.exposure = 0 /\ w.fixability = 0 /\ w.scope = 0
  BY <1>1 DEF BASELINE_WEIGHTS
<1>4. /\ CvssOffer(f, w) = 0 /\ ScopeOffer(f, w) = 0 /\ ExposureOffer(f, w) = 0
      /\ FixOffer(f, w) = 0
  <2>1. CvssOffer(f, w) = 0
    BY <1>3, CvssNat DEF CvssOffer
  <2>2. ScopeOffer(f, w) = 0
    BY <1>3 DEF ScopeOffer, DEPENDENCY_SCOPE_POINTS
  <2>3. PICK k \in 0..2 : k = Exposure(f.label, f.env).factor
    BY ExposureFactor
  <2>4. (INTERNET_EXPOSURE_MAX_POINTS * 0 * k) \div 4 = 0
    BY DEF INTERNET_EXPOSURE_MAX_POINTS
  <2>5. ExposureOffer(f, w) = 0
    BY <1>3, <2>3, <2>4 DEF ExposureOffer
  <2>6. FixOffer(f, w) = 0
    BY <1>3 DEF FixOffer, FIXABILITY_POINTS
  <2> QED BY <2>1, <2>2, <2>5, <2>6
<1>5. PICK s \in 1..5, c \in 1..5 : s = f.severity /\ c = Clamped(f.criticality)
  BY ClampedRange
<1>6. PICK p \in Nat : p = 40 * s * c
  OBVIOUS
<1>7. Product(f, w) = p
  <2>1. Product(f, w) = 40 + 20 * ((s - 1) * 2) + 20 * ((c - 1) * 2) + 10 * (((s - 1) * 2) * ((c - 1) * 2))
    BY <1>3, <1>5 DEF Product
  <2> QED BY <1>6, <2>1
<1>8. BASE_UNIT * f.severity * Clamped(f.criticality) = p
  BY <1>5, <1>6 DEF BASE_UNIT
<1>9. old = IF p <= MAX_SCORE THEN p ELSE MAX_SCORE
  <2>1. old = Min({MAX_SCORE, p})
    BY <1>8, Zenon
  <2>2. Min({MAX_SCORE, p}) = IF MAX_SCORE <= p THEN MAX_SCORE ELSE p
    BY MinOfTwo DEF MAX_SCORE
  <2> QED BY <2>1, <2>2 DEF MAX_SCORE
<1>10. p >= 40
  BY <1>5, <1>6
<1>11. old \in BASE_UNIT..MAX_SCORE
  BY <1>9, <1>10 DEF BASE_UNIT, MAX_SCORE
<1> HIDE DEF old
<1>12. PICK a : a = AtLeast(f, w, old)
  BY Zenon
<1>13. a \in old..MAX_SCORE
  BY <1>2, <1>11, <1>12, AtLeastIs, Zenon
<1>14. a \in BASE_UNIT..MAX_SCORE
  BY <1>11, <1>13 DEF BASE_UNIT, MAX_SCORE
<1>15. PICK e : e = Raise(a, EpssOffer(f, w))
  OBVIOUS
<1>16. EpssOffer(f, w) \in Nat
  BY <1>2, OffersNat
<1>17. e \in BASE_UNIT..MAX_SCORE
  <2>1. PICK n \in Nat : n = EpssOffer(f, w)
    BY <1>16
  <2>2. e = Raise(a, n)
    BY <1>15, <2>1
  <2>3. a \in 40..1000
    BY <1>14 DEF BASE_UNIT, MAX_SCORE
  <2>4. e \in 40..1000
    BY <2>2, <2>3 DEF Raise, MAX_SCORE
  <2> QED BY <2>4 DEF BASE_UNIT, MAX_SCORE
<1>18. ScoreChain(f, w) = e
  <2>1. ScoreChain(f, w) = Raise(Raise(Raise(Raise(e, 0), 0), 0), 0)
    BY <1>4, <1>7, <1>9, <1>12, <1>15, Zenon DEF ScoreChain
  <2> QED BY <1>17, <2>1, RaiseNothing, Zenon
<1>19. CASE f.kev
  <2>1. EpssOffer(f, w) = 0
    BY <1>19, Zenon DEF EpssOffer
  <2>2. e = a
    BY <1>14, <1>15, <2>1, RaiseNothing, Zenon
  <2>3. a = Max({old, KEV_FLOOR})
    BY <1>2, <1>3, <1>12, <1>19, FloorIs, Zenon DEF AtLeast
  <2> QED BY <1>1, <1>18, <1>19, <2>2, <2>3, Zenon DEF old
<1>20. CASE ~f.kev
  <2>1. a = old
    BY <1>12, <1>20, Zenon DEF AtLeast
  <2>2. CASE f.epss = "notable"
    <3>1. EpssOffer(f, w) = EPSS_BUMP
      BY <1>3, <1>20, <2>2 DEF EpssOffer, EPSS_BUMP
    <3>2. PICK m \in 40..1000 : m = old
      BY <1>11 DEF BASE_UNIT, MAX_SCORE
    <3>3. Min({MAX_SCORE, m + EPSS_BUMP}) = IF MAX_SCORE <= m + EPSS_BUMP THEN MAX_SCORE ELSE m + EPSS_BUMP
      BY MinOfTwo DEF MAX_SCORE, EPSS_BUMP
    <3>4. e = Min({MAX_SCORE, m + EPSS_BUMP})
      BY <1>15, <2>1, <3>1, <3>2, <3>3 DEF Raise, MAX_SCORE, EPSS_BUMP
    <3> QED BY <1>1, <1>18, <1>20, <2>2, <3>2, <3>4 DEF old
  <2>3. CASE f.epss # "notable"
    <3>1. EpssOffer(f, w) = 0
      BY <2>3, Zenon DEF EpssOffer
    <3>2. e = old
      BY <1>14, <1>15, <2>1, <3>1, RaiseNothing, Zenon
    <3> QED BY <1>1, <1>18, <1>20, <2>3, <3>2, Zenon DEF old
  <2> QED BY <2>2, <2>3
<1> QED BY <1>19, <1>20

\* What is known of a finding has the numbers a breakdown needs.
LEMMA SignalNumbers ==
  ASSUME NEW f \in SignalType
  PROVE  f.severity \in 1..5 /\ f.criticality \in Int
BY ScoreAssumption DEF SignalType

LEMMA KnownIsExplained == KnownSignals => ScoreExplained
<1> SUFFICES ASSUME KnownSignals PROVE ScoreExplained
  OBVIOUS
<1>1. PICK f : f = signals
  OBVIOUS
<1>2. PICK stored : stored = weightRows
  OBVIOUS
<1>3. f.severity \in 1..5 /\ f.criticality \in Int /\ \A s \in DOMAIN stored : stored[s] \in Int
  BY <1>1, <1>2, SignalNumbers DEF KnownSignals
<1>4. PICK w : w = ResolveWeights(stored)
  OBVIOUS
<1>5. PICK b : b = Breakdown(f, stored)
  OBVIOUS
<1>6. PICK p : p = Product(f, w)
  OBVIOUS
<1>7. p \in Nat /\ Explains(b, p) /\ Score(f, stored) = ScoreChain(f, w)
  BY <1>3, <1>4, <1>5, <1>6, BreakdownExplains
<1>8. PICK a : a = b.score
  OBVIOUS
<1>9. PICK q : q = b.points
  OBVIOUS
<1>10. Adds(a, q, p) /\ (p > MAX_SCORE => b.capped)
  BY <1>7, <1>8, <1>9, Zenon DEF Explains
<1>11. a \in BASE_UNIT..MAX_SCORE /\ BASE_UNIT + q[1] + q[2] = p
  BY <1>10, Zenon DEF Adds
<1>12. BASE_UNIT + SumFunction(q) = Max({a, p})
  <2>1. BASE_UNIT + SumFunction(q) = IF a >= p THEN a ELSE p
    BY <1>10, Zenon DEF Adds
  <2>2. a \in Int /\ p \in Int
    BY <1>7, <1>11 DEF BASE_UNIT, MAX_SCORE
  <2>3. Max({a, p}) = IF a >= p THEN a ELSE p
    BY <2>2, MaxOfTwo
  <2> QED BY <2>1, <2>3
<1>13. ASSUME stored = <<>>
       PROVE  a = LET old == Min({MAX_SCORE, BASE_UNIT * f.severity * Clamped(f.criticality)})
                  IN  IF f.kev THEN Max({old, KEV_FLOOR})
                      ELSE IF f.epss = "notable" THEN Min({MAX_SCORE, old + EPSS_BUMP}) ELSE old
  <2>1. w = BASELINE_WEIGHTS
    BY <1>4, <1>13, WeightsOfNone
  <2>2. a = ScoreChain(f, BASELINE_WEIGHTS)
    BY <1>5, <1>7, <1>8, <2>1, Zenon DEF Score
  <2> QED BY <1>3, <2>2, ScoreOfNone, Zenon
<1> QED BY <1>1, <1>2, <1>5, <1>8, <1>9, <1>10, <1>11, <1>12, <1>13, Zenon
        DEF ScoreExplained, Clamped

(* For every finding, advisory, target and weight stored: the breakdown adds
   up to the score, says when the base product was cut off, stays in range, and
   a workspace without weights scores as before there were any
   (compute_score_breakdown). *)
THEOREM BreakdownAddsUp == ScoreSpec => []ScoreExplained
<1> QED BY KnownInvariant, KnownIsExplained, PTL

-----------------------------------------------------------------------------
(* Learning.                                                               *)

LEMMA RaiseMonotone ==
  ASSUME NEW a \in Nat, NEW b \in Nat, a <= b, NEW m \in Nat, NEW n \in Nat, m <= n
  PROVE  Raise(a, m) \in Nat /\ Raise(b, n) \in Nat /\ Raise(a, m) <= Raise(b, n)
BY DEF Raise, MAX_SCORE

\* Larger offers, larger scores.
LEMMA ChainMonotone ==
  ASSUME NEW f, NEW g, NEW w \in Weights, f.severity \in 1..5, f.criticality \in Int,
         g.severity = f.severity, g.criticality = f.criticality, g.kev = f.kev,
         EpssOffer(g, w) <= EpssOffer(f, w), CvssOffer(g, w) <= CvssOffer(f, w),
         ScopeOffer(g, w) <= ScopeOffer(f, w), ExposureOffer(g, w) <= ExposureOffer(f, w),
         FixOffer(g, w) <= FixOffer(f, w)
  PROVE  ScoreChain(g, w) <= ScoreChain(f, w)
<1>1. PICK base : base = IF Product(f, w) <= MAX_SCORE THEN Product(f, w) ELSE MAX_SCORE
  OBVIOUS
<1>2. base \in BASE_UNIT..MAX_SCORE
  BY <1>1, BaseExplains DEF BASE_UNIT, MAX_SCORE
<1>3. Product(g, w) = Product(f, w)
  BY Zenon DEF Product
<1>4. PICK s0 : s0 = AtLeast(f, w, base)
  OBVIOUS
<1>5. AtLeast(g, w, base) = s0
  BY <1>4, Zenon DEF AtLeast
<1>6. s0 \in Nat
  <2>1. s0 \in base..MAX_SCORE
    BY <1>2, <1>4, AtLeastIs, Zenon
  <2> QED BY <1>2, <2>1 DEF BASE_UNIT, MAX_SCORE
<1>7. PICK g1, g2, g3, g4, g5 : /\ g1 = EpssOffer(g, w) /\ g2 = CvssOffer(g, w) /\ g3 = ScopeOffer(g, w)
                                /\ g4 = ExposureOffer(g, w) /\ g5 = FixOffer(g, w)
  OBVIOUS
<1>8. PICK f1, f2, f3, f4, f5 : /\ f1 = EpssOffer(f, w) /\ f2 = CvssOffer(f, w) /\ f3 = ScopeOffer(f, w)
                                /\ f4 = ExposureOffer(f, w) /\ f5 = FixOffer(f, w)
  OBVIOUS
<1>9. /\ g1 \in Nat /\ g2 \in Nat /\ g3 \in Nat /\ g4 \in Nat /\ g5 \in Nat
      /\ f1 \in Nat /\ f2 \in Nat /\ f3 \in Nat /\ f4 \in Nat /\ f5 \in Nat
      /\ g1 <= f1 /\ g2 <= f2 /\ g3 <= f3 /\ g4 <= f4 /\ g5 <= f5
  BY <1>7, <1>8, OffersNat, Zenon
<1>10. PICK x1, y1 : x1 = Raise(s0, g1) /\ y1 = Raise(s0, f1)
  OBVIOUS
<1>11. x1 \in Nat /\ y1 \in Nat /\ x1 <= y1
  BY <1>6, <1>9, <1>10, RaiseMonotone
<1>12. PICK x2, y2 : x2 = Raise(x1, g2) /\ y2 = Raise(y1, f2)
  OBVIOUS
<1>13. x2 \in Nat /\ y2 \in Nat /\ x2 <= y2
  BY <1>9, <1>11, <1>12, RaiseMonotone
<1>14. PICK x3, y3 : x3 = Raise(x2, g3) /\ y3 = Raise(y2, f3)
  OBVIOUS
<1>15. x3 \in Nat /\ y3 \in Nat /\ x3 <= y3
  BY <1>9, <1>13, <1>14, RaiseMonotone
<1>16. PICK x4, y4 : x4 = Raise(x3, g4) /\ y4 = Raise(y3, f4)
  OBVIOUS
<1>17. x4 \in Nat /\ y4 \in Nat /\ x4 <= y4
  BY <1>9, <1>15, <1>16, RaiseMonotone
<1>18. Raise(x4, g5) <= Raise(y4, f5)
  BY <1>9, <1>17, RaiseMonotone
<1>19. ScoreChain(g, w) = Raise(x4, g5)
  BY <1>1, <1>3, <1>5, <1>7, <1>10, <1>12, <1>14, <1>16, Zenon DEF ScoreChain
<1>20. ScoreChain(f, w) = Raise(y4, f5)
  BY <1>1, <1>4, <1>8, <1>10, <1>12, <1>14, <1>16, Zenon DEF ScoreChain
<1> QED BY <1>18, <1>19, <1>20

\* A finding of which less is known, with everything else the same.
Forgets(f, g) ==
  /\ g.severity = f.severity /\ g.criticality = f.criticality /\ g.kev = f.kev
  /\ g.epss = f.epss \/ g.epss = "none"
  /\ g.vector = f.vector \/ g.vector = NoVector
  /\ g.scope = f.scope \/ g.scope = "unknown"
  /\ g.fix = f.fix \/ g.fix = "unknown"
  /\ (g.label = f.label /\ g.env = f.env) \/ (g.label = "none" /\ g.env = "none")

LEMMA ForgettingOffersLess ==
  ASSUME NEW f, NEW g, NEW w \in Weights, Forgets(f, g)
  PROVE  /\ EpssOffer(g, w) <= EpssOffer(f, w) /\ CvssOffer(g, w) <= CvssOffer(f, w)
         /\ ScopeOffer(g, w) <= ScopeOffer(f, w) /\ ExposureOffer(g, w) <= ExposureOffer(f, w)
         /\ FixOffer(g, w) <= FixOffer(f, w)
<1>1. \A a \in Nat : \A b : b = a \/ b = 0 => b <= a
  OBVIOUS
<1>2. EpssOffer(g, w) = EpssOffer(f, w) \/ EpssOffer(g, w) = 0
  BY Zenon DEF Forgets, EpssOffer
<1>3. ~Comparable(NoVector)
  <2>1. DOMAIN NoVector = {}
    BY DEF NoVector
  <2> QED BY <2>1 DEF Comparable, Decoded
<1>4. CvssOffer(g, w) = CvssOffer(f, w) \/ CvssOffer(g, w) = 0
  BY <1>3, Zenon DEF Forgets, CvssOffer
<1>5. ScopeOffer(g, w) = ScopeOffer(f, w) \/ ScopeOffer(g, w) = 0
  BY Zenon DEF Forgets, ScopeOffer
<1>6. ExposureOffer(g, w) = ExposureOffer(f, w) \/ ExposureOffer(g, w) = 0
  <2>1. CASE g.label = f.label /\ g.env = f.env
    BY <2>1, Zenon DEF ExposureOffer
  <2>2. CASE g.label = "none" /\ g.env = "none"
    <3>1. Exposure("none", "none").factor = 0
      BY DEF Exposure
    <3>2. PICK h \in 0..20 : h = w.exposure
      BY WeightFields
    <3>3. (INTERNET_EXPOSURE_MAX_POINTS * h * 0) \div 4 = 0
      BY DEF INTERNET_EXPOSURE_MAX_POINTS
    <3> QED BY <2>2, <3>1, <3>2, <3>3, Zenon DEF ExposureOffer
  <2> QED BY <2>1, <2>2, Zenon DEF Forgets
<1>7. FixOffer(g, w) = FixOffer(f, w) \/ FixOffer(g, w) = 0
  BY Zenon DEF Forgets, FixOffer
<1> QED BY <1>1, <1>2, <1>4, <1>5, <1>6, <1>7, OffersNat

LEMMA KnownNeverLowers == KnownSignals => LearningNeverLowers
<1> SUFFICES ASSUME KnownSignals PROVE LearningNeverLowers
  OBVIOUS
<1>1. PICK f \in SignalType : f = signals
  BY DEF KnownSignals
<1>2. PICK stored : stored = weightRows
  OBVIOUS
<1>3. f.severity \in 1..5 /\ f.criticality \in Int /\ \A s \in DOMAIN stored : stored[s] \in Int
  BY <1>1, <1>2, SignalNumbers DEF KnownSignals
<1>4. PICK w \in Weights : w = ResolveWeights(stored)
  BY <1>3, WeightsInRange
<1>5. ASSUME NEW g, Forgets(f, g) PROVE Score(g, stored) <= Score(f, stored)
  <2>1. g.severity = f.severity /\ g.criticality = f.criticality /\ g.kev = f.kev
    BY <1>5, Zenon DEF Forgets
  <2>2. g.severity \in 1..5 /\ g.criticality \in Int
    BY <1>3, <2>1, Zenon
  <2>3. Score(g, stored) = ScoreChain(g, w)
    BY <1>3, <1>4, <2>2, BreakdownExplains, Zenon
  <2>4. Score(f, stored) = ScoreChain(f, w)
    BY <1>3, <1>4, BreakdownExplains, Zenon
  <2>5. ScoreChain(g, w) <= ScoreChain(f, w)
    BY <1>3, <1>5, <2>1, ForgettingOffersLess, ChainMonotone, Zenon
  <2> QED BY <2>3, <2>4, <2>5, Zenon
<1>6. ASSUME NEW x \in DOMAIN Unknown PROVE Forgets(f, [f EXCEPT ![x] = Unknown[x]])
  <2>1. CASE x = "epss"
    BY <2>1 DEF Forgets, Unknown, SignalType
  <2>2. CASE x = "vector"
    BY <2>2 DEF Forgets, Unknown, SignalType
  <2>3. CASE x = "scope"
    BY <2>3 DEF Forgets, Unknown, SignalType
  <2>4. CASE x = "fix"
    BY <2>4 DEF Forgets, Unknown, SignalType
  <2> QED BY <2>1, <2>2, <2>3, <2>4 DEF Unknown
<1>7. Forgets(f, [f EXCEPT !.label = "none", !.env = "none"])
  BY DEF Forgets, SignalType
<1> QED BY <1>1, <1>2, <1>5, <1>6, <1>7 DEF LearningNeverLowers

(* For every weight stored, knowing less about a finding never scores it
   higher: neither its EPSS, its vector, its scope and its fix nor the exposure
   of its target lowers a priority when it becomes known (resolve_weights). *)
THEOREM UnknownNeverHigher == ScoreSpec => []LearningNeverLowers
<1> QED BY KnownInvariant, KnownNeverLowers, PTL

-----------------------------------------------------------------------------
(* The estate: its rows, and the audit trail of each finding.              *)

FindingStates == OPEN_STATES \cup CLOSED_STATES

EstateType ==
  /\ today \in Nat
  /\ owned \in [Estate -> [lifecycle : {"active", "deactivated", "deleted"},
                           criticality : Int, scans : SUBSET Int]]
  /\ detected \in [Detections -> [state : FindingStates, firstSeen : Nat \cup {Never}]]
  /\ audit \in [Detections -> Seq([day : Nat, to : FindingStates])]

\* The trail of a finding ends in its state and holds nothing of tomorrow.
Trail(f) ==
  /\ detected[f].firstSeen <= today
  /\ \A i \in DOMAIN audit[f] : audit[f][i].day <= today
  /\ detected[f].firstSeen = Never => audit[f] = <<>>
  /\ audit[f] = <<>> => detected[f].state = "open"
  /\ audit[f] # <<>> => audit[f][Len(audit[f])].to = detected[f].state

AuditTrail == EstateType /\ \A f \in Detections : Trail(f)

LEMMA TrailInit == EstateInit => AuditTrail
<1> SUFFICES ASSUME EstateInit PROVE AuditTrail
  OBVIOUS
<1>1. EstateType
  <2>1. "open" \in FindingStates /\ Never \in Nat \cup {Never} /\ {0, 5} \subseteq Int
    BY DEF FindingStates, OPEN_STATES
  <2>2. owned \in [Estate -> [lifecycle : {"active", "deactivated", "deleted"},
                              criticality : Int, scans : SUBSET Int]]
    BY DEF EstateInit
  <2>3. detected \in [Detections -> [state : FindingStates, firstSeen : Nat \cup {Never}]]
    BY <2>1 DEF EstateInit
  <2>4. audit \in [Detections -> Seq([day : Nat, to : FindingStates])]
    BY DEF EstateInit
  <2> QED BY <2>2, <2>3, <2>4 DEF EstateInit, EstateType
<1>2. ASSUME NEW f \in Detections PROVE Trail(f)
  <2>1. audit[f] = <<>> /\ detected[f].state = "open" /\ detected[f].firstSeen = Never /\ today = 0
    BY DEF EstateInit
  <2>2. Never <= 0 /\ DOMAIN <<>> = {}
    BY DEF Never
  <2> QED BY <2>1, <2>2 DEF Trail
<1> QED BY <1>1, <1>2 DEF AuditTrail

\* Nothing moves a trail but its own finding; the days only pass.
LEMMA TrailStays ==
  ASSUME NEW f \in Detections, Trail(f), EstateType, today' \in Nat, today <= today',
         audit'[f] = audit[f], detected'[f] = detected[f]
  PROVE  Trail(f)'
<1>1. detected[f].firstSeen \in Int
  BY DEF EstateType, Never
<1>2. \A i \in DOMAIN audit[f] : audit[f][i].day \in Int
  <2>1. audit[f] \in Seq([day : Nat, to : FindingStates])
    BY DEF EstateType
  <2>2. ASSUME NEW i \in DOMAIN audit[f] PROVE audit[f][i].day \in Int
    <3>1. audit[f][i] \in [day : Nat, to : FindingStates]
      BY <2>1, ElementOfSeq, LenProperties
    <3> QED BY <3>1
  <2> QED BY <2>2
<1>3. today \in Int /\ today' \in Int
  BY DEF EstateType
<1> QED BY <1>1, <1>2, <1>3 DEF Trail

\* A finding turns up today.
LEMMA NewTrail ==
  ASSUME NEW f \in Detections, EstateType, Trail(f), f \notin Found, today' = today,
         audit'[f] = audit[f], detected'[f] = [state |-> "open", firstSeen |-> today]
  PROVE  Trail(f)'
<1>1. audit[f] = <<>>
  BY DEF Trail, Found
<1>2. detected'[f].state = "open" /\ detected'[f].firstSeen = today
  OBVIOUS
<1>3. today \in Nat /\ today <= today /\ DOMAIN <<>> = {}
  BY DEF EstateType
<1> QED BY <1>1, <1>2, <1>3 DEF Trail

\* A change of state and its row.
LEMMA LongerTrail ==
  ASSUME NEW f \in Detections, EstateType, Trail(f), f \in Found, today' = today,
         NEW to \in FindingStates,
         audit'[f] = Append(audit[f], [day |-> today, to |-> to]),
         detected'[f].state = to, detected'[f].firstSeen = detected[f].firstSeen
  PROVE  Trail(f)'
<1> DEFINE Row == [day : Nat, to : FindingStates]
<1>1. PICK s \in Seq(Row) : s = audit[f]
  BY DEF EstateType
<1>2. PICK l \in Row : l = [day |-> today, to |-> to]
  BY DEF EstateType
<1> HIDE DEF Row
<1>3. PICK q : q = Append(s, l)
  OBVIOUS
<1>4. q \in Seq(Row) /\ Len(q) = Len(s) + 1 /\ q[Len(s) + 1] = l /\ \A i \in 1..Len(s) : q[i] = s[i]
  BY <1>3, AppendProperties
<1>5. Len(s) \in Nat /\ DOMAIN s = 1..Len(s) /\ DOMAIN q = 1..(Len(s) + 1)
  BY <1>4, LenProperties
<1>6. q # <<>> /\ q[Len(q)].to = to
  <2>1. l.to = to
    BY <1>2
  <2>2. Len(q) # 0
    BY <1>4, <1>5
  <2>3. Len(<<>>) = 0
    OBVIOUS
  <2> QED BY <1>4, <2>1, <2>2, <2>3
<1>7. \A i \in DOMAIN q : q[i].day <= today
  <2>1. \A i \in DOMAIN s : s[i].day <= today
    BY <1>1 DEF Trail
  <2>2. l.day = today /\ today <= today
    BY <1>2 DEF EstateType
  <2>3. \A i \in 1..(Len(s) + 1) : i \in 1..Len(s) \/ i = Len(s) + 1
    BY <1>5
  <2> QED BY <1>4, <1>5, <2>1, <2>2, <2>3
<1>8. audit'[f] = q
  BY <1>1, <1>2, <1>3
<1>9. detected[f].firstSeen # Never /\ detected[f].firstSeen <= today
  BY DEF Found, Trail
<1> QED BY <1>6, <1>7, <1>8, <1>9 DEF Trail

LEMMA TrailNext == AuditTrail /\ [EstateNext]_estateVars => AuditTrail'
<1> SUFFICES ASSUME AuditTrail, [EstateNext]_estateVars PROVE AuditTrail'
  OBVIOUS
<1> USE DEF AuditTrail
<1>1. today \in Nat /\ today <= today
  BY DEF EstateType
<1>2. CASE Tomorrow
  <2>1. today' \in Nat /\ today <= today'
    BY <1>1, <1>2 DEF Tomorrow
  <2>2. EstateType'
    BY <1>2, <2>1 DEF EstateType, Tomorrow
  <2>3. ASSUME NEW f \in Detections PROVE Trail(f)'
    BY <1>2, <2>1, TrailStays DEF Tomorrow
  <2> QED BY <2>2, <2>3
<1>3. ASSUME NEW t \in Estate, NEW fs \in SUBSET Detections, ScanTarget(t, fs) PROVE AuditTrail'
  <2>1. EstateType'
    <3>1. owned' \in [Estate -> [lifecycle : {"active", "deactivated", "deleted"},
                                 criticality : Int, scans : SUBSET Int]]
      BY <1>1, <1>3 DEF EstateType, ScanTarget
    <3>2. [state |-> "open", firstSeen |-> today] \in [state : FindingStates, firstSeen : Nat \cup {Never}]
      BY <1>1 DEF FindingStates, OPEN_STATES
    <3>3. detected' \in [Detections -> [state : FindingStates, firstSeen : Nat \cup {Never}]]
      BY <1>3, <3>2 DEF EstateType, ScanTarget
    <3> QED BY <1>3, <3>1, <3>3 DEF EstateType, ScanTarget
  <2>2. ASSUME NEW f \in Detections, f \in fs PROVE Trail(f)'
    <3>1. f \notin Found /\ detected'[f] = [state |-> "open", firstSeen |-> today]
      BY <1>3, <2>2 DEF ScanTarget
    <3>2. today' = today /\ audit'[f] = audit[f]
      BY <1>3 DEF ScanTarget
    <3> QED BY <3>1, <3>2, NewTrail
  <2>3. ASSUME NEW f \in Detections, f \notin fs PROVE Trail(f)'
    <3>1. detected'[f] = detected[f] /\ audit'[f] = audit[f] /\ today' = today
      BY <1>3, <2>3 DEF ScanTarget
    <3> QED BY <1>1, <3>1, TrailStays
  <2> QED BY <2>1, <2>2, <2>3
<1>4. ASSUME NEW e \in Detections, PushFinding(e) PROVE AuditTrail'
  <2>1. EstateType'
    <3>1. [state |-> "open", firstSeen |-> today] \in [state : FindingStates, firstSeen : Nat \cup {Never}]
      BY <1>1 DEF FindingStates, OPEN_STATES
    <3>2. detected' \in [Detections -> [state : FindingStates, firstSeen : Nat \cup {Never}]]
      BY <1>4, <3>1 DEF EstateType, PushFinding
    <3> QED BY <1>4, <3>2 DEF EstateType, PushFinding
  <2>2. today' = today /\ audit' = audit /\ e \notin Found
    BY <1>4 DEF PushFinding
  <2>3. Trail(e)'
    <3>1. detected'[e] = [state |-> "open", firstSeen |-> today]
      BY <1>4 DEF PushFinding, EstateType
    <3> QED BY <2>2, <3>1, NewTrail
  <2>4. ASSUME NEW f \in Detections, f # e PROVE Trail(f)'
    <3>1. detected'[f] = detected[f]
      BY <1>4, <2>4 DEF PushFinding, EstateType
    <3> QED BY <1>1, <2>2, <3>1, TrailStays
  <2> QED BY <2>1, <2>3, <2>4
<1>5. ASSUME NEW e \in Detections, NEW to \in {"reopened", "mitigated", "false_positive"}, ChangeState(e, to)
      PROVE  AuditTrail'
  <2>1. to \in FindingStates
    BY DEF FindingStates, OPEN_STATES, CLOSED_STATES
  <2>2. today' = today /\ owned' = owned /\ e \in Found
    BY <1>5 DEF ChangeState
  <2>3. detected' = [detected EXCEPT ![e].state = to]
    BY <1>5 DEF ChangeState
  <2>4. detected' \in [Detections -> [state : FindingStates, firstSeen : Nat \cup {Never}]]
    BY <2>1, <2>3 DEF EstateType
  <2>5. audit' = [audit EXCEPT ![e] = Append(@, [day |-> today, to |-> to])]
    BY <1>5 DEF ChangeState
  <2>6. Append(audit[e], [day |-> today, to |-> to]) \in Seq([day : Nat, to : FindingStates])
    <3>1. [day |-> today, to |-> to] \in [day : Nat, to : FindingStates]
      BY <1>1, <2>1
    <3>2. audit[e] \in Seq([day : Nat, to : FindingStates])
      BY DEF EstateType
    <3> QED BY <3>1, <3>2, AppendProperties
  <2>7. audit' \in [Detections -> Seq([day : Nat, to : FindingStates])]
    BY <2>5, <2>6 DEF EstateType
  <2>8. EstateType'
    BY <2>2, <2>4, <2>7 DEF EstateType
  <2>9. Trail(e)'
    <3>1. audit'[e] = Append(audit[e], [day |-> today, to |-> to])
      BY <2>5 DEF EstateType
    <3>2. detected'[e].state = to /\ detected'[e].firstSeen = detected[e].firstSeen
      BY <2>3 DEF EstateType
    <3> QED BY <2>1, <2>2, <3>1, <3>2, LongerTrail
  <2>10. ASSUME NEW f \in Detections, f # e PROVE Trail(f)'
    <3>1. audit'[f] = audit[f] /\ detected'[f] = detected[f]
      BY <2>3, <2>5, <2>10 DEF EstateType
    <3> QED BY <1>1, <2>2, <3>1, TrailStays
  <2> QED BY <2>8, <2>9, <2>10
<1>6. ASSUME today' = today, detected' = detected, audit' = audit,
             owned' \in [Estate -> [lifecycle : {"active", "deactivated", "deleted"},
                                    criticality : Int, scans : SUBSET Int]]
      PROVE  AuditTrail'
  <2>1. EstateType'
    BY <1>6 DEF EstateType
  <2>2. ASSUME NEW f \in Detections PROVE Trail(f)'
    BY <1>1, <1>6, TrailStays
  <2> QED BY <2>1, <2>2
<1>7. ASSUME NEW t \in Estate, NEW to \in {"active", "deactivated", "deleted"}, SetLifecycle(t, to)
      PROVE  AuditTrail'
  <2>1. owned' \in [Estate -> [lifecycle : {"active", "deactivated", "deleted"},
                               criticality : Int, scans : SUBSET Int]]
    BY <1>7 DEF EstateType, SetLifecycle
  <2> QED BY <1>6, <1>7, <2>1 DEF SetLifecycle
<1>8. owned \in [Estate -> [lifecycle : {"active", "deactivated", "deleted"},
                            criticality : Int, scans : SUBSET Int]]
  BY DEF EstateType
<1>9. ASSUME NEW t \in Estate, SetSlaGroup(t, {0, 1}) PROVE AuditTrail'
  BY <1>6, <1>8, <1>9 DEF SetSlaGroup
<1>10. CASE SetSlaDefault(1)
  BY <1>6, <1>8, <1>10 DEF SetSlaDefault
<1>11. CASE UNCHANGED estateVars
  BY <1>6, <1>8, <1>11 DEF estateVars
<1> QED BY <1>2, <1>3, <1>4, <1>5, <1>7, <1>9, <1>10, <1>11 DEF EstateNext

(* The audit trail of a finding always ends in its state, so the state of
   today that the trend reconstructs is the state of the row (_state_at), and
   nothing in it is of a later day. *)
THEOREM TrailTellsState == EstateSpec => []AuditTrail
<1> QED BY TrailInit, TrailNext, PTL DEF EstateSpec

-----------------------------------------------------------------------------
(* The trend.                                                              *)

LEMMA DomainMax ==
  ASSUME NEW n \in Nat, n # 0
  PROVE  Max(1..n) = n
<1>1. n \in 1..n /\ \A y \in 1..n : n >= y
  OBVIOUS
<1>2. \A x \in 1..n : (\A y \in 1..n : x >= y) => x = n
  OBVIOUS
<1> QED BY <1>1, <1>2 DEF Max

\* When every row is of that day or earlier, the trail reads the state of now.
LEMMA WholeTrail ==
  ASSUME AuditTrail, NEW f \in Detections, NEW day, ~(detected[f].firstSeen > day),
         \A i \in DOMAIN audit[f] : audit[f][i].day <= day
  PROVE  StateAt(day, f) = detected[f].state
<1> DEFINE upTo == {i \in DOMAIN audit[f] : audit[f][i].day <= day}
<1>1. upTo = DOMAIN audit[f]
  OBVIOUS
<1>2. StateAt(day, f) = IF upTo = {} THEN "open" ELSE audit[f][Max(upTo)].to
  BY DEF StateAt
<1> HIDE DEF upTo
<1>3. audit[f] \in Seq([day : Nat, to : FindingStates])
  BY DEF AuditTrail, EstateType
<1>4. DOMAIN audit[f] = 1..Len(audit[f]) /\ Len(audit[f]) \in Nat
  BY <1>3, LenProperties
<1>5. Trail(f)
  BY DEF AuditTrail
<1>6. CASE audit[f] = <<>>
  <2>1. upTo = {}
    BY <1>1, <1>6
  <2> QED BY <1>2, <1>5, <1>6, <2>1 DEF Trail
<1>7. CASE audit[f] # <<>>
  <2>1. Len(audit[f]) # 0
    BY <1>3, <1>7, EmptySeq
  <2>2. Max(upTo) = Len(audit[f]) /\ upTo # {}
    <3>1. PICK n \in Nat : n = Len(audit[f])
      BY <1>4
    <3>2. upTo = 1..n /\ n # 0
      BY <1>1, <1>4, <2>1, <3>1
    <3>3. 1 \in 1..n
      BY <3>2
    <3> QED BY <3>1, <3>2, <3>3, DomainMax
  <2> QED BY <1>2, <1>5, <1>7, <2>2 DEF Trail
<1> QED BY <1>6, <1>7

LEMMA WeightRange ==
  ASSUME EstateType
  PROVE  /\ \A t \in Estate : CriticalityWeight(t) \in 1..5
         /\ \A f \in Detections : RiskWeight(f) \in Nat
<1>1. ASSUME NEW t \in Estate PROVE CriticalityWeight(t) \in 1..5
  <2>1. owned[t].criticality \in Int
    BY DEF EstateType
  <2> QED BY <2>1, ClampedRange DEF CriticalityWeight, Clamped
<1>2. ASSUME NEW f \in Detections PROVE RiskWeight(f) \in Nat
  <2>1. SevWeight[f] \in 0..5 /\ OnTarget[f] \in Estate
    BY EstateAssumption
  <2>2. PICK c \in 1..5 : c = CriticalityWeight(OnTarget[f])
    BY <1>1, <2>1
  <2>3. PICK v \in 0..5 : v = SevWeight[f]
    BY <2>1
  <2>4. RiskWeight(f) = v * c
    BY <2>2, <2>3 DEF RiskWeight
  <2> QED BY <2>4
<1> QED BY <1>1, <1>2

\* The risk of fewer findings is no larger.
LEMMA RiskMonotone ==
  ASSUME EstateType, NEW A \in SUBSET Detections, NEW B \in SUBSET A
  PROVE  RiskSum(A) \in Nat /\ RiskSum(B) \in Nat /\ RiskSum(B) <= RiskSum(A)
<1> DEFINE v == [f \in A |-> RiskWeight(f)]
           u == [f \in B |-> RiskWeight(f)]
<1>1. IsFiniteSet(A) /\ IsFiniteSet(B)
  <2>1. IsFiniteSet(A)
    BY EstateAssumption, FS_Subset
  <2> QED BY <2>1, FS_Subset
<1>2. /\ \A f \in A : v[f] \in Nat
      /\ \A f \in B : u[f] \in Nat /\ u[f] <= v[f]
  BY WeightRange
<1>3. RiskSum(A) = SumFunctionOnSet(v, A)
  BY DEF RiskSum, SumFunction
<1>4. RiskSum(B) = SumFunctionOnSet(u, B)
  BY DEF RiskSum, SumFunction
<1> HIDE DEF u, v
<1>5. SumFunctionOnSet(v, A) \in Nat
  BY <1>1, <1>2, SumType
<1>6. SumFunctionOnSet(u, B) \in Nat
  BY <1>1, <1>2, SumType
<1>7. SumFunctionOnSet(u, B) <= SumFunctionOnSet(v, A)
  BY <1>1, <1>2, SumMonotone
<1> QED BY <1>3, <1>4, <1>5, <1>6, <1>7

\* The findings that are compared, and the ones of them open on a day.
Compared == {f \in ScopedFindings : OnTarget[f] \in ObservedBefore}
OpenOn(day) == {f \in Compared : StateAt(day, f) \notin CLOSED_STATES \cup {"absent"}}

LEMMA TrendIs ==
  /\ ObservedBefore = {} => TrendScore = [measurable |-> FALSE, direction |-> "unknown", score |-> 0]
  /\ ObservedBefore # {} =>
       LET now == RiskSum(OpenOn(today))
           prior == RiskSum(OpenOn(PriorDay))
       IN  TrendScore = [measurable |-> TRUE,
                         direction  |-> IF now < prior THEN "improving" ELSE IF now = prior THEN "stable"
                                        ELSE "worsening",
                         score      |-> IF now <= prior THEN 1000
                                        ELSE Max({0, 1000 - Percent(now - prior, Max({prior, 1}))})]
BY DEF TrendScore, OpenOn, Compared, OpenSumAt

LEMMA ComparedFindings == Compared \in SUBSET Detections /\ \A day : OpenOn(day) \in SUBSET Compared
BY DEF Compared, OpenOn, ScopedFindings, Found

LEMMA TrailIsReal == AuditTrail => WorseningIsReal
<1> SUFFICES ASSUME AuditTrail, TrendScore.direction = "worsening"
             PROVE  \E f \in ScopedFindings :
                      /\ \/ \E g \in ScopedFindings :
                              OnTarget[g] = OnTarget[f] /\ detected[g].firstSeen <= PriorDay
                         \/ \E d \in owned[OnTarget[f]].scans : d <= PriorDay
                      /\ detected[f].state \notin CLOSED_STATES
                      /\ \/ detected[f].firstSeen > PriorDay
                         \/ \E i \in DOMAIN audit[f] : audit[f][i].day > PriorDay
  BY DEF WorseningIsReal
<1>1. EstateType
  BY DEF AuditTrail
<1>2. ObservedBefore # {}
  <2> SUFFICES ASSUME ObservedBefore = {} PROVE FALSE
    OBVIOUS
  <2>1. TrendScore.direction = "unknown"
    BY TrendIs
  <2> QED BY <2>1
<1>3. PICK now : now = RiskSum(OpenOn(today))
  OBVIOUS
<1>4. PICK prior : prior = RiskSum(OpenOn(PriorDay))
  OBVIOUS
<1>5. TrendScore.direction = IF now < prior THEN "improving" ELSE IF now = prior THEN "stable" ELSE "worsening"
  BY <1>2, <1>3, <1>4, TrendIs
<1>6. now \in Nat /\ prior \in Nat
  <2>1. OpenOn(today) \in SUBSET Detections /\ OpenOn(PriorDay) \in SUBSET Detections
    BY ComparedFindings
  <2> QED BY <1>1, <1>3, <1>4, <2>1, RiskMonotone
<1>7. ~(now <= prior)
  BY <1>5, <1>6
<1>8. ~(OpenOn(today) \in SUBSET OpenOn(PriorDay))
  <2>1. OpenOn(PriorDay) \in SUBSET Detections
    BY ComparedFindings
  <2> QED BY <1>1, <1>3, <1>4, <1>7, <2>1, RiskMonotone
<1>9. PICK f \in OpenOn(today) : f \notin OpenOn(PriorDay)
  BY <1>8
<1>10. /\ f \in Compared /\ StateAt(today, f) \notin CLOSED_STATES
       /\ StateAt(PriorDay, f) \in CLOSED_STATES \cup {"absent"}
  BY <1>9 DEF OpenOn
<1>11. f \in ScopedFindings /\ OnTarget[f] \in ObservedBefore /\ f \in Detections
  BY <1>10, ComparedFindings DEF Compared
<1>12. StateAt(today, f) = detected[f].state
  <2>1. Trail(f)
    BY <1>11 DEF AuditTrail
  <2>2. detected[f].firstSeen \in Int /\ today \in Int
    BY <1>1, <1>11 DEF EstateType, Never
  <2>3. ~(detected[f].firstSeen > today) /\ \A i \in DOMAIN audit[f] : audit[f][i].day <= today
    BY <2>1, <2>2 DEF Trail
  <2> QED BY <1>11, <2>3, WholeTrail
<1>13. detected[f].state \notin CLOSED_STATES
  BY <1>10, <1>12
<1>14. \/ detected[f].firstSeen > PriorDay
       \/ \E i \in DOMAIN audit[f] : audit[f][i].day > PriorDay
  <2> SUFFICES ASSUME ~(detected[f].firstSeen > PriorDay),
                      ~\E i \in DOMAIN audit[f] : audit[f][i].day > PriorDay
               PROVE  FALSE
    OBVIOUS
  <2>1. PriorDay \in Int
    BY <1>1, EstateAssumption DEF PriorDay, EstateType
  <2>2. ASSUME NEW i \in DOMAIN audit[f] PROVE audit[f][i].day <= PriorDay
    <3>1. audit[f] \in Seq([day : Nat, to : FindingStates])
      BY <1>1, <1>11 DEF EstateType
    <3>2. audit[f][i] \in [day : Nat, to : FindingStates]
      BY <3>1, ElementOfSeq, LenProperties
    <3>3. audit[f][i].day \in Int
      BY <3>2
    <3> QED BY <2>1, <3>3
  <2>3. StateAt(PriorDay, f) = detected[f].state
    BY <1>11, <2>2, WholeTrail
  <2>4. detected[f].state # "absent"
    BY <1>1, <1>11 DEF EstateType, FindingStates, OPEN_STATES, CLOSED_STATES
  <2> QED BY <1>10, <1>13, <2>3, <2>4
<1>15. \/ \E g \in ScopedFindings : OnTarget[g] = OnTarget[f] /\ detected[g].firstSeen <= PriorDay
       \/ \E d \in owned[OnTarget[f]].scans : d <= PriorDay
  BY <1>11 DEF ObservedBefore
<1> QED BY <1>11, <1>13, <1>14, <1>15

(* A trend only worsens when something on a target with a past is open now and
   was not before, whatever is onboarded, deleted or unknown
   (_targets_observed_before, _trend_score). *)
THEOREM TrendIsReal == EstateSpec => []WorseningIsReal
<1> QED BY TrailTellsState, TrailIsReal, PTL

-----------------------------------------------------------------------------
(* The components and their mean.                                          *)

LEMMA PercentRange ==
  ASSUME NEW a \in Nat, NEW b \in Nat \ {0}
  PROVE  Percent(a, b) \in Nat /\ (a <= b => Percent(a, b) \in 0..1000)
<1>1. PICK n \in Nat : n = 2000 * a + b
  OBVIOUS
<1>2. PICK d \in Nat \ {0} : d = 2 * b
  OBVIOUS
<1>3. PICK q \in Int : q = n \div d
  OBVIOUS
<1>4. q * d <= n /\ n < (q + 1) * d
  BY <1>3
<1>5. Percent(a, b) = q
  BY <1>1, <1>2, <1>3 DEF Percent
<1>6. q >= 0
  BY <1>3
<1>7. ASSUME a <= b PROVE q <= 1000
  <2>1. n < 1001 * d
    BY <1>1, <1>2, <1>7
  <2> SUFFICES ASSUME q >= 1001 PROVE FALSE
    OBVIOUS
  <2>2. PICK k \in Nat : q = 1001 + k
    OBVIOUS
  <2>3. q * d = 1001 * d + k * d /\ k * d \in Nat
    BY <2>2
  <2> QED BY <1>4, <2>1, <2>3
<1> QED BY <1>5, <1>6, <1>7

\* The share of a part.
LEMMA ShareRange ==
  ASSUME NEW S, IsFiniteSet(S), S # {}, NEW T \in SUBSET S
  PROVE  Percent(Cardinality(T), Cardinality(S)) \in 0..1000
<1>1. Cardinality(S) \in Nat \ {0}
  BY FS_CardinalityType, FS_EmptySet
<1>2. IsFiniteSet(T) /\ Cardinality(T) <= Cardinality(S)
  BY FS_Subset
<1>3. Cardinality(T) \in Nat
  BY <1>2, FS_CardinalityType
<1>4. PICK a \in Nat : a = Cardinality(T)
  BY <1>3
<1>5. PICK b \in Nat \ {0} : b = Cardinality(S)
  BY <1>1
<1>6. Percent(a, b) \in 0..1000
  BY <1>2, <1>4, <1>5, PercentRange, ZenonT(60)
<1> QED BY <1>4, <1>5, <1>6

LEMMA ScopeFinite ==
  /\ IsFiniteSet(InScope) /\ IsFiniteSet(ScopedFindings) /\ IsFiniteSet(OpenFindings)
  /\ InScope \in SUBSET Estate /\ OpenFindings \in SUBSET Detections
<1>1. InScope \in SUBSET Estate /\ ScopedFindings \in SUBSET Detections /\ OpenFindings \in SUBSET Detections
  BY DEF InScope, ScopedFindings, OpenFindings, Found
<1>2. IsFiniteSet(InScope)
  BY <1>1, EstateAssumption, FS_Subset
<1>3. IsFiniteSet(ScopedFindings)
  BY <1>1, EstateAssumption, FS_Subset
<1>4. IsFiniteSet(OpenFindings)
  BY <1>1, EstateAssumption, FS_Subset
<1> QED BY <1>1, <1>2, <1>3, <1>4

LEMMA FindingsRange ==
  ASSUME EstateType
  PROVE  FindingsScore \in 0..1000
<1> DEFINE v == [t \in InScope |-> CriticalityWeight(t)]
<1>1. \A t \in InScope : v[t] \in Nat
  BY WeightRange, ScopeFinite
<1>2. TotalCriticality = SumFunctionOnSet(v, InScope)
  BY DEF TotalCriticality, SumFunction
<1> HIDE DEF v
<1>3. TotalCriticality \in Nat
  BY <1>1, <1>2, ScopeFinite, SumType
<1>4. PICK tc : tc = Max({1, TotalCriticality})
  OBVIOUS
<1>5. tc \in Nat /\ tc >= 1
  BY <1>3, <1>4, MaxOfTwo
<1>6. PICK risk : risk = RiskSum(OpenFindings)
  OBVIOUS
<1>7. risk \in Nat
  <2>1. OpenFindings \in SUBSET OpenFindings
    OBVIOUS
  <2> QED BY <1>6, <2>1, ScopeFinite, RiskMonotone
<1>8. FindingsScore = Percent(10 * tc, risk + 10 * tc)
  BY <1>4, <1>6 DEF FindingsScore
<1>9. PICK a \in Nat : a = 10 * tc
  BY <1>5
<1>10. PICK b \in Nat \ {0} : b = risk + 10 * tc
  BY <1>5, <1>7
<1>11. a <= b
  BY <1>7, <1>9, <1>10
<1>12. Percent(a, b) \in 0..1000
  BY <1>11, PercentRange, ZenonT(60)
<1> QED BY <1>8, <1>9, <1>10, <1>12

LEMMA SlaRange == SlaScore \in 0..1000
<1> DEFINE tracked == {f \in OpenFindings : SevWeight[f] > 0 /\ SlaDays(OnTarget[f]) # Never}
           kept == {f \in tracked : ~SlaViolated(f)}
<1>1. SlaScore = IF tracked = {} THEN 1000 ELSE Percent(Cardinality(kept), Cardinality(tracked))
  BY DEF SlaScore
<1>2. tracked \in SUBSET OpenFindings /\ kept \in SUBSET tracked
  OBVIOUS
<1> HIDE DEF tracked, kept
<1>3. IsFiniteSet(tracked)
  BY <1>2, ScopeFinite, FS_Subset
<1>4. tracked # {} => Percent(Cardinality(kept), Cardinality(tracked)) \in 0..1000
  BY <1>2, <1>3, ShareRange
<1> QED BY <1>1, <1>4

LEMMA CoverageRange == CoverageScore \in 0..1000
<1> DEFINE active == {t \in InScope : owned[t].lifecycle = "active"}
           seen == {t \in active : \E d \in owned[t].scans : d >= today - COVERAGE_WINDOW_DAYS}
<1>1. CoverageScore = IF InScope = {} THEN 0 ELSE IF active = {} THEN 1000
                      ELSE Percent(Cardinality(seen), Cardinality(active))
  BY DEF CoverageScore
<1>2. active \in SUBSET InScope /\ seen \in SUBSET active
  OBVIOUS
<1> HIDE DEF active, seen
<1>3. IsFiniteSet(active)
  BY <1>2, ScopeFinite, FS_Subset
<1>4. active # {} => Percent(Cardinality(seen), Cardinality(active)) \in 0..1000
  BY <1>2, <1>3, ShareRange
<1> QED BY <1>1, <1>4

LEMMA FpRateRange == FpRateScore \in 0..1000
<1> DEFINE kept == {f \in ScopedFindings : detected[f].state # "false_positive"}
<1>1. FpRateScore = IF ScopedFindings = {} THEN 1000
                    ELSE Percent(Cardinality(kept), Cardinality(ScopedFindings))
  BY DEF FpRateScore
<1>2. kept \in SUBSET ScopedFindings
  OBVIOUS
<1> HIDE DEF kept
<1>3. ScopedFindings # {} => Percent(Cardinality(kept), Cardinality(ScopedFindings)) \in 0..1000
  BY <1>2, ScopeFinite, ShareRange
<1> QED BY <1>1, <1>3

LEMMA TrendRange ==
  ASSUME EstateType
  PROVE  TrendScore.score \in 0..1000 /\ (TrendScore.measurable <=> ObservedBefore # {})
<1>1. CASE ObservedBefore = {}
  BY <1>1, TrendIs
<1>2. CASE ObservedBefore # {}
  <2>1. PICK now : now = RiskSum(OpenOn(today))
    OBVIOUS
  <2>2. PICK prior : prior = RiskSum(OpenOn(PriorDay))
    OBVIOUS
  <2>3. now \in Nat /\ prior \in Nat
    <3>1. OpenOn(today) \in SUBSET Detections /\ OpenOn(PriorDay) \in SUBSET Detections
      BY ComparedFindings
    <3> QED BY <2>1, <2>2, <3>1, RiskMonotone
  <2>4. TrendScore.measurable
    BY <1>2, TrendIs
  <2>5. TrendScore.score = IF now <= prior THEN 1000
                           ELSE Max({0, 1000 - Percent(now - prior, Max({prior, 1}))})
    BY <1>2, <2>1, <2>2, TrendIs
  <2>6. ASSUME ~(now <= prior) PROVE Max({0, 1000 - Percent(now - prior, Max({prior, 1}))}) \in 0..1000
    <3>1. PICK m : m = Max({prior, 1})
      OBVIOUS
    <3>2. m \in Nat \ {0}
      BY <2>3, <3>1, MaxOfTwo
    <3>3. PICK e \in Nat : e = now - prior
      BY <2>3, <2>6
    <3>4. PICK c \in Nat : c = Percent(e, m)
      BY <3>2, PercentRange
    <3>5. Max({0, 1000 - c}) = IF 0 >= 1000 - c THEN 0 ELSE 1000 - c
      BY MaxOfTwo
    <3>6. Max({0, 1000 - c}) \in 0..1000
      BY <3>5
    <3> QED BY <3>1, <3>3, <3>4, <3>6
  <2>7. TrendScore.score \in 0..1000
    BY <2>5, <2>6
  <2> QED BY <1>2, <2>4, <2>7
<1> QED BY <1>1, <1>2

Four == {"findings", "sla", "coverage", "fp_rate"}

\* The sum over the components that are always measured, and over all.
LEMMA SumOfComponents ==
  ASSUME NEW v, v["findings"] \in Nat, v["sla"] \in Nat, v["coverage"] \in Nat, v["fp_rate"] \in Nat
  PROVE  /\ SumFunctionOnSet(v, Four) = v["findings"] + v["sla"] + v["coverage"] + v["fp_rate"]
         /\ v["trend"] \in Nat =>
              SumFunctionOnSet(v, Four \cup {"trend"}) =
                v["findings"] + v["sla"] + v["coverage"] + v["fp_rate"] + v["trend"]
<1> DEFINE A == {"findings"}
           B == A \cup {"sla"}
           C == B \cup {"coverage"}
           D == C \cup {"fp_rate"}
<1>1. D = Four /\ A = {} \cup {"findings"}
  BY DEF Four
<1>2. IsFiniteSet({}) /\ IsFiniteSet(A) /\ IsFiniteSet(B) /\ IsFiniteSet(C) /\ IsFiniteSet(D)
  <2>1. IsFiniteSet(A)
    BY FS_Singleton
  <2>2. IsFiniteSet(B)
    BY <2>1, FS_AddElement
  <2>3. IsFiniteSet(C)
    BY <2>2, FS_AddElement
  <2> QED BY <2>1, <2>2, <2>3, FS_AddElement, FS_EmptySet
<1>3. SumFunctionOnSet(v, A) = v["findings"]
  <2>1. "findings" \notin {} /\ \A y \in {} \cup {"findings"} : v[y] \in Nat
    OBVIOUS
  <2>2. SumFunctionOnSet(v, {} \cup {"findings"}) = SumFunctionOnSet(v, {}) + v["findings"]
    BY <1>2, <2>1, SumOfMore
  <2> QED BY <1>1, <2>2, SumOfNone
<1>4. SumFunctionOnSet(v, B) = SumFunctionOnSet(v, A) + v["sla"]
  <2>1. "sla" \notin A /\ \A y \in A \cup {"sla"} : v[y] \in Nat
    OBVIOUS
  <2> QED BY <1>2, <2>1, SumOfMore
<1>5. SumFunctionOnSet(v, C) = SumFunctionOnSet(v, B) + v["coverage"]
  <2>1. "coverage" \notin B /\ \A y \in B \cup {"coverage"} : v[y] \in Nat
    OBVIOUS
  <2> HIDE DEF A, B
  <2> QED BY <1>2, <2>1, SumOfMore
<1>6. SumFunctionOnSet(v, D) = SumFunctionOnSet(v, C) + v["fp_rate"]
  <2>1. "fp_rate" \notin C /\ \A y \in C \cup {"fp_rate"} : v[y] \in Nat
    OBVIOUS
  <2> HIDE DEF A, B, C
  <2> QED BY <1>2, <2>1, SumOfMore
<1>7. ASSUME v["trend"] \in Nat
      PROVE  SumFunctionOnSet(v, D \cup {"trend"}) = SumFunctionOnSet(v, D) + v["trend"]
  <2>1. "trend" \notin D /\ \A y \in D \cup {"trend"} : v[y] \in Nat
    BY <1>7
  <2> HIDE DEF A, B, C, D
  <2> QED BY <1>2, <2>1, SumOfMore
<1> HIDE DEF A, B, C, D
<1> QED BY <1>1, <1>3, <1>4, <1>5, <1>6, <1>7

\* A score in tenths, and the rounded means with the weights of the four and
\* of the five.
Full == 1000
Tenths == 0..Full
MeanOfFour(a, b, c, d) == (2 * (a * 35 + b * 25 + c * 15 + d * 10) + 85) \div 170
MeanOfFive(a, b, c, d, e) == (2 * (a * 35 + b * 25 + c * 15 + d * 10 + e * 15) + 100) \div 200

LEMMA FourMean ==
  ASSUME NEW a \in Tenths, NEW b \in Tenths, NEW c \in Tenths, NEW d \in Tenths
  PROVE  LET m == MeanOfFour(a, b, c, d)
         IN  /\ a <= m \/ b <= m \/ c <= m \/ d <= m
             /\ m <= a \/ m <= b \/ m <= c \/ m <= d
             /\ a = Full /\ b = Full /\ c = Full /\ d = Full => m = Full
BY DEF MeanOfFour, Tenths, Full

LEMMA FiveMean ==
  ASSUME NEW a \in Tenths, NEW b \in Tenths, NEW c \in Tenths, NEW d \in Tenths, NEW e \in Tenths
  PROVE  LET m == MeanOfFive(a, b, c, d, e)
         IN  /\ a <= m \/ b <= m \/ c <= m \/ d <= m \/ e <= m
             /\ m <= a \/ m <= b \/ m <= c \/ m <= d \/ m <= e
             /\ a = Full /\ b = Full /\ c = Full /\ d = Full /\ e = Full => m = Full
BY DEF MeanOfFive, Tenths, Full

\* The trend is measured when some target has a past.
LEMMA MeasuredIs ==
  ASSUME EstateType
  PROVE  Measured = IF ObservedBefore = {} THEN Four ELSE Four \cup {"trend"}
<1>1. DOMAIN ComponentWeight = Four \cup {"trend"} /\ "trend" \notin Four
  BY DEF ComponentWeight, Four
<1>2. TrendScore.measurable <=> ObservedBefore # {}
  BY TrendRange
<1> QED BY <1>1, <1>2 DEF Measured

LEMMA ComponentIs ==
  /\ Component["findings"] = FindingsScore /\ Component["sla"] = SlaScore
  /\ Component["coverage"] = CoverageScore /\ Component["fp_rate"] = FpRateScore
  /\ Component["trend"] = TrendScore.score
<1>1. ASSUME NEW a, NEW b, NEW c, NEW d, NEW e,
             Component = [findings |-> a, sla |-> b, coverage |-> c, fp_rate |-> d, trend |-> e]
      PROVE  /\ Component["findings"] = a /\ Component["sla"] = b /\ Component["coverage"] = c
             /\ Component["fp_rate"] = d /\ Component["trend"] = e
  BY <1>1
<1> QED BY <1>1 DEF Component

LEMMA ComponentWeightIs ==
  /\ ComponentWeight["findings"] = 35 /\ ComponentWeight["sla"] = 25
  /\ ComponentWeight["coverage"] = 15 /\ ComponentWeight["fp_rate"] = 10
  /\ ComponentWeight["trend"] = 15
BY DEF ComponentWeight

\* The mean of the four, and of the five when there is a past.
LEMMA CompositeIs ==
  ASSUME EstateType, InScope # {},
         NEW a \in Tenths, a = Component["findings"], NEW b \in Tenths, b = Component["sla"],
         NEW c \in Tenths, c = Component["coverage"], NEW d \in Tenths, d = Component["fp_rate"],
         NEW e \in Tenths, e = Component["trend"]
  PROVE  /\ ObservedBefore = {} => Composite = MeanOfFour(a, b, c, d)
         /\ ObservedBefore # {} => Composite = MeanOfFive(a, b, c, d, e)
<1> DEFINE v == [x \in Measured |-> Component[x] * ComponentWeight[x]]
<1>1. PICK s : s = SumFunctionOnSet(v, Measured)
  OBVIOUS
<1>2. PICK w : w = SumFunctionOnSet(ComponentWeight, Measured)
  OBVIOUS
<1>3. Composite = (2 * s + w) \div (2 * w)
  BY <1>1, <1>2 DEF Composite, SumFunction
<1>4. Four \subseteq Measured
  BY MeasuredIs
<1>5. v["findings"] = a * 35 /\ v["sla"] = b * 25 /\ v["coverage"] = c * 15 /\ v["fp_rate"] = d * 10
  BY <1>4, ComponentWeightIs DEF Four
<1>6. "trend" \in Measured => v["trend"] = e * 15
  BY ComponentWeightIs
<1> HIDE DEF v
<1>7. a * 35 \in Nat /\ b * 25 \in Nat /\ c * 15 \in Nat /\ d * 10 \in Nat /\ e * 15 \in Nat
  <2>1. \A t \in Tenths : t \in Nat
    BY DEF Tenths, Full
  <2>2. a \in Nat /\ b \in Nat /\ c \in Nat /\ d \in Nat /\ e \in Nat
    BY <2>1
  <2>3. \A i, j \in Nat : i * j \in Nat
    OBVIOUS
  <2> QED BY <2>2, <2>3
<1>8. SumFunctionOnSet(v, Four) = a * 35 + b * 25 + c * 15 + d * 10
  <2>1. v["findings"] \in Nat /\ v["sla"] \in Nat /\ v["coverage"] \in Nat /\ v["fp_rate"] \in Nat
    BY <1>5, <1>7
  <2>2. SumFunctionOnSet(v, Four) = v["findings"] + v["sla"] + v["coverage"] + v["fp_rate"]
    BY <2>1, SumOfComponents
  <2> QED BY <1>5, <2>2
<1>9. SumFunctionOnSet(ComponentWeight, Four) = 85
  BY ComponentWeightIs, SumOfComponents
<1>10. SumFunctionOnSet(ComponentWeight, Four \cup {"trend"}) = 100
  <2>1. /\ ComponentWeight["findings"] \in Nat /\ ComponentWeight["sla"] \in Nat
        /\ ComponentWeight["coverage"] \in Nat /\ ComponentWeight["fp_rate"] \in Nat
        /\ ComponentWeight["trend"] \in Nat
    BY ComponentWeightIs
  <2>2. SumFunctionOnSet(ComponentWeight, Four \cup {"trend"}) =
          ComponentWeight["findings"] + ComponentWeight["sla"] + ComponentWeight["coverage"]
            + ComponentWeight["fp_rate"] + ComponentWeight["trend"]
    BY <2>1, SumOfComponents
  <2> QED BY <2>2, ComponentWeightIs
<1>11. ASSUME ObservedBefore = {} PROVE Composite = MeanOfFour(a, b, c, d)
  <2>1. Measured = Four
    BY <1>11, MeasuredIs
  <2>2. w = 85 /\ s = a * 35 + b * 25 + c * 15 + d * 10
    BY <1>1, <1>2, <1>8, <1>9, <2>1
  <2> QED BY <1>3, <2>2 DEF MeanOfFour
<1>12. ASSUME ObservedBefore # {} PROVE Composite = MeanOfFive(a, b, c, d, e)
  <2>1. Measured = Four \cup {"trend"}
    BY <1>12, MeasuredIs
  <2>2. v["trend"] = e * 15
    BY <1>6, <2>1
  <2>3. SumFunctionOnSet(v, Four \cup {"trend"}) = a * 35 + b * 25 + c * 15 + d * 10 + e * 15
    <3>1. /\ v["findings"] \in Nat /\ v["sla"] \in Nat /\ v["coverage"] \in Nat
          /\ v["fp_rate"] \in Nat /\ v["trend"] \in Nat
      BY <1>5, <1>7, <2>2
    <3>2. SumFunctionOnSet(v, Four \cup {"trend"}) =
            v["findings"] + v["sla"] + v["coverage"] + v["fp_rate"] + v["trend"]
      BY <3>1, SumOfComponents
    <3> QED BY <1>5, <2>2, <3>2
  <2>4. w = 100 /\ s = a * 35 + b * 25 + c * 15 + d * 10 + e * 15
    BY <1>1, <1>2, <1>10, <2>1, <2>3
  <2> QED BY <1>3, <2>4 DEF MeanOfFive
<1> QED BY <1>11, <1>12

LEMMA ScoresOfEstate == EstateType => CompositeIsMean
<1> SUFFICES ASSUME EstateType, InScope # {} PROVE CompositeIsMean
  BY DEF CompositeIsMean
<1> DEFINE known == {c \in DOMAIN ComponentWeight :
                       c = "trend" =>
                         \E t \in InScope :
                           \/ \E d \in owned[t].scans : d <= PriorDay
                           \/ \E f \in ScopedFindings :
                                OnTarget[f] = t /\ detected[f].firstSeen <= PriorDay}
           Bounds == /\ \E c \in known : Component[c] <= Composite
                     /\ \E c \in known : Composite <= Component[c]
                     /\ (\A c \in known : Component[c] = 1000) => Composite = 1000
<1>1. SUFFICES Bounds
  BY DEF CompositeIsMean
<1>2. known = IF ObservedBefore = {} THEN Four ELSE Four \cup {"trend"}
  <2>1. DOMAIN ComponentWeight = Four \cup {"trend"} /\ "trend" \notin Four
    BY DEF ComponentWeight, Four
  <2>2. ObservedBefore # {} <=>
          \E t \in InScope :
            \/ \E d \in owned[t].scans : d <= PriorDay
            \/ \E f \in ScopedFindings : OnTarget[f] = t /\ detected[f].firstSeen <= PriorDay
    BY DEF ObservedBefore
  <2> QED BY <2>1, <2>2
<1> HIDE DEF known
<1>3. PICK a \in Tenths : a = Component["findings"]
  BY FindingsRange, ComponentIs DEF Tenths, Full
<1>4. PICK b \in Tenths : b = Component["sla"]
  BY SlaRange, ComponentIs DEF Tenths, Full
<1>5. PICK c \in Tenths : c = Component["coverage"]
  BY CoverageRange, ComponentIs DEF Tenths, Full
<1>6. PICK d \in Tenths : d = Component["fp_rate"]
  BY FpRateRange, ComponentIs DEF Tenths, Full
<1>7. PICK e \in Tenths : e = Component["trend"]
  <2>1. TrendScore.score \in Tenths
    <3>1. TrendScore.score \in 0..1000
      BY TrendRange
    <3> QED BY <3>1 DEF Tenths, Full
  <2> QED BY <2>1, ComponentIs
<1>8. PICK m : m = Composite
  OBVIOUS
<1>9. CASE ObservedBefore = {}
  <2>1. known = {"findings", "sla", "coverage", "fp_rate"}
    BY <1>2, <1>9 DEF Four
  <2>2. m = MeanOfFour(a, b, c, d)
    BY <1>3, <1>4, <1>5, <1>6, <1>7, <1>8, <1>9, CompositeIs
  <2>3. /\ a <= m \/ b <= m \/ c <= m \/ d <= m
        /\ m <= a \/ m <= b \/ m <= c \/ m <= d
        /\ a = Full /\ b = Full /\ c = Full /\ d = Full => m = Full
    BY <2>2, FourMean
  <2>4. \E x \in known : Component[x] <= Composite
    BY <1>3, <1>4, <1>5, <1>6, <1>8, <2>1, <2>3
  <2>5. \E x \in known : Composite <= Component[x]
    BY <1>3, <1>4, <1>5, <1>6, <1>8, <2>1, <2>3
  <2>6. (\A x \in known : Component[x] = 1000) => Composite = 1000
    BY <1>3, <1>4, <1>5, <1>6, <1>8, <2>1, <2>3 DEF Full
  <2> QED BY <2>4, <2>5, <2>6
<1>10. CASE ObservedBefore # {}
  <2>1. known = {"findings", "sla", "coverage", "fp_rate", "trend"}
    BY <1>2, <1>10 DEF Four
  <2>2. m = MeanOfFive(a, b, c, d, e)
    BY <1>3, <1>4, <1>5, <1>6, <1>7, <1>8, <1>10, CompositeIs
  <2>3. /\ a <= m \/ b <= m \/ c <= m \/ d <= m \/ e <= m
        /\ m <= a \/ m <= b \/ m <= c \/ m <= d \/ m <= e
        /\ a = Full /\ b = Full /\ c = Full /\ d = Full /\ e = Full => m = Full
    BY <2>2, FiveMean
  <2>4. \E x \in known : Component[x] <= Composite
    BY <1>3, <1>4, <1>5, <1>6, <1>7, <1>8, <2>1, <2>3
  <2>5. \E x \in known : Composite <= Component[x]
    BY <1>3, <1>4, <1>5, <1>6, <1>7, <1>8, <2>1, <2>3
  <2>6. (\A x \in known : Component[x] = 1000) => Composite = 1000
    BY <1>3, <1>4, <1>5, <1>6, <1>7, <1>8, <2>1, <2>3 DEF Full
  <2> QED BY <2>4, <2>5, <2>6
<1> QED BY <1>9, <1>10

(* The composite lies between the worst and the best of the components that
   were measured, and is 100 when they all are, on every day of every estate
   (compute_security_score). *)
THEOREM CompositeIsAMean == EstateSpec => []CompositeIsMean
<1>1. AuditTrail => CompositeIsMean
  BY ScoresOfEstate DEF AuditTrail
<1> QED BY <1>1, TrailTellsState, PTL
=============================================================================
