----------------------------- MODULE FoldLemmas -----------------------------
EXTENDS Integers, FiniteSetsExt, FiniteSetTheorems, WellFoundedInduction, TLAPS

(* Induction over a finite set, with the property given as the set Q. *)
LEMMA SubsetInduction ==
  ASSUME NEW S, IsFiniteSet(S), NEW Q,
         \A T \in SUBSET S : (\A U \in SUBSET T : U # T => U \in Q) => T \in Q
  PROVE  \A T \in SUBSET S : T \in Q
<1> DEFINE R == StrictSubsetOrdering(S)
           Bad == {T \in SUBSET S : T \notin Q}
<1>1. IsWellFoundedOn(R, SUBSET S)
  BY FS_StrictSubsetOrderingWellFounded, FS_FiniteSubsetsOfFinite
<1>2. SUFFICES ASSUME Bad # {} PROVE FALSE
  OBVIOUS
<1>3. Bad \subseteq SUBSET S
  OBVIOUS
<1>4. PICK M \in Bad : \A U \in Bad : <<U, M>> \notin R
  <2> HIDE DEF R, Bad
  <2> QED BY <1>1, <1>2, <1>3, WFMin
<1>5. \A U \in SUBSET M : U # M => U \in Q
  BY <1>4 DEF StrictSubsetOrdering
<1>6. QED
  BY <1>4, <1>5

(* Induction over the naturals. *)
LEMMA NatSetInduction ==
  ASSUME NEW Q, 0 \in Q, \A n \in Nat : n \in Q => n + 1 \in Q
  PROVE  \A n \in Nat : n \in Q
<1> DEFINE R == OpToRel(<, Nat)
           Bad == {n \in Nat : n \notin Q}
<1>1. IsWellFoundedOn(R, Nat)
  BY NatLessThanWellFounded
<1>2. SUFFICES ASSUME Bad # {} PROVE FALSE
  OBVIOUS
<1>4. PICK m \in Bad : \A n \in Bad : <<n, m>> \notin R
  <2>1. Bad \subseteq Nat
    OBVIOUS
  <2> HIDE DEF R, Bad
  <2> QED BY <1>1, <1>2, <2>1, WFMin
<1>5. \A n \in Bad : ~(n < m)
  BY <1>4 DEF OpToRel
<1>6. m \in Nat /\ m # 0 /\ m - 1 \in Nat
  <2> HIDE DEF R
  <2> QED OBVIOUS
<1>7. m - 1 \in Q
  BY <1>5, <1>6
<1>8. (m - 1) + 1 = m
  BY <1>6
<1>9. QED
  BY <1>4, <1>6, <1>7, <1>8

(* g is the recursion over the subsets of S that takes pick[T] out of T. *)
IsFold(g, S, base, step, pick) ==
  \A T \in SUBSET S :
    g[T] = IF T = {} THEN base ELSE step[<<pick[T], g[T \ {pick[T]}]>>]

Picks(pick, S) == \A T \in SUBSET S : T # {} => pick[T] \in T

(* A recursion over the subsets of a finite set has a solution. *)
LEMMA FoldExists ==
  ASSUME NEW S, IsFiniteSet(S), NEW V, NEW base \in V, NEW step \in [S \X V -> V],
         NEW pick, Picks(pick, S)
  PROVE  \E g \in [SUBSET S -> V] : IsFold(g, S, base, step, pick)
<1> DEFINE Next(g, T) == IF T = {} THEN base ELSE step[<<pick[T], g[T \ {pick[T]}]>>]
           Upto(n) == \E g \in [SUBSET S -> V] :
                         \A T \in SUBSET S : Cardinality(T) <= n => g[T] = Next(g, T)
           Q == {n \in Nat : Upto(n)}
<1>1. \A T \in SUBSET S : Cardinality(T) \in Nat /\ (Cardinality(T) = 0 <=> T = {})
  BY FS_Subset, FS_CardinalityType, FS_EmptySet
<1>2. \A T \in SUBSET S : T # {} =>
        /\ T \ {pick[T]} \in SUBSET S
        /\ Cardinality(T \ {pick[T]}) = Cardinality(T) - 1
  <2>1. \A T \in SUBSET S : T # {} => pick[T] \in T
    BY DEF Picks
  <2> QED BY <2>1, FS_Subset, FS_RemoveElement
<1>3. \A g \in [SUBSET S -> V], T \in SUBSET S : Next(g, T) \in V
  <2>1. \A T \in SUBSET S : T # {} => pick[T] \in S
    BY DEF Picks
  <2> QED BY <1>2, <2>1
<1>4. 0 \in Q
  <2> DEFINE g == [T \in SUBSET S |-> base]
  <2>1. g \in [SUBSET S -> V] /\ \A T \in SUBSET S : Cardinality(T) <= 0 => g[T] = Next(g, T)
    BY <1>1
  <2> HIDE DEF g, Next
  <2>2. QED
    BY <2>1
<1>5. ASSUME NEW n \in Nat, n \in Q PROVE n + 1 \in Q
  <2>1. PICK g \in [SUBSET S -> V] :
          \A T \in SUBSET S : Cardinality(T) <= n => g[T] = Next(g, T)
    BY <1>5
  <2> DEFINE h == [T \in SUBSET S |-> IF Cardinality(T) <= n THEN g[T] ELSE Next(g, T)]
  <2>2. h \in [SUBSET S -> V]
    <3> HIDE DEF Next
    <3> QED BY <1>3
  <2>3. ASSUME NEW T \in SUBSET S, Cardinality(T) <= n + 1
        PROVE  h[T] = Next(h, T)
    <3>1. h[T] = Next(g, T)
      <4> HIDE DEF Next
      <4> QED BY <2>1
    <3>2. CASE T = {}
      BY <3>1, <3>2
    <3>3. CASE T # {}
      <4>1. h[T \ {pick[T]}] = g[T \ {pick[T]}]
        <5>1. Cardinality(T \ {pick[T]}) <= n /\ T \ {pick[T]} \in SUBSET S
          BY <1>1, <1>2, <2>3, <3>3
        <5> HIDE DEF Next
        <5>2. QED
          BY <5>1
      <4> HIDE DEF h
      <4>2. QED
        BY <3>1, <4>1
    <3>4. QED
      BY <3>2, <3>3
  <2> HIDE DEF h, Next
  <2>4. Upto(n + 1)
    BY <2>2, <2>3
  <2>5. QED
    BY <2>4
<1>6. Cardinality(S) \in Q
  <2>1. Cardinality(S) \in Nat
    BY FS_CardinalityType
  <2> HIDE DEF Q
  <2>2. QED
    BY <1>4, <1>5, <2>1, NatSetInduction
<1>7. PICK g \in [SUBSET S -> V] :
        \A T \in SUBSET S : Cardinality(T) <= Cardinality(S) => g[T] = Next(g, T)
  BY <1>6
<1>8. \A T \in SUBSET S : Cardinality(T) <= Cardinality(S)
  BY FS_Subset
<1>9. QED
  BY <1>7, <1>8 DEF IsFold

(* It has one only. *)
LEMMA FoldUnique ==
  ASSUME NEW S, IsFiniteSet(S), NEW base, NEW step,
         NEW pick, Picks(pick, S),
         NEW g, IsFold(g, S, base, step, pick), NEW h, IsFold(h, S, base, step, pick)
  PROVE  \A T \in SUBSET S : g[T] = h[T]
<1> DEFINE Q == {T \in SUBSET S : g[T] = h[T]}
<1>1. ASSUME NEW T \in SUBSET S, \A U \in SUBSET T : U # T => U \in Q
      PROVE  T \in Q
  <2>1. CASE T = {}
    BY <2>1 DEF IsFold
  <2>2. CASE T # {}
    <3>1. T \ {pick[T]} \in SUBSET T /\ T \ {pick[T]} # T
      BY <2>2 DEF Picks
    <3>2. g[T \ {pick[T]}] = h[T \ {pick[T]}]
      BY <1>1, <3>1
    <3>3. QED
      BY <2>2, <3>2 DEF IsFold
  <2>3. QED
    BY <2>1, <2>2
<1>2. \A T \in SUBSET S : T \in Q
  <2> HIDE DEF Q
  <2> QED BY <1>1, SubsetInduction
<1>3. QED
  BY <1>2

-----------------------------------------------------------------------------
(* Sums. *)

Any(T) == CHOOSE x \in T : TRUE

(* A sum over the subsets of S is a recursion of this kind. *)
LEMMA SumIsFold ==
  ASSUME NEW S, IsFiniteSet(S), NEW F, \A x \in S : F[x] \in Int
  PROVE  \A T \in SUBSET S :
           /\ SumFunctionOnSet(F, T) \in Int
           /\ T = {} => SumFunctionOnSet(F, T) = 0
           /\ T # {} => SumFunctionOnSet(F, T) =
                          F[Any(T)] + SumFunctionOnSet(F, T \ {Any(T)})
<1> DEFINE pick == [T \in SUBSET S |-> Any(T)]
           step == [p \in S \X Int |-> F[p[1]] + p[2]]
<1>1. \A T \in SUBSET S : T # {} => Any(T) \in T /\ pick[T] = Any(T)
  BY DEF Any
<1>2. step \in [S \X Int -> Int]
  OBVIOUS
<1>3. PICK g \in [SUBSET S -> Int] : IsFold(g, S, 0, step, pick)
  <2> HIDE DEF pick, step
  <2>1. 0 \in Int /\ Picks(pick, S)
    BY <1>1 DEF Picks
  <2> QED BY <1>2, <2>1, FoldExists, ZenonT(30)
<1>4. \A T \in SUBSET S : g[T] = IF T = {} THEN 0 ELSE F[Any(T)] + g[T \ {Any(T)}]
  <2> SUFFICES ASSUME NEW T \in SUBSET S, T # {}
               PROVE  g[T] = F[Any(T)] + g[T \ {Any(T)}]
    BY <1>3 DEF IsFold
  <2>1. Any(T) \in S /\ g[T \ {Any(T)}] \in Int
    BY <1>1
  <2>2. g[T] = step[<<Any(T), g[T \ {Any(T)}]>>]
    BY <1>1, <1>3 DEF IsFold
  <2>3. QED
    BY <2>1, <2>2
<1> HIDE DEF pick, step
<1>5. ASSUME NEW T \in SUBSET S PROVE SumFunctionOnSet(F, T) = g[T]
  <2> DEFINE Body(it) == [s \in SUBSET T |-> IF s = {} THEN 0 ELSE F[Any(s)] + it[s \ {Any(s)}]]
             iter == CHOOSE it : it = Body(it)
             gT == [s \in SUBSET T |-> g[s]]
  <2>1. SumFunctionOnSet(F, T) = iter[T]
    BY DEF SumFunctionOnSet, FoldFunctionOnSet, MapThenFoldSet, Any
  <2>2. gT = Body(gT)
    <3>1. \A s \in SUBSET T : gT[s] = IF s = {} THEN 0 ELSE F[Any(s)] + gT[s \ {Any(s)}]
      BY <1>4
    <3> HIDE DEF gT
    <3>2. QED
      BY <3>1 DEF gT
  <2>3. iter = Body(iter)
    <3> HIDE DEF Body, gT
    <3> QED BY <2>2
  <2>4. \A s \in SUBSET T : iter[s] = IF s = {} THEN 0 ELSE F[Any(s)] + iter[s \ {Any(s)}]
    <3> HIDE DEF iter
    <3> QED BY <2>3
  <2> DEFINE Q == {s \in SUBSET T : iter[s] = g[s]}
  <2>5. ASSUME NEW s \in SUBSET T, \A u \in SUBSET s : u # s => u \in Q
        PROVE  s \in Q
    <3> HIDE DEF iter
    <3>1. CASE s = {}
      BY <1>4, <2>4, <3>1
    <3>2. CASE s # {}
      <4>1. s \ {Any(s)} \in SUBSET s /\ s \ {Any(s)} # s
        BY <3>2 DEF Any
      <4>2. iter[s \ {Any(s)}] = g[s \ {Any(s)}]
        BY <2>5, <4>1
      <4>3. QED
        BY <1>4, <2>4, <3>2, <4>2
    <3>3. QED
      BY <3>1, <3>2
  <2>6. IsFiniteSet(T)
    BY FS_Subset
  <2>7. \A s \in SUBSET T : s \in Q
    <3> HIDE DEF Q
    <3> QED BY <2>5, <2>6, SubsetInduction
  <2>8. QED
    BY <2>1, <2>7
<1>6. QED
  <2> SUFFICES ASSUME NEW T \in SUBSET S
               PROVE  /\ SumFunctionOnSet(F, T) \in Int
                      /\ T = {} => SumFunctionOnSet(F, T) = 0
                      /\ T # {} => SumFunctionOnSet(F, T) =
                                     F[Any(T)] + SumFunctionOnSet(F, T \ {Any(T)})
    OBVIOUS
  <2>1. T \ {Any(T)} \in SUBSET S
    OBVIOUS
  <2>2. SumFunctionOnSet(F, T) = g[T] /\ SumFunctionOnSet(F, T \ {Any(T)}) = g[T \ {Any(T)}]
    BY <1>5, <2>1
  <2>3. g[T] \in Int
    OBVIOUS
  <2>4. /\ T = {} => g[T] = 0
        /\ T # {} => g[T] = F[Any(T)] + g[T \ {Any(T)}]
    BY <1>4
  <2>5. QED
    BY <2>2, <2>3, <2>4, Zenon

LEMMA SumEmpty == ASSUME NEW F PROVE SumFunctionOnSet(F, {}) = 0
BY FS_EmptySet, SumIsFold

(* The order of the addends does not matter. *)
LEMMA SumSplit ==
  ASSUME NEW S, IsFiniteSet(S), NEW F, \A x \in S : F[x] \in Int, NEW x \in S
  PROVE  SumFunctionOnSet(F, S) = F[x] + SumFunctionOnSet(F, S \ {x})
<1> DEFINE sm == [T \in SUBSET S |-> SumFunctionOnSet(F, T)]
           Q == {T \in SUBSET S : \A y \in T : sm[T] = F[y] + sm[T \ {y}]}
<1>1. \A T \in SUBSET S : sm[T] \in Int /\ (T # {} => sm[T] = F[Any(T)] + sm[T \ {Any(T)}])
  <2> SUFFICES ASSUME NEW T \in SUBSET S
               PROVE  sm[T] \in Int /\ (T # {} => sm[T] = F[Any(T)] + sm[T \ {Any(T)}])
    OBVIOUS
  <2>1. sm[T] = SumFunctionOnSet(F, T)
    OBVIOUS
  <2>2. sm[T \ {Any(T)}] = SumFunctionOnSet(F, T \ {Any(T)})
    OBVIOUS
  <2>3. /\ SumFunctionOnSet(F, T) \in Int
        /\ T # {} => SumFunctionOnSet(F, T) =
                        F[Any(T)] + SumFunctionOnSet(F, T \ {Any(T)})
    <3> HIDE DEF sm, Q
    <3>1. \A U \in SUBSET S :
           /\ SumFunctionOnSet(F, U) \in Int
           /\ U = {} => SumFunctionOnSet(F, U) = 0
           /\ U # {} => SumFunctionOnSet(F, U) =
                          F[Any(U)] + SumFunctionOnSet(F, U \ {Any(U)})
      BY SumIsFold, Zenon
    <3> QED BY <3>1, Zenon
  <2> HIDE DEF sm
  <2>4. QED
    BY <2>1, <2>2, <2>3, Zenon
<1> HIDE DEF sm
<1>2. ASSUME NEW T \in SUBSET S, \A U \in SUBSET T : U # T => U \in Q
      PROVE  T \in Q
  <2> SUFFICES ASSUME NEW y \in T PROVE sm[T] = F[y] + sm[T \ {y}]
    OBVIOUS
  <2> DEFINE c == Any(T)
  <2>1. c \in T
    BY DEF Any
  <2>2. sm[T] = F[c] + sm[T \ {c}]
    BY <1>1
  <2> HIDE DEF c
  <2>3. CASE y = c
    BY <2>2, <2>3
  <2>4. CASE y # c
    <3>1. sm[T \ {c}] = F[y] + sm[(T \ {c}) \ {y}]
      BY <1>2, <2>1, <2>4
    <3>2. sm[T \ {y}] = F[c] + sm[(T \ {y}) \ {c}]
      BY <1>2, <2>1, <2>4
    <3>3. (T \ {c}) \ {y} = (T \ {y}) \ {c}
      OBVIOUS
    <3>4. F[c] \in Int /\ F[y] \in Int /\ sm[(T \ {c}) \ {y}] \in Int
      BY <1>1, <2>1
    <3>5. \A a, b, d \in Int : a + (b + d) = b + (a + d)
      OBVIOUS
    <3>6. sm[T] = F[c] + (F[y] + sm[(T \ {c}) \ {y}])
      BY <2>2, <3>1, Zenon
    <3>7. sm[T] = F[y] + (F[c] + sm[(T \ {c}) \ {y}])
      BY <3>4, <3>5, <3>6, Zenon
    <3>8. QED
      BY <3>2, <3>3, <3>7, Zenon
  <2>5. QED
    BY <2>3, <2>4
<1>3. \A T \in SUBSET S : T \in Q
  <2> HIDE DEF Q
  <2> QED BY <1>2, SubsetInduction
<1>4. S \in Q
  <2> HIDE DEF Q
  <2> QED BY <1>3
<1>5. sm[S] = F[x] + sm[S \ {x}]
  BY <1>4
<1>6. QED
  BY <1>5 DEF sm

LEMMA SumType ==
  ASSUME NEW S, IsFiniteSet(S), NEW F, \A x \in S : F[x] \in Int
  PROVE  SumFunctionOnSet(F, S) \in Int
BY SumIsFold

LEMMA SumInsert ==
  ASSUME NEW S, IsFiniteSet(S), NEW F, NEW x, x \notin S,
         \A y \in S \cup {x} : F[y] \in Int
  PROVE  SumFunctionOnSet(F, S \cup {x}) = F[x] + SumFunctionOnSet(F, S)
<1>1. IsFiniteSet(S \cup {x})
  BY FS_AddElement
<1>2. (S \cup {x}) \ {x} = S /\ x \in S \cup {x}
  OBVIOUS
<1>3. SumFunctionOnSet(F, S \cup {x}) = F[x] + SumFunctionOnSet(F, (S \cup {x}) \ {x})
  BY <1>1, <1>2, SumSplit, Zenon
<1>4. QED
  BY <1>2, <1>3, Zenon

(* A sum depends on the values at the indices only. *)
LEMMA SumCongruence ==
  ASSUME NEW S, IsFiniteSet(S), NEW F, NEW G,
         \A x \in S : F[x] \in Int /\ F[x] = G[x]
  PROVE  SumFunctionOnSet(F, S) = SumFunctionOnSet(G, S)
<1> DEFINE Q == {T \in SUBSET S : SumFunctionOnSet(F, T) = SumFunctionOnSet(G, T)}
<1>1. ASSUME NEW T \in SUBSET S, \A U \in SUBSET T : U # T => U \in Q
      PROVE  T \in Q
  <2>1. CASE T = {}
    BY <2>1, SumEmpty
  <2>2. CASE T # {}
    <3>1. PICK x \in T : TRUE
      BY <2>2
    <3>2. T \ {x} \in SUBSET T /\ T \ {x} # T
      BY <3>1
    <3>3. SumFunctionOnSet(F, T \ {x}) = SumFunctionOnSet(G, T \ {x})
      BY <1>1, <3>2
    <3>4. IsFiniteSet(T) /\ (\A y \in T : F[y] \in Int) /\ (\A y \in T : G[y] \in Int)
      BY FS_Subset
    <3> HIDE DEF Q
    <3>5. SumFunctionOnSet(F, T) = F[x] + SumFunctionOnSet(F, T \ {x})
      BY <3>1, <3>4, SumSplit, Zenon
    <3>6. SumFunctionOnSet(G, T) = G[x] + SumFunctionOnSet(G, T \ {x})
      BY <3>1, <3>4, SumSplit, Zenon
    <3>7. F[x] = G[x]
      BY <3>1
    <3>8. QED
      BY <3>3, <3>5, <3>6, <3>7, Zenon DEF Q
  <2>3. QED
    BY <2>1, <2>2
<1>2. \A T \in SUBSET S : T \in Q
  <2> HIDE DEF Q
  <2> QED BY <1>1, SubsetInduction
<1>3. S \in Q
  <2> HIDE DEF Q
  <2> QED BY <1>2
<1>4. QED
  BY <1>3

(* Natural addends: a part is at most the whole. *)
LEMMA SumNonNegative ==
  ASSUME NEW S, IsFiniteSet(S), NEW F, \A x \in S : F[x] \in Nat
  PROVE  SumFunctionOnSet(F, S) \in Nat
<1> DEFINE Q == {T \in SUBSET S : SumFunctionOnSet(F, T) \in Nat}
<1>1. ASSUME NEW T \in SUBSET S, \A U \in SUBSET T : U # T => U \in Q
      PROVE  T \in Q
  <2>1. CASE T = {}
    BY <2>1, SumEmpty
  <2>2. CASE T # {}
    <3>1. PICK x \in T : TRUE
      BY <2>2
    <3>2. T \ {x} \in SUBSET T /\ T \ {x} # T
      BY <3>1
    <3>3. SumFunctionOnSet(F, T \ {x}) \in Nat
      BY <1>1, <3>2
    <3>4. IsFiniteSet(T) /\ \A y \in T : F[y] \in Int
      BY FS_Subset
    <3>5. SumFunctionOnSet(F, T) = F[x] + SumFunctionOnSet(F, T \ {x})
      <4> HIDE DEF Q
      <4> QED BY <3>1, <3>4, SumSplit, Zenon
    <3>6. F[x] \in Nat
      BY <3>1
    <3>7. \A a, b \in Nat : a + b \in Nat
      OBVIOUS
    <3>8. SumFunctionOnSet(F, T) \in Nat
      BY <3>3, <3>5, <3>6, <3>7, Zenon
    <3>9. QED
      BY <3>8
  <2>3. QED
    BY <2>1, <2>2
<1>2. \A T \in SUBSET S : T \in Q
  <2> HIDE DEF Q
  <2> QED BY <1>1, SubsetInduction
<1>3. S \in Q
  <2> HIDE DEF Q
  <2> QED BY <1>2
<1>4. QED
  BY <1>3

LEMMA SumMonotone ==
  ASSUME NEW S, IsFiniteSet(S), NEW F, \A x \in S : F[x] \in Nat,
         NEW P \in SUBSET S
  PROVE  SumFunctionOnSet(F, P) <= SumFunctionOnSet(F, S)
<1> DEFINE Q == {T \in SUBSET S : P \subseteq T =>
                    SumFunctionOnSet(F, P) <= SumFunctionOnSet(F, T)}
<1>1. ASSUME NEW T \in SUBSET S, \A U \in SUBSET T : U # T => U \in Q
      PROVE  T \in Q
  <2> SUFFICES ASSUME P \subseteq T
               PROVE  SumFunctionOnSet(F, P) <= SumFunctionOnSet(F, T)
    OBVIOUS
  <2>1. IsFiniteSet(T) /\ \A y \in T : F[y] \in Int
    BY FS_Subset
  <2>2. SumFunctionOnSet(F, P) \in Int /\ SumFunctionOnSet(F, T) \in Int
    <3> HIDE DEF Q
    <3>1. IsFiniteSet(P) /\ \A y \in P : F[y] \in Int
      BY FS_Subset
    <3>2. QED
      BY <2>1, <3>1, SumType, Zenon
  <2>3. CASE P = T
    BY <2>2, <2>3
  <2>4. CASE P # T
    <3>1. PICK x \in T : x \notin P
      BY <2>4
    <3>2. T \ {x} \in SUBSET T /\ T \ {x} # T /\ P \subseteq T \ {x} /\ T \ {x} \in SUBSET S
      BY <3>1
    <3>3. SumFunctionOnSet(F, P) <= SumFunctionOnSet(F, T \ {x})
      BY <1>1, <3>2
    <3>4. IsFiniteSet(T \ {x}) /\ \A y \in T \ {x} : F[y] \in Int
      BY <3>2, FS_Subset
    <3> HIDE DEF Q
    <3>5. SumFunctionOnSet(F, T) = F[x] + SumFunctionOnSet(F, T \ {x})
      BY <2>1, <3>1, SumSplit, Zenon
    <3>6. SumFunctionOnSet(F, T \ {x}) \in Int
      BY <3>4, SumType, Zenon
    <3>7. F[x] \in Nat
      BY <3>1
    <3>8. \A a, b \in Int, n \in Nat : a <= b => a <= n + b
      OBVIOUS
    <3>9. SumFunctionOnSet(F, P) <= F[x] + SumFunctionOnSet(F, T \ {x})
      BY <2>2, <3>3, <3>6, <3>7, <3>8, Zenon
    <3>10. QED
      BY <3>5, <3>9, Zenon
  <2>5. QED
    BY <2>3, <2>4
<1>2. \A T \in SUBSET S : T \in Q
  <2> HIDE DEF Q
  <2> QED BY <1>1, SubsetInduction
<1>3. S \in Q
  <2> HIDE DEF Q
  <2> QED BY <1>2
<1>4. QED
  BY <1>3
=============================================================================
