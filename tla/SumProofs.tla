------------------------------ MODULE SumProofs ------------------------------
(***************************************************************************)
(* What a sum over a finite set is, whatever the order it is taken in: the *)
(* books of the coins and diamonds are such sums.  SumFunctionOnSet goes   *)
(* through the set by an order of its own, element by element; the proofs  *)
(* take, of the subsets a claim fails for, one that has no smaller, which  *)
(* is induction over a finite set without a higher-order rule.             *)
(***************************************************************************)
EXTENDS Integers, Functions, FiniteSetTheorems, TLAPS

\* The element that a sum over s takes first.
Pick(s) == CHOOSE x \in s : TRUE

\* h is the function by which SumFunctionOnSet goes through the subsets of S.
Iterates(f, S, h) ==
  h = [s \in SUBSET S |-> IF s = {} THEN 0 ELSE f[Pick(s)] + h[s \ {Pick(s)}]]

Iteration(f, S) == CHOOSE h : Iterates(f, S, h)

\* A sum is the last value of the iteration that computes it.
LEMMA SumIsIteration == \A f, S : SumFunctionOnSet(f, S) = Iteration(f, S)[S]
  BY DEF SumFunctionOnSet, FoldFunctionOnSet, MapThenFoldSet, Iteration, Iterates, Pick

\* A set that is not empty has a first element.
LEMMA PickIsIn == \A s : s # {} => Pick(s) \in s
  BY DEF Pick

\* Least counterexamples among the finite subsets of a set.
LEMMA SmallestSubset ==
  ASSUME NEW S, IsFiniteSet(S), NEW F, F \subseteq SUBSET S, F # {}
  PROVE  \E T \in F : \A U \in F : U \subseteq T => U = T
<1>1. IsWellFoundedOn(StrictSubsetOrdering(S), SUBSET S)
  BY FS_FiniteSubsetsOfFinite, FS_StrictSubsetOrderingWellFounded
<1>2. PICK T \in F : \A U \in F : <<U, T>> \notin StrictSubsetOrdering(S)
  BY <1>1, WFMin
<1>3. QED
  BY <1>2 DEF StrictSubsetOrdering

\* Of some numbers up to m, one is the least.
LEMMA LeastOfSome ==
  ASSUME NEW m \in Nat, NEW W, W \subseteq 0 .. m, W # {}
  PROVE  \E k \in W : \A i \in W : i >= k
<1> DEFINE S == 0 .. m
           F == {0 .. k : k \in W}
<1>1. IsFiniteSet(S)
  BY FS_Interval
<1>2. F \subseteq SUBSET S
  OBVIOUS
<1>3. F # {}
  OBVIOUS
<1> HIDE DEF S, F
<1>4. PICK T \in F : \A U \in F : U \subseteq T => U = T
  BY <1>1, <1>2, <1>3, SmallestSubset
<1>5. PICK k \in W : T = 0 .. k
  BY DEF F
<1>6. ASSUME NEW i \in W, ~(i >= k)
      PROVE  FALSE
  <2>1. 0 .. i \in F
    BY DEF F
  <2>2. 0 .. i \subseteq T /\ k \in T /\ k \notin 0 .. i
    BY <1>5, <1>6
  <2>3. QED
    BY <1>4, <2>1, <2>2
<1>7. QED
  BY <1>6

\* The iteration of a set iterates through its subsets as well.
LEMMA IterationRestricts ==
  ASSUME NEW f, NEW S, NEW h, Iterates(f, S, h), NEW T, T \subseteq S
  PROVE  Iterates(f, T, [s \in SUBSET T |-> h[s]])
<1> DEFINE k == [s \in SUBSET T |-> h[s]]
<1>1. ASSUME NEW s \in SUBSET T
      PROVE  k[s] = IF s = {} THEN 0 ELSE f[Pick(s)] + k[s \ {Pick(s)}]
  <2>1. s \in SUBSET S /\ s \ {Pick(s)} \in SUBSET T
    OBVIOUS
  <2>2. h[s] = IF s = {} THEN 0 ELSE f[Pick(s)] + h[s \ {Pick(s)}]
    BY <2>1 DEF Iterates
  <2>3. QED
    BY <2>1, <2>2
<1>2. k = [s \in SUBSET T |-> IF s = {} THEN 0 ELSE f[Pick(s)] + k[s \ {Pick(s)}]]
  BY <1>1
<1>3. QED
  BY <1>2 DEF Iterates

\* There is one iteration of a finite set at most.
LEMMA IterationIsUnique ==
  ASSUME NEW f, NEW S, IsFiniteSet(S), NEW g, Iterates(f, S, g), NEW h, Iterates(f, S, h)
  PROVE  g = h
<1> DEFINE Differing == {s \in SUBSET S : g[s] # h[s]}
<1>1. ASSUME Differing # {}
      PROVE  FALSE
  <2>1. PICK T \in Differing : \A U \in Differing : U \subseteq T => U = T
    <3>1. Differing \subseteq SUBSET S
      OBVIOUS
    <3> HIDE DEF Differing
    <3>2. QED
      BY <1>1, <3>1, SmallestSubset
  <2>2. /\ g[T] = IF T = {} THEN 0 ELSE f[Pick(T)] + g[T \ {Pick(T)}]
        /\ h[T] = IF T = {} THEN 0 ELSE f[Pick(T)] + h[T \ {Pick(T)}]
    BY DEF Iterates
  <2>3. CASE T = {}
    BY <2>2, <2>3
  <2>4. CASE T # {}
    <3>1. T \ {Pick(T)} \in SUBSET S /\ T \ {Pick(T)} # T
      BY <2>4, PickIsIn
    <3>2. g[T \ {Pick(T)}] = h[T \ {Pick(T)}]
      BY <2>1, <3>1
    <3>3. QED
      BY <2>2, <2>4, <3>2
  <2>5. QED
    BY <2>3, <2>4
<1>2. /\ g = [s \in SUBSET S |-> g[s]]
      /\ h = [s \in SUBSET S |-> h[s]]
  BY DEF Iterates
<1>3. QED
  BY <1>1, <1>2

\* There is an iteration of every finite set.
LEMMA IterationExists ==
  ASSUME NEW f, NEW S, IsFiniteSet(S)
  PROVE  \E h : Iterates(f, S, h)
<1> DEFINE Has(T) == \E h : Iterates(f, T, h)
           Lacking == {T \in SUBSET S : ~Has(T)}
<1>1. ASSUME Lacking # {}
      PROVE  FALSE
  <2>1. PICK T \in Lacking : \A U \in Lacking : U \subseteq T => U = T
    <3>1. Lacking \subseteq SUBSET S
      OBVIOUS
    <3> HIDE DEF Lacking
    <3>2. QED
      BY <1>1, <3>1, SmallestSubset
  <2>2. \A U \in SUBSET T : U # T => Iterates(f, U, Iteration(f, U))
    BY <2>1 DEF Iteration
  <2> DEFINE value(U) == Iteration(f, U)[U]
             h == [U \in SUBSET T |-> IF U = {} THEN 0 ELSE f[Pick(U)] + value(U \ {Pick(U)})]
  <2>3. ASSUME NEW U \in SUBSET T, U # T
        PROVE  h[U] = value(U)
    <3> DEFINE V == U \ {Pick(U)}
               k == Iteration(f, U)
    <3>1. k[U] = IF U = {} THEN 0 ELSE f[Pick(U)] + k[V]
      BY <2>2, <2>3 DEF Iterates
    <3>2. CASE U = {}
      BY <3>1, <3>2
    <3>3. CASE U # {}
      <4>1. V \in SUBSET T /\ V # T /\ V \subseteq U
        BY <2>3
      <4>2. IsFiniteSet(V)
        BY <4>1, FS_Subset
      <4>3. Iterates(f, V, [s \in SUBSET V |-> k[s]])
        BY <2>2, <2>3, <4>1, IterationRestricts
      <4>4. Iteration(f, V) = [s \in SUBSET V |-> k[s]]
        BY <2>2, <4>1, <4>2, <4>3, IterationIsUnique
      <4>5. value(V) = k[V]
        BY <4>4
      <4>6. QED
        BY <3>1, <3>3, <4>5
    <3>4. QED
      BY <3>2, <3>3
  <2>4. ASSUME NEW U \in SUBSET T
        PROVE  h[U] = IF U = {} THEN 0 ELSE f[Pick(U)] + h[U \ {Pick(U)}]
    <3>1. CASE U = {}
      BY <3>1
    <3>2. CASE U # {}
      <4>1. U \ {Pick(U)} \in SUBSET T /\ U \ {Pick(U)} # T
        BY <3>2, PickIsIn
      <4>2. h[U \ {Pick(U)}] = value(U \ {Pick(U)})
        BY <2>3, <4>1
      <4>3. QED
        BY <3>2, <4>2
    <3>3. QED
      BY <3>1, <3>2
  <2>5. h = [U \in SUBSET T |-> IF U = {} THEN 0 ELSE f[Pick(U)] + h[U \ {Pick(U)}]]
    BY <2>4
  <2>6. QED
    BY <2>1, <2>5 DEF Iterates
<1>2. QED
  BY <1>1

\* A sum is its first term and the sum of the rest.
LEMMA SumOfPick ==
  ASSUME NEW f, NEW S, IsFiniteSet(S), S # {}
  PROVE  SumFunctionOnSet(f, S) = f[Pick(S)] + SumFunctionOnSet(f, S \ {Pick(S)})
<1> DEFINE T == S \ {Pick(S)}
           h == Iteration(f, S)
<1>1. Iterates(f, S, h)
  BY IterationExists DEF Iteration
<1>2. IsFiniteSet(T) /\ T \subseteq S
  BY FS_Subset
<1>3. Iteration(f, T) = [s \in SUBSET T |-> h[s]]
  <2>1. Iterates(f, T, Iteration(f, T))
    BY <1>2, IterationExists DEF Iteration
  <2>2. Iterates(f, T, [s \in SUBSET T |-> h[s]])
    BY <1>1, <1>2, IterationRestricts
  <2>3. QED
    BY <1>2, <2>1, <2>2, IterationIsUnique
<1>4. h[S] = f[Pick(S)] + h[T]
  BY <1>1 DEF Iterates
<1>5. QED
  BY <1>3, <1>4, SumIsIteration

\* The empty sum.
LEMMA SumOfNothing == \A f : SumFunctionOnSet(f, {}) = 0
<1>1. ASSUME NEW f
      PROVE  Iterates(f, {}, Iteration(f, {}))
  BY IterationExists, FS_EmptySet DEF Iteration
<1>2. QED
  BY <1>1, SumIsIteration DEF Iterates

\* The functions whose sums are taken, and of what.
Summable(f, S) == IsFiniteSet(S) /\ \A x \in S : f[x] \in Int

\* Every element of a set may be the first.
LEMMA SumOfRest ==
  ASSUME NEW f, NEW S, Summable(f, S)
  PROVE  /\ SumFunctionOnSet(f, S) \in Int
         /\ \A x \in S : SumFunctionOnSet(f, S) = f[x] + SumFunctionOnSet(f, S \ {x})
<1> DEFINE Splits(T) == /\ SumFunctionOnSet(f, T) \in Int
                        /\ \A x \in T : SumFunctionOnSet(f, T) = f[x] + SumFunctionOnSet(f, T \ {x})
           Whole == {T \in SUBSET S : ~Splits(T)}
<1>1. ASSUME Whole # {}
      PROVE  FALSE
  <2>1. PICK T \in Whole : \A U \in Whole : U \subseteq T => U = T
    <3>1. Whole \subseteq SUBSET S /\ IsFiniteSet(S)
      BY DEF Summable
    <3> HIDE DEF Whole
    <3>2. QED
      BY <1>1, <3>1, SmallestSubset
  <2>2. IsFiniteSet(T) /\ \A U \in SUBSET T : IsFiniteSet(U)
    BY FS_Subset DEF Summable
  <2>3. \A U \in SUBSET T : U # T => Splits(U)
    BY <2>1
  <2> DEFINE p == Pick(T)
  <2>4. T # {}
    <3>1. Splits({})
      BY SumOfNothing
    <3>2. QED
      BY <2>1, <3>1
  <2>5. p \in T /\ f[p] \in Int
    BY <2>4, PickIsIn DEF Summable
  <2>6. SumFunctionOnSet(f, T) = f[p] + SumFunctionOnSet(f, T \ {p})
    BY <2>2, <2>4, SumOfPick
  <2>7. \A x \in T : SumFunctionOnSet(f, T \ {x}) \in Int
    <3>1. TAKE x \in T
    <3>2. T \ {x} \in SUBSET T /\ T \ {x} # T
      OBVIOUS
    <3>3. QED
      BY <2>3, <3>2
  <2>8. SumFunctionOnSet(f, T) \in Int
    BY <2>5, <2>6, <2>7
  <2>9. ASSUME NEW x \in T
        PROVE  SumFunctionOnSet(f, T) = f[x] + SumFunctionOnSet(f, T \ {x})
    <3>1. CASE x = p
      BY <2>6, <3>1
    <3>2. CASE x # p
      <4>1. /\ SumFunctionOnSet(f, T \ {p}) = f[x] + SumFunctionOnSet(f, (T \ {p}) \ {x})
            /\ SumFunctionOnSet(f, T \ {x}) = f[p] + SumFunctionOnSet(f, (T \ {x}) \ {p})
        <5>1. T \ {p} \in SUBSET T /\ T \ {p} # T /\ T \ {x} \in SUBSET T /\ T \ {x} # T
          BY <2>5
        <5>2. x \in T \ {p} /\ p \in T \ {x}
          BY <2>5, <3>2
        <5>3. QED
          BY <2>3, <5>1, <5>2
      <4>2. (T \ {p}) \ {x} = (T \ {x}) \ {p}
        OBVIOUS
      <4>3. SumFunctionOnSet(f, (T \ {x}) \ {p}) \in Int
        <5>1. (T \ {x}) \ {p} \in SUBSET T /\ (T \ {x}) \ {p} # T
          OBVIOUS
        <5>2. QED
          BY <2>3, <5>1
      <4>4. f[x] \in Int
        BY DEF Summable
      <4> DEFINE rest == SumFunctionOnSet(f, (T \ {x}) \ {p})
      <4>5. /\ SumFunctionOnSet(f, T) = f[p] + (f[x] + rest)
            /\ SumFunctionOnSet(f, T \ {x}) = f[p] + rest
        BY <2>6, <4>1, <4>2, Zenon
      <4> HIDE DEF rest, p
      <4>6. QED
        BY <2>5, <4>3, <4>4, <4>5 DEF rest
    <3>3. QED
      BY <3>1, <3>2
  <2>10. QED
    BY <2>1, <2>8, <2>9
<1>2. S \in SUBSET S /\ S \notin Whole
  BY <1>1
<1>3. QED
  BY <1>2

\* Sums of functions that agree where they are summed.
LEMMA SumOfEquals ==
  ASSUME NEW f, NEW g, NEW S, Summable(f, S), \A x \in S : f[x] = g[x]
  PROVE  SumFunctionOnSet(g, S) = SumFunctionOnSet(f, S)
<1> DEFINE Differing == {T \in SUBSET S : SumFunctionOnSet(g, T) # SumFunctionOnSet(f, T)}
<1>1. ASSUME Differing # {}
      PROVE  FALSE
  <2>1. PICK T \in Differing : \A U \in Differing : U \subseteq T => U = T
    <3>1. Differing \subseteq SUBSET S /\ IsFiniteSet(S)
      BY DEF Summable
    <3> HIDE DEF Differing
    <3>2. QED
      BY <1>1, <3>1, SmallestSubset
  <2>2. T # {}
    BY SumOfNothing
  <2>3. PICK x \in T : TRUE
    BY <2>2
  <2>4. Summable(f, T) /\ Summable(g, T)
    BY FS_Subset DEF Summable
  <2>5. /\ SumFunctionOnSet(f, T) = f[x] + SumFunctionOnSet(f, T \ {x})
        /\ SumFunctionOnSet(g, T) = g[x] + SumFunctionOnSet(g, T \ {x})
    BY <2>4, SumOfRest
  <2>6. SumFunctionOnSet(f, T \ {x}) = SumFunctionOnSet(g, T \ {x})
    <3>1. T \ {x} \in SUBSET S /\ T \ {x} \subseteq T /\ T \ {x} # T
      OBVIOUS
    <3>2. QED
      BY <2>1, <3>1
  <2>7. QED
    BY <2>5, <2>6
<1>2. S \in SUBSET S /\ S \notin Differing
  BY <1>1
<1>3. QED
  BY <1>2

\* A sum changes by what one of its terms changes by.
THEOREM SumChanges ==
  ASSUME NEW f, NEW g, NEW S, NEW x \in S, Summable(f, S), Summable(g, S),
         \A y \in S \ {x} : f[y] = g[y]
  PROVE  SumFunctionOnSet(g, S) = SumFunctionOnSet(f, S) + (g[x] - f[x])
<1>1. /\ Summable(f, S \ {x}) /\ Summable(g, S \ {x})
  BY FS_Subset DEF Summable
<1>2. SumFunctionOnSet(g, S \ {x}) = SumFunctionOnSet(f, S \ {x})
  BY <1>1, SumOfEquals
<1>3. /\ SumFunctionOnSet(f, S) = f[x] + SumFunctionOnSet(f, S \ {x})
      /\ SumFunctionOnSet(g, S) = g[x] + SumFunctionOnSet(g, S \ {x})
      /\ SumFunctionOnSet(f, S \ {x}) \in Int
  BY <1>1, SumOfRest
<1>4. f[x] \in Int /\ g[x] \in Int
  BY DEF Summable
<1>5. QED
  BY <1>2, <1>3, <1>4

\* A sum of zeros is zero.
LEMMA SumOfZeros ==
  ASSUME NEW f, NEW S, IsFiniteSet(S), \A x \in S : f[x] = 0
  PROVE  SumFunctionOnSet(f, S) = 0
<1> DEFINE Nonzero == {T \in SUBSET S : SumFunctionOnSet(f, T) # 0}
<1>1. ASSUME Nonzero # {}
      PROVE  FALSE
  <2>1. PICK T \in Nonzero : \A U \in Nonzero : U \subseteq T => U = T
    <3>1. Nonzero \subseteq SUBSET S
      OBVIOUS
    <3> HIDE DEF Nonzero
    <3>2. QED
      BY <1>1, <3>1, SmallestSubset
  <2>2. PICK x \in T : TRUE
    BY SumOfNothing
  <2>3. Summable(f, T)
    BY FS_Subset DEF Summable
  <2>4. SumFunctionOnSet(f, T) = f[x] + SumFunctionOnSet(f, T \ {x})
    BY <2>3, SumOfRest
  <2>5. SumFunctionOnSet(f, T \ {x}) = 0
    <3>1. T \ {x} \in SUBSET S /\ T \ {x} \subseteq T /\ T \ {x} # T
      OBVIOUS
    <3>2. QED
      BY <2>1, <3>1
  <2>6. QED
    BY <2>4, <2>5
<1>2. S \in SUBSET S /\ S \notin Nonzero
  BY <1>1
<1>3. QED
  BY <1>2

\* The sum over two sets that have nothing in common.
LEMMA SumOfUnion ==
  ASSUME NEW f, NEW S, NEW T, Summable(f, S), Summable(f, T), S \cap T = {}
  PROVE  /\ Summable(f, S \cup T)
         /\ SumFunctionOnSet(f, S \cup T) = SumFunctionOnSet(f, S) + SumFunctionOnSet(f, T)
<1> DEFINE Wrong == {U \in SUBSET T :
                       SumFunctionOnSet(f, S \cup U) # SumFunctionOnSet(f, S) + SumFunctionOnSet(f, U)}
<1>1. \A U \in SUBSET T : Summable(f, U) /\ Summable(f, S \cup U)
  <2>1. TAKE U \in SUBSET T
  <2>2. IsFiniteSet(U) /\ IsFiniteSet(S)
    BY FS_Subset DEF Summable
  <2>3. IsFiniteSet(S \cup U)
    BY <2>2, FS_Union
  <2>4. QED
    BY <2>2, <2>3 DEF Summable
<1>2. ASSUME Wrong # {}
      PROVE  FALSE
  <2>1. PICK U \in Wrong : \A V \in Wrong : V \subseteq U => V = U
    <3>1. Wrong \subseteq SUBSET T /\ IsFiniteSet(T)
      BY DEF Summable
    <3> HIDE DEF Wrong
    <3>2. QED
      BY <1>2, <3>1, SmallestSubset
  <2>2. SumFunctionOnSet(f, S) \in Int
    BY SumOfRest
  <2>3. U # {}
    <3>1. SumFunctionOnSet(f, S \cup {}) = SumFunctionOnSet(f, S) + SumFunctionOnSet(f, {})
      BY <2>2, SumOfNothing
    <3>2. QED
      BY <2>1, <3>1
  <2>4. PICK x \in U : TRUE
    BY <2>3
  <2> DEFINE V == U \ {x}
  <2>5. /\ V \in SUBSET T /\ V # U /\ V \subseteq U
        /\ (S \cup U) \ {x} = S \cup V
    OBVIOUS
  <2>6. SumFunctionOnSet(f, S \cup V) = SumFunctionOnSet(f, S) + SumFunctionOnSet(f, V)
    BY <2>1, <2>5
  <2>7. SumFunctionOnSet(f, S \cup U) = f[x] + SumFunctionOnSet(f, S \cup V)
    <3>1. Summable(f, S \cup U) /\ x \in S \cup U
      BY <1>1
    <3>2. SumFunctionOnSet(f, S \cup U) = f[x] + SumFunctionOnSet(f, (S \cup U) \ {x})
      BY <3>1, SumOfRest
    <3>3. QED
      BY <2>5, <3>2
  <2>8. SumFunctionOnSet(f, U) = f[x] + SumFunctionOnSet(f, V) /\ SumFunctionOnSet(f, V) \in Int
    <3>1. Summable(f, U) /\ Summable(f, V)
      BY <1>1, <2>5
    <3>2. QED
      BY <3>1, SumOfRest
  <2>9. SumFunctionOnSet(f, S \cup U) = SumFunctionOnSet(f, S) + SumFunctionOnSet(f, U)
    <3>1. ASSUME NEW a \in Int, NEW b \in Int, NEW c \in Int
          PROVE  a + (b + c) = b + (a + c)
      OBVIOUS
    <3>2. f[x] \in Int
      BY DEF Summable
    <3>3. f[x] + (SumFunctionOnSet(f, S) + SumFunctionOnSet(f, V))
            = SumFunctionOnSet(f, S) + (f[x] + SumFunctionOnSet(f, V))
      BY <2>2, <2>8, <3>1, <3>2, Zenon
    <3>4. QED
      BY <2>6, <2>7, <2>8, <3>3, Zenon
  <2>10. QED
    BY <2>1, <2>9
<1>3. T \in SUBSET T /\ T \notin Wrong
  BY <1>2
<1>4. QED
  BY <1>1, <1>3

\* The sum over an image is the sum over what it is of, if no two have the same image.
LEMMA SumOfImage ==
  ASSUME NEW e, NEW f, NEW g, NEW S, Summable(g, S),
         \A x \in S : f[e[x]] = g[x],
         \A x, y \in S : e[x] = e[y] => x = y
  PROVE  /\ Summable(f, {e[x] : x \in S})
         /\ SumFunctionOnSet(f, {e[x] : x \in S}) = SumFunctionOnSet(g, S)
<1> DEFINE Image(T) == {e[x] : x \in T}
           Agrees(T) == /\ IsFiniteSet(Image(T))
                        /\ SumFunctionOnSet(f, Image(T)) = SumFunctionOnSet(g, T)
           Wrong == {T \in SUBSET S : ~Agrees(T)}
<1>1. ASSUME Wrong # {}
      PROVE  FALSE
  <2>1. PICK T \in Wrong : \A U \in Wrong : U \subseteq T => U = T
    <3>1. Wrong \subseteq SUBSET S /\ IsFiniteSet(S)
      BY DEF Summable
    <3> HIDE DEF Wrong
    <3>2. QED
      BY <1>1, <3>1, SmallestSubset
  <2>2. T # {}
    <3>1. Image({}) = {}
      OBVIOUS
    <3>2. Agrees({})
      BY <3>1, FS_EmptySet, SumOfNothing
    <3>3. QED
      BY <2>1, <3>2
  <2>3. PICK x \in T : TRUE
    BY <2>2
  <2> DEFINE U == T \ {x}
  <2>4. U \in SUBSET S /\ U # T /\ U \subseteq T
    OBVIOUS
  <2>5. Agrees(U)
    BY <2>1, <2>4
  <2>6. Image(T) = Image(U) \cup {e[x]} /\ Image(T) \ {e[x]} = Image(U) /\ e[x] \in Image(T)
    OBVIOUS
  <2>7. IsFiniteSet(Image(T))
    BY <2>5, <2>6, FS_AddElement
  <2>8. Summable(f, Image(T)) /\ Summable(g, T)
    <3>1. IsFiniteSet(T)
      BY FS_Subset DEF Summable
    <3>2. \A y \in Image(T) : f[y] \in Int
      BY DEF Summable
    <3>3. QED
      BY <2>7, <3>1, <3>2 DEF Summable
  <2>9. /\ SumFunctionOnSet(f, Image(T)) = f[e[x]] + SumFunctionOnSet(f, Image(U))
        /\ SumFunctionOnSet(g, T) = g[x] + SumFunctionOnSet(g, U)
    BY <2>6, <2>8, SumOfRest
  <2>10. QED
    BY <2>1, <2>5, <2>7, <2>9
<1>2. Agrees(S)
  BY <1>1
<1>3. QED
  BY <1>2 DEF Summable

\* A sum of equal terms.
LEMMA SumOfConstants ==
  ASSUME NEW c \in Nat, NEW f, NEW S, IsFiniteSet(S), \A x \in S : f[x] = c
  PROVE  SumFunctionOnSet(f, S) = c * Cardinality(S)
<1> DEFINE Wrong == {T \in SUBSET S : SumFunctionOnSet(f, T) # c * Cardinality(T)}
<1>1. ASSUME Wrong # {}
      PROVE  FALSE
  <2>1. PICK T \in Wrong : \A U \in Wrong : U \subseteq T => U = T
    <3>1. Wrong \subseteq SUBSET S
      OBVIOUS
    <3> HIDE DEF Wrong
    <3>2. QED
      BY <1>1, <3>1, SmallestSubset
  <2>2. T # {}
    <3>1. SumFunctionOnSet(f, {}) = c * Cardinality({})
      BY SumOfNothing, FS_EmptySet
    <3>2. QED
      BY <2>1, <3>1
  <2>3. PICK x \in T : TRUE
    BY <2>2
  <2>4. Summable(f, T) /\ IsFiniteSet(T)
    BY FS_Subset DEF Summable
  <2>5. SumFunctionOnSet(f, T) = c + SumFunctionOnSet(f, T \ {x})
    BY <2>4, SumOfRest
  <2>6. SumFunctionOnSet(f, T \ {x}) = c * Cardinality(T \ {x})
    <3>1. T \ {x} \in SUBSET S /\ T \ {x} \subseteq T /\ T \ {x} # T
      OBVIOUS
    <3>2. QED
      BY <2>1, <3>1
  <2>7. PICK n \in Nat : Cardinality(T \ {x}) = n /\ Cardinality(T) = n + 1
    <3>1. IsFiniteSet(T \ {x}) /\ Cardinality(T \ {x}) = Cardinality(T) - 1
      BY <2>4, FS_RemoveElement
    <3>2. Cardinality(T) \in Nat /\ Cardinality(T \ {x}) \in Nat
      BY <2>4, <3>1, FS_CardinalityType
    <3>3. QED
      BY <3>1, <3>2
  <2>8. c + c * n = c * (n + 1)
    BY SMT
  <2>9. QED
    BY <2>1, <2>5, <2>6, <2>7, <2>8
<1>2. S \in SUBSET S /\ S \notin Wrong
  BY <1>1
<1>3. QED
  BY <1>2

\* Terms of zero may be left out.
LEMMA SumOfSome ==
  ASSUME NEW f, NEW S, NEW T, Summable(f, T), S \subseteq T, \A x \in T \ S : f[x] = 0
  PROVE  Summable(f, S) /\ SumFunctionOnSet(f, S) = SumFunctionOnSet(f, T)
<1>1. Summable(f, S) /\ Summable(f, T \ S)
  BY FS_Subset DEF Summable
<1>2. S \cap (T \ S) = {} /\ S \cup (T \ S) = T
  OBVIOUS
<1>3. SumFunctionOnSet(f, T) = SumFunctionOnSet(f, S) + SumFunctionOnSet(f, T \ S)
  BY <1>1, <1>2, SumOfUnion
<1>4. SumFunctionOnSet(f, T \ S) = 0
  BY <1>1, SumOfZeros DEF Summable
<1>5. SumFunctionOnSet(f, S) \in Int
  BY <1>1, SumOfRest
<1>6. QED
  BY <1>1, <1>3, <1>4, <1>5

-----------------------------------------------------------------------------
\* The sum of all values of a function changes by what one of them changes by.
THEOREM TotalChanges ==
  ASSUME NEW S, IsFiniteSet(S), NEW f \in [S -> Int], NEW g \in [S -> Int], NEW x \in S,
         \A y \in S \ {x} : f[y] = g[y]
  PROVE  /\ SumFunction(f) \in Int
         /\ SumFunction(g) = SumFunction(f) + (g[x] - f[x])
<1>1. Summable(f, S) /\ Summable(g, S)
  BY DEF Summable
<1>2. SumFunctionOnSet(g, S) = SumFunctionOnSet(f, S) + (g[x] - f[x])
  BY <1>1, SumChanges
<1>3. SumFunctionOnSet(f, S) \in Int
  BY <1>1, SumOfRest
<1>4. QED
  BY <1>2, <1>3 DEF SumFunction

\* Of natural numbers, no term exceeds the sum.
THEOREM TotalOfNats ==
  ASSUME NEW S, IsFiniteSet(S), NEW f \in [S -> Nat]
  PROVE  /\ SumFunction(f) \in Nat
         /\ \A x \in S : f[x] <= SumFunction(f)
<1> DEFINE Wrong == {T \in SUBSET S : SumFunctionOnSet(f, T) \notin Nat}
<1>1. \A T \in SUBSET S : Summable(f, T)
  BY FS_Subset DEF Summable
<1>2. ASSUME Wrong # {}
      PROVE  FALSE
  <2>1. PICK T \in Wrong : \A U \in Wrong : U \subseteq T => U = T
    <3>1. Wrong \subseteq SUBSET S
      OBVIOUS
    <3> HIDE DEF Wrong
    <3>2. QED
      BY <1>2, <3>1, SmallestSubset
  <2>2. PICK x \in T : TRUE
    BY SumOfNothing
  <2>3. SumFunctionOnSet(f, T) = f[x] + SumFunctionOnSet(f, T \ {x})
    BY <1>1, SumOfRest
  <2>4. SumFunctionOnSet(f, T \ {x}) \in Nat
    <3>1. T \ {x} \in SUBSET S /\ T \ {x} \subseteq T /\ T \ {x} # T
      OBVIOUS
    <3>2. QED
      BY <2>1, <3>1
  <2>5. QED
    BY <2>3, <2>4
<1>3. \A T \in SUBSET S : SumFunctionOnSet(f, T) \in Nat
  BY <1>2
<1>4. ASSUME NEW x \in S
      PROVE  f[x] <= SumFunctionOnSet(f, S)
  <2>1. SumFunctionOnSet(f, S) = f[x] + SumFunctionOnSet(f, S \ {x})
    BY <1>1, SumOfRest
  <2>2. SumFunctionOnSet(f, S \ {x}) \in Nat
    <3>1. S \ {x} \in SUBSET S
      OBVIOUS
    <3>2. QED
      BY <1>3, <3>1
  <2>3. QED
    BY <2>1, <2>2
<1>5. QED
  BY <1>3, <1>4 DEF SumFunction

\* The sum of a function that is zero everywhere.
THEOREM TotalOfZeros ==
  ASSUME NEW S, IsFiniteSet(S), NEW f \in [S -> {0}]
  PROVE  SumFunction(f) = 0
<1>1. SumFunctionOnSet(f, S) = 0
  BY SumOfZeros
<1>2. QED
  BY <1>1 DEF SumFunction
=============================================================================
