------------------------ MODULE ChildExecutor_proofs ------------------------
(***************************************************************************)
(* Proofs about ChildExecutor: types, one open order per slice, the plan   *)
(* within the parent's quantity, and a complete parent that is over.       *)
(*                                                                         *)
(* Quantities are sums over children, and sums are recursive functions.    *)
(* The first part proves what is needed of them for every finite index     *)
(* set: a finite set without the property has a smallest subset without    *)
(* it.  The second part is the invariant of children, orders and loop      *)
(* variables, the third the plan of the current parent.                    *)
(***************************************************************************)
EXTENDS ChildExecutor, FiniteSetTheorems, TLAPS

-----------------------------------------------------------------------------
(* Induction over the subsets of a finite set.                              *)

\* A set of naturals that is not empty has a least element.
LEMMA LeastNat ==
    ASSUME NEW C, C \subseteq Nat, C # {}
    PROVE  \E n \in C : \A m \in C : n <= m
<1> DEFINE R == OpToRel(<, Nat)
<1>1. IsWellFoundedOn(R, Nat)
      BY NatLessThanWellFounded
<1>2. \A m, n \in Nat : <<m, n>> \in R <=> m < n
      BY DEF OpToRel
<1> HIDE DEF R
<1>3. PICK n \in C : \A m \in C : ~(<<m, n>> \in R)
      BY <1>1, WFMin
<1>4. ASSUME NEW m \in C PROVE n <= m
  <2>1. m \in Nat /\ n \in Nat
        OBVIOUS
  <2>2. ~(m < n)
        BY <1>2, <1>3, <2>1, Zenon
  <2> QED BY <2>1, <2>2
<1> QED BY <1>4

\* Induction over the subsets of a finite set, for a set Good of them: a set
\* is good if it is whenever each set with one element less is.
LEMMA SubsetInduction ==
    ASSUME NEW S, IsFiniteSet(S), NEW Good,
           \A T \in SUBSET S : (\A x \in T : T \ {x} \in Good) => T \in Good
    PROVE  \A T \in SUBSET S : T \in Good
<1> SUFFICES ASSUME NEW B \in SUBSET S, B \notin Good PROVE FALSE
    OBVIOUS
<1> DEFINE Bad == {T \in SUBSET S : T \notin Good}
           C == {Cardinality(T) : T \in Bad}
<1>1. \A T \in Bad : IsFiniteSet(T) /\ Cardinality(T) \in Nat
      BY FS_Subset, FS_CardinalityType
<1>2. PICK n \in C : \A m \in C : n <= m
  <2>1. C \subseteq Nat /\ C # {}
        BY <1>1
  <2> HIDE DEF C
  <2> QED BY <2>1, LeastNat
<1>3. PICK T \in Bad : Cardinality(T) = n
      OBVIOUS
<1>4. PICK x \in T : T \ {x} \notin Good
      OBVIOUS
<1>5. T \ {x} \in Bad /\ Cardinality(T \ {x}) = Cardinality(T) - 1
      BY <1>1, <1>4, FS_RemoveElement
<1>6. n \in Nat /\ n <= Cardinality(T \ {x})
      BY <1>1, <1>2, <1>3, <1>5
<1> QED BY <1>3, <1>5, <1>6

-----------------------------------------------------------------------------
(* Sums.  SumFunctionOnSet is a recursive function over the subsets of the  *)
(* index set; g is that function for the summands f over S.                 *)

Picked(s) == CHOOSE x \in s : TRUE

IsSum(g, f, D) ==
    g = [s \in D |-> IF s = {} THEN 0 ELSE f[Picked(s)] + g[s \ {Picked(s)}]]

UpTo(n, S) == {s \in SUBSET S : Cardinality(s) <= n}

SumOf(f, S) == CHOOSE g : IsSum(g, f, SUBSET S)

\* The library's sum is that function at the whole index set.
LEMMA SumDef ==
    ASSUME NEW f, NEW S
    PROVE  SumFunctionOnSet(f, S) = SumOf(f, S)[S]
BY DEF SumFunctionOnSet, FoldFunctionOnSet, MapThenFoldSet, SumOf, IsSum, Picked

\* The recursion over the sets of at most n elements can be carried one
\* further.
LEMMA SumGrows ==
    ASSUME NEW f, NEW S, IsFiniteSet(S), NEW n \in Nat, NEW g,
           IsSum(g, f, UpTo(n, S))
    PROVE  \E h : IsSum(h, f, UpTo(n + 1, S))
<1> USE DEF UpTo
<1> DEFINE D == UpTo(n, S)
           E == UpTo(n + 1, S)
           h == [s \in E |-> IF s = {} THEN 0 ELSE f[Picked(s)] + g[s \ {Picked(s)}]]
<1>1. \A s \in E : s # {} => Picked(s) \in s /\ s \ {Picked(s)} \in D
  <2> SUFFICES ASSUME NEW s \in E, s # {}
               PROVE  Picked(s) \in s /\ s \ {Picked(s)} \in D
      OBVIOUS
  <2>1. Picked(s) \in s
        BY DEF Picked
  <2>2. IsFiniteSet(s) /\ Cardinality(s) \in Nat
        BY FS_Subset, FS_CardinalityType
  <2>3. Cardinality(s \ {Picked(s)}) = Cardinality(s) - 1
        BY <2>1, <2>2, FS_RemoveElement
  <2> QED BY <2>1, <2>2, <2>3
<1>2. D \subseteq E
  <2> SUFFICES ASSUME NEW s \in D PROVE Cardinality(s) <= n + 1
      OBVIOUS
  <2>1. Cardinality(s) \in Nat
        BY FS_Subset, FS_CardinalityType
  <2> QED BY <2>1
<1>3. \A s \in D : g[s] = IF s = {} THEN 0 ELSE f[Picked(s)] + g[s \ {Picked(s)}]
      BY DEF IsSum
<1>4. \A s \in D : h[s] = g[s]
      BY <1>2, <1>3
<1>5. \A s \in E : h[s] = IF s = {} THEN 0 ELSE f[Picked(s)] + h[s \ {Picked(s)}]
      BY <1>1, <1>4
<1>6. h = [s \in E |-> h[s]]
      OBVIOUS
<1>7. IsSum(h, f, E)
  <2> HIDE DEF h, E
  <2> QED BY <1>5, <1>6 DEF IsSum
<1> QED BY <1>7

\* So it exists over all subsets of a finite set.
LEMMA SumExists ==
    ASSUME NEW f, NEW S, IsFiniteSet(S)
    PROVE  IsSum(SumOf(f, S), f, SUBSET S)
<1> DEFINE Missing == {n \in Nat : ~ \E g : IsSum(g, f, UpTo(n, S))}
<1>1. \A s \in SUBSET S : Cardinality(s) \in Nat /\ Cardinality(s) <= Cardinality(S)
      BY FS_Subset, FS_CardinalityType
<1>2. 0 \notin Missing
  <2>1. \A s \in UpTo(0, S) : s = {}
    <3> SUFFICES ASSUME NEW s \in UpTo(0, S) PROVE s = {}
        OBVIOUS
    <3>1. IsFiniteSet(s) /\ Cardinality(s) = 0
          BY <1>1, FS_Subset DEF UpTo
    <3> QED BY <3>1, FS_EmptySet
  <2> DEFINE g == [s \in UpTo(0, S) |-> 0]
  <2>2. IsSum(g, f, UpTo(0, S))
    <3> QED BY <2>1 DEF IsSum
  <2> QED BY <2>2
<1>3. \A n \in Nat : n + 1 \in Missing => n \in Missing
  <2> SUFFICES ASSUME NEW n \in Nat, n \notin Missing PROVE n + 1 \notin Missing
      OBVIOUS
  <2>1. PICK g : IsSum(g, f, UpTo(n, S))
        OBVIOUS
  <2>2. \E h : IsSum(h, f, UpTo(n + 1, S))
        BY <2>1, SumGrows
  <2> QED BY <2>2
<1>4. Missing = {}
  <2> SUFFICES ASSUME Missing # {} PROVE FALSE
      OBVIOUS
  <2>1. Missing \subseteq Nat
        OBVIOUS
  <2> HIDE DEF Missing
  <2>2. PICK n \in Missing : \A m \in Missing : n <= m
        BY <2>1, LeastNat
  <2>3. n # 0 /\ n \in Nat
        BY <1>2, <2>1
  <2>4. n - 1 \in Nat /\ (n - 1) + 1 = n
        BY <2>3
  <2>5. n - 1 \in Missing
        BY <1>3, <2>4
  <2> QED BY <2>2, <2>3, <2>5
<1>5. Cardinality(S) \in Nat /\ UpTo(Cardinality(S), S) = SUBSET S
      BY <1>1, FS_CardinalityType DEF UpTo
<1>6. \E g : IsSum(g, f, UpTo(Cardinality(S), S))
      BY <1>4, <1>5
<1>7. \E g : IsSum(g, f, SUBSET S)
      BY <1>5, <1>6
<1> QED BY <1>7 DEF SumOf

\* The unfolding of a sum, along the element the recursion picks.
LEMMA SumUnfold ==
    ASSUME NEW f, NEW S, IsFiniteSet(S), NEW T \in SUBSET S
    PROVE  SumOf(f, S)[T] = IF T = {} THEN 0
                            ELSE f[Picked(T)] + SumOf(f, S)[T \ {Picked(T)}]
<1> DEFINE g == SumOf(f, S)
<1>1. IsSum(g, f, SUBSET S)
      BY SumExists
<1> HIDE DEF g
<1>2. g[T] = IF T = {} THEN 0 ELSE f[Picked(T)] + g[T \ {Picked(T)}]
      BY <1>1 DEF IsSum
<1> QED BY <1>2 DEF g

\* The sum over a part of S does not depend on S.
LEMMA SumPart ==
    ASSUME NEW f, NEW S, IsFiniteSet(S), NEW T \in SUBSET S
    PROVE  SumOf(f, S)[T] = SumFunctionOnSet(f, T)
<1> DEFINE Good == {U \in SUBSET T : SumOf(f, S)[U] = SumOf(f, T)[U]}
<1>1. IsFiniteSet(T)
      BY FS_Subset
<1>2. \A U \in SUBSET T : (\A x \in U : U \ {x} \in Good) => U \in Good
  <2> SUFFICES ASSUME NEW U \in SUBSET T, \A x \in U : U \ {x} \in Good
               PROVE  U \in Good
      OBVIOUS
  <2>1. U # {} => Picked(U) \in U
        BY DEF Picked
  <2>2. SumOf(f, S)[U] = IF U = {} THEN 0
                         ELSE f[Picked(U)] + SumOf(f, S)[U \ {Picked(U)}]
        BY SumUnfold
  <2>3. SumOf(f, T)[U] = IF U = {} THEN 0
                         ELSE f[Picked(U)] + SumOf(f, T)[U \ {Picked(U)}]
        BY <1>1, SumUnfold
  <2> QED BY <2>1, <2>2, <2>3
<1> HIDE DEF Good
<1>3. T \in Good
      BY <1>1, <1>2, SubsetInduction
<1> QED BY <1>3, SumDef DEF Good

\* The sum over no indices.
LEMMA SumEmpty ==
    ASSUME NEW f
    PROVE  SumFunctionOnSet(f, {}) = 0
BY SumUnfold, SumDef, FS_EmptySet

\* One step of the recursion.
LEMMA SumPicked ==
    ASSUME NEW f, NEW S, IsFiniteSet(S), S # {}
    PROVE  /\ Picked(S) \in S
           /\ SumFunctionOnSet(f, S)
                 = f[Picked(S)] + SumFunctionOnSet(f, S \ {Picked(S)})
<1>1. Picked(S) \in S
      BY DEF Picked
<1>2. SumOf(f, S)[S] = f[Picked(S)] + SumOf(f, S)[S \ {Picked(S)}]
      BY SumUnfold
<1>3. SumOf(f, S)[S \ {Picked(S)}] = SumFunctionOnSet(f, S \ {Picked(S)})
      BY SumPart
<1> QED BY <1>1, <1>2, <1>3, SumDef

\* A sum of naturals is a natural.
LEMMA SumType ==
    ASSUME NEW S, IsFiniteSet(S), NEW f, \A x \in S : f[x] \in Nat
    PROVE  SumFunctionOnSet(f, S) \in Nat
<1> DEFINE Good == {T \in SUBSET S : SumFunctionOnSet(f, T) \in Nat}
<1>1. \A T \in SUBSET S : (\A x \in T : T \ {x} \in Good) => T \in Good
  <2> SUFFICES ASSUME NEW T \in SUBSET S, \A x \in T : T \ {x} \in Good
               PROVE  SumFunctionOnSet(f, T) \in Nat
      OBVIOUS
  <2>1. CASE T = {}
        BY <2>1, SumEmpty
  <2>2. CASE T # {}
    <3>1. IsFiniteSet(T)
          BY FS_Subset
    <3>2. /\ Picked(T) \in T
          /\ SumFunctionOnSet(f, T)
                = f[Picked(T)] + SumFunctionOnSet(f, T \ {Picked(T)})
          BY <2>2, <3>1, SumPicked
    <3>3. f[Picked(T)] \in Nat /\ SumFunctionOnSet(f, T \ {Picked(T)}) \in Nat
          BY <3>2
    <3> QED BY <3>2, <3>3
  <2> QED BY <2>1, <2>2
<1> HIDE DEF Good
<1>2. \A T \in SUBSET S : T \in Good
      BY <1>1, SubsetInduction
<1>3. S \in Good
      BY <1>2
<1> QED BY <1>3 DEF Good

\* Any index can be split off.
LEMMA SumRemove ==
    ASSUME NEW S, IsFiniteSet(S), NEW f, \A x \in S : f[x] \in Nat, NEW x \in S
    PROVE  SumFunctionOnSet(f, S) = f[x] + SumFunctionOnSet(f, S \ {x})
<1> DEFINE Good == {T \in SUBSET S : \A y \in T :
               SumFunctionOnSet(f, T) = f[y] + SumFunctionOnSet(f, T \ {y})}
<1>1. \A T \in SUBSET S : (\A y \in T : T \ {y} \in Good) => T \in Good
  <2> SUFFICES ASSUME NEW T \in SUBSET S, \A y \in T : T \ {y} \in Good, NEW y \in T
               PROVE  SumFunctionOnSet(f, T) = f[y] + SumFunctionOnSet(f, T \ {y})
      OBVIOUS
  <2> DEFINE c == Picked(T)
             U == (T \ {c}) \ {y}
  <2>1. IsFiniteSet(T) /\ IsFiniteSet(U)
        BY FS_Subset
  <2>2. c \in T /\ SumFunctionOnSet(f, T) = f[c] + SumFunctionOnSet(f, T \ {c})
        BY <2>1, SumPicked
  <2> HIDE DEF c
  <2>3. CASE y = c
        BY <2>2, <2>3
  <2>4. CASE y # c
    <3>1. SumFunctionOnSet(f, T \ {c}) = f[y] + SumFunctionOnSet(f, U)
          BY <2>2, <2>4
    <3>2. (T \ {y}) \ {c} = U
          OBVIOUS
    <3>3. SumFunctionOnSet(f, T \ {y}) = f[c] + SumFunctionOnSet(f, U)
          BY <2>2, <2>4, <3>2
    <3>4. \A z \in U : f[z] \in Nat
          OBVIOUS
    <3> HIDE DEF U
    <3>5. SumFunctionOnSet(f, U) \in Nat /\ f[c] \in Nat /\ f[y] \in Nat
          BY <2>1, <2>2, <3>4, SumType
    <3> QED BY <2>2, <3>1, <3>3, <3>5
  <2> QED BY <2>3, <2>4
<1> HIDE DEF Good
<1>2. \A T \in SUBSET S : T \in Good
      BY <1>1, SubsetInduction
<1>3. S \in Good
      BY <1>2
<1> QED BY <1>3 DEF Good

\* A sum depends on the summands over its indices only.
LEMMA SumAgree ==
    ASSUME NEW S, IsFiniteSet(S), NEW f, NEW g, \A x \in S : f[x] = g[x]
    PROVE  SumFunctionOnSet(f, S) = SumFunctionOnSet(g, S)
<1> DEFINE Good == {T \in SUBSET S : SumFunctionOnSet(f, T) = SumFunctionOnSet(g, T)}
<1>1. \A T \in SUBSET S : (\A x \in T : T \ {x} \in Good) => T \in Good
  <2> SUFFICES ASSUME NEW T \in SUBSET S, \A x \in T : T \ {x} \in Good
               PROVE  SumFunctionOnSet(f, T) = SumFunctionOnSet(g, T)
      OBVIOUS
  <2>1. CASE T = {}
        BY <2>1, SumEmpty
  <2>2. CASE T # {}
    <3>1. IsFiniteSet(T)
          BY FS_Subset
    <3>2. /\ Picked(T) \in T
          /\ SumFunctionOnSet(f, T)
                = f[Picked(T)] + SumFunctionOnSet(f, T \ {Picked(T)})
          /\ SumFunctionOnSet(g, T)
                = g[Picked(T)] + SumFunctionOnSet(g, T \ {Picked(T)})
          BY <2>2, <3>1, SumPicked
    <3>3. f[Picked(T)] = g[Picked(T)]
          BY <3>2
    <3>4. SumFunctionOnSet(f, T \ {Picked(T)}) = SumFunctionOnSet(g, T \ {Picked(T)})
          BY <3>2
    <3> QED BY <3>2, <3>3, <3>4
  <2> QED BY <2>1, <2>2
<1> HIDE DEF Good
<1>2. \A T \in SUBSET S : T \in Good
      BY <1>1, SubsetInduction
<1>3. S \in Good
      BY <1>2
<1> QED BY <1>3 DEF Good

\* The sum of sums.
LEMMA SumPlus ==
    ASSUME NEW S, IsFiniteSet(S), NEW f, NEW g, NEW h,
           \A x \in S : f[x] \in Nat /\ g[x] \in Nat /\ h[x] = f[x] + g[x]
    PROVE  SumFunctionOnSet(h, S) = SumFunctionOnSet(f, S) + SumFunctionOnSet(g, S)
<1> DEFINE Good == {T \in SUBSET S :
               SumFunctionOnSet(h, T) = SumFunctionOnSet(f, T) + SumFunctionOnSet(g, T)}
<1>1. \A T \in SUBSET S : (\A x \in T : T \ {x} \in Good) => T \in Good
  <2> SUFFICES ASSUME NEW T \in SUBSET S, \A x \in T : T \ {x} \in Good
               PROVE  SumFunctionOnSet(h, T) = SumFunctionOnSet(f, T) + SumFunctionOnSet(g, T)
      OBVIOUS
  <2>1. CASE T = {}
        BY <2>1, SumEmpty
  <2>2. CASE T # {}
    <3> DEFINE U == T \ {Picked(T)}
    <3>1. IsFiniteSet(T) /\ IsFiniteSet(U)
          BY FS_Subset
    <3>2. /\ Picked(T) \in T
          /\ SumFunctionOnSet(f, T) = f[Picked(T)] + SumFunctionOnSet(f, U)
          /\ SumFunctionOnSet(g, T) = g[Picked(T)] + SumFunctionOnSet(g, U)
          /\ SumFunctionOnSet(h, T) = h[Picked(T)] + SumFunctionOnSet(h, U)
          BY <2>2, <3>1, SumPicked
    <3>3. /\ f[Picked(T)] \in Nat /\ g[Picked(T)] \in Nat
          /\ h[Picked(T)] = f[Picked(T)] + g[Picked(T)]
          BY <3>2
    <3>4. SumFunctionOnSet(h, U) = SumFunctionOnSet(f, U) + SumFunctionOnSet(g, U)
          BY <3>2
    <3>5. \A x \in U : f[x] \in Nat /\ g[x] \in Nat
          OBVIOUS
    <3> HIDE DEF U
    <3>6. SumFunctionOnSet(f, U) \in Nat /\ SumFunctionOnSet(g, U) \in Nat
          BY <3>1, <3>5, SumType
    <3> QED BY <3>2, <3>3, <3>4, <3>6
  <2> QED BY <2>1, <2>2
<1> HIDE DEF Good
<1>2. \A T \in SUBSET S : T \in Good
      BY <1>1, SubsetInduction
<1>3. S \in Good
      BY <1>2
<1> QED BY <1>3 DEF Good

\* Indices whose summand is zero can be left out.
LEMMA SumZeros ==
    ASSUME NEW S, IsFiniteSet(S), NEW f, \A x \in S : f[x] \in Nat,
           NEW Z, \A x \in S \cap Z : f[x] = 0
    PROVE  SumFunctionOnSet(f, S) = SumFunctionOnSet(f, S \ Z)
<1> DEFINE Good == {T \in SUBSET S : SumFunctionOnSet(f, T) = SumFunctionOnSet(f, T \ Z)}
<1>1. \A T \in SUBSET S : (\A x \in T : T \ {x} \in Good) => T \in Good
  <2> SUFFICES ASSUME NEW T \in SUBSET S, \A x \in T : T \ {x} \in Good
               PROVE  SumFunctionOnSet(f, T) = SumFunctionOnSet(f, T \ Z)
      OBVIOUS
  <2>1. CASE T \cap Z = {}
    <3>1. T \ Z = T
          BY <2>1
    <3> QED BY <3>1
  <2>2. CASE T \cap Z # {}
    <3>1. PICK x \in T \cap Z : TRUE
          BY <2>2
    <3>2. IsFiniteSet(T) /\ \A y \in T : f[y] \in Nat
          BY FS_Subset
    <3>3. SumFunctionOnSet(f, T) = f[x] + SumFunctionOnSet(f, T \ {x})
          BY <3>1, <3>2, SumRemove
    <3>4. SumFunctionOnSet(f, T \ {x}) = SumFunctionOnSet(f, (T \ {x}) \ Z)
          BY <3>1
    <3>5. (T \ {x}) \ Z = T \ Z
          BY <3>1
    <3>6. SumFunctionOnSet(f, T \ {x}) \in Nat
      <4>1. IsFiniteSet(T \ {x}) /\ \A y \in T \ {x} : f[y] \in Nat
            BY FS_Subset
      <4> QED BY <4>1, SumType
    <3>7. f[x] = 0
          BY <3>1
    <3> QED BY <3>3, <3>4, <3>5, <3>6, <3>7
  <2> QED BY <2>1, <2>2
<1> HIDE DEF Good
<1>2. \A T \in SUBSET S : T \in Good
      BY <1>1, SubsetInduction
<1>3. S \in Good
      BY <1>2
<1> QED BY <1>3 DEF Good

\* A sum can be taken over other names b of its indices.
LEMMA SumRename ==
    ASSUME NEW S, IsFiniteSet(S), NEW b, \A x, y \in S : b[x] = b[y] => x = y,
           NEW f, NEW g, \A x \in S : g[x] \in Nat /\ f[b[x]] = g[x],
           IsFiniteSet({b[x] : x \in S})
    PROVE  SumFunctionOnSet(f, {b[x] : x \in S}) = SumFunctionOnSet(g, S)
<1> DEFINE Names(T) == {b[x] : x \in T}
           Good == {T \in SUBSET S : SumFunctionOnSet(f, Names(T)) = SumFunctionOnSet(g, T)}
<1>1. \A T \in SUBSET S : (\A x \in T : T \ {x} \in Good) => T \in Good
  <2> SUFFICES ASSUME NEW T \in SUBSET S, \A x \in T : T \ {x} \in Good
               PROVE  SumFunctionOnSet(f, Names(T)) = SumFunctionOnSet(g, T)
      OBVIOUS
  <2>1. CASE T = {}
    <3>1. Names(T) = {}
          BY <2>1
    <3> QED BY <2>1, <3>1, SumEmpty
  <2>2. CASE T # {}
    <3>1. PICK x \in T : TRUE
          BY <2>2
    <3>2. IsFiniteSet(T) /\ \A y \in T : g[y] \in Nat
          BY FS_Subset
    <3>3. SumFunctionOnSet(g, T) = g[x] + SumFunctionOnSet(g, T \ {x})
          BY <3>1, <3>2, SumRemove
    <3>4. Names(T) \subseteq Names(S)
          OBVIOUS
    <3>5. IsFiniteSet(Names(T)) /\ \A z \in Names(T) : f[z] \in Nat
      <4>1. IsFiniteSet(Names(T))
            BY <3>4, FS_Subset
      <4> QED BY <4>1
    <3>6. b[x] \in Names(T) /\ Names(T) \ {b[x]} = Names(T \ {x})
          BY <3>1
    <3>7. SumFunctionOnSet(f, Names(T \ {x})) = SumFunctionOnSet(g, T \ {x})
          BY <3>1
    <3>8. f[b[x]] = g[x]
          BY <3>1
    <3> HIDE DEF Names
    <3>9. SumFunctionOnSet(f, Names(T)) = f[b[x]] + SumFunctionOnSet(f, Names(T) \ {b[x]})
          BY <3>5, <3>6, SumRemove
    <3> QED BY <3>3, <3>6, <3>7, <3>8, <3>9
  <2> QED BY <2>1, <2>2
<1> HIDE DEF Good
<1>2. \A T \in SUBSET S : T \in Good
      BY <1>1, SubsetInduction
<1>3. S \in Good
      BY <1>2
<1> QED BY <1>3 DEF Good

\* No summand exceeds the sum.
LEMMA SumBounds ==
    ASSUME NEW S, IsFiniteSet(S), NEW f, \A x \in S : f[x] \in Nat, NEW x \in S
    PROVE  f[x] <= SumFunctionOnSet(f, S)
<1>1. SumFunctionOnSet(f, S) = f[x] + SumFunctionOnSet(f, S \ {x})
      BY SumRemove
<1>2. SumFunctionOnSet(f, S \ {x}) \in Nat
  <2>1. IsFiniteSet(S \ {x}) /\ \A y \in S \ {x} : f[y] \in Nat
        BY FS_Subset
  <2> QED BY <2>1, SumType
<1> QED BY <1>1, <1>2

\* Changing one summand.
LEMMA SumChange ==
    ASSUME NEW S, IsFiniteSet(S), NEW f, NEW g, NEW x \in S,
           \A y \in S : f[y] \in Nat /\ g[y] \in Nat,
           \A y \in S \ {x} : g[y] = f[y]
    PROVE  SumFunctionOnSet(g, S) + f[x] = SumFunctionOnSet(f, S) + g[x]
<1>1. /\ SumFunctionOnSet(f, S) = f[x] + SumFunctionOnSet(f, S \ {x})
      /\ SumFunctionOnSet(g, S) = g[x] + SumFunctionOnSet(g, S \ {x})
      BY SumRemove
<1>2. IsFiniteSet(S \ {x}) /\ \A y \in S \ {x} : f[y] \in Nat
      BY FS_Subset
<1>3. SumFunctionOnSet(g, S \ {x}) = SumFunctionOnSet(f, S \ {x})
      BY <1>2, SumAgree
<1>4. SumFunctionOnSet(f, S \ {x}) \in Nat /\ f[x] \in Nat /\ g[x] \in Nat
      BY <1>2, SumType
<1> QED BY <1>1, <1>3, <1>4
-----------------------------------------------------------------------------
(* The inductive invariant.                                                 *)

ChildRecord == [st : ChildState, qty : Nat, filled : Nat]
OrderRecord == [st : BrokerState, cum : Nat]

\* What a child and its order at the broker know of each other.
Agree(c, b) ==
    /\ c.st \in {"none", "pending"} => b.st = "none" /\ c.filled = 0
    /\ c.st = "none" => c.qty = 0
    /\ c.st = "pending" => c.qty > 0
    /\ c.st = "working" => c.filled < c.qty
    /\ c.st = "filled" => b.st = "filled" /\ c.filled = b.cum
    /\ c.filled <= b.cum /\ b.cum <= c.qty
    /\ b.st = "none" => b.cum = 0
    /\ b.st = "open" => b.cum < c.qty

ChildrenAgree == \A k \in Children : Agree(child[k], broker[k])

\* Whoever has a successor was replaced, after its order was cancelled.
Earlier(j, k) == j[1] = k[1] /\ j[2] = k[2] /\ j[3] < k[3]
Chains == \A j, k \in Children :
    Earlier(j, k) /\ child[k].st # "none"
        => child[j].st = "replaced" /\ broker[j].st = "cancelled"

Unborn == \A k \in Children : k[1] > sent => child[k].st = "none"

\* What the loops of step and poll still have to visit.
LoopOK ==
    /\ phase # "release" => released = {}
    /\ phase = "cancel" => \A k \in todo : child[k].st = "working" /\ k[1] = sent
    /\ phase = "release" => \A k \in todo : child[k].st = "pending" /\ k[1] = sent
    /\ phase = "poll" => todo \subseteq tracked

\* A polled order belongs to a child that is working or filled, or is over.
Polled(c, b) == c.st \in {"working", "filled"} \/ b.st = "cancelled"
TrackedOK == \A k \in tracked \cup released : Polled(child[k], broker[k])

ExecInv == /\ ExecutorTypeOK /\ ChildrenAgree /\ Chains /\ Unborn
           /\ LoopOK /\ TrackedOK

\* The parts of a child's name.
LEMMA ChildName ==
    ASSUME NEW k \in Children
    PROVE  /\ k[1] \in Sends /\ k[2] \in Slices /\ k[3] \in 0..MaxReplaces
           /\ k[1] \in Int /\ k[2] \in Int /\ k[3] \in Nat
           /\ k = <<k[1], k[2], k[3]>>
BY SliceAssumption DEF Children, Sends, Slices

\* The name Roll gives the replacement of a straggler.
LEMMA SuccessorName ==
    ASSUME NEW k \in Children, k[3] + 1 <= MaxReplaces
    PROVE  /\ Successor(k) \in Children /\ Successor(k) # k
           /\ Successor(k)[1] = k[1] /\ Successor(k)[2] = k[2]
           /\ Successor(k)[3] = k[3] + 1
<1>1. k[1] \in Sends /\ k[2] \in Slices /\ k[3] \in Nat
      BY ChildName
<1>2. k[3] + 1 \in 0..MaxReplaces /\ k[3] + 1 # k[3]
      BY <1>1, SliceAssumption
<1> QED BY <1>1, <1>2 DEF Successor, Children

\* There are finitely many children to add up.
LEMMA ChildrenFinite == IsFiniteSet(Children)
<1> DEFINE P == Sends \X (Slices \X (0..MaxReplaces))
           f == [p \in P |-> <<p[1], p[2][1], p[2][2]>>]
<1>1. IsFiniteSet(Sends) /\ IsFiniteSet(Slices) /\ IsFiniteSet(0..MaxReplaces)
      BY SliceAssumption, FS_Interval DEF Sends, Slices
<1>2. IsFiniteSet(Slices \X (0..MaxReplaces))
      BY <1>1, FS_Product
<1>3. IsFiniteSet(P)
      BY <1>1, <1>2, FS_Product
<1>4. f \in Surjection(P, Children)
  <2>1. f \in [P -> Children]
        BY DEF Children
  <2>2. ASSUME NEW k \in Children PROVE \E p \in P : f[p] = k
    <3>1. /\ k[1] \in Sends /\ k[2] \in Slices /\ k[3] \in 0..MaxReplaces
          /\ k = <<k[1], k[2], k[3]>>
          BY ChildName
    <3>2. <<k[1], <<k[2], k[3]>>>> \in P
          BY <3>1
    <3>3. f[<<k[1], <<k[2], k[3]>>>>] = <<k[1], k[2], k[3]>>
          BY <3>2
    <3> QED BY <3>1, <3>2, <3>3
  <2> QED BY <2>1, <2>2 DEF Surjection
<1> HIDE DEF f, P
<1> QED BY <1>3, <1>4, FS_Surjection

\* Fields of a child and of its order.
LEMMA ExecTypes ==
    ASSUME ExecutorTypeOK
    PROVE  /\ \A k \in Children : /\ child[k] \in ChildRecord /\ broker[k] \in OrderRecord
                                  /\ child[k].qty \in Nat /\ child[k].filled \in Nat
                                  /\ child[k].st \in ChildState
                                  /\ broker[k].cum \in Nat /\ broker[k].st \in BrokerState
           /\ \A k \in Children : leaves(k) \in Nat
<1>1. \A k \in Children : child[k] \in ChildRecord /\ broker[k] \in OrderRecord
      BY DEF ExecutorTypeOK, ChildRecord, OrderRecord
<1>2. \A k \in Children : /\ child[k].qty \in Nat /\ child[k].filled \in Nat
                          /\ child[k].st \in ChildState
      BY <1>1 DEF ChildRecord
<1>3. \A k \in Children : broker[k].cum \in Nat /\ broker[k].st \in BrokerState
      BY <1>1 DEF OrderRecord
<1>4. \A k \in Children : leaves(k) \in Nat
      BY <1>2 DEF leaves
<1> QED BY <1>1, <1>2, <1>3, <1>4

\* A step that leaves children and orders alone keeps what is true of them.
LEMMA QuietStep ==
    ASSUME ExecInv, UNCHANGED <<sent, child, broker>>
    PROVE  ChildrenAgree' /\ Chains' /\ Unborn'
BY DEF ExecInv, ChildrenAgree, Chains, Unborn

\* Nothing was sent yet.
LEMMA InitExec == Init => ExecInv
<1> SUFFICES ASSUME Init PROVE ExecInv
    OBVIOUS
<1>1. ExecutorTypeOK
  <2>1. child \in [Children -> [st : ChildState, qty : Nat, filled : Nat]]
        BY DEF Init, NoChild, ChildState
  <2>2. broker \in [Children -> [st : BrokerState, cum : Nat]]
        BY DEF Init, BrokerState
  <2> QED BY <2>1, <2>2, SliceAssumption, QtyAssumption DEF Init, ExecutorTypeOK
<1>2. \A k \in Children : child[k] = NoChild /\ broker[k] = [st |-> "none", cum |-> 0]
      BY DEF Init
<1>3. ChildrenAgree /\ Chains /\ Unborn
      BY <1>2 DEF NoChild, ChildrenAgree, Agree, Chains, Unborn
<1>4. LoopOK /\ TrackedOK
      BY DEF Init, LoopOK, TrackedOK
<1> QED BY <1>1, <1>3, <1>4 DEF ExecInv

-----------------------------------------------------------------------------
(* The steps of the loops that change no child and no order.                *)

\* pump enters and leaves its loops, gives up a step, or finds nothing new.
LEMMA LoopSteps ==
    ASSUME ExecInv,
           \/ StepBegins \/ ReleaseBegins \/ StepEnds \/ StepSkips \/ PollEnds
           \/ \E k \in todo : ExecuteRaises(k) \/ PollNothing(k)
    PROVE  ExecInv'
<1>1. UNCHANGED <<sent, total, due, overdue, child, broker>>
      BY DEF StepBegins, ReleaseBegins, StepEnds, StepSkips, PollEnds, ExecuteRaises,
             PollNothing, clock
<1>2. ChildrenAgree' /\ Chains' /\ Unborn'
      BY <1>1, QuietStep
<1>3. /\ tracked \subseteq Children /\ todo \subseteq Children /\ released \subseteq Children
      /\ phase = "idle" => todo = {} /\ released = {}
      /\ faults \in 0..MaxFaults
      BY DEF ExecInv, ExecutorTypeOK
<1>4. ASSUME phase' \in {"idle", "cancel", "release", "poll"},
             tracked' \subseteq Children, todo' \subseteq Children, released' \subseteq Children,
             phase' = "idle" => todo' = {} /\ released' = {},
             faults' \in 0..MaxFaults
      PROVE  ExecutorTypeOK'
      BY <1>1, <1>4 DEF ExecInv, ExecutorTypeOK
<1>5. LoopOK /\ TrackedOK
      BY DEF ExecInv
<1>6. CASE StepBegins
  <2>1. /\ phase' = "cancel" /\ UNCHANGED <<tracked, released, faults>>
        /\ released = {}
        /\ \A k \in todo' : k \in Current /\ child[k].st = "working"
        BY <1>3, <1>6 DEF StepBegins
  <2>2. ExecutorTypeOK'
        BY <1>3, <1>4, <2>1 DEF Current
  <2>3. LoopOK' /\ TrackedOK'
        BY <1>1, <1>5, <2>1 DEF LoopOK, TrackedOK, Current
  <2> QED BY <1>2, <2>2, <2>3 DEF ExecInv
<1>7. CASE ReleaseBegins
  <2>1. /\ phase' = "release" /\ UNCHANGED <<tracked, released, faults>>
        /\ \A k \in todo' : k \in Current /\ child[k].st = "pending"
        BY <1>7 DEF ReleaseBegins
  <2>2. ExecutorTypeOK'
        BY <1>3, <1>4, <2>1 DEF Current
  <2>3. LoopOK' /\ TrackedOK'
        BY <1>1, <1>5, <2>1 DEF LoopOK, TrackedOK, Current
  <2> QED BY <1>2, <2>2, <2>3 DEF ExecInv
<1>8. CASE StepEnds
  <2>1. /\ phase' = "poll" /\ tracked' = tracked \cup released /\ todo' = tracked'
        /\ released' = {} /\ UNCHANGED faults
        BY <1>8 DEF StepEnds
  <2>2. ExecutorTypeOK'
        BY <1>3, <1>4, <2>1
  <2>3. LoopOK' /\ TrackedOK'
        BY <1>1, <1>5, <2>1 DEF LoopOK, TrackedOK
  <2> QED BY <1>2, <2>2, <2>3 DEF ExecInv
<1>9. CASE StepSkips
  <2>1. /\ phase' = "poll" /\ todo' = tracked /\ released = {}
        /\ UNCHANGED <<tracked, released, faults>>
        BY <1>3, <1>9 DEF StepSkips
  <2>2. ExecutorTypeOK'
        BY <1>3, <1>4, <2>1
  <2>3. LoopOK' /\ TrackedOK'
        BY <1>1, <1>5, <2>1 DEF LoopOK, TrackedOK
  <2> QED BY <1>2, <2>2, <2>3 DEF ExecInv
<1>10. CASE PollEnds
  <2>1. /\ phase' = "idle" /\ todo = {} /\ released = {}
        /\ UNCHANGED <<tracked, todo, released, faults>>
        BY <1>5, <1>10 DEF PollEnds, LoopOK
  <2>2. ExecutorTypeOK'
        BY <1>3, <1>4, <2>1
  <2>3. LoopOK' /\ TrackedOK'
        BY <1>1, <1>5, <2>1 DEF LoopOK, TrackedOK
  <2> QED BY <1>2, <2>2, <2>3 DEF ExecInv
<1>11. ASSUME NEW k \in todo, ExecuteRaises(k) PROVE ExecInv'
  <2>1. /\ phase' = "idle" /\ todo' = {} /\ released' = {} /\ UNCHANGED tracked
        BY <1>11 DEF ExecuteRaises
  <2>2. faults' \in 0..MaxFaults
        BY <1>3, <1>11, QtyAssumption DEF ExecuteRaises, Fault
  <2>3. ExecutorTypeOK'
        BY <1>3, <1>4, <2>1, <2>2
  <2>4. LoopOK' /\ TrackedOK'
        BY <1>1, <1>5, <2>1 DEF LoopOK, TrackedOK
  <2> QED BY <1>2, <2>3, <2>4 DEF ExecInv
<1>12. ASSUME NEW k \in todo, PollNothing(k) PROVE ExecInv'
  <2>1. /\ phase = "poll" /\ todo' = todo \ {k} /\ UNCHANGED <<tracked, phase, released>>
        BY <1>12 DEF PollNothing
  <2>2. faults' \in 0..MaxFaults
        BY <1>3, <1>12, QtyAssumption DEF PollNothing, Fault
  <2>3. ExecutorTypeOK'
        BY <1>3, <1>4, <2>1, <2>2
  <2>4. LoopOK' /\ TrackedOK'
        BY <1>1, <1>5, <2>1 DEF LoopOK, TrackedOK
  <2> QED BY <1>2, <2>3, <2>4 DEF ExecInv
<1> QED BY <1>6, <1>7, <1>8, <1>9, <1>10, <1>11, <1>12

\* Time moves only the clock.
LEMMA TimeStep ==
    ASSUME ExecInv, Time
    PROVE  ExecInv'
<1>1. UNCHANGED <<sent, total, child, broker, tracked, phase, todo, released, faults>>
      BY DEF Time, SliceDue, BudgetEnds, loop
<1>2. ChildrenAgree' /\ Chains' /\ Unborn'
      BY <1>1, QuietStep
<1>3. due' \in 0..MaxSlices /\ overdue' \subseteq Children
      BY SliceAssumption DEF Time, SliceDue, BudgetEnds, Current, ExecInv, ExecutorTypeOK
<1>4. ExecutorTypeOK' /\ LoopOK' /\ TrackedOK'
      BY <1>1, <1>3 DEF ExecInv, ExecutorTypeOK, LoopOK, TrackedOK
<1> QED BY <1>2, <1>4 DEF ExecInv

-----------------------------------------------------------------------------
(* The steps that change one child and its order.                           *)

\* What such a step has to show of the child's new record c and order b.
LEMMA OneChildStep ==
    ASSUME ExecInv, NEW k \in Children, NEW c \in ChildRecord, NEW b \in OrderRecord,
           child' = [child EXCEPT ![k] = c], broker' = [broker EXCEPT ![k] = b],
           UNCHANGED sent,
           Agree(c, b), child[k].st # "none",
           child[k].st = "replaced" /\ broker[k].st = "cancelled"
               => c.st = "replaced" /\ b.st = "cancelled"
    PROVE  /\ child' \in [Children -> [st : ChildState, qty : Nat, filled : Nat]]
           /\ broker' \in [Children -> [st : BrokerState, cum : Nat]]
           /\ ChildrenAgree' /\ Chains' /\ Unborn'
           /\ child'[k] = c /\ broker'[k] = b
           /\ \A j \in Children : j # k => child'[j] = child[j] /\ broker'[j] = broker[j]
<1>1. /\ child' \in [Children -> [st : ChildState, qty : Nat, filled : Nat]]
      /\ broker' \in [Children -> [st : BrokerState, cum : Nat]]
      BY DEF ExecInv, ExecutorTypeOK, ChildRecord, OrderRecord
<1>2. /\ child'[k] = c /\ broker'[k] = b
      /\ \A j \in Children : j # k => child'[j] = child[j] /\ broker'[j] = broker[j]
      BY DEF ExecInv, ExecutorTypeOK
<1>3. ChildrenAgree'
      BY <1>2 DEF ExecInv, ChildrenAgree
<1>4. Unborn'
  <2>1. ~(k[1] > sent)
        BY DEF ExecInv, Unborn
  <2> QED BY <1>2, <2>1 DEF ExecInv, Unborn
<1>5. Chains'
  <2> SUFFICES ASSUME NEW i \in Children, NEW j \in Children, Earlier(i, j), child'[j].st # "none"
               PROVE  child'[i].st = "replaced" /\ broker'[i].st = "cancelled"
      BY DEF Chains, Earlier
  <2>1. child[j].st # "none"
        BY <1>2
  <2>2. child[i].st = "replaced" /\ broker[i].st = "cancelled"
        BY <2>1 DEF ExecInv, Chains
  <2> QED BY <1>2, <2>2
<1> QED BY <1>1, <1>2, <1>3, <1>4, <1>5

\* The broker fills or expires an order.
LEMMA BrokerStep ==
    ASSUME ExecInv, Broker
    PROVE  ExecInv'
<1>1. PICK k \in Children : (\E n \in 1..Target : BrokerFills(k, n)) \/ BrokerExpires(k)
      BY DEF Broker
<1>2. /\ UNCHANGED <<sent, total, due, overdue, child, tracked, phase, todo, released, faults>>
      /\ broker[k].st = "open"
      BY <1>1 DEF BrokerFills, BrokerExpires, clock, loop
<1>3. /\ child[k] \in ChildRecord /\ broker[k] \in OrderRecord
      /\ child[k].qty \in Nat /\ child[k].filled \in Nat /\ broker[k].cum \in Nat
      BY ExecTypes DEF ExecInv
<1>4. Agree(child[k], broker[k])
      BY DEF ExecInv, ChildrenAgree
<1>5. \E b \in OrderRecord : /\ broker' = [broker EXCEPT ![k] = b]
                             /\ Agree(child[k], b) /\ b.st # "cancelled"
  <2>1. ASSUME NEW n \in 1..Target, BrokerFills(k, n)
        PROVE  \E b \in OrderRecord : /\ broker' = [broker EXCEPT ![k] = b]
                                      /\ Agree(child[k], b) /\ b.st # "cancelled"
    <3> DEFINE cum == broker[k].cum + n
               b == [st |-> IF cum = child[k].qty THEN "filled" ELSE "open", cum |-> cum]
    <3>1. broker' = [broker EXCEPT ![k] = b] /\ cum <= child[k].qty
          BY <2>1 DEF BrokerFills
    <3>2. cum \in Nat /\ cum >= broker[k].cum
          BY <1>3, QtyAssumption
    <3> HIDE DEF cum
    <3>3. b \in OrderRecord /\ b.st \in {"filled", "open"} /\ b.cum = cum
          /\ (b.st = "open" => cum # child[k].qty)
          BY <3>2 DEF OrderRecord, BrokerState
    <3> HIDE DEF b
    <3>4. Agree(child[k], b)
          BY <1>2, <1>3, <1>4, <3>1, <3>2, <3>3 DEF Agree
    <3> QED BY <3>1, <3>3, <3>4
  <2>2. ASSUME BrokerExpires(k)
        PROVE  \E b \in OrderRecord : /\ broker' = [broker EXCEPT ![k] = b]
                                      /\ Agree(child[k], b) /\ b.st # "cancelled"
    <3> DEFINE b == [broker[k] EXCEPT !.st = "expired"]
    <3>1. broker' = [broker EXCEPT ![k] = b]
          BY <2>2 DEF BrokerExpires
    <3>2. b \in OrderRecord /\ b.st = "expired" /\ b.cum = broker[k].cum
          BY <1>3 DEF OrderRecord, BrokerState
    <3> HIDE DEF b
    <3>3. Agree(child[k], b)
          BY <1>2, <1>3, <1>4, <3>2 DEF Agree
    <3> QED BY <3>1, <3>2, <3>3
  <2> QED BY <1>1, <2>1, <2>2
<1>6. PICK b \in OrderRecord : /\ broker' = [broker EXCEPT ![k] = b]
                               /\ Agree(child[k], b) /\ b.st # "cancelled"
      BY <1>5
<1>7. child' = [child EXCEPT ![k] = child[k]]
      BY <1>2 DEF ExecInv, ExecutorTypeOK
<1>8. child[k].st # "none"
      BY <1>2, <1>4 DEF Agree
<1>9. /\ broker' \in [Children -> [st : BrokerState, cum : Nat]]
      /\ ChildrenAgree' /\ Chains' /\ Unborn'
      /\ \A j \in Children : j # k => broker'[j] = broker[j]
      BY <1>2, <1>3, <1>6, <1>7, <1>8, OneChildStep
<1>10. ExecutorTypeOK'
      BY <1>2, <1>9 DEF ExecInv, ExecutorTypeOK
<1>11. LoopOK'
      BY <1>2 DEF ExecInv, LoopOK
<1>12. TrackedOK'
      BY <1>2, <1>9 DEF ExecInv, TrackedOK, Polled, ExecutorTypeOK
<1> QED BY <1>9, <1>10, <1>11, <1>12 DEF ExecInv

\* A child is released, refused or given up.
LEMMA ReleaseStep ==
    ASSUME ExecInv, NEW k \in todo, ReleaseChild(k)
    PROVE  ExecInv'
<1>1. /\ k \in Children /\ phase = "release" /\ child[k].st = "pending" /\ k[1] = sent
      /\ todo' = todo \ {k}
      /\ UNCHANGED <<sent, total, due, overdue, tracked, phase>>
      BY DEF ReleaseChild, clock, ExecInv, ExecutorTypeOK, LoopOK
<1>2. /\ child[k] \in ChildRecord /\ broker[k] \in OrderRecord
      /\ child[k].qty \in Nat /\ child[k].filled \in Nat /\ broker[k].cum \in Nat
      BY <1>1, ExecTypes DEF ExecInv
<1>3. Agree(child[k], broker[k])
      BY <1>1 DEF ExecInv, ChildrenAgree
<1>4. broker[k].st = "none" /\ broker[k].cum = 0 /\ child[k].filled = 0 /\ child[k].qty > 0
      BY <1>1, <1>2, <1>3 DEF Agree
<1> DEFINE As(s) == [child[k] EXCEPT !.st = s]
           Opened == [broker[k] EXCEPT !.st = "open"]
<1>5. \E s \in {"working", "cancelled", "rejected"} : \E b \in OrderRecord :
          /\ child' = [child EXCEPT ![k] = As(s)] /\ broker' = [broker EXCEPT ![k] = b]
          /\ Agree(As(s), b)
          /\ released' \subseteq released \cup {k}
          /\ k \in released' => k \in released \/ s = "working"
          /\ faults' \in 0..MaxFaults
  <2>1. \A s \in ChildState : /\ As(s) \in ChildRecord /\ As(s).st = s
                              /\ As(s).qty = child[k].qty /\ As(s).filled = 0
        BY <1>2, <1>4 DEF ChildRecord
  <2>2. Opened \in OrderRecord /\ Opened.st = "open" /\ Opened.cum = 0
        BY <1>2, <1>4 DEF OrderRecord, BrokerState
  <2>3. faults \in 0..MaxFaults
        BY DEF ExecInv, ExecutorTypeOK
  <2>4. broker = [broker EXCEPT ![k] = broker[k]]
        BY <1>1 DEF ExecInv, ExecutorTypeOK
  <2>5. {"working", "cancelled", "rejected"} \subseteq ChildState
        BY DEF ChildState
  <2>6. CASE /\ child' = [child EXCEPT ![k].st = "cancelled"]
             /\ UNCHANGED <<broker, released, faults>>
    <3>1. child' = [child EXCEPT ![k] = As("cancelled")]
          BY <2>6
    <3>2. Agree(As("cancelled"), broker[k])
      <4> HIDE DEF As
      <4> QED BY <1>2, <1>4, <2>1, <2>5 DEF Agree
    <3> HIDE DEF As
    <3> QED BY <1>2, <2>3, <2>4, <2>6, <3>1, <3>2
  <2>7. CASE /\ child' = [child EXCEPT ![k].st = "working"] /\ OpenOrder(k)
             /\ released' = released \cup {k} /\ UNCHANGED faults
    <3>1. child' = [child EXCEPT ![k] = As("working")] /\ broker' = [broker EXCEPT ![k] = Opened]
          BY <2>7 DEF OpenOrder
    <3>2. Agree(As("working"), Opened)
      <4> HIDE DEF As, Opened
      <4> QED BY <1>2, <1>4, <2>1, <2>2, <2>5 DEF Agree
    <3> HIDE DEF As, Opened
    <3> QED BY <2>2, <2>3, <2>7, <3>1, <3>2
  <2>8. CASE ReleaseFails(k) /\ UNCHANGED released
    <3>1. child' = [child EXCEPT ![k] = As("rejected")]
          BY <2>8 DEF ReleaseFails
    <3>2. Agree(As("rejected"), broker[k]) /\ Agree(As("rejected"), Opened)
      <4> HIDE DEF As, Opened
      <4> QED BY <1>2, <1>4, <2>1, <2>2, <2>5 DEF Agree
    <3>3. \/ broker' = [broker EXCEPT ![k] = broker[k]] /\ faults' = faults
          \/ broker' = [broker EXCEPT ![k] = Opened] /\ Fault
          BY <2>4, <2>8 DEF ReleaseFails, OpenOrder
    <3>4. faults' \in 0..MaxFaults
          BY <2>3, <3>3, QtyAssumption DEF Fault
    <3> HIDE DEF As, Opened
    <3> QED BY <1>2, <2>2, <2>8, <3>1, <3>2, <3>3, <3>4
  <2> QED BY <2>6, <2>7, <2>8 DEF ReleaseChild
<1>6. PICK s \in {"working", "cancelled", "rejected"}, b \in OrderRecord :
          /\ child' = [child EXCEPT ![k] = As(s)] /\ broker' = [broker EXCEPT ![k] = b]
          /\ Agree(As(s), b)
          /\ released' \subseteq released \cup {k}
          /\ k \in released' => k \in released \/ s = "working"
          /\ faults' \in 0..MaxFaults
      BY <1>5
<1>7. As(s) \in ChildRecord /\ As(s).st = s
      BY <1>2 DEF ChildRecord, ChildState
<1> HIDE DEF As
<1>8. /\ child' \in [Children -> [st : ChildState, qty : Nat, filled : Nat]]
      /\ broker' \in [Children -> [st : BrokerState, cum : Nat]]
      /\ ChildrenAgree' /\ Chains' /\ Unborn'
      /\ child'[k] = As(s)
      /\ \A j \in Children : j # k => child'[j] = child[j] /\ broker'[j] = broker[j]
      BY <1>1, <1>6, <1>7, OneChildStep
<1>9. tracked \subseteq Children /\ released \subseteq Children /\ todo \subseteq Children
      BY DEF ExecInv, ExecutorTypeOK
<1>10. ExecutorTypeOK'
      BY <1>1, <1>6, <1>8, <1>9 DEF ExecInv, ExecutorTypeOK
<1>11. LoopOK'
      BY <1>1, <1>8, <1>9 DEF ExecInv, LoopOK
<1>12. k \notin tracked \cup released
      BY <1>1, <1>4 DEF ExecInv, TrackedOK, Polled
<1>13. TrackedOK'
      BY <1>1, <1>6, <1>7, <1>8, <1>9, <1>12 DEF ExecInv, TrackedOK, Polled
<1> QED BY <1>8, <1>10, <1>11, <1>13 DEF ExecInv

\* A straggler whose order is closed hands its leaves to its successor: the
\* one step that changes two children.
LEMMA ReplaceStep ==
    ASSUME ExecInv, NEW k \in Children, child[k].st = "working", k[1] = sent,
           k[3] + 1 <= MaxReplaces, leaves(k) > MinChildQty,
           CloseOrder(k), Roll(k), UNCHANGED sent
    PROVE  /\ child' \in [Children -> [st : ChildState, qty : Nat, filled : Nat]]
           /\ broker' \in [Children -> [st : BrokerState, cum : Nat]]
           /\ ChildrenAgree' /\ Chains' /\ Unborn'
           /\ broker'[k].st = "cancelled"
           /\ child[Successor(k)].st = "none" /\ broker[Successor(k)].st = "none"
           /\ \A j \in Children \ {k, Successor(k)} :
                 child'[j] = child[j] /\ broker'[j] = broker[j]
<1> DEFINE s == Successor(k)
           old == [child[k] EXCEPT !.st = "replaced"]
           new == [st |-> "pending", qty |-> leaves(k), filled |-> 0]
           b == [broker[k] EXCEPT !.st = "cancelled"]
<1>1. /\ s \in Children /\ s # k /\ s[1] = k[1] /\ s[2] = k[2] /\ s[3] = k[3] + 1
      BY SuccessorName
<1>2. /\ child[k] \in ChildRecord /\ broker[k] \in OrderRecord
      /\ child[k].qty \in Nat /\ child[k].filled \in Nat /\ broker[k].cum \in Nat
      /\ leaves(k) \in Nat
      BY ExecTypes DEF ExecInv
<1>3. /\ old \in ChildRecord /\ old.st = "replaced" /\ old.qty = child[k].qty
      /\ old.filled = child[k].filled
      BY <1>2 DEF ChildRecord, ChildState
<1>4. new \in ChildRecord /\ new.st = "pending" /\ new.qty = leaves(k) /\ new.filled = 0
      BY <1>2 DEF ChildRecord, ChildState
<1>5. b \in OrderRecord /\ b.st = "cancelled" /\ b.cum = broker[k].cum
      BY <1>2 DEF OrderRecord, BrokerState
<1>6. /\ child \in [Children -> ChildRecord] /\ broker \in [Children -> OrderRecord]
      BY DEF ExecInv, ExecutorTypeOK, ChildRecord, OrderRecord
<1>7. child' = [child EXCEPT ![k].st = "replaced", ![s] = new]
      BY DEF Roll
<1>8. child' = [child EXCEPT ![k] = old, ![s] = new]
      BY <1>7
<1>9. broker' = [broker EXCEPT ![k] = b]
      BY DEF CloseOrder
<1> HIDE DEF s, old, new, b
<1>10. /\ child' \in [Children -> ChildRecord] /\ broker' \in [Children -> OrderRecord]
       /\ child'[k] = old /\ child'[s] = new /\ broker'[k] = b /\ broker'[s] = broker[s]
       /\ \A j \in Children \ {k, s} : child'[j] = child[j] /\ broker'[j] = broker[j]
      BY <1>1, <1>3, <1>4, <1>5, <1>6, <1>8, <1>9
<1>11. k[3] \in Nat
      BY ChildName
<1>12. child[s].st = "none"
  <2>1. Earlier(k, s)
        BY <1>1, <1>11 DEF Earlier
  <2> QED BY <1>1, <2>1 DEF ExecInv, Chains
<1>13. /\ Agree(child[k], broker[k]) /\ Agree(child[s], broker[s])
       /\ broker[s].cum \in Nat
      BY <1>1, <1>6 DEF ExecInv, ChildrenAgree, OrderRecord
<1>14. broker[s].st = "none" /\ broker[s].cum = 0
      BY <1>12, <1>13 DEF Agree
<1>15. Agree(old, b)
      BY <1>2, <1>3, <1>5, <1>13 DEF Agree
<1>16. Agree(new, broker[s])
      BY <1>2, <1>4, <1>14, QtyAssumption DEF Agree
<1>17. ChildrenAgree'
  <2> SUFFICES ASSUME NEW j \in Children PROVE Agree(child[j], broker[j])'
      BY DEF ChildrenAgree
  <2> QED BY <1>10, <1>15, <1>16 DEF ExecInv, ChildrenAgree, Agree
<1>18. Unborn'
  <2>1. ~(k[1] > sent)
        BY ChildName
  <2> QED BY <1>1, <1>10, <2>1 DEF ExecInv, Unborn
<1>19. Chains'
  <2> SUFFICES ASSUME NEW i \in Children, NEW j \in Children, Earlier(i, j), child'[j].st # "none"
               PROVE  child'[i].st = "replaced" /\ broker'[i].st = "cancelled"
      BY DEF Chains, Earlier
  <2>1. ASSUME NEW m \in Children, Earlier(i, m), child[m].st # "none"
        PROVE  child'[i].st = "replaced" /\ broker'[i].st = "cancelled"
    <3>1. child[i].st = "replaced" /\ broker[i].st = "cancelled"
          BY <2>1 DEF ExecInv, Chains
    <3> QED BY <1>10, <1>12, <3>1
  <2>2. CASE j = s
    <3>1. i[1] = k[1] /\ i[2] = k[2] /\ i[3] < k[3] + 1 /\ i[3] \in Nat
          BY <1>1, <2>2, ChildName DEF Earlier
    <3>2. CASE i[3] = k[3]
      <4>1. i = k
            BY <3>1, <3>2, ChildName
      <4> QED BY <1>3, <1>5, <1>10, <4>1
    <3>3. CASE i[3] # k[3]
      <4>1. Earlier(i, k)
            BY <1>11, <3>1, <3>3 DEF Earlier
      <4> QED BY <2>1, <4>1
    <3> QED BY <3>2, <3>3
  <2>3. CASE j # s
    <3>1. child[j].st # "none"
          BY <1>10, <2>3
    <3> QED BY <2>1, <3>1
  <2> QED BY <2>2, <2>3
<1> QED BY <1>5, <1>10, <1>12, <1>14, <1>17, <1>18, <1>19 DEF s, ChildRecord, OrderRecord

\* A straggler is cancelled, or turns out to be over, or the call fails.
LEMMA CancelStep ==
    ASSUME ExecInv, NEW k \in todo, CancelStraggler(k)
    PROVE  ExecInv'
<1>1. /\ k \in Children /\ phase = "cancel" /\ child[k].st = "working" /\ k[1] = sent
      /\ todo' = todo \ {k} /\ todo \subseteq Children
      /\ \A j \in todo : child[j].st = "working" /\ j[1] = sent
      /\ released = {} /\ tracked \subseteq Children
      /\ UNCHANGED <<sent, total, due, overdue, tracked, phase, released>>
      BY DEF CancelStraggler, clock, ExecInv, ExecutorTypeOK, LoopOK
<1>2. /\ child[k] \in ChildRecord /\ broker[k] \in OrderRecord
      /\ child[k].qty \in Nat /\ child[k].filled \in Nat /\ broker[k].cum \in Nat
      BY <1>1, ExecTypes DEF ExecInv
<1>3. Agree(child[k], broker[k])
      BY <1>1 DEF ExecInv, ChildrenAgree
<1>4. faults' \in 0..MaxFaults
  <2>1. faults \in 0..MaxFaults
        BY DEF ExecInv, ExecutorTypeOK
  <2> QED BY <2>1, QtyAssumption DEF CancelStraggler, Fault
<1>5. \A j \in tracked : Polled(child[j], broker[j])
      BY DEF ExecInv, TrackedOK
<1>6. ASSUME child' \in [Children -> [st : ChildState, qty : Nat, filled : Nat]],
             broker' \in [Children -> [st : BrokerState, cum : Nat]],
             ChildrenAgree', Chains', Unborn',
             \A j \in todo \ {k} : child'[j] = child[j],
             \A j \in tracked : Polled(child'[j], broker'[j])
      PROVE  ExecInv'
  <2>1. ExecutorTypeOK'
        BY <1>1, <1>4, <1>6 DEF ExecInv, ExecutorTypeOK
  <2>2. LoopOK'
        BY <1>1, <1>6 DEF LoopOK
  <2>3. TrackedOK'
        BY <1>1, <1>6 DEF TrackedOK, Polled
  <2> QED BY <1>6, <2>1, <2>2, <2>3 DEF ExecInv
<1> DEFINE closed == [broker[k] EXCEPT !.st = "cancelled"]
<1>7. /\ closed \in OrderRecord /\ closed.st = "cancelled" /\ closed.cum = broker[k].cum
      BY <1>2 DEF OrderRecord, BrokerState
<1>8. CloseOrder(k) => broker' = [broker EXCEPT ![k] = closed]
      BY DEF CloseOrder
<1> HIDE DEF closed
<1>9. ASSUME UNCHANGED child, CloseOrder(k) \/ UNCHANGED broker
      PROVE  ExecInv'
  <2>1. PICK b \in OrderRecord : /\ broker' = [broker EXCEPT ![k] = b]
                                 /\ b = broker[k] \/ b = closed
    <3>1. broker = [broker EXCEPT ![k] = broker[k]]
          BY DEF ExecInv, ExecutorTypeOK
    <3> QED BY <1>2, <1>7, <1>8, <1>9, <3>1
  <2>2. Agree(child[k], b)
        BY <1>1, <1>2, <1>3, <1>7, <2>1 DEF Agree
  <2>3. child' = [child EXCEPT ![k] = child[k]]
        BY <1>9 DEF ExecInv, ExecutorTypeOK
  <2>4. /\ child' \in [Children -> [st : ChildState, qty : Nat, filled : Nat]]
        /\ broker' \in [Children -> [st : BrokerState, cum : Nat]]
        /\ ChildrenAgree' /\ Chains' /\ Unborn'
        /\ \A j \in Children : j # k => broker'[j] = broker[j]
        BY <1>1, <1>2, <2>1, <2>2, <2>3, OneChildStep
  <2>5. \A j \in tracked : Polled(child'[j], broker'[j])
        BY <1>1, <1>5, <1>9, <2>4 DEF Polled
  <2> QED BY <1>6, <1>9, <2>4, <2>5
<1>10. ASSUME CloseOrder(k), child' = [child EXCEPT ![k].st = "cancelled"]
       PROVE  ExecInv'
  <2> DEFINE c == [child[k] EXCEPT !.st = "cancelled"]
  <2>1. /\ c \in ChildRecord /\ c.st = "cancelled" /\ c.qty = child[k].qty
        /\ c.filled = child[k].filled
        BY <1>2 DEF ChildRecord, ChildState
  <2>2. child' = [child EXCEPT ![k] = c]
        BY <1>10
  <2> HIDE DEF c
  <2>3. Agree(c, closed)
        BY <1>1, <1>2, <1>3, <1>7, <2>1 DEF Agree
  <2>4. /\ child' \in [Children -> [st : ChildState, qty : Nat, filled : Nat]]
        /\ broker' \in [Children -> [st : BrokerState, cum : Nat]]
        /\ ChildrenAgree' /\ Chains' /\ Unborn'
        /\ broker'[k] = closed
        /\ \A j \in Children : j # k => child'[j] = child[j] /\ broker'[j] = broker[j]
        BY <1>1, <1>2, <1>7, <1>8, <1>10, <2>1, <2>2, <2>3, OneChildStep
  <2>5. \A j \in tracked : Polled(child'[j], broker'[j])
        BY <1>1, <1>5, <1>7, <2>4 DEF Polled
  <2> QED BY <1>1, <1>6, <2>4, <2>5
<1>11. ASSUME CloseOrder(k), Roll(k), k[3] + 1 <= MaxReplaces, leaves(k) > MinChildQty
       PROVE  ExecInv'
  <2>1. /\ child' \in [Children -> [st : ChildState, qty : Nat, filled : Nat]]
        /\ broker' \in [Children -> [st : BrokerState, cum : Nat]]
        /\ ChildrenAgree' /\ Chains' /\ Unborn'
        /\ broker'[k].st = "cancelled"
        /\ child[Successor(k)].st = "none" /\ broker[Successor(k)].st = "none"
        /\ \A j \in Children \ {k, Successor(k)} :
              child'[j] = child[j] /\ broker'[j] = broker[j]
        BY <1>1, <1>11, ReplaceStep
  <2>2. Successor(k) \notin todo /\ Successor(k) \notin tracked
        BY <1>1, <1>5, <2>1 DEF Polled
  <2>3. \A j \in tracked : Polled(child'[j], broker'[j])
        BY <1>1, <1>5, <2>1, <2>2 DEF Polled
  <2> QED BY <1>1, <1>6, <2>1, <2>2, <2>3
<1>12. CASE CloseOrder(k) /\ Roll(k)
  <2>1. CASE k[3] + 1 <= MaxReplaces /\ leaves(k) > MinChildQty
        BY <1>11, <1>12, <2>1
  <2>2. CASE ~(k[3] + 1 <= MaxReplaces /\ leaves(k) > MinChildQty)
        BY <1>10, <1>12, <2>2 DEF Roll
  <2> QED BY <2>1, <2>2
<1> QED BY <1>9, <1>12 DEF CancelStraggler

\* A fill is reported, or the end of an order.
LEMMA PollStep ==
    ASSUME ExecInv, NEW k \in todo, Poll(k)
    PROVE  ExecInv'
<1>1. /\ k \in Children /\ phase = "poll" /\ k \in tracked /\ todo \subseteq tracked
      /\ tracked \subseteq Children /\ released = {}
      /\ UNCHANGED <<sent, total, due, overdue, broker, phase, released, faults>>
      BY DEF Poll, clock, ExecInv, ExecutorTypeOK, LoopOK
<1>2. /\ todo' \subseteq tracked' /\ tracked' \subseteq tracked
      BY <1>1 DEF Poll
<1>3. /\ child[k] \in ChildRecord /\ broker[k] \in OrderRecord
      /\ child[k].qty \in Nat /\ child[k].filled \in Nat /\ broker[k].cum \in Nat
      BY <1>1, ExecTypes DEF ExecInv
<1>4. Agree(child[k], broker[k]) /\ Polled(child[k], broker[k])
      BY <1>1 DEF ExecInv, ChildrenAgree, TrackedOK
<1>5. ASSUME child' \in [Children -> [st : ChildState, qty : Nat, filled : Nat]],
             ChildrenAgree', Chains', Unborn',
             \A j \in tracked : Polled(child'[j], broker'[j])
      PROVE  ExecInv'
  <2>1. ExecutorTypeOK'
        BY <1>1, <1>2, <1>5 DEF ExecInv, ExecutorTypeOK
  <2>2. LoopOK'
        BY <1>1, <1>2 DEF LoopOK
  <2>3. TrackedOK'
        BY <1>1, <1>2, <1>5 DEF TrackedOK, Polled
  <2> QED BY <1>5, <2>1, <2>2, <2>3 DEF ExecInv
<1>6. CASE UNCHANGED child
  <2>1. ChildrenAgree' /\ Chains' /\ Unborn'
        BY <1>1, <1>6, QuietStep
  <2>2. \A j \in tracked : Polled(child'[j], broker'[j])
        BY <1>1, <1>6 DEF ExecInv, TrackedOK
  <2> QED BY <1>5, <1>6, <2>1, <2>2 DEF ExecInv, ExecutorTypeOK
<1>7. CASE on_child_fill(k) /\ broker[k].st \in {"open", "filled"}
  <2> DEFINE c == [child[k] EXCEPT !.filled = broker[k].cum,
                                   !.st = IF broker[k].cum >= child[k].qty /\ @ = "working"
                                          THEN "filled" ELSE @]
  <2>1. /\ c \in ChildRecord /\ c.qty = child[k].qty /\ c.filled = broker[k].cum
        /\ c.st = IF broker[k].cum >= child[k].qty /\ child[k].st = "working"
                  THEN "filled" ELSE child[k].st
        BY <1>3 DEF ChildRecord, ChildState
  <2>2. child' = [child EXCEPT ![k] = c]
        BY <1>7 DEF on_child_fill
  <2> HIDE DEF c
  <2>3. child[k].st \in {"working", "filled"}
        BY <1>4, <1>7 DEF Polled
  <2>4. Agree(c, broker[k]) /\ c.st \in {"working", "filled"}
    <3>1. CASE child[k].st = "filled"
          BY <1>3, <1>4, <2>1, <3>1 DEF Agree
    <3>2. CASE child[k].st = "working" /\ broker[k].cum >= child[k].qty
          BY <1>3, <1>4, <1>7, <2>1, <3>2 DEF Agree
    <3>3. CASE child[k].st = "working" /\ ~(broker[k].cum >= child[k].qty)
          BY <1>3, <1>4, <1>7, <2>1, <3>3 DEF Agree
    <3> QED BY <2>3, <3>1, <3>2, <3>3
  <2>5. broker' = [broker EXCEPT ![k] = broker[k]]
        BY <1>1 DEF ExecInv, ExecutorTypeOK
  <2>6. /\ child' \in [Children -> [st : ChildState, qty : Nat, filled : Nat]]
        /\ ChildrenAgree' /\ Chains' /\ Unborn'
        /\ child'[k] = c
        /\ \A j \in Children : j # k => child'[j] = child[j] /\ broker'[j] = broker[j]
        BY <1>1, <1>3, <2>1, <2>2, <2>3, <2>4, <2>5, OneChildStep
  <2>7. \A j \in tracked : Polled(child'[j], broker'[j])
        BY <1>1, <2>4, <2>6 DEF ExecInv, TrackedOK, Polled
  <2> QED BY <1>5, <2>6, <2>7
<1> QED BY <1>6, <1>7 DEF Poll

\* The position send_intents reads is a quantity.
LEMMA PositionType ==
    ASSUME ExecutorTypeOK
    PROVE  Position \in Nat
<1> DEFINE f == [k \in Children |-> broker[k].cum]
<1>1. \A k \in Children : f[k] \in Nat
      BY ExecTypes
<1>2. Position = SumFunctionOnSet(f, Children)
      BY DEF Position, SumFunction
<1> HIDE DEF f
<1> QED BY <1>1, <1>2, ChildrenFinite, SumType

\* A parent of some quantity has slices, and they add up to it.
LEMMA ScheduleParts ==
    ASSUME NEW q \in Nat, q > 0, NEW w \in Schedules(q)
    PROVE  /\ \A s \in Slices : w[s] \in Nat
           /\ MaxSlices \in Nat /\ MaxSlices >= 1
           /\ SumFunctionOnSet(w, Slices) = q
<1>1. w \in [Slices -> 0..q] /\ SumFunction(w) = q
      BY DEF Schedules
<1>2. SumFunctionOnSet(w, Slices) = q
      BY <1>1 DEF SumFunction
<1>3. Slices # {}
      BY <1>2, SumEmpty
<1>4. MaxSlices >= 1
      BY <1>3, SliceAssumption DEF Slices
<1> QED BY <1>1, <1>2, <1>4, SliceAssumption

\* A batch is sent: the children of its number are new.
LEMMA SendStep ==
    ASSUME ExecInv, NEW w \in Schedules(Target - Position), send_intents(w)
    PROVE  ExecInv'
<1>1. /\ phase = "idle" /\ todo = {} /\ released = {} /\ tracked \subseteq Children
      /\ sent' = sent + 1 /\ sent < MaxSends /\ sent \in 0..MaxSends
      /\ Position < Target /\ total' = Target - Position /\ due' = 1
      /\ UNCHANGED <<overdue, broker, tracked, phase, todo, released, faults>>
      BY DEF send_intents, loop, ExecInv, ExecutorTypeOK
<1>2. /\ Position \in Nat /\ Target - Position \in Nat /\ Target - Position > 0
      BY <1>1, PositionType, QtyAssumption DEF ExecInv
<1>3. /\ \A s \in Slices : w[s] \in Nat
      /\ MaxSlices \in Nat /\ MaxSlices >= 1
      BY <1>2, ScheduleParts
<1>4. \A k \in Children : k[1] \in Int /\ k[2] \in Slices
      BY ChildName
<1> DEFINE New(k) == k[1] = sent + 1 /\ k[3] = 0 /\ w[k[2]] > 0
           rec(k) == [st |-> "pending", qty |-> w[k[2]], filled |-> 0]
<1>5. child' = [k \in Children |-> IF New(k) THEN rec(k) ELSE child[k]]
      BY DEF send_intents
<1>6. \A k \in Children : /\ rec(k) \in ChildRecord /\ rec(k).st = "pending"
                          /\ rec(k).qty = w[k[2]] /\ rec(k).filled = 0
      BY <1>3, <1>4 DEF ChildRecord, ChildState
<1>7. \A k \in Children : New(k) => child[k].st = "none" /\ w[k[2]] > 0 /\ k[1] > sent
  <2> SUFFICES ASSUME NEW k \in Children, New(k)
               PROVE  child[k].st = "none" /\ w[k[2]] > 0 /\ k[1] > sent
      OBVIOUS
  <2>1. k[1] > sent
        BY <1>1, SliceAssumption
  <2> QED BY <2>1 DEF ExecInv, Unborn
<1>8. \A k \in Children : /\ child'[k] = IF New(k) THEN rec(k) ELSE child[k]
                          /\ broker'[k] = broker[k]
      BY <1>1, <1>5
<1>9. \A k \in Children : child[k] \in ChildRecord
      BY ExecTypes DEF ExecInv
<1>10. child' \in [Children -> ChildRecord]
  <2> HIDE DEF New, rec
  <2> QED BY <1>5, <1>6, <1>9
<1>11. sent' \in 0..MaxSends /\ due' \in 0..MaxSlices /\ total' \in Nat
      BY <1>1, <1>2, <1>3, SliceAssumption
<1>12. ExecutorTypeOK'
      BY <1>1, <1>10, <1>11 DEF ExecInv, ExecutorTypeOK, ChildRecord
<1>13. Unborn'
  <2> SUFFICES ASSUME NEW k \in Children, k[1] > sent + 1 PROVE child'[k].st = "none"
      BY <1>1 DEF Unborn
  <2>1. k[1] > sent /\ ~New(k)
        BY <1>1, <1>4, SliceAssumption
  <2> QED BY <1>8, <2>1 DEF ExecInv, Unborn
<1>14. ChildrenAgree'
  <2> SUFFICES ASSUME NEW k \in Children PROVE Agree(child'[k], broker[k])
      BY <1>1 DEF ChildrenAgree
  <2>1. Agree(child[k], broker[k])
        BY DEF ExecInv, ChildrenAgree
  <2>2. CASE New(k)
    <3>1. child'[k] = rec(k)
          BY <1>8, <2>2
    <3>2. w[k[2]] \in Nat /\ w[k[2]] > 0 /\ child[k].st = "none"
          BY <1>3, <1>4, <1>7, <2>2
    <3>3. child'[k].st = "pending" /\ child'[k].qty = w[k[2]] /\ child'[k].filled = 0
          BY <1>6, <3>1
    <3>4. broker[k].st = "none" /\ broker[k].cum = 0
          BY <2>1, <3>2 DEF Agree
    <3> HIDE DEF New, rec
    <3> QED BY <3>2, <3>3, <3>4 DEF Agree
  <2>3. CASE ~New(k)
    <3>1. child'[k] = child[k]
          BY <1>8, <2>3
    <3> QED BY <2>1, <3>1
  <2> QED BY <2>2, <2>3
<1>15. Chains'
  <2> SUFFICES ASSUME NEW i \in Children, NEW j \in Children, Earlier(i, j), child'[j].st # "none"
               PROVE  child'[i].st = "replaced" /\ broker'[i].st = "cancelled"
      BY DEF Chains, Earlier
  <2>1. ~New(j)
    <3>1. i[3] \in Nat /\ i[3] < j[3]
          BY ChildName DEF Earlier
    <3> QED BY <3>1
  <2>2. child[j].st # "none"
        BY <1>8, <2>1
  <2>3. child[i].st = "replaced" /\ broker[i].st = "cancelled"
        BY <2>2 DEF ExecInv, Chains
  <2>4. ~New(i)
        BY <1>7, <2>3
  <2> QED BY <1>8, <2>3, <2>4
<1>16. LoopOK'
      BY <1>1 DEF LoopOK
<1>17. TrackedOK'
  <2> SUFFICES ASSUME NEW k \in tracked PROVE Polled(child'[k], broker[k])
      BY <1>1 DEF TrackedOK, Polled
  <2>1. k \in Children /\ Polled(child[k], broker[k]) /\ Agree(child[k], broker[k])
        BY <1>1 DEF ExecInv, TrackedOK, ChildrenAgree
  <2>2. ~New(k)
    <3>1. child[k].st # "none"
          BY <2>1 DEF Polled, Agree
    <3> HIDE DEF New
    <3> QED BY <1>7, <2>1, <3>1
  <2> QED BY <1>8, <2>1, <2>2
<1> QED BY <1>12, <1>13, <1>14, <1>15, <1>16, <1>17 DEF ExecInv

\* One case for each caller: the strategy, pump, the clock, the broker.
LEMMA ExecStep == ExecInv /\ [Next]_vars => ExecInv'
<1> SUFFICES ASSUME ExecInv, [Next]_vars PROVE ExecInv'
    OBVIOUS
<1>1. CASE UNCHANGED vars
  <2>1. UNCHANGED <<sent, total, due, overdue, child, broker, tracked, phase, todo, released,
                    faults>>
        BY <1>1 DEF vars, clock, loop
  <2>2. ChildrenAgree' /\ Chains' /\ Unborn'
        BY <2>1, QuietStep
  <2>3. ExecutorTypeOK' /\ LoopOK' /\ TrackedOK'
        BY <2>1 DEF ExecInv, ExecutorTypeOK, LoopOK, TrackedOK
  <2> QED BY <2>2, <2>3 DEF ExecInv
<1>2. CASE \E w \in Schedules(Target - Position) : send_intents(w)
      BY <1>2, SendStep
<1>3. CASE Pump
      BY <1>3, LoopSteps, CancelStep, ReleaseStep, PollStep DEF Pump
<1>4. CASE Time
      BY <1>4, TimeStep
<1>5. CASE Broker
      BY <1>5, BrokerStep
<1> QED BY <1>1, <1>2, <1>3, <1>4, <1>5 DEF Next

\* Children, their orders and the loops of pump stay in step, whichever calls
\* of engine and broker fail.
THEOREM ExecInvariant == Spec => []ExecInv
<1>1. Init => ExecInv
      BY InitExec
<1>2. ExecInv /\ [Next]_vars => ExecInv'
      BY ExecStep
<1> QED BY <1>1, <1>2, PTL DEF Spec

\* The fields of the executor and of AgentClient.pump keep their types, and
\* pump leaves nothing to visit when it returns.
THEOREM ExecutorIsTyped == Spec => []ExecutorTypeOK
<1>1. ExecInv => ExecutorTypeOK
      BY DEF ExecInv
<1> QED BY <1>1, ExecInvariant, PTL

\* A slice has at most one order open at the broker, for every number of
\* slices, replacements, sends and failed calls: step releases a replacement
\* only after the broker confirmed the cancel of the order it replaces.
THEOREM OneOrderPerSlice == Spec => []OneOpenPerSlice
<1>1. ExecInv => OneOpenPerSlice
  <2> SUFFICES ASSUME ExecInv, NEW j \in Children, NEW k \in Children,
                      broker[j].st = "open", broker[k].st = "open",
                      j[1] = k[1], j[2] = k[2]
               PROVE  j = k
      BY DEF OneOpenPerSlice
  <2>1. child[j].st # "none" /\ child[k].st # "none"
        BY DEF ExecInv, ChildrenAgree, Agree
  <2>2. ~Earlier(j, k) /\ ~Earlier(k, j)
        BY <2>1 DEF ExecInv, Chains
  <2>3. j[3] \in Nat /\ k[3] \in Nat
        BY ChildName
  <2>4. j[3] = k[3]
        BY <2>2, <2>3 DEF Earlier
  <2> QED BY <2>4, ChildName
<1> QED BY <1>1, ExecInvariant, PTL

-----------------------------------------------------------------------------
(* What the current parent has traded and still means to trade.             *)

\* What a child has filled and, while it is live, its leaves.
Plan(c) == IF c.st \in Live THEN c.qty ELSE c.filled

plan == [k \in Children |-> Plan(child[k])]

PlanInv == SumFunctionOnSet(plan, Current) <= total

\* A plan is a quantity, and the current children are finitely many.
LEMMA PlanTypes ==
    ASSUME ExecutorTypeOK
    PROVE  /\ \A k \in Children : plan[k] = Plan(child[k]) /\ plan[k] \in Nat
           /\ Current \subseteq Children /\ IsFiniteSet(Current)
           /\ SumFunctionOnSet(plan, Current) \in Nat
<1>1. \A k \in Children : plan[k] = Plan(child[k])
      BY DEF plan
<1>2. \A k \in Children : Plan(child[k]) \in Nat
      BY ExecTypes DEF Plan
<1>3. Current \subseteq Children /\ IsFiniteSet(Current)
      BY ChildrenFinite, FS_Subset DEF Current
<1>4. \A k \in Current : plan[k] \in Nat
      BY <1>1, <1>2, <1>3
<1>5. SumFunctionOnSet(plan, Current) \in Nat
      BY <1>3, <1>4, SumType
<1> QED BY <1>1, <1>2, <1>3, <1>5

\* The plan is what is filled and what is left to do.
LEMMA PlanSplits ==
    ASSUME ExecInv
    PROVE  /\ filled_qty \in Nat
           /\ SumFunction([k \in Current |-> Leaves(k)]) \in Nat
           /\ filled_qty + SumFunction([k \in Current |-> Leaves(k)])
                 = SumFunctionOnSet(plan, Current)
           /\ \A k \in Current :
                 /\ Leaves(k) \in Nat
                 /\ Leaves(k) <= SumFunction([j \in Current |-> Leaves(j)])
<1> DEFINE f == [k \in Current |-> child[k].filled]
           g == [k \in Current |-> Leaves(k)]
<1>1. /\ \A k \in Children : plan[k] = Plan(child[k])
      /\ Current \subseteq Children /\ IsFiniteSet(Current)
      BY PlanTypes DEF ExecInv
<1>2. \A k \in Children : /\ child[k].qty \in Nat /\ child[k].filled \in Nat
                          /\ leaves(k) \in Nat
      BY ExecTypes DEF ExecInv
<1>3. \A k \in Children : Leaves(k) \in Nat /\ Plan(child[k]) = child[k].filled + Leaves(k)
  <2> SUFFICES ASSUME NEW k \in Children
               PROVE  Leaves(k) \in Nat /\ Plan(child[k]) = child[k].filled + Leaves(k)
      OBVIOUS
  <2>1. Agree(child[k], broker[k])
        BY DEF ExecInv, ChildrenAgree
  <2>2. child[k].st \in Live => child[k].filled < child[k].qty
        BY <1>2, <2>1 DEF Agree, Live
  <2> QED BY <1>2, <2>2 DEF Plan, Leaves, leaves
<1>4. \A k \in Current : /\ f[k] \in Nat /\ g[k] \in Nat /\ g[k] = Leaves(k)
                         /\ plan[k] = f[k] + g[k]
      BY <1>1, <1>2, <1>3
<1>5. /\ filled_qty = SumFunctionOnSet(f, Current)
      /\ SumFunction(g) = SumFunctionOnSet(g, Current)
      BY DEF filled_qty, SumFunction
<1> HIDE DEF f, g
<1>6. SumFunctionOnSet(f, Current) \in Nat /\ SumFunctionOnSet(g, Current) \in Nat
      BY <1>1, <1>4, SumType
<1>7. SumFunctionOnSet(plan, Current)
          = SumFunctionOnSet(f, Current) + SumFunctionOnSet(g, Current)
      BY <1>1, <1>4, SumPlus
<1>8. \A k \in Current : g[k] <= SumFunctionOnSet(g, Current)
      BY <1>1, <1>4, SumBounds
<1> QED BY <1>4, <1>5, <1>6, <1>7, <1>8 DEF g

\* A step that changes no child and not the parent.
LEMMA PlanQuiet ==
    ASSUME PlanInv, UNCHANGED <<sent, total, child>>
    PROVE  PlanInv'
BY DEF PlanInv, plan, Current

\* A step that changes one child, and plans no more for it.
LEMMA PlanOne ==
    ASSUME ExecutorTypeOK, ExecutorTypeOK', PlanInv, UNCHANGED <<sent, total>>,
           NEW k \in Children, \A j \in Children \ {k} : child'[j] = child[j],
           Plan(child'[k]) <= Plan(child[k])
    PROVE  PlanInv'
<1> DEFINE S == Current
           f == plan
           g == plan'
<1>1. /\ \A j \in Children : f[j] = Plan(child[j]) /\ f[j] \in Nat
      /\ S \subseteq Children /\ IsFiniteSet(S)
      /\ SumFunctionOnSet(f, S) \in Nat
      BY PlanTypes
<1>2. \A j \in Children : g[j] = Plan(child'[j])
      BY DEF plan
<1>3. \A j \in Children : Plan(child'[j]) \in Nat
  <2>1. \A j \in Children : /\ child'[j].qty \in Nat /\ child'[j].filled \in Nat
        BY DEF ExecutorTypeOK
  <2> QED BY <2>1 DEF Plan
<1>4. \A j \in Children \ {k} : g[j] = f[j]
      BY <1>1, <1>2
<1>5. Current' = S
      BY DEF Current
<1>6. total \in Nat /\ SumFunctionOnSet(f, S) <= total
      BY DEF PlanInv, ExecutorTypeOK
<1> HIDE DEF S, f, g
<1>7. SumFunctionOnSet(g, S) <= total
  <2>1. CASE k \in S
    <3>1. SumFunctionOnSet(g, S) + f[k] = SumFunctionOnSet(f, S) + g[k]
      <4>1. \A y \in S : f[y] \in Nat /\ g[y] \in Nat
            BY <1>1, <1>2, <1>3
      <4>2. \A y \in S \ {k} : g[y] = f[y]
            BY <1>1, <1>4
      <4>3. IsFiniteSet(S)
            BY <1>1
      <4> QED BY <2>1, <4>1, <4>2, <4>3, SumChange
    <3>2. g[k] <= f[k] /\ f[k] \in Nat /\ g[k] \in Nat
          BY <1>1, <1>2, <1>3
    <3>3. SumFunctionOnSet(g, S) \in Nat
      <4>1. IsFiniteSet(S) /\ \A y \in S : g[y] \in Nat
            BY <1>1, <1>2, <1>3
      <4> QED BY <4>1, SumType
    <3> QED BY <1>1, <1>6, <3>1, <3>2, <3>3
  <2>2. CASE k \notin S
    <3>1. \A y \in S : g[y] = f[y]
          BY <1>1, <1>4, <2>2
    <3>2. SumFunctionOnSet(g, S) = SumFunctionOnSet(f, S)
          BY <1>1, <3>1, SumAgree
    <3> QED BY <1>6, <3>2
  <2> QED BY <2>1, <2>2
<1> QED BY <1>5, <1>7 DEF PlanInv, g

\* A step that moves a part of one child's plan to another.
LEMMA PlanMoves ==
    ASSUME ExecutorTypeOK, ExecutorTypeOK', PlanInv, UNCHANGED <<sent, total>>,
           NEW k \in Current, NEW s \in Current, s # k,
           \A j \in Children \ {k, s} : child'[j] = child[j],
           Plan(child'[k]) + Plan(child'[s]) <= Plan(child[k]) + Plan(child[s])
    PROVE  PlanInv'
<1> DEFINE S == Current
           f == plan
           g == plan'
           m == [j \in Children |-> IF j = k THEN g[k] ELSE f[j]]
<1>1. /\ \A j \in Children : f[j] = Plan(child[j]) /\ f[j] \in Nat
      /\ S \subseteq Children /\ IsFiniteSet(S)
      /\ SumFunctionOnSet(f, S) \in Nat
      BY PlanTypes
<1>2. \A j \in Children : g[j] = Plan(child'[j])
      BY DEF plan
<1>3. \A j \in Children : Plan(child'[j]) \in Nat
  <2>1. \A j \in Children : /\ child'[j].qty \in Nat /\ child'[j].filled \in Nat
        BY DEF ExecutorTypeOK
  <2> QED BY <2>1 DEF Plan
<1>4. \A j \in Children \ {k, s} : g[j] = f[j]
      BY <1>1, <1>2
<1>5. Current' = S
      BY DEF Current
<1>6. total \in Nat /\ SumFunctionOnSet(f, S) <= total
      BY DEF PlanInv, ExecutorTypeOK
<1>7. k \in S /\ s \in S
      OBVIOUS
<1> HIDE DEF S, f, g
<1>8. \A j \in S : f[j] \in Nat /\ g[j] \in Nat /\ m[j] \in Nat
      BY <1>1, <1>2, <1>3, <1>7
<1>9. /\ m[k] = g[k] /\ m[s] = f[s]
      /\ \A j \in S \ {k} : m[j] = f[j]
      /\ \A j \in S \ {s} : g[j] = m[j]
      BY <1>1, <1>4, <1>7
<1> HIDE DEF m
<1>10. SumFunctionOnSet(m, S) + f[k] = SumFunctionOnSet(f, S) + m[k]
  <2>1. IsFiniteSet(S) /\ \A j \in S : f[j] \in Nat /\ m[j] \in Nat
        BY <1>1, <1>8
  <2>2. \A j \in S \ {k} : m[j] = f[j]
        BY <1>9
  <2> QED BY <1>7, <2>1, <2>2, SumChange
<1>11. SumFunctionOnSet(g, S) + m[s] = SumFunctionOnSet(m, S) + g[s]
  <2>1. IsFiniteSet(S) /\ \A j \in S : m[j] \in Nat /\ g[j] \in Nat
        BY <1>1, <1>8
  <2>2. \A j \in S \ {s} : g[j] = m[j]
        BY <1>9
  <2> QED BY <1>7, <2>1, <2>2, SumChange
<1>12. g[k] + g[s] <= f[k] + f[s]
      BY <1>1, <1>2, <1>7
<1>13. SumFunctionOnSet(m, S) \in Nat /\ SumFunctionOnSet(g, S) \in Nat
      BY <1>1, <1>8, SumType
<1>14. SumFunctionOnSet(g, S) <= total
      BY <1>1, <1>6, <1>7, <1>8, <1>9, <1>10, <1>11, <1>12, <1>13
<1> QED BY <1>5, <1>14 DEF PlanInv, g

\* A child keeps quantity and fills when only its state changes.
LEMMA StateChange ==
    ASSUME ExecutorTypeOK, NEW k \in Children, NEW x \in ChildState,
           child' = [child EXCEPT ![k].st = x]
    PROVE  /\ \A j \in Children \ {k} : child'[j] = child[j]
           /\ child'[k].st = x /\ child'[k].qty = child[k].qty
           /\ child'[k].filled = child[k].filled
BY DEF ExecutorTypeOK

\* The new parent's plan is its schedule.
LEMMA PlanSend ==
    ASSUME ExecInv, ExecInv', NEW w \in Schedules(Target - Position), send_intents(w)
    PROVE  PlanInv'
<1> DEFINE S == Current'
           g == plan'
           q == Target - Position
           Later == {k \in Children : k[3] > 0}
           b == [x \in Slices |-> <<sent + 1, x, 0>>]
<1>1. /\ sent' = sent + 1 /\ sent < MaxSends /\ sent \in 0..MaxSends
      /\ Position < Target /\ total' = q
      BY DEF send_intents, ExecInv, ExecutorTypeOK
<1>2. q \in Nat /\ q > 0
      BY <1>1, PositionType, QtyAssumption DEF ExecInv
<1>3. /\ \A x \in Slices : w[x] \in Nat
      /\ SumFunctionOnSet(w, Slices) = q
      BY <1>2, ScheduleParts
<1>4. S = {k \in Children : k[1] = sent + 1} /\ S \subseteq Children
      BY <1>1 DEF Current
<1>5. IsFiniteSet(S)
      BY <1>4, ChildrenFinite, FS_Subset
<1>6. \A k \in Children : k[1] \in Int /\ k[2] \in Slices /\ k[3] \in Nat /\ k = <<k[1], k[2], k[3]>>
      BY ChildName
<1>7. \A k \in S : g[k] = IF k[3] = 0 THEN w[k[2]] ELSE 0
  <2> SUFFICES ASSUME NEW k \in S
               PROVE  g[k] = IF k[3] = 0 THEN w[k[2]] ELSE 0
      OBVIOUS
  <2>1. k \in Children /\ k[1] = sent + 1
        BY <1>4
  <2>2. k[1] > sent
        BY <1>1, <2>1, SliceAssumption
  <2>3. child[k].st = "none"
        BY <2>1, <2>2 DEF ExecInv, Unborn
  <2>4. child[k].filled = 0
        BY <2>1, <2>3 DEF ExecInv, ChildrenAgree, Agree
  <2>5. g[k] = Plan(child'[k])
        BY <2>1 DEF plan
  <2>6. child'[k] = IF k[3] = 0 /\ w[k[2]] > 0
                    THEN [st |-> "pending", qty |-> w[k[2]], filled |-> 0]
                    ELSE child[k]
        BY <2>1 DEF send_intents
  <2>7. CASE k[3] = 0 /\ w[k[2]] > 0
        BY <2>5, <2>6, <2>7 DEF Plan, Live
  <2>8. CASE ~(k[3] = 0 /\ w[k[2]] > 0)
    <3>1. g[k] = 0
          BY <2>3, <2>4, <2>5, <2>6, <2>8 DEF Plan, Live
    <3>2. w[k[2]] \in Nat
          BY <1>3, <1>6, <2>1
    <3> QED BY <2>8, <3>1, <3>2
  <2> QED BY <2>7, <2>8
<1>8. \A k \in S : g[k] \in Nat
      BY <1>3, <1>4, <1>6, <1>7
<1>9. \A k \in S \cap Later : g[k] = 0
      BY <1>6, <1>7
<1>10. S \ Later = {b[x] : x \in Slices}
  <2>1. sent + 1 \in Sends /\ 0 \in 0..MaxReplaces
        BY <1>1, SliceAssumption DEF Sends
  <2>2. ASSUME NEW x \in Slices PROVE b[x] \in S \ Later
    <3>1. <<sent + 1, x, 0>> \in Children
          BY <2>1 DEF Children
    <3> QED BY <1>4, <3>1
  <2>3. ASSUME NEW k \in S \ Later PROVE k \in {b[x] : x \in Slices}
    <3>1. k \in Children /\ k[1] = sent + 1
          BY <1>4
    <3>2. k[3] = 0 /\ k[2] \in Slices
          BY <1>6, <3>1
    <3>3. k = b[k[2]]
          BY <1>6, <3>1, <3>2
    <3> QED BY <3>2, <3>3
  <2> HIDE DEF b, S, Later
  <2> QED BY <2>2, <2>3
<1>11. \A x \in Slices : b[x] \in S /\ b[x][3] = 0 /\ b[x][2] = x
      BY <1>10
<1>12. \A x, y \in Slices : b[x] = b[y] => x = y
      BY <1>11
<1>13. \A x \in Slices : w[x] \in Nat /\ g[b[x]] = w[x]
  <2> HIDE DEF b, g, S
  <2> QED BY <1>3, <1>7, <1>11
<1>14. IsFiniteSet(Slices)
      BY SliceAssumption, FS_Interval DEF Slices
<1> HIDE DEF S, g, q, Later, b
<1>15. IsFiniteSet({b[x] : x \in Slices})
      BY <1>5, <1>10, FS_Subset
<1>16. SumFunctionOnSet(g, S) = SumFunctionOnSet(g, S \ Later)
      BY <1>5, <1>8, <1>9, SumZeros
<1>17. SumFunctionOnSet(g, {b[x] : x \in Slices}) = SumFunctionOnSet(w, Slices)
      BY <1>12, <1>13, <1>14, <1>15, SumRename
<1>18. SumFunctionOnSet(g, S) = q
      BY <1>3, <1>10, <1>16, <1>17
<1>19. SumFunctionOnSet(plan', Current') <= total'
      BY <1>1, <1>2, <1>18 DEF S, g
<1> QED BY <1>19 DEF PlanInv

\* No step lets the plan exceed the parent's quantity.
LEMMA PlanStep ==
    ASSUME ExecInv, ExecInv', PlanInv, [Next]_vars
    PROVE  PlanInv'
<1>1. ExecutorTypeOK /\ ExecutorTypeOK' /\ ChildrenAgree
      BY DEF ExecInv
<1>2. \A k \in Children : /\ child[k].qty \in Nat /\ child[k].filled \in Nat
                          /\ broker[k].cum \in Nat /\ leaves(k) \in Nat
      BY <1>1, ExecTypes
<1>3. todo \subseteq Children
      BY <1>1 DEF ExecutorTypeOK
<1>4. \A k \in Children : child[k].st = "working" => child[k].filled < child[k].qty
      BY <1>1 DEF ChildrenAgree, Agree
<1>5. ASSUME NEW k \in todo, CancelStraggler(k) PROVE PlanInv'
  <2>1. /\ k \in Children /\ child[k].st = "working" /\ k[1] = sent
        /\ UNCHANGED <<sent, total>>
        BY <1>3, <1>5 DEF CancelStraggler, ExecInv, LoopOK
  <2>2. Plan(child[k]) = child[k].qty /\ child[k].filled < child[k].qty
        BY <1>4, <2>1 DEF Plan, Live
  <2>3. CASE UNCHANGED child
        BY <2>1, <2>3, PlanQuiet
  <2>4. CASE child' = [child EXCEPT ![k].st = "cancelled"]
    <3>1. /\ \A j \in Children \ {k} : child'[j] = child[j]
          /\ child'[k].st = "cancelled" /\ child'[k].filled = child[k].filled
          BY <1>1, <2>1, <2>4, StateChange DEF ChildState
    <3>2. Plan(child'[k]) <= Plan(child[k])
          BY <1>2, <2>1, <2>2, <3>1 DEF Plan, Live
    <3> QED BY <1>1, <2>1, <3>1, <3>2, PlanOne
  <2>5. CASE CloseOrder(k) /\ Roll(k) /\ k[3] + 1 <= MaxReplaces /\ leaves(k) > MinChildQty
    <3> DEFINE s == Successor(k)
    <3>1. s \in Children /\ s # k /\ s[1] = k[1]
          BY <2>1, <2>5, SuccessorName
    <3>2. child' = [child EXCEPT ![k].st = "replaced",
                                 ![s] = [st |-> "pending", qty |-> leaves(k), filled |-> 0]]
          BY <2>5 DEF Roll
    <3>3. child[s].st = "none"
          BY <2>1, <2>5, ReplaceStep
    <3> HIDE DEF s
    <3>4. /\ child'[k].st = "replaced" /\ child'[k].filled = child[k].filled
          /\ child'[s].st = "pending" /\ child'[s].qty = leaves(k)
          /\ \A j \in Children \ {k, s} : child'[j] = child[j]
          BY <1>1, <2>1, <3>1, <3>2 DEF ExecutorTypeOK
    <3>5. child[s].filled = 0
          BY <1>1, <3>1, <3>3 DEF ChildrenAgree, Agree
    <3>6. leaves(k) = child[k].qty - child[k].filled
          BY <1>2, <2>1, <2>2 DEF leaves
    <3>7. Plan(child'[k]) + Plan(child'[s]) <= Plan(child[k]) + Plan(child[s])
          BY <1>2, <2>1, <2>2, <3>1, <3>3, <3>4, <3>5, <3>6 DEF Plan, Live
    <3>8. k \in Current /\ s \in Current
          BY <2>1, <3>1 DEF Current
    <3> QED BY <1>1, <2>1, <3>1, <3>4, <3>7, <3>8, PlanMoves
  <2> QED BY <1>5, <2>3, <2>4, <2>5 DEF CancelStraggler, Roll
<1>6. ASSUME NEW k \in todo, ReleaseChild(k) PROVE PlanInv'
  <2>1. /\ k \in Children /\ child[k].st = "pending" /\ UNCHANGED <<sent, total>>
        BY <1>3, <1>6 DEF ReleaseChild, ExecInv, LoopOK
  <2>2. child[k].filled = 0
        BY <1>1, <2>1 DEF ChildrenAgree, Agree
  <2>3. PICK x \in {"working", "cancelled", "rejected"} : child' = [child EXCEPT ![k].st = x]
        BY <1>6 DEF ReleaseChild, ReleaseFails
  <2>4. /\ \A j \in Children \ {k} : child'[j] = child[j]
        /\ child'[k].st = x /\ child'[k].qty = child[k].qty
        /\ child'[k].filled = child[k].filled
        BY <1>1, <2>1, <2>3, StateChange DEF ChildState
  <2>5. Plan(child'[k]) <= Plan(child[k])
        BY <1>2, <2>1, <2>2, <2>4 DEF Plan, Live
  <2> QED BY <1>1, <2>1, <2>4, <2>5, PlanOne
<1>7. ASSUME NEW k \in todo, Poll(k) PROVE PlanInv'
  <2>1. /\ k \in Children /\ UNCHANGED <<sent, total>>
        /\ Agree(child[k], broker[k]) /\ Polled(child[k], broker[k])
        BY <1>1, <1>3, <1>7 DEF Poll, ExecInv, LoopOK, TrackedOK, ChildrenAgree
  <2>2. CASE UNCHANGED child
        BY <2>1, <2>2, PlanQuiet
  <2>3. CASE on_child_fill(k) /\ broker[k].st \in {"open", "filled"}
    <3>1. /\ \A j \in Children \ {k} : child'[j] = child[j]
          /\ child'[k].qty = child[k].qty /\ child'[k].filled = broker[k].cum
          /\ child'[k].st = IF broker[k].cum >= child[k].qty /\ child[k].st = "working"
                            THEN "filled" ELSE child[k].st
          BY <1>1, <2>1, <2>3 DEF on_child_fill, ExecutorTypeOK
    <3>2. child[k].st \in {"working", "filled"}
          BY <2>1, <2>3 DEF Polled
    <3>3. broker[k].cum <= child[k].qty /\ (child[k].st = "filled" => child[k].filled = broker[k].cum)
          BY <2>1 DEF Agree
    <3>4. Plan(child'[k]) <= Plan(child[k])
          BY <1>2, <2>1, <3>1, <3>2, <3>3 DEF Plan, Live
    <3> QED BY <1>1, <2>1, <3>1, <3>4, PlanOne
  <2> QED BY <1>7, <2>2, <2>3 DEF Poll
<1>8. CASE \E w \in Schedules(Target - Position) : send_intents(w)
      BY <1>8, PlanSend
<1>9. CASE \/ StepBegins \/ ReleaseBegins \/ StepEnds \/ StepSkips \/ PollEnds \/ Time \/ Broker
           \/ (\E k \in todo : ExecuteRaises(k) \/ PollNothing(k)) \/ UNCHANGED vars
  <2>1. UNCHANGED <<sent, total, child>>
        BY <1>9 DEF StepBegins, ReleaseBegins, StepEnds, StepSkips, PollEnds, Time, SliceDue,
                    BudgetEnds, Broker, BrokerFills, BrokerExpires, ExecuteRaises, PollNothing,
                    vars
  <2> QED BY <2>1, PlanQuiet
<1> QED BY <1>5, <1>6, <1>7, <1>8, <1>9 DEF Next, Pump

\* The plan stays within the parent's quantity.
LEMMA PlanInvariant == Spec => []PlanInv
<1>1. Init => PlanInv
  <2> SUFFICES ASSUME Init PROVE PlanInv
      OBVIOUS
  <2>1. /\ ExecutorTypeOK /\ total = 0 /\ sent = 0
        BY InitExec DEF Init, ExecInv
  <2>2. \A k \in Children : k[1] # sent
    <3> SUFFICES ASSUME NEW k \in Children PROVE k[1] # 0
        BY <2>1
    <3>1. k[1] \in 1..MaxSends
          BY ChildName DEF Sends
    <3> QED BY <3>1, SliceAssumption
  <2>3. Current = {}
        BY <2>2 DEF Current
  <2> QED BY <2>1, <2>3, SumEmpty DEF PlanInv
<1>2. ExecInv /\ ExecInv' /\ PlanInv /\ [Next]_vars => PlanInv'
      BY PlanStep
<1> QED BY <1>1, <1>2, ExecInvariant, PTL DEF Spec

\* What on_child_fill recorded and what the live children still mean to trade
\* stay within the parent's total_qty, through every chain of replacements.
THEOREM PlanIsBounded == Spec => []PlannedWithinTotal
<1>1. ExecInv /\ PlanInv => PlannedWithinTotal
      BY PlanSplits DEF PlanInv, PlannedWithinTotal
<1> QED BY <1>1, ExecInvariant, PlanInvariant, PTL

\* No child of a parent that is_complete is waiting or working, so step loses
\* nothing by skipping it.
THEOREM CompleteParentIsOver == Spec => []CompleteIsOver
<1>1. ExecInv /\ PlanInv => CompleteIsOver
  <2> SUFFICES ASSUME ExecInv, PlanInv, filled_qty >= total, NEW k \in Current,
                      child[k].st \in Live
               PROVE  FALSE
      BY DEF CompleteIsOver, is_complete
  <2> DEFINE rest == SumFunction([j \in Current |-> Leaves(j)])
  <2>1. /\ filled_qty \in Nat /\ filled_qty + rest = SumFunctionOnSet(plan, Current)
        /\ Leaves(k) \in Nat /\ Leaves(k) <= rest
        BY PlanSplits
  <2>2. SumFunctionOnSet(plan, Current) \in Nat /\ SumFunctionOnSet(plan, Current) <= total
        BY PlanTypes DEF PlanInv, ExecInv
  <2>3. total \in Nat
        BY DEF ExecInv, ExecutorTypeOK
  <2>4. Leaves(k) > 0
    <3>1. k \in Children /\ child[k].qty \in Nat /\ child[k].filled \in Nat
          BY ExecTypes DEF Current, ExecInv
    <3>2. child[k].filled < child[k].qty
          BY <3>1 DEF ExecInv, ChildrenAgree, Agree, Live
    <3> QED BY <3>1, <3>2 DEF Leaves, leaves
  <2>5. rest \in Nat
        BY PlanSplits
  <2> HIDE DEF rest
  <2> QED BY <2>1, <2>2, <2>3, <2>4, <2>5
<1> QED BY <1>1, ExecInvariant, PlanInvariant, PTL

=============================================================================
