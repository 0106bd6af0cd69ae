----------------------------- MODULE SumTheorems -----------------------------
(***************************************************************************)
(* Sums of a function over a finite set (SumFunctionOnSet of Functions):   *)
(* what the counts of shares and of money in the other modules are made    *)
(* of.                                                                     *)
(*                                                                         *)
(* SumFunctionOnSet is a recursive function over the subsets of the set,   *)
(* chosen among those that satisfy its equation.  Its existence and every  *)
(* law below are proved by induction; the induction principles are stated  *)
(* for sets (the naturals, or the subsets, for which a fact holds).        *)
(***************************************************************************)
EXTENDS Functions, FiniteSetTheorems, TLAPS

-----------------------------------------------------------------------------
(***************************************************************************)
(* Induction.                                                              *)
(***************************************************************************)

\* A nonempty set of naturals has a least element.
LEMMA NatLeast ==
  ASSUME NEW T, T \subseteq Nat, T # {}
  PROVE  \E n \in T : \A m \in T : n <= m
<1>1. \E n \in T : \A m \in T : ~ (<<m, n>> \in OpToRel(<, Nat))
  BY WFMin, NatLessThanWellFounded
<1>2. PICK n \in T : \A m \in T : ~ (<<m, n>> \in OpToRel(<, Nat))
  BY <1>1
<1>3. \A m \in T : ~(m < n)
  BY <1>2 DEF OpToRel
<1> QED BY <1>3

\* A set that holds 0 and the successor of each natural in it holds them all.
LEMMA NatAll ==
  ASSUME NEW T, 0 \in T, \A n \in Nat : n \in T => n + 1 \in T
  PROVE  Nat \subseteq T
<1> SUFFICES ASSUME Nat \ T # {} PROVE FALSE
  OBVIOUS
<1>1. PICK n \in Nat \ T : \A m \in Nat \ T : n <= m
  BY NatLeast
<1>2. n # 0 /\ n - 1 \in Nat /\ n - 1 \in T
  BY <1>1
<1> QED BY <1>1, <1>2

\* The subsets of a finite set, and the set without one of its elements.
LEMMA SubsetFinite ==
  ASSUME NEW U, IsFiniteSet(U), NEW V \in SUBSET U
  PROVE  /\ IsFiniteSet(V) /\ Cardinality(V) \in Nat
         /\ Cardinality(V) <= Cardinality(U) /\ (Cardinality(V) = 0 <=> V = {})
  BY FS_Subset, FS_CardinalityType, FS_EmptySet

\* Taking an element away leaves one element less.
LEMMA OneLess ==
  ASSUME NEW U, IsFiniteSet(U), NEW x \in U
  PROVE  /\ IsFiniteSet(U \ {x}) /\ Cardinality(U \ {x}) = Cardinality(U) - 1
         /\ Cardinality(U) \in Nat \ {0}
  BY FS_RemoveElement, FS_CardinalityType, FS_EmptySet

\* A finite set can be built from the empty one, an element at a time.
THEOREM SubsetInduction ==
  ASSUME NEW U, IsFiniteSet(U), NEW P, {} \in P,
         \A V \in SUBSET U : \A x \in U \ V : V \in P => V \cup {x} \in P
  PROVE  U \in P
<1> DEFINE T == {n \in Nat : \A V \in SUBSET U : Cardinality(V) = n => V \in P}
<1>1. 0 \in T
  BY SubsetFinite
<1>2. ASSUME NEW n \in Nat, n \in T PROVE n + 1 \in T
  <2> SUFFICES ASSUME NEW V \in SUBSET U, Cardinality(V) = n + 1 PROVE V \in P
    OBVIOUS
  <2>1. PICK x \in V : TRUE
    BY SubsetFinite
  <2>2. Cardinality(V \ {x}) = n /\ V \ {x} \in SUBSET U
    BY SubsetFinite, OneLess
  <2>3. V \ {x} \in P
    BY <1>2, <2>2
  <2>4. V = (V \ {x}) \cup {x}
    OBVIOUS
  <2> QED BY <2>2, <2>3, <2>4
<1> HIDE DEF T
<1>3. Nat \subseteq T
  BY <1>1, <1>2, NatAll
<1> QED BY <1>3, SubsetFinite DEF T

-----------------------------------------------------------------------------
(***************************************************************************)
(* The function behind SumFunctionOnSet exists and is unique.              *)
(***************************************************************************)
Picked(s) == CHOOSE x \in s : TRUE

\* The equation of the partial sums of f, with g for those already known.
Partial(f, g, s) == IF s = {} THEN 0 ELSE f[Picked(s)] + g[s \ {Picked(s)}]

Partials(f, U, g) == g = [s \in SUBSET U |-> Partial(f, g, s)]

UpTo(U, n) == {s \in SUBSET U : Cardinality(s) <= n}
PartialsUpTo(f, U, n, g) == g = [s \in UpTo(U, n) |-> Partial(f, g, s)]

\* The chosen element of a nonempty set is one of its elements.
LEMMA PickedIn == ASSUME NEW s, s # {} PROVE Picked(s) \in s
  BY DEF Picked

\* The sum is the value at the whole set of a function of partial sums.
LEMMA SumChosen ==
  ASSUME NEW f, NEW U
  PROVE  SumFunctionOnSet(f, U) = (CHOOSE g : Partials(f, U, g))[U]
  BY DEF SumFunctionOnSet, FoldFunctionOnSet, MapThenFoldSet, Partials, Partial, Picked

\* There are partial sums for the subsets of each size, one size after the other.
LEMMA PartialsUpToExist ==
  ASSUME NEW f, NEW U, IsFiniteSet(U)
  PROVE  \A n \in Nat : \E g : PartialsUpTo(f, U, n, g)
<1> DEFINE T == {n \in Nat : \E g : PartialsUpTo(f, U, n, g)}
<1>1. 0 \in T
  <2>1. UpTo(U, 0) = {{}}
    BY SubsetFinite, FS_EmptySet DEF UpTo
  <2> DEFINE g == [s \in UpTo(U, 0) |-> 0]
  <2>2. PartialsUpTo(f, U, 0, g)
    BY <2>1 DEF PartialsUpTo, Partial
  <2> QED BY <2>2
<1>2. ASSUME NEW n \in Nat, n \in T PROVE n + 1 \in T
  <2>1. PICK g : PartialsUpTo(f, U, n, g)
    BY <1>2
  <2> DEFINE h == [s \in UpTo(U, n + 1) |-> Partial(f, g, s)]
  <2>2. ASSUME NEW s \in UpTo(U, n + 1) PROVE h[s] = Partial(f, h, s)
    <3>1. CASE s = {}
      BY <3>1 DEF Partial
    <3>2. CASE s # {}
      <4> DEFINE r == s \ {Picked(s)}
      <4>1. Picked(s) \in s /\ s \in SUBSET U /\ IsFiniteSet(s)
        BY <3>2, PickedIn, SubsetFinite DEF UpTo
      <4>2. r \in UpTo(U, n) /\ r \in UpTo(U, n + 1)
        BY <4>1, OneLess DEF UpTo
      <4>3. g[r] = Partial(f, g, r)
        BY <2>1, <4>2 DEF PartialsUpTo
      <4>4. h[r] = Partial(f, g, r)
        BY <4>2
      <4> HIDE DEF h
      <4>5. Partial(f, g, s) = Partial(f, h, s)
        BY <3>2, <4>3, <4>4 DEF Partial
      <4> QED BY <4>5 DEF h
    <3> QED BY <3>1, <3>2
  <2>3. h = [s \in UpTo(U, n + 1) |-> Partial(f, h, s)]
    <3>1. h = [s \in UpTo(U, n + 1) |-> h[s]]
      OBVIOUS
    <3> HIDE DEF h
    <3> QED BY <2>2, <3>1
  <2> HIDE DEF h
  <2>4. PartialsUpTo(f, U, n + 1, h)
    BY <2>3 DEF PartialsUpTo
  <2> QED BY <2>4
<1> HIDE DEF T
<1>3. Nat \subseteq T
  BY <1>1, <1>2, NatAll
<1> QED BY <1>3 DEF T

\* There are partial sums for all subsets of a finite set: the chosen ones are.
LEMMA PartialsExist ==
  ASSUME NEW f, NEW U, IsFiniteSet(U)
  PROVE  Partials(f, U, CHOOSE g : Partials(f, U, g))
<1>1. Cardinality(U) \in Nat /\ UpTo(U, Cardinality(U)) = SUBSET U
  BY SubsetFinite DEF UpTo
<1>2. \E g : PartialsUpTo(f, U, Cardinality(U), g)
  BY <1>1, PartialsUpToExist
<1>3. \E g : Partials(f, U, g)
  BY <1>1, <1>2 DEF PartialsUpTo, Partials
<1> QED BY <1>3

\* Partial sums are unique: those of a set and of a subset of it agree.
LEMMA PartialsAgree ==
  ASSUME NEW f, NEW U, IsFiniteSet(U), NEW V \in SUBSET U,
         NEW g, NEW h, Partials(f, U, g), Partials(f, V, h)
  PROVE  \A s \in SUBSET V : g[s] = h[s]
<1> DEFINE T == {n \in Nat : \A s \in SUBSET V : Cardinality(s) = n => g[s] = h[s]}
<1>1. \A s \in SUBSET V : g[s] = Partial(f, g, s) /\ h[s] = Partial(f, h, s)
  BY DEF Partials
<1>2. 0 \in T
  BY <1>1, SubsetFinite DEF Partial
<1>3. ASSUME NEW n \in Nat, n \in T PROVE n + 1 \in T
  <2> SUFFICES ASSUME NEW s \in SUBSET V, Cardinality(s) = n + 1 PROVE g[s] = h[s]
    OBVIOUS
  <2>1. s # {} /\ Picked(s) \in s /\ IsFiniteSet(s)
    BY SubsetFinite, PickedIn
  <2>2. Cardinality(s \ {Picked(s)}) = n /\ s \ {Picked(s)} \in SUBSET V
    BY <2>1, OneLess
  <2>3. g[s \ {Picked(s)}] = h[s \ {Picked(s)}]
    BY <1>3, <2>2
  <2> QED BY <1>1, <2>1, <2>3 DEF Partial
<1> HIDE DEF T
<1>4. Nat \subseteq T
  BY <1>2, <1>3, NatAll
<1> QED BY <1>4, SubsetFinite DEF T

\* The equation of the sum, with the element that is picked first.
LEMMA SumPicked ==
  ASSUME NEW f, NEW U, IsFiniteSet(U), U # {}
  PROVE  SumFunctionOnSet(f, U)
           = f[Picked(U)] + SumFunctionOnSet(f, U \ {Picked(U)})
<1> DEFINE V == U \ {Picked(U)}
<1>1. Picked(U) \in U /\ IsFiniteSet(V) /\ V \in SUBSET U
  BY PickedIn, OneLess
<1>2. PICK g : SumFunctionOnSet(f, U) = g[U] /\ Partials(f, U, g)
  BY PartialsExist, SumChosen
<1>3. g[U] = f[Picked(U)] + g[V]
  BY <1>2 DEF Partials, Partial
<1> HIDE DEF V
<1>4. PICK h : SumFunctionOnSet(f, V) = h[V] /\ Partials(f, V, h)
  BY <1>1, PartialsExist, SumChosen
<1>5. g[V] = h[V]
  BY <1>1, <1>2, <1>4, PartialsAgree
<1> QED BY <1>2, <1>3, <1>4, <1>5 DEF V

-----------------------------------------------------------------------------
(***************************************************************************)
(* The laws of sums.                                                       *)
(***************************************************************************)
\* Nothing sums to zero.
THEOREM SumEmpty ==
  ASSUME NEW f
  PROVE  SumFunctionOnSet(f, {}) = 0
<1>1. IsFiniteSet({})
  BY FS_EmptySet
<1> QED BY <1>1, PartialsExist, SumChosen DEF Partials, Partial

\* A sum of integers is an integer.
LEMMA SumInt ==
  ASSUME NEW f, NEW U, IsFiniteSet(U), \A x \in U : f[x] \in Int
  PROVE  SumFunctionOnSet(f, U) \in Int
<1> DEFINE T == {n \in Nat : \A V \in SUBSET U :
                   Cardinality(V) = n => SumFunctionOnSet(f, V) \in Int}
<1>1. 0 \in T
  BY SubsetFinite, SumEmpty
<1>2. ASSUME NEW n \in Nat, n \in T PROVE n + 1 \in T
  <2> SUFFICES ASSUME NEW V \in SUBSET U, Cardinality(V) = n + 1
               PROVE  SumFunctionOnSet(f, V) \in Int
    OBVIOUS
  <2>1. V # {} /\ Picked(V) \in V /\ IsFiniteSet(V)
    BY SubsetFinite, PickedIn
  <2>2. Cardinality(V \ {Picked(V)}) = n
    BY <2>1, OneLess
  <2> QED BY <1>2, <2>1, <2>2, SumPicked
<1> HIDE DEF T
<1>3. Nat \subseteq T
  BY <1>1, <1>2, NatAll
<1> QED BY <1>3, SubsetFinite DEF T

\* Whichever element is taken first.
THEOREM SumRemove ==
  ASSUME NEW f, NEW U, IsFiniteSet(U), \A x \in U : f[x] \in Int, NEW y \in U
  PROVE  SumFunctionOnSet(f, U) = f[y] + SumFunctionOnSet(f, U \ {y})
<1> DEFINE Any(V) == \A x \in V :
             SumFunctionOnSet(f, V) = f[x] + SumFunctionOnSet(f, V \ {x})
           T == {n \in Nat : \A V \in SUBSET U : Cardinality(V) = n => Any(V)}
<1>1. 0 \in T
  BY SubsetFinite
<1>2. ASSUME NEW n \in Nat, n \in T PROVE n + 1 \in T
  <2> SUFFICES ASSUME NEW V \in SUBSET U, Cardinality(V) = n + 1, NEW x \in V
               PROVE  SumFunctionOnSet(f, V) = f[x] + SumFunctionOnSet(f, V \ {x})
    OBVIOUS
  <2> DEFINE c == Picked(V)
             A == V \ {c}
             B == V \ {x}
             C == A \ {x}
  <2>1. V # {} /\ c \in V /\ IsFiniteSet(V)
    BY SubsetFinite, PickedIn
  <2>2. Cardinality(A) = n /\ Cardinality(B) = n
    BY <2>1, OneLess
  <2>3. SumFunctionOnSet(f, V) = f[c] + SumFunctionOnSet(f, A)
    BY <2>1, SumPicked
  <2>4. CASE x = c
    BY <2>3, <2>4
  <2>5. CASE x # c
    <3>1. SumFunctionOnSet(f, A) = f[x] + SumFunctionOnSet(f, C)
      <4>1. A \in SUBSET U /\ x \in A
        BY <2>5
      <4> QED BY <4>1, <1>2, <2>2
    <3>2. SumFunctionOnSet(f, B) = f[c] + SumFunctionOnSet(f, C)
      <4>1. B \in SUBSET U /\ c \in B /\ C = B \ {c}
        BY <2>1, <2>5
      <4> HIDE DEF B, C
      <4> QED BY <4>1, <1>2, <2>2
    <3>3. SumFunctionOnSet(f, C) \in Int /\ f[x] \in Int /\ f[c] \in Int
      <4>1. C \in SUBSET U
        OBVIOUS
      <4> HIDE DEF C
      <4>2. IsFiniteSet(C)
        BY <4>1, SubsetFinite
      <4> QED BY <4>1, <4>2, <2>1, SumInt
    <3>4. SumFunctionOnSet(f, V) = f[x] + SumFunctionOnSet(f, B)
      <4> HIDE DEF A, B, C, c
      <4> QED BY <2>3, <3>1, <3>2, <3>3
    <3> QED BY <3>4
  <2> QED BY <2>4, <2>5
<1> HIDE DEF T
<1>3. Nat \subseteq T
  BY <1>1, <1>2, NatAll
<1>4. Any(U)
  BY <1>3, SubsetFinite DEF T
<1> QED BY <1>4

\* One more element adds its value.
THEOREM SumAdd ==
  ASSUME NEW f, NEW U, IsFiniteSet(U), NEW y, y \notin U,
         \A x \in U \cup {y} : f[x] \in Int
  PROVE  SumFunctionOnSet(f, U \cup {y}) = SumFunctionOnSet(f, U) + f[y]
<1> DEFINE V == U \cup {y}
<1>1. IsFiniteSet(V) /\ V \ {y} = U /\ y \in V
  BY FS_AddElement
<1>2. SumFunctionOnSet(f, U) \in Int /\ f[y] \in Int
  BY SumInt
<1>3. \A x \in V : f[x] \in Int
  OBVIOUS
<1>4. SumFunctionOnSet(f, V) = SumFunctionOnSet(f, U) + f[y]
  <2> HIDE DEF V
  <2> QED BY <1>1, <1>2, <1>3, SumRemove
<1> QED BY <1>4

\* The sum of the pointwise sum g of f and d.
THEOREM SumPlus ==
  ASSUME NEW f, NEW d, NEW g, NEW U, IsFiniteSet(U),
         \A x \in U : f[x] \in Int /\ d[x] \in Int /\ g[x] = f[x] + d[x]
  PROVE  SumFunctionOnSet(g, U) = SumFunctionOnSet(f, U) + SumFunctionOnSet(d, U)
<1> DEFINE P == {V \in SUBSET U :
             SumFunctionOnSet(g, V) = SumFunctionOnSet(f, V) + SumFunctionOnSet(d, V)}
<1>1. {} \in P
  BY SumEmpty
<1>2. ASSUME NEW V \in SUBSET U, NEW x \in U \ V, V \in P PROVE V \cup {x} \in P
  <2>1. IsFiniteSet(V)
    BY SubsetFinite
  <2>2. /\ SumFunctionOnSet(f, V \cup {x}) = SumFunctionOnSet(f, V) + f[x]
        /\ SumFunctionOnSet(d, V \cup {x}) = SumFunctionOnSet(d, V) + d[x]
        /\ SumFunctionOnSet(g, V \cup {x}) = SumFunctionOnSet(g, V) + g[x]
    BY <2>1, SumAdd
  <2>3. SumFunctionOnSet(f, V) \in Int /\ SumFunctionOnSet(d, V) \in Int
    BY <2>1, SumInt
  <2>4. SumFunctionOnSet(g, V) = SumFunctionOnSet(f, V) + SumFunctionOnSet(d, V)
    BY <1>2
  <2> QED BY <2>2, <2>3, <2>4
<1> HIDE DEF P
<1>3. U \in P
  BY <1>1, <1>2, SubsetInduction
<1> QED BY <1>3 DEF P

\* Functions with the same values on the set have the same sum.
THEOREM SumSame ==
  ASSUME NEW f, NEW g, NEW U, IsFiniteSet(U),
         \A x \in U : f[x] \in Int /\ g[x] = f[x]
  PROVE  SumFunctionOnSet(g, U) = SumFunctionOnSet(f, U)
<1> DEFINE P == {V \in SUBSET U : SumFunctionOnSet(g, V) = SumFunctionOnSet(f, V)}
<1>1. {} \in P
  BY SumEmpty
<1>2. ASSUME NEW V \in SUBSET U, NEW x \in U \ V, V \in P PROVE V \cup {x} \in P
  <2>1. IsFiniteSet(V)
    BY SubsetFinite
  <2>2. /\ SumFunctionOnSet(f, V \cup {x}) = SumFunctionOnSet(f, V) + f[x]
        /\ SumFunctionOnSet(g, V \cup {x}) = SumFunctionOnSet(g, V) + g[x]
    BY <2>1, SumAdd
  <2> QED BY <1>2, <2>2
<1> HIDE DEF P
<1>3. U \in P
  BY <1>1, <1>2, SubsetInduction
<1> QED BY <1>3 DEF P

\* Zeros sum to zero.
THEOREM SumZero ==
  ASSUME NEW f, NEW U, IsFiniteSet(U), \A x \in U : f[x] = 0
  PROVE  SumFunctionOnSet(f, U) = 0
<1> DEFINE P == {V \in SUBSET U : SumFunctionOnSet(f, V) = 0}
<1>1. {} \in P
  BY SumEmpty
<1>2. ASSUME NEW V \in SUBSET U, NEW x \in U \ V, V \in P PROVE V \cup {x} \in P
  <2>1. IsFiniteSet(V)
    BY SubsetFinite
  <2>2. SumFunctionOnSet(f, V \cup {x}) = SumFunctionOnSet(f, V) + f[x]
    BY <2>1, SumAdd
  <2> QED BY <1>2, <2>2
<1> HIDE DEF P
<1>3. U \in P
  BY <1>1, <1>2, SubsetInduction
<1> QED BY <1>3 DEF P

\* Larger values have a larger sum.
THEOREM SumMonotone ==
  ASSUME NEW f, NEW g, NEW U, IsFiniteSet(U),
         \A x \in U : f[x] \in Int /\ g[x] \in Int /\ f[x] <= g[x]
  PROVE  SumFunctionOnSet(f, U) <= SumFunctionOnSet(g, U)
<1> DEFINE P == {V \in SUBSET U : SumFunctionOnSet(f, V) <= SumFunctionOnSet(g, V)}
<1>1. {} \in P
  BY SumEmpty
<1>2. ASSUME NEW V \in SUBSET U, NEW x \in U \ V, V \in P PROVE V \cup {x} \in P
  <2>1. IsFiniteSet(V)
    BY SubsetFinite
  <2>2. /\ SumFunctionOnSet(f, V \cup {x}) = SumFunctionOnSet(f, V) + f[x]
        /\ SumFunctionOnSet(g, V \cup {x}) = SumFunctionOnSet(g, V) + g[x]
    BY <2>1, SumAdd
  <2>3. SumFunctionOnSet(f, V) \in Int /\ SumFunctionOnSet(g, V) \in Int
    BY <2>1, SumInt
  <2>4. SumFunctionOnSet(f, V) <= SumFunctionOnSet(g, V)
    BY <1>2
  <2> QED BY <2>2, <2>3, <2>4
<1> HIDE DEF P
<1>3. U \in P
  BY <1>1, <1>2, SubsetInduction
<1> QED BY <1>3 DEF P

\* A sum of naturals is a natural.
THEOREM SumNat ==
  ASSUME NEW f, NEW U, IsFiniteSet(U), \A x \in U : f[x] \in Nat
  PROVE  SumFunctionOnSet(f, U) \in Nat
<1> DEFINE zero == [x \in U |-> 0]
<1>1. SumFunctionOnSet(zero, U) = 0
  BY SumZero
<1>2. SumFunctionOnSet(zero, U) <= SumFunctionOnSet(f, U)
  BY SumMonotone
<1>3. SumFunctionOnSet(f, U) \in Int
  BY SumInt
<1> HIDE DEF zero
<1> QED BY <1>1, <1>2, <1>3

\* A function that changes at one element of the set.
THEOREM SumChange ==
  ASSUME NEW f, NEW g, NEW U, IsFiniteSet(U), NEW y \in U,
         \A x \in U : f[x] \in Int /\ g[x] \in Int,
         \A x \in U \ {y} : g[x] = f[x]
  PROVE  SumFunctionOnSet(g, U) = SumFunctionOnSet(f, U) + g[y] - f[y]
<1> DEFINE V == U \ {y}
<1>1. IsFiniteSet(V)
  BY OneLess
<1>2. /\ SumFunctionOnSet(f, U) = f[y] + SumFunctionOnSet(f, V)
      /\ SumFunctionOnSet(g, U) = g[y] + SumFunctionOnSet(g, V)
  BY SumRemove
<1>3. SumFunctionOnSet(g, V) = SumFunctionOnSet(f, V) /\ SumFunctionOnSet(f, V) \in Int
  <2>1. \A x \in V : f[x] \in Int /\ g[x] = f[x]
    OBVIOUS
  <2> HIDE DEF V
  <2> QED BY <1>1, <2>1, SumSame, SumInt
<1> HIDE DEF V
<1> QED BY <1>2, <1>3

\* One element among naturals is at most the sum.
THEOREM SumElement ==
  ASSUME NEW f, NEW U, IsFiniteSet(U), \A x \in U : f[x] \in Nat, NEW y \in U
  PROVE  f[y] <= SumFunctionOnSet(f, U)
<1> DEFINE V == U \ {y}
<1>1. IsFiniteSet(V) /\ \A x \in V : f[x] \in Nat
  BY OneLess
<1>2. SumFunctionOnSet(f, U) = f[y] + SumFunctionOnSet(f, V)
  BY SumRemove
<1>3. SumFunctionOnSet(f, V) \in Nat
  <2> HIDE DEF V
  <2> QED BY <1>1, SumNat
<1> HIDE DEF V
<1> QED BY <1>2, <1>3

\* Two sets without a common element.
THEOREM SumUnion ==
  ASSUME NEW f, NEW U, NEW W, IsFiniteSet(U), IsFiniteSet(W), U \cap W = {},
         \A x \in U \cup W : f[x] \in Int
  PROVE  SumFunctionOnSet(f, U \cup W) = SumFunctionOnSet(f, U) + SumFunctionOnSet(f, W)
<1> DEFINE P == {V \in SUBSET W :
             SumFunctionOnSet(f, U \cup V) = SumFunctionOnSet(f, U) + SumFunctionOnSet(f, V)}
<1>1. {} \in P
  <2>1. U \cup {} = U /\ SumFunctionOnSet(f, U) \in Int
    BY SumInt
  <2> QED BY <2>1, SumEmpty
<1>2. ASSUME NEW V \in SUBSET W, NEW x \in W \ V, V \in P PROVE V \cup {x} \in P
  <2> DEFINE X == U \cup V
  <2>1. IsFiniteSet(V) /\ IsFiniteSet(X) /\ x \notin X
    BY SubsetFinite, FS_Union
  <2>2. SumFunctionOnSet(f, X \cup {x}) = SumFunctionOnSet(f, X) + f[x]
    <3>1. \A z \in X \cup {x} : f[z] \in Int
      OBVIOUS
    <3> HIDE DEF X
    <3> QED BY <2>1, <3>1, SumAdd
  <2>3. SumFunctionOnSet(f, V \cup {x}) = SumFunctionOnSet(f, V) + f[x]
    BY <2>1, SumAdd
  <2>4. /\ SumFunctionOnSet(f, V) \in Int /\ SumFunctionOnSet(f, U) \in Int
        /\ f[x] \in Int
    BY <2>1, SumInt
  <2>5. SumFunctionOnSet(f, X) = SumFunctionOnSet(f, U) + SumFunctionOnSet(f, V)
    BY <1>2
  <2>6. U \cup (V \cup {x}) = X \cup {x}
    OBVIOUS
  <2>7. SumFunctionOnSet(f, X \cup {x})
          = SumFunctionOnSet(f, U) + SumFunctionOnSet(f, V \cup {x})
    <3> HIDE DEF X
    <3> QED BY <2>2, <2>3, <2>4, <2>5
  <2> QED BY <2>6, <2>7
<1> HIDE DEF P
<1>3. W \in P
  BY <1>1, <1>2, SubsetInduction
<1> QED BY <1>3 DEF P

\* Sums over sets without common elements add up to the sum over all of them.
THEOREM SumFamily ==
  ASSUME NEW f, NEW J, NEW S, NEW sums, IsFiniteSet(J), \A j \in J : IsFiniteSet(S[j]),
         \A j \in J : sums[j] = SumFunctionOnSet(f, S[j]) /\ \A x \in S[j] : f[x] \in Int,
         \A i, j \in J : i # j => S[i] \cap S[j] = {}
  PROVE  /\ IsFiniteSet(UNION {S[j] : j \in J})
         /\ SumFunctionOnSet(f, UNION {S[j] : j \in J}) = SumFunctionOnSet(sums, J)
<1> DEFINE all(V) == UNION {S[j] : j \in V}
           P == {V \in SUBSET J : /\ IsFiniteSet(all(V))
                                  /\ SumFunctionOnSet(f, all(V)) = SumFunctionOnSet(sums, V)}
<1>1. {} \in P
  <2>1. all({}) = {}
    OBVIOUS
  <2> HIDE DEF all
  <2> QED BY <2>1, SumEmpty, FS_EmptySet
<1>2. ASSUME NEW V \in SUBSET J, NEW x \in J \ V, V \in P PROVE V \cup {x} \in P
  <2>1. all(V \cup {x}) = all(V) \cup S[x]
    OBVIOUS
  <2>2. all(V) \cap S[x] = {}
    OBVIOUS
  <2>3. \A z \in all(V) \cup S[x] : f[z] \in Int
    OBVIOUS
  <2>4. \A j \in V \cup {x} : sums[j] = SumFunctionOnSet(f, S[j]) /\ sums[j] \in Int
    BY SumInt
  <2>5. IsFiniteSet(V) /\ IsFiniteSet(S[x]) /\ IsFiniteSet(all(V))
        /\ SumFunctionOnSet(f, all(V)) = SumFunctionOnSet(sums, V)
    BY <1>2, SubsetFinite
  <2>6. sums[x] = SumFunctionOnSet(f, S[x])
    BY <2>4
  <2> HIDE DEF all
  <2>7. IsFiniteSet(all(V) \cup S[x])
    BY <2>5, FS_Union
  <2>8. SumFunctionOnSet(f, all(V) \cup S[x])
          = SumFunctionOnSet(f, all(V)) + SumFunctionOnSet(f, S[x])
    BY <2>2, <2>3, <2>5, SumUnion
  <2>9. SumFunctionOnSet(sums, V \cup {x}) = SumFunctionOnSet(sums, V) + sums[x]
    BY <2>4, <2>5, SumAdd
  <2> QED BY <1>2, <2>1, <2>5, <2>6, <2>7, <2>8, <2>9
<1> HIDE DEF P
<1>3. J \in P
  BY <1>1, <1>2, SubsetInduction
<1> QED BY <1>3 DEF P

\* Nowhere more, and no less in all: everywhere the same.
THEOREM SumTight ==
  ASSUME NEW f, NEW g, NEW U, IsFiniteSet(U),
         \A x \in U : f[x] \in Int /\ g[x] \in Int /\ f[x] <= g[x],
         SumFunctionOnSet(g, U) <= SumFunctionOnSet(f, U), NEW y \in U
  PROVE  f[y] = g[y]
<1> DEFINE V == U \ {y}
<1>1. IsFiniteSet(V) /\ \A x \in V : f[x] \in Int /\ g[x] \in Int /\ f[x] <= g[x]
  BY OneLess
<1>2. /\ SumFunctionOnSet(f, U) = f[y] + SumFunctionOnSet(f, V)
      /\ SumFunctionOnSet(g, U) = g[y] + SumFunctionOnSet(g, V)
  BY SumRemove
<1> HIDE DEF V
<1>3. SumFunctionOnSet(f, V) <= SumFunctionOnSet(g, V)
  BY <1>1, SumMonotone
<1>4. SumFunctionOnSet(f, V) \in Int /\ SumFunctionOnSet(g, V) \in Int
  BY <1>1, SumInt
<1> QED BY <1>2, <1>3, <1>4
=============================================================================
