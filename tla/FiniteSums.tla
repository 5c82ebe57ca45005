----------------------------- MODULE FiniteSums -----------------------------
(***************************************************************************)
(* Sums over finite sets: what the fold of the community modules computes. *)
(* Induction over a finite set takes the hypothesis as a set of subsets,   *)
(* so that it is an instance of a well-founded ordering.                   *)
(***************************************************************************)
EXTENDS Integers, FiniteSets, Functions, FiniteSetTheorems, WellFoundedInduction, TLAPS

\* A family that has every subset T of S all of whose strict subsets it has, has S itself.
LEMMA FiniteSetInduction ==
  ASSUME NEW S, IsFiniteSet(S), NEW P,
         \A T \in SUBSET S : (\A U \in SUBSET T : U # T => U \in P) => T \in P
  PROVE  S \in P
<1> DEFINE Bad == {T \in FiniteSubsetsOf(S) : T \notin P}
<1>1. SUFFICES ASSUME S \notin P PROVE FALSE
  OBVIOUS
<1>2. Bad \subseteq FiniteSubsetsOf(S) /\ S \in Bad
  BY <1>1 DEF FiniteSubsetsOf
<1>3. IsWellFoundedOn(StrictSubsetOrdering(S), FiniteSubsetsOf(S))
  BY FS_StrictSubsetOrderingWellFounded
<1> HIDE DEF Bad
<1>4. PICK T \in Bad : \A U \in Bad : <<U, T>> \notin StrictSubsetOrdering(S)
  BY <1>2, <1>3, WFMin
<1>5. T \subseteq S /\ T \notin P /\ IsFiniteSet(T)
  BY <1>4 DEF Bad, FiniteSubsetsOf
<1>6. ASSUME NEW U \in SUBSET T, U # T
      PROVE  U \in P
  <2>1. IsFiniteSet(U)
    BY <1>5, FS_Subset
  <2>2. <<U, T>> \in StrictSubsetOrdering(S) /\ U \in FiniteSubsetsOf(S)
    BY <1>5, <1>6, <2>1 DEF StrictSubsetOrdering, FiniteSubsetsOf
  <2> QED
    BY <1>4, <2>2 DEF Bad
<1> QED
  BY <1>5, <1>6

-----------------------------------------------------------------------------
(***************************************************************************)
(* The fold's table of partial sums is well defined.                       *)
(***************************************************************************)

Chosen(S) == CHOOSE x \in S : TRUE

\* The equation that defines the table.
Table(f, S, h) ==
  h = [s \in SUBSET S |-> IF s = {} THEN 0 ELSE f[Chosen(s)] + h[s \ {Chosen(s)}]]

\* The chosen element is one of the set.
LEMMA ChosenIn == \A S : S # {} => Chosen(S) \in S
BY DEF Chosen

\* The entries of a table are what the equation says.
LEMMA TableEntry ==
  ASSUME NEW f, NEW S, NEW h, Table(f, S, h)
  PROVE  \A s \in SUBSET S : h[s] = IF s = {} THEN 0 ELSE f[Chosen(s)] + h[s \ {Chosen(s)}]
<1> SUFFICES ASSUME NEW s \in SUBSET S
             PROVE  h[s] = IF s = {} THEN 0 ELSE f[Chosen(s)] + h[s \ {Chosen(s)}]
  OBVIOUS
<1> DEFINE g == [t \in SUBSET S |-> IF t = {} THEN 0 ELSE f[Chosen(t)] + h[t \ {Chosen(t)}]]
<1>1. h = g
  BY Zenon DEF Table
<1>2. g[s] = IF s = {} THEN 0 ELSE f[Chosen(s)] + h[s \ {Chosen(s)}]
  OBVIOUS
<1> QED
  BY <1>1, <1>2, Zenon

\* Two tables agree on the finite sets that both have.
LEMMA TablesAgree ==
  ASSUME NEW f, NEW S, NEW h, Table(f, S, h), NEW T, NEW k, Table(f, T, k),
         NEW U, IsFiniteSet(U), U \subseteq S, U \subseteq T
  PROVE  h[U] = k[U]
<1> DEFINE P == {s \in SUBSET U : h[s] = k[s]}
<1>1. ASSUME NEW s \in SUBSET U, \A t \in SUBSET s : t # s => t \in P
      PROVE  s \in P
  <2>1. s \in SUBSET S /\ s \in SUBSET T
    OBVIOUS
  <2> HIDE DEF P
  <2>2. h[s] = IF s = {} THEN 0 ELSE f[Chosen(s)] + h[s \ {Chosen(s)}]
    <3>1. \A t \in SUBSET S : h[t] = IF t = {} THEN 0 ELSE f[Chosen(t)] + h[t \ {Chosen(t)}]
      BY ONLY Table(f, S, h), TableEntry
    <3> QED
      BY <2>1, <3>1
  <2>3. k[s] = IF s = {} THEN 0 ELSE f[Chosen(s)] + k[s \ {Chosen(s)}]
    BY <2>1, TableEntry
  <2>4. s # {} => h[s \ {Chosen(s)}] = k[s \ {Chosen(s)}]
    BY <1>1, ChosenIn DEF P
  <2> QED
    BY <2>2, <2>3, <2>4 DEF P
<1> HIDE DEF P
<1>2. U \in P
  BY <1>1, FiniteSetInduction
<1> QED
  BY <1>2 DEF P

\* Every finite set has a table.
LEMMA TableExists ==
  ASSUME NEW f, NEW S, IsFiniteSet(S)
  PROVE  \E h : Table(f, S, h)
<1> DEFINE P == {s \in SUBSET S : \E h : Table(f, s, h)}
<1>1. SUFFICES ASSUME NEW T \in SUBSET S, \A t \in SUBSET T : t # T => t \in P
               PROVE  T \in P
  <2> HIDE DEF P
  <2>1. S \in P
    BY FiniteSetInduction
  <2> QED
    BY <2>1 DEF P
<1> DEFINE tab(s) == CHOOSE h : Table(f, s, h)
           g == [s \in SUBSET T |->
                  IF s = {} THEN 0 ELSE f[Chosen(s)] + tab(s \ {Chosen(s)})[s \ {Chosen(s)}]]
<1>6. ASSUME NEW s, s \subseteq T, s # T
      PROVE  Table(f, s, tab(s))
  <2>1. \E h : Table(f, s, h)
    BY <1>1, <1>6
  <2> QED
    BY <2>1, Zenon
<1>7. ASSUME NEW s \in SUBSET T, s # T
      PROVE  g[s] = tab(s)[s]
  <2>1. Table(f, s, tab(s))
    BY <1>6, <1>7, Zenon
  <2> DEFINE h == tab(s)
  <2>2. h[s] = IF s = {} THEN 0 ELSE f[Chosen(s)] + h[s \ {Chosen(s)}]
    <3> HIDE DEF h
    <3>1. Table(f, s, h) 
      BY <2>1 DEF h
    <3>2. s \in SUBSET s
      OBVIOUS
    <3> QED
      BY <3>1, <3>2, TableEntry
  <2>3. CASE s = {}
    BY <2>2, <2>3
  <2>4. CASE s # {}
    <3> DEFINE t == s \ {Chosen(s)}
    <3>1. Chosen(s) \in s
      BY <2>4, ChosenIn
    <3>2. t \subseteq T /\ t # T /\ t \subseteq s /\ IsFiniteSet(t)
      <4>1. t \subseteq T /\ t # T /\ t \subseteq s 
        BY <3>1
      <4> QED
        BY <4>1, FS_Subset
    <3>3. Table(f, t, tab(t))
      BY <1>6, <3>2, Zenon
    <3>4. tab(t)[t] = tab(s)[t]
      <4> DEFINE k == tab(t)
      <4> HIDE DEF h, k, t
      <4>1. Table(f, t, k) /\ Table(f, s, h)
        BY <2>1, <3>3 DEF h, k
      <4>2. t \subseteq t
        OBVIOUS
      <4>3. k[t] = h[t]
        BY <3>2, <4>1, <4>2, TablesAgree
      <4> QED
        BY <4>3, Zenon DEF h, k
    <3>5. g[s] = f[Chosen(s)] + tab(t)[t]
      BY <2>4
    <3> QED
      BY <2>2, <2>4, <3>4, <3>5, Zenon
  <2> QED
    BY <2>3, <2>4
<1>8. g = [s \in SUBSET T |-> IF s = {} THEN 0 ELSE f[Chosen(s)] + g[s \ {Chosen(s)}]]
  <2>1. ASSUME NEW s \in SUBSET T, s # {}
        PROVE  g[s \ {Chosen(s)}] = tab(s \ {Chosen(s)})[s \ {Chosen(s)}]
    <3>1. Chosen(s) \in s
      BY <2>1, ChosenIn
    <3>2. s \ {Chosen(s)} \in SUBSET T /\ s \ {Chosen(s)} # T
      BY <3>1
    <3> HIDE DEF g, tab
    <3> QED
      BY <1>7, <3>2
  <2>2. \A s \in SUBSET T : g[s] = IF s = {} THEN 0 ELSE f[Chosen(s)] + g[s \ {Chosen(s)}]
    <3> SUFFICES ASSUME NEW s \in SUBSET T
                 PROVE  g[s] = IF s = {} THEN 0 ELSE f[Chosen(s)] + g[s \ {Chosen(s)}]
      OBVIOUS
    <3>1. g[s] = IF s = {} THEN 0 ELSE f[Chosen(s)] + tab(s \ {Chosen(s)})[s \ {Chosen(s)}]
      OBVIOUS
    <3> HIDE DEF g, tab
    <3> QED
      BY <3>1, <2>1
  <2>3. g = [s \in SUBSET T |-> g[s]]
    OBVIOUS
  <2> HIDE DEF g
  <2> QED
    BY <2>2, <2>3
<1> HIDE DEF g
<1>9. Table(f, T, g)
  BY <1>8 DEF Table
<1> QED
  BY <1>9
-----------------------------------------------------------------------------
(***************************************************************************)
(* The sum of a function's values over a set of indices.                   *)
(***************************************************************************)

\* The sum reads the last entry of a table.
LEMMA SumIsTableEntry ==
  ASSUME NEW f, NEW S
  PROVE  SumFunctionOnSet(f, S) = (CHOOSE h : Table(f, S, h))[S]
BY DEF SumFunctionOnSet, FoldFunctionOnSet, MapThenFoldSet, Table, Chosen

\* A sum is nothing, or the chosen element's value and the sum of the rest.
LEMMA SumEquation ==
  ASSUME NEW f, NEW S, IsFiniteSet(S)
  PROVE  SumFunctionOnSet(f, S) =
           IF S = {} THEN 0
           ELSE f[Chosen(S)] + SumFunctionOnSet(f, S \ {Chosen(S)})
<1> DEFINE tab(s) == CHOOSE h : Table(f, s, h)
           rest == S \ {Chosen(S)}
<1>1. IsFiniteSet(rest) /\ rest \subseteq S /\ rest \subseteq rest
  BY FS_RemoveElement
<1>2. \E h : Table(f, S, h)
  BY TableExists
<1>3. \E h : Table(f, rest, h)
  BY <1>1, TableExists
<1>4. Table(f, S, tab(S)) /\ Table(f, rest, tab(rest))
  BY <1>2, <1>3, Zenon
<1>5. SumFunctionOnSet(f, S) = tab(S)[S] /\ SumFunctionOnSet(f, rest) = tab(rest)[rest]
  BY SumIsTableEntry
<1> HIDE DEF tab, rest
<1>6. tab(S)[rest] = tab(rest)[rest]
  BY <1>1, <1>4, TablesAgree
<1>7. tab(S)[S] = IF S = {} THEN 0 ELSE f[Chosen(S)] + tab(S)[S \ {Chosen(S)}]
  <2>1. S \in SUBSET S
    OBVIOUS
  <2> QED
    BY <1>4, <2>1, TableEntry
<1> QED
  BY <1>5, <1>6, <1>7 DEF rest

\* The sum over no index.
LEMMA SumEmpty == \A f : SumFunctionOnSet(f, {}) = 0
BY SumEquation, FS_EmptySet

\* A sum of integers is an integer.
LEMMA SumInt ==
  ASSUME NEW f, NEW S, IsFiniteSet(S), \A x \in S : f[x] \in Int
  PROVE  SumFunctionOnSet(f, S) \in Int
<1> DEFINE P == {T \in SUBSET S : SumFunctionOnSet(f, T) \in Int}
<1>1. ASSUME NEW T \in SUBSET S, \A U \in SUBSET T : U # T => U \in P
      PROVE  T \in P
  <2>1. IsFiniteSet(T)
    BY FS_Subset
  <2>2. CASE T = {}
    BY <2>2, SumEmpty
  <2>3. CASE T # {}
    <3>1. Chosen(T) \in T
      BY <2>3, ChosenIn
    <3>2. SumFunctionOnSet(f, T \ {Chosen(T)}) \in Int
      BY <1>1, <3>1
    <3>3. SumFunctionOnSet(f, T) = f[Chosen(T)] + SumFunctionOnSet(f, T \ {Chosen(T)})
      BY <2>1, <2>3, SumEquation
    <3> QED
      BY <3>1, <3>2, <3>3
  <2> QED
    BY <2>2, <2>3
<1> HIDE DEF P
<1>2. S \in P
  BY <1>1, FiniteSetInduction
<1> QED
  BY <1>2 DEF P

\* Any index can be taken out of a sum.
LEMMA SumTakeOut ==
  ASSUME NEW f, NEW S, IsFiniteSet(S), \A x \in S : f[x] \in Int, NEW a \in S
  PROVE  SumFunctionOnSet(f, S) = f[a] + SumFunctionOnSet(f, S \ {a})
<1> DEFINE P == {T \in SUBSET S : \A x \in T :
                   SumFunctionOnSet(f, T) = f[x] + SumFunctionOnSet(f, T \ {x})}
<1>1. ASSUME NEW T \in SUBSET S, \A U \in SUBSET T : U # T => U \in P, NEW x \in T
      PROVE  SumFunctionOnSet(f, T) = f[x] + SumFunctionOnSet(f, T \ {x})
  <2> DEFINE c == Chosen(T)
  <2>1. IsFiniteSet(T) /\ c \in T
    BY ChosenIn, FS_Subset
  <2>2. SumFunctionOnSet(f, T) = f[c] + SumFunctionOnSet(f, T \ {c})
    BY <2>1, SumEquation
  <2> HIDE DEF c
  <2>3. CASE x = c
    BY <2>2, <2>3
  <2>4. CASE x # c
    <3>1. T \ {c} \in P /\ T \ {x} \in P
      BY <1>1, <2>1
    <3>2. SumFunctionOnSet(f, T \ {c}) = f[x] + SumFunctionOnSet(f, (T \ {c}) \ {x})
      BY <2>4, <3>1
    <3>3. SumFunctionOnSet(f, T \ {x}) = f[c] + SumFunctionOnSet(f, (T \ {x}) \ {c})
      BY <2>1, <2>4, <3>1
    <3>4. (T \ {c}) \ {x} = (T \ {x}) \ {c}
      OBVIOUS
    <3>5. SumFunctionOnSet(f, (T \ {x}) \ {c}) \in Int
      <4>1. IsFiniteSet((T \ {x}) \ {c})
        BY <2>1, FS_Subset
      <4> QED
        BY <4>1, SumInt
    <3>6. f[x] \in Int /\ f[c] \in Int
      BY <2>1
    <3> DEFINE w == SumFunctionOnSet(f, (T \ {x}) \ {c})
    <3>7. SumFunctionOnSet(f, T) = f[c] + (f[x] + w) /\ SumFunctionOnSet(f, T \ {x}) = f[c] + w
      BY <2>2, <3>2, <3>3, <3>4
    <3> HIDE DEF w
    <3>8. f[c] + (f[x] + w) = f[x] + (f[c] + w)
      BY <3>5, <3>6 DEF w
    <3> QED
      BY <3>7, <3>8
  <2> QED
    BY <2>3, <2>4
<1>2. \A T \in SUBSET S : (\A U \in SUBSET T : U # T => U \in P) => T \in P
  BY <1>1
<1> HIDE DEF P
<1>3. S \in P
  BY <1>2, FiniteSetInduction
<1> QED
  BY <1>3 DEF P

\* A new index adds its value.
LEMMA SumAdd ==
  ASSUME NEW f, NEW S, IsFiniteSet(S), NEW a, a \notin S,
         \A x \in S \cup {a} : f[x] \in Int
  PROVE  SumFunctionOnSet(f, S \cup {a}) = SumFunctionOnSet(f, S) + f[a]
<1>1. IsFiniteSet(S \cup {a})
  BY FS_AddElement
<1>2. (S \cup {a}) \ {a} = S
  OBVIOUS
<1>3. SumFunctionOnSet(f, S \cup {a}) = f[a] + SumFunctionOnSet(f, S)
  BY <1>1, <1>2, SumTakeOut
<1> QED
  BY <1>3, SumInt

\* Functions that agree on the indices have the same sum, and one that is
\* nowhere larger a sum that is not larger.
LEMMA SumMonotone ==
  ASSUME NEW f, NEW g, NEW S, IsFiniteSet(S),
         \A x \in S : f[x] \in Int /\ g[x] \in Int /\ f[x] <= g[x]
  PROVE  SumFunctionOnSet(f, S) <= SumFunctionOnSet(g, S)
<1> DEFINE P == {T \in SUBSET S : SumFunctionOnSet(f, T) <= SumFunctionOnSet(g, T)}
<1>1. ASSUME NEW T \in SUBSET S, \A U \in SUBSET T : U # T => U \in P
      PROVE  T \in P
  <2>1. IsFiniteSet(T)
    BY FS_Subset
  <2>2. CASE T = {}
    BY <2>2, SumEmpty
  <2>3. CASE T # {}
    <3> DEFINE rest == T \ {Chosen(T)}
    <3>1. Chosen(T) \in T /\ IsFiniteSet(rest)
      BY <2>1, <2>3, ChosenIn, FS_RemoveElement
    <3>2. SumFunctionOnSet(f, rest) <= SumFunctionOnSet(g, rest)
      BY <1>1, <3>1
    <3>3. /\ SumFunctionOnSet(f, T) = f[Chosen(T)] + SumFunctionOnSet(f, rest)
          /\ SumFunctionOnSet(g, T) = g[Chosen(T)] + SumFunctionOnSet(g, rest)
      BY <2>1, <2>3, SumEquation
    <3>4. SumFunctionOnSet(f, rest) \in Int /\ SumFunctionOnSet(g, rest) \in Int
      BY <3>1, SumInt
    <3> HIDE DEF rest
    <3> QED
      BY <3>1, <3>2, <3>3, <3>4
  <2> QED
    BY <2>2, <2>3
<1> HIDE DEF P
<1>2. S \in P
  BY <1>1, FiniteSetInduction
<1> QED
  BY <1>2 DEF P

\* Only the values at the indices count.
LEMMA SumCongruence ==
  ASSUME NEW f, NEW g, NEW S, IsFiniteSet(S),
         \A x \in S : f[x] \in Int /\ f[x] = g[x]
  PROVE  SumFunctionOnSet(f, S) = SumFunctionOnSet(g, S)
<1>1. /\ SumFunctionOnSet(f, S) <= SumFunctionOnSet(g, S)
      /\ SumFunctionOnSet(g, S) <= SumFunctionOnSet(f, S)
  BY SumMonotone
<1>2. SumFunctionOnSet(f, S) \in Int /\ SumFunctionOnSet(g, S) \in Int
  BY SumInt
<1> QED
  BY <1>1, <1>2

\* A sum of natural numbers is one.
LEMMA SumNat ==
  ASSUME NEW f, NEW S, IsFiniteSet(S), \A x \in S : f[x] \in Nat
  PROVE  SumFunctionOnSet(f, S) \in Nat
<1> DEFINE P == {T \in SUBSET S : SumFunctionOnSet(f, T) \in Nat}
<1>1. ASSUME NEW T \in SUBSET S, \A U \in SUBSET T : U # T => U \in P
      PROVE  T \in P
  <2>1. IsFiniteSet(T)
    BY FS_Subset
  <2>2. CASE T = {}
    BY <2>2, SumEmpty
  <2>3. CASE T # {}
    <3>1. Chosen(T) \in T
      BY <2>3, ChosenIn
    <3>2. SumFunctionOnSet(f, T \ {Chosen(T)}) \in Nat
      BY <1>1, <3>1
    <3>3. SumFunctionOnSet(f, T) = f[Chosen(T)] + SumFunctionOnSet(f, T \ {Chosen(T)})
      BY <2>1, <2>3, SumEquation
    <3> QED
      BY <3>1, <3>2, <3>3
  <2> QED
    BY <2>2, <2>3
<1> HIDE DEF P
<1>2. S \in P
  BY <1>1, FiniteSetInduction
<1> QED
  BY <1>2 DEF P

\* A sum of zeros.
LEMMA SumZero ==
  ASSUME NEW f, NEW S, IsFiniteSet(S), \A x \in S : f[x] = 0
  PROVE  SumFunctionOnSet(f, S) = 0
<1> DEFINE P == {T \in SUBSET S : SumFunctionOnSet(f, T) = 0}
<1>1. ASSUME NEW T \in SUBSET S, \A U \in SUBSET T : U # T => U \in P
      PROVE  T \in P
  <2>1. IsFiniteSet(T)
    BY FS_Subset
  <2>2. CASE T = {}
    BY <2>2, SumEmpty
  <2>3. CASE T # {}
    <3>1. Chosen(T) \in T
      BY <2>3, ChosenIn
    <3>2. SumFunctionOnSet(f, T \ {Chosen(T)}) = 0
      BY <1>1, <3>1
    <3>3. SumFunctionOnSet(f, T) = f[Chosen(T)] + SumFunctionOnSet(f, T \ {Chosen(T)})
      BY <2>1, <2>3, SumEquation
    <3> QED
      BY <3>1, <3>2, <3>3
  <2> QED
    BY <2>2, <2>3
<1> HIDE DEF P
<1>2. S \in P
  BY <1>1, FiniteSetInduction
<1> QED
  BY <1>2 DEF P

\* Fewer natural numbers have no larger sum.
LEMMA SumSubset ==
  ASSUME NEW f, NEW T, IsFiniteSet(T), \A x \in T : f[x] \in Nat, NEW S \in SUBSET T
  PROVE  SumFunctionOnSet(f, S) <= SumFunctionOnSet(f, T)
<1> DEFINE P == {U \in SUBSET (T \ S) : SumFunctionOnSet(f, S) <= SumFunctionOnSet(f, S \cup U)}
<1>1. ASSUME NEW U \in SUBSET (T \ S), \A V \in SUBSET U : V # U => V \in P
      PROVE  U \in P
  <2>1. CASE U = {}
    <3>1. SumFunctionOnSet(f, S) \in Nat
      BY FS_Subset, SumNat
    <3>2. S \cup U = S
      BY <2>1
    <3> QED
      BY <3>1, <3>2
  <2>2. CASE U # {}
    <3>1. PICK a : a \in U
      BY <2>2
    <3> DEFINE rest == S \cup (U \ {a})
    <3>2. rest \subseteq T /\ a \notin rest /\ a \in T /\ S \cup U = rest \cup {a}
      BY <3>1
    <3>3. SumFunctionOnSet(f, S) <= SumFunctionOnSet(f, rest)
      BY <1>1, <3>1
    <3> HIDE DEF rest
    <3>4. IsFiniteSet(rest) /\ IsFiniteSet(S)
      BY <3>2, FS_Subset
    <3>5. SumFunctionOnSet(f, rest \cup {a}) = SumFunctionOnSet(f, rest) + f[a]
      <4>1. \A x \in rest \cup {a} : f[x] \in Int
        BY <3>2
      <4> QED
        BY <3>2, <3>4, <4>1, SumAdd
    <3>6. SumFunctionOnSet(f, rest) \in Nat /\ SumFunctionOnSet(f, S) \in Nat /\ f[a] \in Nat
      <4>1. (\A x \in rest : f[x] \in Nat) /\ (\A x \in S : f[x] \in Nat)
        BY <3>2
      <4> QED
        BY <3>2, <3>4, <4>1, SumNat
    <3>7. \A x, y, z \in Nat : x <= y => x <= y + z
      OBVIOUS
    <3>8. SumFunctionOnSet(f, S) <= SumFunctionOnSet(f, rest \cup {a})
      BY <3>3, <3>5, <3>6, <3>7
    <3> QED
      BY <3>2, <3>8
  <2> QED
    BY <2>1, <2>2
<1>2. IsFiniteSet(T \ S)
  BY FS_Subset
<1> HIDE DEF P
<1>3. T \ S \in P
  BY <1>1, <1>2, FiniteSetInduction
<1>4. S \cup (T \ S) = T
  OBVIOUS
<1> QED
  BY <1>3, <1>4 DEF P

\* The sum over two disjoint sets.
LEMMA SumUnion ==
  ASSUME NEW f, NEW S, NEW T, IsFiniteSet(S), IsFiniteSet(T), S \cap T = {},
         \A x \in S \cup T : f[x] \in Int
  PROVE  SumFunctionOnSet(f, S \cup T) = SumFunctionOnSet(f, S) + SumFunctionOnSet(f, T)
<1> DEFINE P == {U \in SUBSET T :
                   SumFunctionOnSet(f, S \cup U) = SumFunctionOnSet(f, S) + SumFunctionOnSet(f, U)}
<1>1. ASSUME NEW U \in SUBSET T, \A V \in SUBSET U : V # U => V \in P
      PROVE  U \in P
  <2>1. SumFunctionOnSet(f, S) \in Int
    BY SumInt
  <2>2. CASE U = {}
    <3>1. S \cup U = S /\ SumFunctionOnSet(f, U) = 0
      BY <2>2, SumEmpty
    <3>2. SumFunctionOnSet(f, S \cup U) = SumFunctionOnSet(f, S)
      BY <3>1
    <3>3. SumFunctionOnSet(f, S) = SumFunctionOnSet(f, S) + SumFunctionOnSet(f, U)
      BY ONLY <2>1, <3>1
    <3> QED
      BY <3>2, <3>3
  <2>3. CASE U # {}
    <3>1. PICK a : a \in U
      BY <2>3
    <3> DEFINE few == U \ {a}
               rest == S \cup few
    <3>2. /\ few \subseteq T /\ a \notin few /\ a \in T /\ a \notin rest
          /\ U = few \cup {a} /\ S \cup U = rest \cup {a}
      BY <3>1
    <3>3. SumFunctionOnSet(f, rest) = SumFunctionOnSet(f, S) + SumFunctionOnSet(f, few)
      BY <1>1, <3>1
    <3>4. \A x \in rest \cup {a} : f[x] \in Int
      BY <3>2
    <3>5. IsFiniteSet(few) /\ IsFiniteSet(rest)
      BY <3>2, FS_Subset, FS_Union
    <3> HIDE DEF few, rest
    <3>6. SumFunctionOnSet(f, rest \cup {a}) = SumFunctionOnSet(f, rest) + f[a]
      BY <3>2, <3>4, <3>5, SumAdd
    <3>7. SumFunctionOnSet(f, few \cup {a}) = SumFunctionOnSet(f, few) + f[a]
      <4>1. \A x \in few \cup {a} : f[x] \in Int
        BY <3>2
      <4> QED
        BY <3>2, <3>5, <4>1, SumAdd
    <3>8. SumFunctionOnSet(f, few) \in Int /\ f[a] \in Int
      <4>1. \A x \in few : f[x] \in Int
        BY <3>2
      <4> QED
        BY <3>2, <3>5, <4>1, SumInt
    <3>9. \A x, y, z \in Int : (x + y) + z = x + (y + z)
      OBVIOUS
    <3>10. SumFunctionOnSet(f, rest \cup {a}) = SumFunctionOnSet(f, S) + SumFunctionOnSet(f, few \cup {a})
      BY ONLY <2>1, <3>3, <3>6, <3>7, <3>8, <3>9
    <3>11. SumFunctionOnSet(f, S \cup U) = SumFunctionOnSet(f, S) + SumFunctionOnSet(f, U)
      BY ONLY <3>2, <3>10
    <3> QED
      BY <3>11
  <2> QED
    BY <2>2, <2>3
<1> HIDE DEF P
<1>2. T \in P
  BY <1>1, FiniteSetInduction
<1> QED
  BY <1>2 DEF P

-----------------------------------------------------------------------------
(***************************************************************************)
(* The sum of all values of a function.                                    *)
(***************************************************************************)

\* The function has one more index.
LEMMA SumFunctionExtended ==
  ASSUME NEW S, IsFiniteSet(S), NEW a, a \notin S, NEW f, NEW g,
         DOMAIN f = S, DOMAIN g = S \cup {a},
         \A x \in S : f[x] \in Int /\ g[x] = f[x], g[a] \in Int
  PROVE  SumFunction(g) = SumFunction(f) + g[a]
<1>1. SumFunctionOnSet(g, S \cup {a}) = SumFunctionOnSet(g, S) + g[a]
  <2>1. \A x \in S \cup {a} : g[x] \in Int
    OBVIOUS
  <2> QED
    BY <2>1, SumAdd
<1>2. SumFunctionOnSet(f, S) = SumFunctionOnSet(g, S)
  BY SumCongruence
<1> QED
  BY <1>1, <1>2 DEF SumFunction

\* One value changes.
LEMMA SumFunctionUpdated ==
  ASSUME NEW S, IsFiniteSet(S), NEW f \in [S -> Int], NEW a \in S, NEW v \in Int
  PROVE  SumFunction([f EXCEPT ![a] = v]) = SumFunction(f) - f[a] + v
<1> DEFINE g == [f EXCEPT ![a] = v]
           rest == S \ {a}
<1>1. g \in [S -> Int] /\ g[a] = v /\ \A x \in rest : g[x] = f[x]
  OBVIOUS
<1>2. IsFiniteSet(rest) /\ \A x \in rest : f[x] \in Int
  BY FS_RemoveElement
<1> HIDE DEF g
<1>3. /\ SumFunctionOnSet(f, S) = f[a] + SumFunctionOnSet(f, rest)
      /\ SumFunctionOnSet(g, S) = g[a] + SumFunctionOnSet(g, rest)
  BY <1>1, SumTakeOut
<1> HIDE DEF rest
<1>4. SumFunctionOnSet(f, rest) = SumFunctionOnSet(g, rest)
  BY <1>1, <1>2, SumCongruence
<1>5. SumFunctionOnSet(f, rest) \in Int /\ f[a] \in Int
  BY <1>2, SumInt
<1>6. SumFunction(f) = SumFunctionOnSet(f, S) /\ SumFunction(g) = SumFunctionOnSet(g, S)
  BY <1>1 DEF SumFunction
<1>7. SumFunction(g) = SumFunction(f) - f[a] + v
  BY <1>1, <1>3, <1>4, <1>5, <1>6
<1> QED
  BY <1>7 DEF g
=============================================================================
