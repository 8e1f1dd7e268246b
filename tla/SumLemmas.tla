------------------------------ MODULE SumLemmas ------------------------------
(***************************************************************************)
(* Facts about least and largest numbers and about MapThenSumSet that the  *)
(* proofs about several modules need.  MapThenSumSet takes the elements of *)
(* a set in an order that CHOOSE fixes, and adds up partial sums in a      *)
(* recursive function.  That the function exists, and that the order does  *)
(* not matter, is shown by the least cardinality for which it would fail:  *)
(* the induction without an induction theorem.                             *)
(***************************************************************************)
EXTENDS Integers, FiniteSets, FiniteSetsExt, FiniteSetTheorems,
        WellFoundedInduction, TLAPS

-----------------------------------------------------------------------------
(* Least and largest numbers. *)

SmallerNat == OpToRel(<, Nat)

(* The numbers are well-founded. *)
LEMMA LeastNumber ==
  ASSUME NEW S \in SUBSET Nat, S # {}
  PROVE  \E n \in S : \A m \in S : n <= m
  <1>1. PICK n \in S : \A m \in S : ~(<<m, n>> \in SmallerNat)
    <2>1. IsWellFoundedOn(SmallerNat, Nat) BY NatLessThanWellFounded DEF SmallerNat
    <2> QED BY <2>1, WFMin
  <1>2. \A m \in S : ~(m < n) BY <1>1 DEF SmallerNat, OpToRel
  <1> QED BY <1>2

(* Min is what it is for, of infinite sets too. *)
LEMMA MinIsLeast ==
  ASSUME NEW S \in SUBSET Nat, S # {}
  PROVE  Min(S) \in S /\ \A m \in S : Min(S) <= m
  BY LeastNumber DEF Min

Endless(S) == IsFiniteSet(S) /\ S # {} /\ \A n \in S : \E m \in S : m > n

(* A smallest finite set without a largest number cannot be: take a number *)
(* out of it, and the rest has one.                                        *)
LEMMA NoneEndless ==
  ASSUME NEW S \in SUBSET Nat
  PROVE  ~Endless(S)
  <1> DEFINE Sizes == {Cardinality(T) : T \in {T \in SUBSET Nat : Endless(T)}}
  <1> SUFFICES ASSUME Endless(S) PROVE FALSE OBVIOUS
  <1>1. Sizes \subseteq Nat /\ Cardinality(S) \in Sizes
    BY FS_CardinalityType DEF Endless
  <1>2. PICK n \in Sizes : \A m \in Sizes : n <= m
    <2> HIDE DEF Sizes
    <2>1. Sizes \in SUBSET Nat /\ Sizes # {} BY <1>1
    <2> QED BY <2>1, LeastNumber
  <1>3. PICK T \in SUBSET Nat : Endless(T) /\ Cardinality(T) = n BY <1>2
  <1>4. PICK x \in T : TRUE BY <1>3 DEF Endless
  <1>5. IsFiniteSet(T \ {x}) /\ Cardinality(T \ {x}) = n - 1
    BY <1>3, <1>4, FS_RemoveElement DEF Endless
  <1>6. ~Endless(T \ {x})
    <2>1. n \in Nat /\ ~(n <= n - 1) BY <1>1
    <2>2. ASSUME Endless(T \ {x}) PROVE n - 1 \in Sizes
      <3>1. T \ {x} \in SUBSET Nat OBVIOUS
      <3> QED BY <1>5, <2>2, <3>1
    <2> HIDE DEF Sizes
    <2> QED BY <1>2, <2>1, <2>2
  <1>7. T # {x} BY <1>3 DEF Endless
  <1>8. PICK y \in T \ {x} : \A m \in T \ {x} : ~(m > y)
    <2>1. T \ {x} # {} BY <1>4, <1>7
    <2> QED BY <1>5, <1>6, <2>1 DEF Endless
  <1>9. \A m \in T : ~(m > x) \/ ~(x >= y) BY <1>8
  <1> QED BY <1>3, <1>4, <1>8, <1>9 DEF Endless

(* Max is what it is for. *)
LEMMA MaxIsLargest ==
  ASSUME NEW S \in SUBSET Nat, IsFiniteSet(S), S # {}
  PROVE  Max(S) \in S /\ \A m \in S : m <= Max(S)
  <1>1. PICK n \in S : \A m \in S : ~(m > n) BY NoneEndless DEF Endless
  <1>2. \A m \in S : n >= m BY <1>1
  <1>3. Max(S) \in S /\ \A m \in S : Max(S) >= m BY <1>2 DEF Max
  <1> QED BY <1>3

-----------------------------------------------------------------------------
(* Sums. *)

(* The sum of the values of f over S. *)
SumOver(f, S) == MapThenSumSet(LAMBDA x : f[x], S)

(* The order in which MapThenSumSet takes the elements. *)
Chosen(s) == CHOOSE x \in s : TRUE

(* g is the table of the partial sums.                                     *)
Tables(g, f, S) ==
  g = [s \in SUBSET S |-> IF s = {} THEN 0 ELSE f[Chosen(s)] + g[s \ {Chosen(s)}]]

Table(f, S) == CHOOSE g : Tables(g, f, S)

(* It is what MapThenSumSet looks up.                                      *)
LEMMA SumIsTable ==
  ASSUME NEW f, NEW S
  PROVE  SumOver(f, S) = Table(f, S)[S]
  BY DEF SumOver, MapThenSumSet, MapThenFoldSet, Table, Tables, Chosen

(* g is right for the subsets of S with up to n elements. *)
Partial(g, f, S, n) ==
  \A s \in SUBSET S :
    Cardinality(s) <= n =>
      g[s] = IF s = {} THEN 0 ELSE f[Chosen(s)] + g[s \ {Chosen(s)}]

(* For the least n there was none for, add the last row to the one before. *)
LEMMA PartialExists ==
  ASSUME NEW f, NEW S, IsFiniteSet(S), NEW n \in Nat
  PROVE  \E g : g = [s \in SUBSET S |-> g[s]] /\ Partial(g, f, S, n)
  <1> DEFINE Good(m) == \E g : g = [s \in SUBSET S |-> g[s]] /\ Partial(g, f, S, m)
             Bad == {m \in Nat : ~Good(m)}
  <1>1. SUFFICES ASSUME Bad # {} PROVE FALSE OBVIOUS
  <1>2. PICK m \in Bad : \A k \in Bad : m <= k
    <2>1. Bad \in SUBSET Nat OBVIOUS
    <2> HIDE DEF Bad
    <2> QED BY <1>1, <2>1, LeastNumber
  <1>3. \A s \in SUBSET S : Cardinality(s) \in Nat /\ (Cardinality(s) = 0 <=> s = {})
    BY FS_Subset, FS_CardinalityType, FS_EmptySet
  <1>4. CASE m = 0
    <2> DEFINE g == [s \in SUBSET S |-> 0]
    <2>1. g = [s \in SUBSET S |-> g[s]] OBVIOUS
    <2>2. Partial(g, f, S, 0) BY <1>3 DEF Partial
    <2>3. Good(0)
      <3> HIDE DEF g
      <3> QED BY <2>1, <2>2
    <2> QED BY <1>2, <1>4, <2>3
  <1>5. CASE m # 0
    <2>1. m - 1 \in Nat /\ ~(m <= m - 1) BY <1>2, <1>5
    <2>2. Good(m - 1) BY <1>2, <2>1
    <2>3. PICK h : h = [s \in SUBSET S |-> h[s]] /\ Partial(h, f, S, m - 1)
      BY <2>2
    <2> DEFINE g == [s \in SUBSET S |-> IF Cardinality(s) <= m - 1 THEN h[s]
                                        ELSE f[Chosen(s)] + h[s \ {Chosen(s)}]]
    <2>4. g = [s \in SUBSET S |-> g[s]] OBVIOUS
    <2>5. ASSUME NEW s \in SUBSET S, Cardinality(s) <= m
          PROVE  g[s] = IF s = {} THEN 0 ELSE f[Chosen(s)] + g[s \ {Chosen(s)}]
      <3>1. CASE s = {}
        <4>1. Cardinality(s) <= m - 1 /\ g[s] = h[s] BY <1>3, <3>1, <2>1
        <4> QED BY <4>1, <3>1, <2>3 DEF Partial
      <3>2. CASE s # {}
        <4>1. Chosen(s) \in s BY <3>2 DEF Chosen
        <4>2. Cardinality(s \ {Chosen(s)}) = Cardinality(s) - 1 /\ s \ {Chosen(s)} \in SUBSET S
          BY <4>1, FS_Subset, FS_RemoveElement
        <4>3. Cardinality(s \ {Chosen(s)}) <= m - 1 BY <4>2, <2>5, <1>3, <2>1
        <4>4. g[s \ {Chosen(s)}] = h[s \ {Chosen(s)}] BY <4>2, <4>3
        <4>5. CASE Cardinality(s) <= m - 1
          <5>1. g[s] = h[s] BY <4>5
          <5> QED BY <5>1, <4>4, <4>5, <2>3, <3>2 DEF Partial
        <4>6. CASE ~(Cardinality(s) <= m - 1)
          <5>1. g[s] = f[Chosen(s)] + h[s \ {Chosen(s)}] BY <4>6
          <5> QED BY <5>1, <4>4, <3>2
        <4> QED BY <4>5, <4>6
      <3> QED BY <3>1, <3>2
    <2>6. Partial(g, f, S, m)
      <3> HIDE DEF g
      <3> QED BY <2>5 DEF Partial
    <2>7. Good(m)
      <3> HIDE DEF g
      <3> QED BY <2>4, <2>6
    <2> QED BY <1>2, <2>7
  <1> QED BY <1>4, <1>5

(* So there is one for all subsets of a finite set. *)
LEMMA TableExists ==
  ASSUME NEW f, NEW S, IsFiniteSet(S)
  PROVE  \E g : Tables(g, f, S)
  <1>1. Cardinality(S) \in Nat BY FS_CardinalityType
  <1>2. PICK g : g = [s \in SUBSET S |-> g[s]] /\ Partial(g, f, S, Cardinality(S))
    BY <1>1, PartialExists
  <1>3. \A s \in SUBSET S : Cardinality(s) <= Cardinality(S) BY FS_Subset
  <1>4. \A s \in SUBSET S : g[s] = IF s = {} THEN 0 ELSE f[Chosen(s)] + g[s \ {Chosen(s)}]
    BY <1>2, <1>3 DEF Partial
  <1>5. g = [s \in SUBSET S |-> IF s = {} THEN 0 ELSE f[Chosen(s)] + g[s \ {Chosen(s)}]]
    BY <1>2, <1>4
  <1> QED BY <1>5 DEF Tables

(* The partial sums that the table of S has. *)
LEMMA TableIs ==
  ASSUME NEW f, NEW S, IsFiniteSet(S), NEW s \in SUBSET S
  PROVE  Table(f, S)[s] = IF s = {} THEN 0
                          ELSE f[Chosen(s)] + Table(f, S)[s \ {Chosen(s)}]
  <1>1. Tables(Table(f, S), f, S) BY TableExists DEF Table
  <1>2. PICK g : g = Table(f, S) OBVIOUS
  <1>3. g[s] = IF s = {} THEN 0 ELSE f[Chosen(s)] + g[s \ {Chosen(s)}]
    BY <1>1, <1>2 DEF Tables
  <1> QED BY <1>2, <1>3, Zenon

(* What fails for some finite set fails for one all of whose smaller       *)
(* subsets are right: the least in number of those in F.                   *)
LEMMA Smallest ==
  ASSUME NEW S, IsFiniteSet(S), NEW F \in SUBSET SUBSET S, F # {}
  PROVE  \E s \in F : \A x \in s : s \ {x} \notin F
  <1> DEFINE Sizes == {Cardinality(s) : s \in F}
  <1>1. \A s \in SUBSET S : IsFiniteSet(s) /\ Cardinality(s) \in Nat
    BY FS_Subset, FS_CardinalityType
  <1>2. Sizes \in SUBSET Nat /\ Sizes # {} BY <1>1
  <1>3. PICK n \in Sizes : \A m \in Sizes : n <= m
    <2> HIDE DEF Sizes
    <2> QED BY <1>2, LeastNumber
  <1>4. PICK s \in F : Cardinality(s) = n BY <1>3
  <1>5. ASSUME NEW x \in s, s \ {x} \in F PROVE FALSE
    <2>1. Cardinality(s \ {x}) = n - 1 BY <1>1, <1>4, FS_RemoveElement
    <2>2. n - 1 \in Sizes BY <1>5, <2>1
    <2> QED BY <1>2, <1>3, <2>2
  <1> QED BY <1>5

(* The tables of a set and of a part of it agree on the part. *)
LEMMA TablesAgree ==
  ASSUME NEW f, NEW S, IsFiniteSet(S), NEW T \in SUBSET S, NEW s \in SUBSET T
  PROVE  Table(f, S)[s] = Table(f, T)[s]
  <1>1. IsFiniteSet(T) BY FS_Subset
  <1>2. PICK g : g = Table(f, S) OBVIOUS
  <1>3. PICK h : h = Table(f, T) OBVIOUS
  <1>4. ASSUME NEW u \in SUBSET T
        PROVE  /\ g[u] = IF u = {} THEN 0 ELSE f[Chosen(u)] + g[u \ {Chosen(u)}]
               /\ h[u] = IF u = {} THEN 0 ELSE f[Chosen(u)] + h[u \ {Chosen(u)}]
    <2>1. u \in SUBSET S OBVIOUS
    <2>2. Tables(g, f, S) /\ Tables(h, f, T) BY <1>1, <1>2, <1>3, TableExists DEF Table
    <2>3. g[u] = IF u = {} THEN 0 ELSE f[Chosen(u)] + g[u \ {Chosen(u)}]
      BY <2>1, <2>2 DEF Tables
    <2>4. h[u] = IF u = {} THEN 0 ELSE f[Chosen(u)] + h[u \ {Chosen(u)}]
      BY <2>2 DEF Tables
    <2> QED BY <2>3, <2>4
  <1> DEFINE F == {u \in SUBSET T : g[u] # h[u]}
  <1>5. F = {}
    <2> SUFFICES ASSUME F # {} PROVE FALSE OBVIOUS
    <2>1. PICK u \in F : \A x \in u : u \ {x} \notin F
      <3>1. F \in SUBSET SUBSET T OBVIOUS
      <3> HIDE DEF F
      <3> QED BY <1>1, <3>1, Smallest
    <2>2. u # {} BY <1>4, <2>1
    <2>3. Chosen(u) \in u BY <2>2 DEF Chosen
    <2>4. g[u \ {Chosen(u)}] = h[u \ {Chosen(u)}] BY <2>1, <2>3
    <2> QED BY <1>4, <2>1, <2>2, <2>4
  <1> QED BY <1>2, <1>3, <1>5

(* A sum over nothing, and the sum with the element that comes first. *)
LEMMA SumOfNone == \A f : SumOver(f, {}) = 0
  <1> TAKE f
  <1> QED BY SumIsTable, TableIs, FS_EmptySet

LEMMA SumFirst ==
  ASSUME NEW f, NEW S, IsFiniteSet(S), S # {}
  PROVE  /\ Chosen(S) \in S
         /\ SumOver(f, S) = f[Chosen(S)] + SumOver(f, S \ {Chosen(S)})
  <1>1. Chosen(S) \in S BY DEF Chosen
  <1>2. PICK T \in SUBSET S : T = S \ {Chosen(S)} OBVIOUS
  <1>3. Table(f, S)[S] = f[Chosen(S)] + Table(f, S)[T]
    <2>1. S \in SUBSET S OBVIOUS
    <2> QED BY <1>2, <2>1, TableIs
  <1>4. Table(f, S)[T] = Table(f, T)[T] BY TablesAgree
  <1> QED BY <1>1, <1>2, <1>3, <1>4, SumIsTable

(* A sum of numbers is a number. *)
LEMMA SumIsNat ==
  ASSUME NEW f, NEW S, IsFiniteSet(S), \A x \in S : f[x] \in Nat
  PROVE  SumOver(f, S) \in Nat
  <1> DEFINE F == {u \in SUBSET S : SumOver(f, u) \notin Nat}
  <1>1. SUFFICES ASSUME F # {} PROVE FALSE OBVIOUS
  <1>2. PICK u \in F : \A x \in u : u \ {x} \notin F
    <2>1. F \in SUBSET SUBSET S OBVIOUS
    <2> HIDE DEF F
    <2> QED BY <1>1, <2>1, Smallest
  <1>3. u # {} BY SumOfNone
  <1>4. IsFiniteSet(u) BY FS_Subset
  <1>5. Chosen(u) \in u /\ SumOver(f, u) = f[Chosen(u)] + SumOver(f, u \ {Chosen(u)})
    BY <1>3, <1>4, SumFirst
  <1>6. SumOver(f, u \ {Chosen(u)}) \in Nat BY <1>2, <1>5
  <1> QED BY <1>2, <1>5, <1>6

(* The order does not matter: any element may come first. *)
LEMMA SumSplit ==
  ASSUME NEW f, NEW S, IsFiniteSet(S), \A x \in S : f[x] \in Nat, NEW x \in S
  PROVE  SumOver(f, S) = f[x] + SumOver(f, S \ {x})
  <1> DEFINE Right(u) == \A y \in u : SumOver(f, u) = f[y] + SumOver(f, u \ {y})
             F == {u \in SUBSET S : ~Right(u)}
  <1>1. SUFFICES ASSUME F # {} PROVE FALSE
    <2>1. S \in SUBSET S OBVIOUS
    <2> QED BY <2>1
  <1>2. PICK u \in F : \A y \in u : u \ {y} \notin F
    <2>1. F \in SUBSET SUBSET S OBVIOUS
    <2> HIDE DEF F
    <2> QED BY <1>1, <2>1, Smallest
  <1>3. PICK y \in u : SumOver(f, u) # f[y] + SumOver(f, u \ {y}) BY <1>2
  <1>4. IsFiniteSet(u) /\ u \subseteq S BY <1>2, FS_Subset
  <1>5. PICK z \in u : z = Chosen(u) /\ SumOver(f, u) = f[z] + SumOver(f, u \ {z})
    BY <1>3, <1>4, SumFirst
  <1>6. y # z BY <1>3, <1>5
  <1>7. SumOver(f, u \ {z}) = f[y] + SumOver(f, (u \ {z}) \ {y})
    <2>1. Right(u \ {z}) BY <1>2
    <2> QED BY <1>6, <2>1
  <1>8. SumOver(f, u \ {y}) = f[z] + SumOver(f, (u \ {y}) \ {z})
    <2>1. Right(u \ {y}) BY <1>2
    <2> QED BY <1>6, <2>1
  <1>9. (u \ {z}) \ {y} = (u \ {y}) \ {z} OBVIOUS
  <1>10. PICK rest \in Nat : rest = SumOver(f, (u \ {y}) \ {z})
    <2>1. (u \ {y}) \ {z} \in SUBSET S /\ IsFiniteSet((u \ {y}) \ {z}) BY <1>4, FS_Subset
    <2> QED BY <2>1, SumIsNat
  <1>11. f[y] \in Nat /\ f[z] \in Nat BY <1>4
  <1>12. SumOver(f, u) = f[z] + (f[y] + rest) BY <1>5, <1>7, <1>9, <1>10, Zenon
  <1>13. f[y] + SumOver(f, u \ {y}) = f[y] + (f[z] + rest) BY <1>8, <1>10, Zenon
  <1> QED BY <1>3, <1>10, <1>11, <1>12, <1>13

(* Equal summands, equal sums. *)
LEMMA SumSame ==
  ASSUME NEW f, NEW g, NEW S, IsFiniteSet(S), \A x \in S : f[x] = g[x]
  PROVE  SumOver(f, S) = SumOver(g, S)
  <1> DEFINE F == {u \in SUBSET S : SumOver(f, u) # SumOver(g, u)}
  <1>1. SUFFICES ASSUME F # {} PROVE FALSE
    <2>1. S \in SUBSET S OBVIOUS
    <2> QED BY <2>1
  <1>2. PICK u \in F : \A x \in u : u \ {x} \notin F
    <2>1. F \in SUBSET SUBSET S OBVIOUS
    <2> HIDE DEF F
    <2> QED BY <1>1, <2>1, Smallest
  <1>3. u # {} BY SumOfNone
  <1>4. IsFiniteSet(u) BY FS_Subset
  <1>5. /\ Chosen(u) \in u /\ SumOver(f, u) = f[Chosen(u)] + SumOver(f, u \ {Chosen(u)})
        /\ SumOver(g, u) = g[Chosen(u)] + SumOver(g, u \ {Chosen(u)})
    BY <1>3, <1>4, SumFirst
  <1>6. SumOver(f, u \ {Chosen(u)}) = SumOver(g, u \ {Chosen(u)}) BY <1>2, <1>5
  <1>7. f[Chosen(u)] = g[Chosen(u)] BY <1>2, <1>5
  <1> QED BY <1>2, <1>5, <1>6, <1>7

(* No summand is larger. *)
LEMMA SumAtMost ==
  ASSUME NEW f, NEW g, NEW S, IsFiniteSet(S),
         \A x \in S : f[x] \in Nat /\ g[x] \in Nat /\ g[x] <= f[x]
  PROVE  SumOver(g, S) <= SumOver(f, S)
  <1> DEFINE F == {u \in SUBSET S : ~(SumOver(g, u) <= SumOver(f, u))}
  <1>1. SUFFICES ASSUME F # {} PROVE FALSE
    <2>1. S \in SUBSET S OBVIOUS
    <2> QED BY <2>1
  <1>2. PICK u \in F : \A x \in u : u \ {x} \notin F
    <2>1. F \in SUBSET SUBSET S OBVIOUS
    <2> HIDE DEF F
    <2> QED BY <1>1, <2>1, Smallest
  <1>3. u # {}
    <2>1. SumOver(f, {}) = 0 /\ SumOver(g, {}) = 0 BY SumOfNone
    <2> QED BY <1>2, <2>1
  <1>4. IsFiniteSet(u) BY FS_Subset
  <1>5. PICK x \in u : /\ SumOver(f, u) = f[x] + SumOver(f, u \ {x})
                       /\ SumOver(g, u) = g[x] + SumOver(g, u \ {x})
    BY <1>3, <1>4, SumFirst
  <1>6. SumOver(g, u \ {x}) <= SumOver(f, u \ {x}) BY <1>2
  <1>7. SumOver(f, u \ {x}) \in Nat /\ SumOver(g, u \ {x}) \in Nat
    <2>1. u \ {x} \in SUBSET S BY <1>2
    <2>2. IsFiniteSet(u \ {x}) BY <2>1, FS_Subset
    <2> QED BY <2>1, <2>2, SumIsNat
  <1>8. f[x] \in Nat /\ g[x] \in Nat /\ g[x] <= f[x] BY <1>2
  <1>9. SumOver(g, u) <= SumOver(f, u)
    <2> HIDE DEF F
    <2> QED BY <1>5, <1>6, <1>7, <1>8
  <1> QED BY <1>2, <1>9

(* Only the summand of k changes. *)
LEMMA SumUpdate ==
  ASSUME NEW f, NEW g, NEW S, IsFiniteSet(S), \A x \in S : f[x] \in Nat /\ g[x] \in Nat,
         NEW k \in S, \A x \in S \ {k} : g[x] = f[x]
  PROVE  SumOver(g, S) + f[k] = SumOver(f, S) + g[k]
  <1>1. PICK T \in SUBSET S : T = S \ {k} OBVIOUS
  <1>2. IsFiniteSet(T) BY FS_Subset
  <1>3. SumOver(f, T) = SumOver(g, T) BY <1>1, <1>2, SumSame
  <1>4. /\ SumOver(f, S) = f[k] + SumOver(f, T)
        /\ SumOver(g, S) = g[k] + SumOver(g, T)
    BY <1>1, SumSplit
  <1>5. SumOver(f, T) \in Nat BY <1>2, SumIsNat
  <1> QED BY <1>3, <1>4, <1>5

(* A sum with the summand k in it is at least that. *)
LEMMA SumAtLeast ==
  ASSUME NEW f, NEW S, IsFiniteSet(S), \A x \in S : f[x] \in Nat, NEW k \in S
  PROVE  f[k] <= SumOver(f, S)
  <1>1. PICK T \in SUBSET S : T = S \ {k} OBVIOUS
  <1>2. SumOver(f, S) = f[k] + SumOver(f, T) BY <1>1, SumSplit
  <1>3. SumOver(f, T) \in Nat
    <2>1. IsFiniteSet(T) BY FS_Subset
    <2> QED BY <2>1, SumIsNat
  <1> QED BY <1>2, <1>3

(* Nothing but zeros. *)
LEMMA SumOfZeros ==
  ASSUME NEW f, NEW S, IsFiniteSet(S), \A x \in S : f[x] = 0
  PROVE  SumOver(f, S) = 0
  <1> DEFINE F == {u \in SUBSET S : SumOver(f, u) # 0}
  <1>1. SUFFICES ASSUME F # {} PROVE FALSE
    <2>1. S \in SUBSET S OBVIOUS
    <2> QED BY <2>1
  <1>2. PICK u \in F : \A x \in u : u \ {x} \notin F
    <2>1. F \in SUBSET SUBSET S OBVIOUS
    <2> HIDE DEF F
    <2> QED BY <1>1, <2>1, Smallest
  <1>3. u # {} BY <1>2, SumOfNone
  <1>4. IsFiniteSet(u) BY FS_Subset
  <1>5. PICK x \in u : SumOver(f, u) = f[x] + SumOver(f, u \ {x})
    BY <1>3, <1>4, SumFirst
  <1>6. SumOver(f, u \ {x}) = 0 BY <1>2
  <1> QED BY <1>2, <1>5, <1>6

(* Equal summands. *)
LEMMA SumOfConstant ==
  ASSUME NEW f, NEW S, IsFiniteSet(S), NEW c \in Nat, \A x \in S : f[x] = c
  PROVE  SumOver(f, S) = c * Cardinality(S)
  <1> DEFINE F == {u \in SUBSET S : SumOver(f, u) # c * Cardinality(u)}
  <1>1. SUFFICES ASSUME F # {} PROVE FALSE
    <2>1. S \in SUBSET S OBVIOUS
    <2> QED BY <2>1
  <1>2. PICK u \in F : \A x \in u : u \ {x} \notin F
    <2>1. F \in SUBSET SUBSET S OBVIOUS
    <2> HIDE DEF F
    <2> QED BY <1>1, <2>1, Smallest
  <1>3. u # {}
    <2>1. SumOver(f, {}) = 0 /\ Cardinality({}) = 0 BY SumOfNone, FS_EmptySet
    <2> QED BY <1>2, <2>1
  <1>4. IsFiniteSet(u) BY FS_Subset
  <1>5. PICK x \in u : SumOver(f, u) = f[x] + SumOver(f, u \ {x})
    BY <1>3, <1>4, SumFirst
  <1>6. PICK n \in Nat : n = Cardinality(u \ {x})
    BY <1>4, FS_RemoveElement, FS_CardinalityType
  <1>7. Cardinality(u) = n + 1
    <2>1. Cardinality(u \ {x}) = Cardinality(u) - 1 BY <1>4, FS_RemoveElement
    <2>2. Cardinality(u) \in Nat BY <1>4, FS_CardinalityType
    <2> QED BY <1>6, <2>1, <2>2
  <1>8. SumOver(f, u \ {x}) = c * n BY <1>2, <1>6
  <1>9. f[x] = c /\ c * (n + 1) = c + c * n BY <1>2
  <1> QED BY <1>2, <1>5, <1>7, <1>8, <1>9

(* The sum over two sets apart is the sum of their sums, ... *)
LEMMA SumDisjoint ==
  ASSUME NEW f, NEW B, NEW C, IsFiniteSet(B), IsFiniteSet(C), B \intersect C = {},
         \A x \in B \union C : f[x] \in Nat
  PROVE  SumOver(f, B \union C) = SumOver(f, B) + SumOver(f, C)
  <1> DEFINE F == {u \in SUBSET C : SumOver(f, B \union u) # SumOver(f, B) + SumOver(f, u)}
  <1>1. SUFFICES ASSUME F # {} PROVE FALSE
    <2>1. C \in SUBSET C OBVIOUS
    <2> QED BY <2>1
  <1>2. PICK u \in F : \A x \in u : u \ {x} \notin F
    <2>1. F \in SUBSET SUBSET C OBVIOUS
    <2> HIDE DEF F
    <2> QED BY <1>1, <2>1, Smallest
  <1>3. SumOver(f, B) \in Nat BY SumIsNat
  <1>4. u # {}
    <2>1. SumOver(f, {}) = 0 /\ B \union {} = B BY SumOfNone
    <2> QED BY <1>2, <1>3, <2>1
  <1>5. IsFiniteSet(u) /\ IsFiniteSet(B \union u) BY FS_Subset, FS_Union
  <1>6. PICK x \in u : SumOver(f, u) = f[x] + SumOver(f, u \ {x})
    BY <1>4, <1>5, SumFirst
  <1>7. SumOver(f, B \union u) = f[x] + SumOver(f, B \union (u \ {x}))
    <2>1. (B \union u) \ {x} = B \union (u \ {x}) BY <1>2
    <2>2. x \in B \union u /\ \A y \in B \union u : f[y] \in Nat BY <1>2
    <2>3. SumOver(f, B \union u) = f[x] + SumOver(f, (B \union u) \ {x})
      BY <1>5, <2>2, SumSplit
    <2> QED BY <2>1, <2>3
  <1>8. SumOver(f, B \union (u \ {x})) = SumOver(f, B) + SumOver(f, u \ {x}) BY <1>2
  <1>9. SumOver(f, u \ {x}) \in Nat
    <2>1. IsFiniteSet(u \ {x}) BY <1>5, FS_RemoveElement
    <2> QED BY <1>2, <2>1, SumIsNat
  <1>10. f[x] \in Nat BY <1>2
  <1> QED BY <1>2, <1>3, <1>6, <1>7, <1>8, <1>9, <1>10

(* ... and over many sets apart. *)
LEMMA SumUnion ==
  ASSUME NEW f, NEW T, IsFiniteSet(T), NEW A, NEW g,
         \A t \in T : IsFiniteSet(A[t]) /\ \A x \in A[t] : f[x] \in Nat,
         \A s, t \in T : s # t => A[s] \intersect A[t] = {},
         \A t \in T : g[t] = SumOver(f, A[t])
  PROVE  SumOver(g, T) = SumOver(f, UNION {A[t] : t \in T})
  <1> DEFINE All(u) == UNION {A[t] : t \in u}
             F == {u \in SUBSET T : SumOver(g, u) # SumOver(f, All(u))}
  <1>1. SUFFICES ASSUME F # {} PROVE FALSE
    <2>1. T \in SUBSET T OBVIOUS
    <2> QED BY <2>1
  <1>2. PICK u \in F : \A x \in u : u \ {x} \notin F
    <2>1. F \in SUBSET SUBSET T OBVIOUS
    <2> HIDE DEF F
    <2> QED BY <1>1, <2>1, Smallest
  <1>3. u \in SUBSET T /\ SumOver(g, u) # SumOver(f, All(u)) BY <1>2
  <1>4. u # {}
    <2>1. All({}) = {} OBVIOUS
    <2> HIDE DEF All, F
    <2>2. SumOver(g, {}) = 0 /\ SumOver(f, {}) = 0 BY SumOfNone
    <2> QED BY <1>3, <2>1, <2>2
  <1>5. IsFiniteSet(u) BY <1>3, FS_Subset
  <1>6. PICK x \in u : SumOver(g, u) = g[x] + SumOver(g, u \ {x})
    <2>1. \A t \in u : g[t] \in Nat
      <3> SUFFICES ASSUME NEW t \in u PROVE g[t] \in Nat OBVIOUS
      <3>1. t \in T BY <1>3
      <3>2. IsFiniteSet(A[t]) /\ \A y \in A[t] : f[y] \in Nat BY <3>1
      <3>3. SumOver(f, A[t]) \in Nat
        <4> HIDE DEF All, F
        <4> QED BY <3>2, SumIsNat
      <3> QED BY <3>1, <3>3
    <2> HIDE DEF All, F
    <2> QED BY <1>4, <1>5, <2>1, SumFirst
  <1>7. PICK rest \in SUBSET T : rest = u \ {x} BY <1>3
  <1>8. SumOver(g, rest) = SumOver(f, All(rest)) BY <1>2, <1>7
  <1>9. All(u) = All(rest) \union A[x] BY <1>7
  <1>10. All(rest) \intersect A[x] = {} BY <1>3, <1>7
  <1>11. \A y \in All(rest) \union A[x] : f[y] \in Nat BY <1>3, <1>7
  <1>12. IsFiniteSet(All(rest)) /\ IsFiniteSet(A[x])
    <2>1. IsFiniteSet(rest) BY FS_Subset
    <2> DEFINE R == {A[t] : t \in rest}   h == [t \in rest |-> A[t]]
    <2>2. h \in Surjection(rest, R) BY DEF Surjection
    <2>3. IsFiniteSet(R)
      <3> HIDE DEF h, R, All, F
      <3> QED BY <2>1, <2>2, FS_Surjection
    <2>4. \A B \in R : IsFiniteSet(B) OBVIOUS
    <2>5. IsFiniteSet(UNION R)
      <3> HIDE DEF h, R, All, F
      <3> QED BY <2>3, <2>4, FS_UNION
    <2> QED BY <1>3, <1>6, <2>5
  <1>13. SumOver(f, All(u)) = SumOver(f, All(rest)) + SumOver(f, A[x])
    <2> HIDE DEF All, F
    <2> QED BY <1>9, <1>10, <1>11, <1>12, SumDisjoint
  <1>14. SumOver(f, All(rest)) \in Nat /\ SumOver(f, A[x]) \in Nat
    <2> HIDE DEF All, F
    <2> QED BY <1>11, <1>12, SumIsNat
  <1>15. g[x] = SumOver(f, A[x]) BY <1>3
  <1> HIDE DEF All, F
  <1> QED BY <1>3, <1>6, <1>7, <1>8, <1>13, <1>14, <1>15

=============================================================================
