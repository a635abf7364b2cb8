------------------------------- MODULE Sumas -------------------------------
(***************************************************************************)
(* Facts about finite sets and sums that the proofs of every component     *)
(* cite.  SumFunctionOnSet(f, S), of the community modules, adds f[x] for  *)
(* every x of S; it is a fold over the set, taken in an unspecified order. *)
(* Induction is stated with a set in the place of a predicate.             *)
(***************************************************************************)
EXTENDS Integers, FiniteSets, Functions, FiniteSetTheorems, WellFoundedInduction, TLAPS

----------------------------------------------------------------------------
(* Every set of naturals that is not empty has a least element.             *)
LEMMA Primero ==
  ASSUME NEW S, S \subseteq Nat, S # {}
  PROVE  \E n \in S : \A m \in S : n <= m
<1> DEFINE Menor == {p \in Nat \X Nat : p[1] < p[2]}
<1>1. IsWellFoundedOn(Menor, Nat)
  BY NatLessThanWellFounded DEF OpToRel
<1>2. PICK n \in S : \A m \in S : ~ (<<m, n>> \in Menor)
  <2> HIDE DEF Menor
  <2> QED
    BY <1>1, WFMin
<1>3. \A m \in S : ~ (m < n)
  BY <1>2
<1>4. QED
  BY <1>3

(* A set of naturals with 0, closed under the successor, has them all.      *)
LEMMA InduccionNatural ==
  ASSUME NEW C, 0 \in C, \A n \in Nat : n \in C => n + 1 \in C
  PROVE  Nat \subseteq C
<1> SUFFICES ASSUME Nat \ C # {} PROVE FALSE
  OBVIOUS
<1>1. PICK n \in Nat \ C : \A m \in Nat \ C : n <= m
  BY Primero
<1>2. n - 1 \in Nat /\ n - 1 \notin Nat \ C
  BY <1>1
<1>3. QED
  BY <1>1, <1>2

(* A family with the empty set, closed under adding an element of a finite  *)
(* set S, has S.                                                            *)
LEMMA InduccionFinita ==
  ASSUME NEW S, IsFiniteSet(S), NEW C, {} \in C,
         \A T \in SUBSET S : T \in C => \A x \in S \ T : T \cup {x} \in C
  PROVE  S \in C
<1> DEFINE N == {n \in Nat : \A T \in SUBSET S : Cardinality(T) = n => T \in C}
<1>1. \A T \in SUBSET S : IsFiniteSet(T) /\ Cardinality(T) \in Nat
  BY FS_Subset, FS_CardinalityType
<1>2. 0 \in N
  BY <1>1, FS_EmptySet
<1>3. ASSUME NEW n \in Nat, n \in N PROVE n + 1 \in N
  <2>1. ASSUME NEW T \in SUBSET S, Cardinality(T) = n + 1 PROVE T \in C
    <3>0. n \in Nat /\ Cardinality(T) = n + 1
      BY <1>3, <2>1
    <3>1. T # {}
      <4>1. Cardinality(T) # 0
        BY <3>0
      <4>2. QED
        BY <4>1, FS_EmptySet, Zenon
    <3>2. PICK x \in T : TRUE
      BY <3>1
    <3>3. T \ {x} \in SUBSET S /\ Cardinality(T \ {x}) = n
      <4>1. Cardinality(T \ {x}) = Cardinality(T) - 1
        BY <1>1, <3>2, FS_RemoveElement
      <4>2. QED
        BY <3>0, <4>1
    <3>4. T \ {x} \in C
      BY <1>3, <3>3
    <3>5. T = (T \ {x}) \cup {x} /\ x \in S \ (T \ {x})
      BY <3>2
    <3>6. QED
      BY <3>3, <3>4, <3>5
  <2>2. QED
    BY <1>3, <2>1
<1>4. Nat \subseteq N
  <2> HIDE DEF N
  <2> QED
    BY <1>2, <1>3, InduccionNatural
<1>5. S \in SUBSET S /\ Cardinality(S) \in N
  BY <1>1, <1>4
<1>6. QED
  BY <1>5

----------------------------------------------------------------------------
(* The fold unfolds.                                                        *)
Alguno(s) == CHOOSE x \in s : TRUE
Paso(g, f, s) == IF s = {} THEN 0 ELSE f[Alguno(s)] + g[s \ {Alguno(s)}]
Recorre(g, f, S) == g = [s \in SUBSET S |-> Paso(g, f, s)]

LEMMA SumaEsRecorrido ==
  ASSUME NEW f, NEW S
  PROVE  SumFunctionOnSet(f, S) = (CHOOSE g : Recorre(g, f, S))[S]
BY DEF SumFunctionOnSet, FoldFunctionOnSet, MapThenFoldSet, Recorre, Paso, Alguno

LEMMA AlgunoEsta ==
  ASSUME NEW s, s # {} PROVE Alguno(s) \in s
BY DEF Alguno

(* Up to n elements.                                                        *)
HastaN(S, n) == {s \in SUBSET S : Cardinality(s) <= n}
RecorreHasta(g, f, S, n) == g = [s \in HastaN(S, n) |-> Paso(g, f, s)]

LEMMA HayRecorrido ==
  ASSUME NEW f, NEW S, IsFiniteSet(S)
  PROVE  \E g : Recorre(g, f, S)
<1> DEFINE N == {n \in Nat : \E g : RecorreHasta(g, f, S, n)}
<1>1. \A s \in SUBSET S : IsFiniteSet(s) /\ Cardinality(s) \in Nat /\ Cardinality(s) <= Cardinality(S)
  BY FS_Subset, FS_CardinalityType
<1>2. ASSUME NEW s \in SUBSET S, s # {}
      PROVE  s \ {Alguno(s)} \in SUBSET S /\ Cardinality(s \ {Alguno(s)}) = Cardinality(s) - 1
  BY <1>1, <1>2, AlgunoEsta, FS_RemoveElement
<1>3. 0 \in N
  <2>1. PICK g : g = [s \in HastaN(S, 0) |-> 0]
    OBVIOUS
  <2>2. \A s \in HastaN(S, 0) : s = {}
    BY <1>1, FS_EmptySet DEF HastaN
  <2>3. g = [s \in HastaN(S, 0) |-> Paso(g, f, s)]
    BY <2>1, <2>2 DEF Paso
  <2>4. QED
    BY <2>3 DEF RecorreHasta
<1>4. ASSUME NEW n \in Nat, n \in N PROVE n + 1 \in N
  <2>1. PICK g : g = [s \in HastaN(S, n) |-> Paso(g, f, s)]
    BY <1>4 DEF RecorreHasta
  <2>2. PICK h : h = [s \in HastaN(S, n + 1) |-> Paso(g, f, s)]
    OBVIOUS
  <2>3. HastaN(S, n) \subseteq HastaN(S, n + 1)
    BY <1>1 DEF HastaN
  <2>4. \A s \in HastaN(S, n) : h[s] = g[s]
    BY <2>1, <2>2, <2>3
  <2>5. ASSUME NEW s \in HastaN(S, n + 1) PROVE Paso(g, f, s) = Paso(h, f, s)
    <3>1. CASE s = {}
      BY <3>1 DEF Paso
    <3>2. CASE s # {}
      <4>1. s \ {Alguno(s)} \in HastaN(S, n)
        BY <1>1, <1>2, <2>5, <3>2 DEF HastaN
      <4>2. h[s \ {Alguno(s)}] = g[s \ {Alguno(s)}]
        BY <2>4, <4>1
      <4>3. QED
        BY <4>2 DEF Paso
    <3>3. QED
      BY <3>1, <3>2
  <2>6. h = [s \in HastaN(S, n + 1) |-> Paso(h, f, s)]
    BY <2>2, <2>5
  <2>7. QED
    BY <1>4, <2>6 DEF RecorreHasta
<1>5. Nat \subseteq N
  <2> HIDE DEF N
  <2> QED
    BY <1>3, <1>4, InduccionNatural
<1>6. Cardinality(S) \in Nat /\ HastaN(S, Cardinality(S)) = SUBSET S
  BY <1>1, FS_CardinalityType DEF HastaN
<1>7. PICK g : RecorreHasta(g, f, S, Cardinality(S))
  BY <1>5, <1>6
<1>8. QED
  BY <1>6, <1>7 DEF RecorreHasta, Recorre

LEMMA UnRecorrido ==
  ASSUME NEW f, NEW S, IsFiniteSet(S), NEW T \in SUBSET S,
         NEW g, NEW h, Recorre(g, f, S), Recorre(h, f, T)
  PROVE  \A s \in SUBSET T : g[s] = h[s]
<1> DEFINE N == {n \in Nat : \A s \in SUBSET T : Cardinality(s) = n => g[s] = h[s]}
<1>1. \A s \in SUBSET T : IsFiniteSet(s) /\ Cardinality(s) \in Nat
  BY FS_Subset, FS_CardinalityType
<1>2. \A s \in SUBSET T : g[s] = Paso(g, f, s) /\ h[s] = Paso(h, f, s)
  BY DEF Recorre
<1>3. 0 \in N
  <2>1. \A s \in SUBSET T : Cardinality(s) = 0 => s = {}
    BY <1>1, FS_EmptySet
  <2>2. g[{}] = h[{}]
    BY <1>2 DEF Paso
  <2>3. QED
    BY <2>1, <2>2
<1>4. ASSUME NEW n \in Nat, n \in N PROVE n + 1 \in N
  <2>1. ASSUME NEW s \in SUBSET T, Cardinality(s) = n + 1 PROVE g[s] = h[s]
    <3>1. s # {}
      BY <1>4, <2>1, FS_EmptySet
    <3>2. s \ {Alguno(s)} \in SUBSET T /\ Cardinality(s \ {Alguno(s)}) = n
      BY <1>1, <1>4, <2>1, <3>1, AlgunoEsta, FS_RemoveElement
    <3>3. g[s \ {Alguno(s)}] = h[s \ {Alguno(s)}]
      BY <1>4, <3>2
    <3>4. QED
      BY <1>2, <3>1, <3>3 DEF Paso
  <2>2. QED
    BY <1>4, <2>1
<1>5. Nat \subseteq N
  <2> HIDE DEF N
  <2> QED
    BY <1>3, <1>4, InduccionNatural
<1>6. QED
  BY <1>1, <1>5

LEMMA SumaDesplegada ==
  ASSUME NEW f, NEW S, IsFiniteSet(S)
  PROVE  /\ S = {} => SumFunctionOnSet(f, S) = 0
         /\ S # {} => SumFunctionOnSet(f, S) = f[Alguno(S)] + SumFunctionOnSet(f, S \ {Alguno(S)})
<1>1. PICK g : g = CHOOSE k : Recorre(k, f, S)
  OBVIOUS
<1>2. Recorre(g, f, S)
  BY <1>1, HayRecorrido
<1>3. SumFunctionOnSet(f, S) = g[S] /\ g[S] = Paso(g, f, S)
  BY <1>1, <1>2, SumaEsRecorrido DEF Recorre
<1>4. ASSUME S # {}
      PROVE  g[S \ {Alguno(S)}] = SumFunctionOnSet(f, S \ {Alguno(S)})
  <2>1. PICK T : T = S \ {Alguno(S)}
    OBVIOUS
  <2>2. T \in SUBSET S /\ IsFiniteSet(T)
    BY <2>1, FS_Subset
  <2>3. PICK h : h = CHOOSE k : Recorre(k, f, T)
    OBVIOUS
  <2>4. Recorre(h, f, T)
    BY <2>2, <2>3, HayRecorrido
  <2>5. g[T] = h[T]
    BY <1>2, <2>2, <2>4, UnRecorrido
  <2>6. SumFunctionOnSet(f, T) = h[T]
    BY <2>3, SumaEsRecorrido
  <2>7. QED
    BY <2>1, <2>5, <2>6
<1>5. QED
  BY <1>3, <1>4 DEF Paso

----------------------------------------------------------------------------
(* What the sums of the models are made of.                                 *)

LEMMA SumaVacia ==
  ASSUME NEW f PROVE SumFunctionOnSet(f, {}) = 0
BY SumaDesplegada, FS_EmptySet

(* A sum of integers is an integer, and does not depend on the order.       *)
Enteros(f, S) == \A x \in S : f[x] \in Int
Quitable(f, T) ==
  /\ SumFunctionOnSet(f, T) \in Int
  /\ \A x \in T : SumFunctionOnSet(f, T) = f[x] + SumFunctionOnSet(f, T \ {x})

LEMMA SumaEntera ==
  ASSUME NEW f, NEW S, IsFiniteSet(S), Enteros(f, S)
  PROVE  SumFunctionOnSet(f, S) \in Int
<1> DEFINE N == {n \in Nat : \A T \in SUBSET S : Cardinality(T) = n => SumFunctionOnSet(f, T) \in Int}
<1>1. \A T \in SUBSET S : IsFiniteSet(T) /\ Cardinality(T) \in Nat
  BY FS_Subset, FS_CardinalityType
<1>2. 0 \in N
  <2>1. \A T \in SUBSET S : Cardinality(T) = 0 => T = {}
    BY <1>1, FS_EmptySet
  <2>2. QED
    BY <2>1, SumaVacia
<1>3. ASSUME NEW n \in Nat, n \in N PROVE n + 1 \in N
  <2>1. ASSUME NEW T \in SUBSET S, Cardinality(T) = n + 1 PROVE SumFunctionOnSet(f, T) \in Int
    <3>1. T # {}
      BY <2>1, FS_EmptySet
    <3>2. PICK y : y = Alguno(T)
      OBVIOUS
    <3>3. y \in T /\ f[y] \in Int
      BY <3>1, <3>2, AlgunoEsta DEF Enteros
    <3>4. SumFunctionOnSet(f, T) = f[y] + SumFunctionOnSet(f, T \ {y})
      BY <1>1, <3>1, <3>2, SumaDesplegada
    <3>5. Cardinality(T \ {y}) = Cardinality(T) - 1
      BY <1>1, <3>3, FS_RemoveElement
    <3>6. T \ {y} \in SUBSET S /\ Cardinality(T \ {y}) = n
      BY <2>1, <3>5
    <3>7. SumFunctionOnSet(f, T \ {y}) \in Int
      BY <1>3, <3>6
    <3>8. QED
      BY <3>3, <3>4, <3>7
  <2>2. QED
    BY <1>3, <2>1
<1>4. Nat \subseteq N
  <2> HIDE DEF N
  <2> QED
    BY <1>2, <1>3, InduccionNatural
<1>5. S \in SUBSET S /\ Cardinality(S) \in N
  BY <1>1, <1>4
<1>6. QED
  BY <1>5

LEMMA SumaQuitable ==
  ASSUME NEW f, NEW S, IsFiniteSet(S), Enteros(f, S)
  PROVE  Quitable(f, S)
<1> DEFINE N == {n \in Nat : \A T \in SUBSET S : Cardinality(T) = n => Quitable(f, T)}
<1>1. \A T \in SUBSET S : IsFiniteSet(T) /\ Cardinality(T) \in Nat
  BY FS_Subset, FS_CardinalityType
<1>2. 0 \in N
  <2>1. \A T \in SUBSET S : Cardinality(T) = 0 => T = {}
    BY <1>1, FS_EmptySet
  <2>2. Quitable(f, {})
    BY SumaVacia DEF Quitable
  <2>3. QED
    BY <2>1, <2>2
<1>3. ASSUME NEW n \in Nat, n \in N PROVE n + 1 \in N
  <2>1. ASSUME NEW T \in SUBSET S, Cardinality(T) = n + 1 PROVE Quitable(f, T)
    <3>1. T # {}
      BY <1>3, <2>1, FS_EmptySet
    <3>2. PICK y : y = Alguno(T)
      OBVIOUS
    <3>3. y \in T /\ f[y] \in Int
      BY <3>1, <3>2, AlgunoEsta DEF Enteros
    <3>4. SumFunctionOnSet(f, T) = f[y] + SumFunctionOnSet(f, T \ {y})
      BY <1>1, <3>1, <3>2, SumaDesplegada
    <3>5. ASSUME NEW x \in T
          PROVE  Quitable(f, T \ {x}) /\ Cardinality(T \ {x}) = n
      <4>1. T \ {x} \in SUBSET S /\ Cardinality(T \ {x}) = Cardinality(T) - 1
        BY <1>1, <3>5, FS_RemoveElement
      <4>2. Cardinality(T \ {x}) = n
        BY <1>3, <2>1, <4>1
      <4>3. QED
        BY <1>3, <4>1, <4>2
    <3>6. SumFunctionOnSet(f, T) \in Int
      BY <1>1, SumaEntera DEF Enteros
    <3>7. ASSUME NEW x \in T, x # y
          PROVE  SumFunctionOnSet(f, T) = f[x] + SumFunctionOnSet(f, T \ {x})
      <4>1. PICK R : R = (T \ {x}) \ {y}
        OBVIOUS
      <4>2. R = (T \ {y}) \ {x} /\ y \in T \ {x} /\ x \in T \ {y} /\ R \in SUBSET S
        BY <3>3, <3>7, <4>1
      <4>3. SumFunctionOnSet(f, T \ {y}) = f[x] + SumFunctionOnSet(f, R)
        BY <3>3, <3>5, <4>2 DEF Quitable
      <4>4. SumFunctionOnSet(f, T \ {x}) = f[y] + SumFunctionOnSet(f, R)
        BY <3>5, <4>1, <4>2 DEF Quitable
      <4>5. f[x] \in Int
        BY DEF Enteros
      <4>6. SumFunctionOnSet(f, T \ {x}) \in Int /\ SumFunctionOnSet(f, T \ {y}) \in Int
        BY <3>3, <3>5 DEF Quitable
      <4>7. SumFunctionOnSet(f, R) \in Int
        <5>1. IsFiniteSet(R) /\ Enteros(f, R)
          BY <1>1, <4>2 DEF Enteros
        <5>2. QED
          BY <5>1, SumaEntera
      <4>8. QED
        BY <3>3, <3>4, <4>3, <4>4, <4>5, <4>6, <4>7
    <3>8. QED
      BY <3>4, <3>6, <3>7 DEF Quitable
  <2>2. QED
    BY <1>3, <2>1
<1>4. Nat \subseteq N
  <2> HIDE DEF N
  <2> QED
    BY <1>2, <1>3, InduccionNatural
<1>5. S \in SUBSET S /\ Cardinality(S) \in N
  BY <1>1, <1>4
<1>6. QED
  BY <1>5

(* One index more.                                                          *)
LEMMA SumaMas ==
  ASSUME NEW f, NEW S, IsFiniteSet(S), Enteros(f, S), NEW x, x \notin S, f[x] \in Int
  PROVE  SumFunctionOnSet(f, S \cup {x}) = f[x] + SumFunctionOnSet(f, S)
<1>1. PICK T : T = S \cup {x}
  OBVIOUS
<1>2. IsFiniteSet(T) /\ Enteros(f, T) /\ x \in T /\ T \ {x} = S
  BY <1>1, FS_AddElement DEF Enteros
<1>3. Quitable(f, T)
  BY <1>2, SumaQuitable
<1>4. QED
  BY <1>1, <1>2, <1>3 DEF Quitable

(* Two sums of the same numbers.                                            *)
LEMMA SumaIgual ==
  ASSUME NEW f, NEW g, NEW S, IsFiniteSet(S), Enteros(f, S), \A x \in S : f[x] = g[x]
  PROVE  SumFunctionOnSet(f, S) = SumFunctionOnSet(g, S)
<1> DEFINE C == {T \in SUBSET S : SumFunctionOnSet(f, T) = SumFunctionOnSet(g, T)}
<1>1. {} \in C
  BY SumaVacia
<1>2. ASSUME NEW T \in SUBSET S, T \in C, NEW x \in S \ T
      PROVE  T \cup {x} \in C
  <2>1. IsFiniteSet(T) /\ Enteros(f, T) /\ Enteros(g, T) /\ f[x] \in Int /\ g[x] \in Int
    BY FS_Subset DEF Enteros
  <2>2. SumFunctionOnSet(f, T \cup {x}) = f[x] + SumFunctionOnSet(f, T)
    BY <2>1, SumaMas
  <2>3. SumFunctionOnSet(g, T \cup {x}) = g[x] + SumFunctionOnSet(g, T)
    BY <2>1, SumaMas
  <2>4. QED
    BY <1>2, <2>2, <2>3
<1>3. S \in C
  <2> HIDE DEF C
  <2> QED
    BY <1>1, <1>2, InduccionFinita
<1>4. QED
  BY <1>3

(* Sums grow with their terms.                                              *)
LEMMA SumaMonotona ==
  ASSUME NEW f, NEW g, NEW S, IsFiniteSet(S), Enteros(f, S), Enteros(g, S),
         \A x \in S : f[x] <= g[x]
  PROVE  SumFunctionOnSet(f, S) <= SumFunctionOnSet(g, S)
<1> DEFINE C == {T \in SUBSET S : SumFunctionOnSet(f, T) <= SumFunctionOnSet(g, T)}
<1>1. {} \in C
  BY SumaVacia
<1>2. ASSUME NEW T \in SUBSET S, T \in C, NEW x \in S \ T
      PROVE  T \cup {x} \in C
  <2>1. IsFiniteSet(T) /\ Enteros(f, T) /\ Enteros(g, T) /\ f[x] \in Int /\ g[x] \in Int
    BY FS_Subset DEF Enteros
  <2>2. SumFunctionOnSet(f, T \cup {x}) = f[x] + SumFunctionOnSet(f, T)
    BY <2>1, SumaMas
  <2>3. SumFunctionOnSet(g, T \cup {x}) = g[x] + SumFunctionOnSet(g, T)
    BY <2>1, SumaMas
  <2>4. SumFunctionOnSet(f, T) \in Int /\ SumFunctionOnSet(g, T) \in Int
    BY <2>1, SumaEntera
  <2>5. QED
    BY <1>2, <2>1, <2>2, <2>3, <2>4
<1>3. S \in C
  <2> HIDE DEF C
  <2> QED
    BY <1>1, <1>2, InduccionFinita
<1>4. QED
  BY <1>3

(* The sum of c * f + g, and of a constant.                                 *)
Combina(h, c, f, g, S) == \A x \in S : h[x] = c * f[x] + g[x]

LEMMA SumaLineal ==
  ASSUME NEW f, NEW g, NEW h, NEW S, IsFiniteSet(S), Enteros(f, S), Enteros(g, S), NEW c \in Int,
         Combina(h, c, f, g, S)
  PROVE  SumFunctionOnSet(h, S) = c * SumFunctionOnSet(f, S) + SumFunctionOnSet(g, S)
<1> DEFINE C == {T \in SUBSET S :
                   SumFunctionOnSet(h, T) = c * SumFunctionOnSet(f, T) + SumFunctionOnSet(g, T)}
<1>1. {} \in C
  BY SumaVacia
<1>2. ASSUME NEW T \in SUBSET S, T \in C, NEW x \in S \ T
      PROVE  T \cup {x} \in C
  <2>1. IsFiniteSet(T) /\ Enteros(f, T) /\ Enteros(g, T) /\ f[x] \in Int /\ g[x] \in Int
    BY FS_Subset DEF Enteros
  <2>2. Enteros(h, T) /\ h[x] \in Int /\ h[x] = c * f[x] + g[x]
    BY <2>1 DEF Enteros, Combina
  <2>3. SumFunctionOnSet(f, T \cup {x}) = f[x] + SumFunctionOnSet(f, T)
    BY <2>1, SumaMas
  <2>4. SumFunctionOnSet(g, T \cup {x}) = g[x] + SumFunctionOnSet(g, T)
    BY <2>1, SumaMas
  <2>5. SumFunctionOnSet(h, T \cup {x}) = h[x] + SumFunctionOnSet(h, T)
    BY <2>1, <2>2, SumaMas
  <2>6. PICK a \in Int, b \in Int : a = SumFunctionOnSet(f, T) /\ b = SumFunctionOnSet(g, T)
    BY <2>1, SumaEntera
  <2>7. SumFunctionOnSet(h, T) = c * a + b
    BY <1>2, <2>6
  <2>8. c * (f[x] + a) = c * f[x] + c * a
    BY <2>1, <2>6
  <2>9. h[x] + (c * a + b) = c * (f[x] + a) + (g[x] + b)
    BY <2>1, <2>2, <2>6, <2>8
  <2>10. QED
    BY <2>3, <2>4, <2>5, <2>6, <2>7, <2>9
<1>3. S \in C
  <2> HIDE DEF C
  <2> QED
    BY <1>1, <1>2, InduccionFinita
<1>4. QED
  BY <1>3

LEMMA SumaConstante ==
  ASSUME NEW f, NEW S, IsFiniteSet(S), NEW c \in Int, \A x \in S : f[x] = c
  PROVE  SumFunctionOnSet(f, S) = c * Cardinality(S)
<1> DEFINE C == {T \in SUBSET S : SumFunctionOnSet(f, T) = c * Cardinality(T)}
<1>1. {} \in C
  BY SumaVacia, FS_EmptySet
<1>2. ASSUME NEW T \in SUBSET S, T \in C, NEW x \in S \ T
      PROVE  T \cup {x} \in C
  <2>1. IsFiniteSet(T) /\ Enteros(f, T) /\ f[x] = c
    BY FS_Subset DEF Enteros
  <2>2. SumFunctionOnSet(f, T \cup {x}) = c + SumFunctionOnSet(f, T)
    BY <2>1, SumaMas
  <2>3. Cardinality(T) \in Nat /\ Cardinality(T \cup {x}) = Cardinality(T) + 1
    BY <2>1, FS_AddElement, FS_CardinalityType
  <2>4. PICK n \in Nat : n = Cardinality(T)
    BY <2>3
  <2>5. c * (n + 1) = c + c * n
    BY <2>4
  <2>6. QED
    BY <1>2, <2>2, <2>3, <2>4, <2>5
<1>3. S \in C
  <2> HIDE DEF C
  <2> QED
    BY <1>1, <1>2, InduccionFinita
<1>4. QED
  BY <1>3

LEMMA SumaNatural ==
  ASSUME NEW f, NEW S, IsFiniteSet(S), \A x \in S : f[x] \in Nat
  PROVE  SumFunctionOnSet(f, S) \in Nat
<1>1. PICK z : z = [x \in S |-> 0]
  OBVIOUS
<1>2. Enteros(f, S) /\ Enteros(z, S) /\ \A x \in S : z[x] <= f[x]
  BY <1>1 DEF Enteros
<1>3. SumFunctionOnSet(z, S) <= SumFunctionOnSet(f, S)
  BY <1>2, SumaMonotona
<1>4. \A x \in S : z[x] = 0
  BY <1>1
<1>5. SumFunctionOnSet(z, S) = 0 * Cardinality(S) /\ Cardinality(S) \in Nat
  BY <1>4, SumaConstante, FS_CardinalityType
<1>6. SumFunctionOnSet(f, S) \in Int
  BY <1>2, SumaEntera
<1>7. QED
  BY <1>3, <1>5, <1>6

(* The sum over two sets apart.                                             *)
LEMMA SumaUnion ==
  ASSUME NEW f, NEW S, NEW R, IsFiniteSet(S), IsFiniteSet(R), S \cap R = {},
         Enteros(f, S), Enteros(f, R)
  PROVE  SumFunctionOnSet(f, R \cup S) = SumFunctionOnSet(f, R) + SumFunctionOnSet(f, S)
<1> DEFINE C == {T \in SUBSET S :
                   SumFunctionOnSet(f, R \cup T) = SumFunctionOnSet(f, R) + SumFunctionOnSet(f, T)}
<1>0. SumFunctionOnSet(f, R) \in Int
  BY SumaEntera
<1>1. {} \in C
  <2>1. R \cup {} = R
    OBVIOUS
  <2>2. QED
    BY <1>0, <2>1, SumaVacia
<1>2. ASSUME NEW T \in SUBSET S, T \in C, NEW x \in S \ T
      PROVE  T \cup {x} \in C
  <2>1. IsFiniteSet(T) /\ Enteros(f, T) /\ f[x] \in Int
    BY FS_Subset DEF Enteros
  <2>2. SumFunctionOnSet(f, T \cup {x}) = f[x] + SumFunctionOnSet(f, T)
    BY <2>1, SumaMas
  <2>3. PICK U : U = R \cup T
    OBVIOUS
  <2>4. IsFiniteSet(U) /\ Enteros(f, U) /\ x \notin U /\ R \cup (T \cup {x}) = U \cup {x}
    BY <2>1, <2>3, FS_Union DEF Enteros
  <2>5. SumFunctionOnSet(f, U \cup {x}) = f[x] + SumFunctionOnSet(f, U)
    BY <2>1, <2>4, SumaMas
  <2>6. SumFunctionOnSet(f, T) \in Int
    BY <2>1, SumaEntera
  <2>7. SumFunctionOnSet(f, U) = SumFunctionOnSet(f, R) + SumFunctionOnSet(f, T)
    BY <1>2, <2>3
  <2>8. SumFunctionOnSet(f, R \cup (T \cup {x})) = SumFunctionOnSet(f, R) + SumFunctionOnSet(f, T \cup {x})
    <3>1. PICK a \in Int, b \in Int : a = SumFunctionOnSet(f, R) /\ b = SumFunctionOnSet(f, T)
      BY <1>0, <2>6
    <3>2. f[x] + (a + b) = a + (f[x] + b)
      BY <2>1, <3>1
    <3>3. SumFunctionOnSet(f, R \cup (T \cup {x})) = f[x] + (a + b)
      BY <2>4, <2>5, <2>7, <3>1
    <3>4. QED
      BY <2>2, <3>1, <3>2, <3>3
  <2>9. QED
    BY <2>8
<1>3. S \in C
  <2> HIDE DEF C
  <2> QED
    BY <1>1, <1>2, InduccionFinita
<1>4. QED
  BY <1>3

(* Terms that are not negative: a part adds up to no more than the whole.   *)
LEMMA SumaParte ==
  ASSUME NEW f, NEW S, IsFiniteSet(S), \A x \in S : f[x] \in Nat, NEW T \in SUBSET S
  PROVE  SumFunctionOnSet(f, T) <= SumFunctionOnSet(f, S)
<1>1. PICK R : R = S \ T
  OBVIOUS
<1>2. /\ IsFiniteSet(T) /\ IsFiniteSet(R) /\ T \cap R = {} /\ R \cup T = S
      /\ Enteros(f, T) /\ Enteros(f, R) /\ \A x \in R : f[x] \in Nat
  BY <1>1, FS_Subset DEF Enteros
<1>3. SumFunctionOnSet(f, R \cup T) = SumFunctionOnSet(f, R) + SumFunctionOnSet(f, T)
  BY <1>2, SumaUnion
<1>4. SumFunctionOnSet(f, R) \in Nat /\ SumFunctionOnSet(f, T) \in Int
  BY <1>2, SumaNatural, SumaEntera
<1>5. SumFunctionOnSet(f, R \cup T) = SumFunctionOnSet(f, S)
  BY <1>2
<1>6. QED
  BY <1>3, <1>4, <1>5

(* One term changes.                                                        *)
LEMMA SumaCambia ==
  ASSUME NEW f, NEW g, NEW S, IsFiniteSet(S), Enteros(f, S), NEW x \in S, g[x] \in Int,
         \A y \in S \ {x} : g[y] = f[y]
  PROVE  /\ SumFunctionOnSet(g, S) = SumFunctionOnSet(f, S) + (g[x] - f[x])
         /\ SumFunctionOnSet(f, S) \in Int
<1>1. PICK T : T = S \ {x}
  OBVIOUS
<1>2. IsFiniteSet(T) /\ Enteros(f, T) /\ Enteros(g, S) /\ \A y \in T : f[y] = g[y]
  BY <1>1, FS_Subset DEF Enteros
<1>3. SumFunctionOnSet(f, T) = SumFunctionOnSet(g, T) /\ SumFunctionOnSet(f, T) \in Int
  BY <1>2, SumaIgual, SumaEntera
<1>4. Quitable(f, S) /\ Quitable(g, S)
  BY <1>2, SumaQuitable
<1>5. /\ SumFunctionOnSet(f, S) = f[x] + SumFunctionOnSet(f, T)
      /\ SumFunctionOnSet(g, S) = g[x] + SumFunctionOnSet(g, T)
      /\ SumFunctionOnSet(f, S) \in Int /\ f[x] \in Int
  BY <1>1, <1>4 DEF Quitable, Enteros
<1>6. QED
  BY <1>3, <1>5
(* What is zero outside a set adds nothing; and a sum is the sum over the   *)
(* fibres of a function.                                                    *)
LEMMA SumaRestringida ==
  ASSUME NEW f, NEW g, NEW S, IsFiniteSet(S), NEW T \in SUBSET S, Enteros(f, T),
         \A x \in T : g[x] = f[x], \A x \in S \ T : g[x] = 0
  PROVE  SumFunctionOnSet(g, S) = SumFunctionOnSet(f, T)
<1>1. PICK R : R = S \ T
  OBVIOUS
<1>2. /\ IsFiniteSet(R) /\ IsFiniteSet(T) /\ T \cap R = {} /\ R \cup T = S
      /\ Enteros(g, R) /\ Enteros(g, T) /\ \A x \in R : g[x] = 0
  BY <1>1, FS_Subset DEF Enteros
<1>3. SumFunctionOnSet(g, S) = SumFunctionOnSet(g, R) + SumFunctionOnSet(g, T)
  BY <1>2, SumaUnion
<1>4. SumFunctionOnSet(g, R) = 0
  <2>1. SumFunctionOnSet(g, R) = 0 * Cardinality(R)
    BY <1>2, SumaConstante
  <2>2. QED
    BY <1>2, <2>1, FS_CardinalityType
<1>5. SumFunctionOnSet(f, T) = SumFunctionOnSet(g, T) /\ SumFunctionOnSet(f, T) \in Int
  BY <1>2, SumaIgual, SumaEntera
<1>6. QED
  BY <1>3, <1>4, <1>5

LEMMA SumaPorFibras ==
  ASSUME NEW f, NEW S, IsFiniteSet(S), Enteros(f, S), NEW F, NEW K, IsFiniteSet(K),
         \A x \in S : F[x] \in K,
         NEW c, \A k \in K : c[k] = SumFunctionOnSet(f, {x \in S : F[x] = k})
  PROVE  SumFunctionOnSet(c, K) = SumFunctionOnSet(f, S)
<1> DEFINE Bajo(T) == {x \in S : F[x] \in T}
           C == {T \in SUBSET K : SumFunctionOnSet(c, T) = SumFunctionOnSet(f, Bajo(T))}
<1>1. {} \in C
  <2>1. Bajo({}) = {}
    OBVIOUS
  <2>2. QED
    BY <2>1, SumaVacia
<1>2. ASSUME NEW k \in K
      PROVE  LET H == {x \in S : F[x] = k} IN IsFiniteSet(H) /\ Enteros(f, H) /\ c[k] \in Int
  <2>1. PICK H : H = {x \in S : F[x] = k}
    OBVIOUS
  <2>2. IsFiniteSet(H) /\ Enteros(f, H)
    BY <2>1, FS_Subset DEF Enteros
  <2>3. QED
    BY <2>1, <2>2, SumaEntera
<1>3. ASSUME NEW T \in SUBSET K, T \in C, NEW k \in K \ T
      PROVE  T \cup {k} \in C
  <2>1. PICK H : H = {x \in S : F[x] = k}
    OBVIOUS
  <2>2. PICK R : R = Bajo(T)
    OBVIOUS
  <2>3. IsFiniteSet(H) /\ Enteros(f, H) /\ c[k] = SumFunctionOnSet(f, H)
    BY <1>2, <2>1
  <2>4. IsFiniteSet(R) /\ Enteros(f, R) /\ H \cap R = {} /\ R \cup H = Bajo(T \cup {k})
    BY <1>3, <2>1, <2>2, FS_Subset DEF Enteros
  <2>5. SumFunctionOnSet(f, R \cup H) = SumFunctionOnSet(f, R) + SumFunctionOnSet(f, H)
    BY <2>3, <2>4, SumaUnion
  <2>6. IsFiniteSet(T) /\ Enteros(c, T) /\ c[k] \in Int /\ k \notin T
    BY <1>2, FS_Subset DEF Enteros
  <2>7. SumFunctionOnSet(c, T \cup {k}) = c[k] + SumFunctionOnSet(c, T)
    BY <2>6, SumaMas
  <2>8. SumFunctionOnSet(c, T) = SumFunctionOnSet(f, R)
    BY <1>3, <2>2
  <2>9. SumFunctionOnSet(f, R) \in Int /\ SumFunctionOnSet(f, H) \in Int
    BY <2>3, <2>4, SumaEntera
  <2>10. SumFunctionOnSet(c, T \cup {k}) = SumFunctionOnSet(f, Bajo(T \cup {k}))
    <3>1. PICK a \in Int, b \in Int : a = SumFunctionOnSet(f, R) /\ b = SumFunctionOnSet(f, H)
      BY <2>9
    <3>2. SumFunctionOnSet(c, T \cup {k}) = b + a
      BY <2>3, <2>7, <2>8, <3>1
    <3>3. SumFunctionOnSet(f, Bajo(T \cup {k})) = a + b
      BY <2>4, <2>5, <3>1
    <3>4. QED
      BY <3>2, <3>3
  <2>11. QED
    BY <2>10
<1>4. K \in C
  <2> HIDE DEF C
  <2> QED
    BY <1>1, <1>3, InduccionFinita
<1>5. Bajo(K) = S
  OBVIOUS
<1>6. QED
  BY <1>4, <1>5
=============================================================================
