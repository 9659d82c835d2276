-------------------------------- MODULE Sums --------------------------------
(***************************************************************************)
(* Sums over finite sets, as MapThenSumSet of the community modules        *)
(* defines them: one element after the other, in an order of its choosing. *)
(* That the order does not matter, and how a sum changes with its terms,   *)
(* is proved here by well-founded induction over the subsets of a set.     *)
(***************************************************************************)
EXTENDS Integers, FiniteSets, Functions, FiniteSetTheorems, WellFoundedInduction, TLAPS

\* A set of sets that has every finite set all of whose proper subsets it has.
LEMMA FiniteInduct ==
  ASSUME NEW S, IsFiniteSet(S), NEW G,
         \A T \in SUBSET S : (\A U \in SUBSET T : U # T => U \in G) => T \in G
  PROVE  \A T \in SUBSET S : T \in G
<1> DEFINE Bad == {T \in SUBSET S : T \notin G}
           R == StrictSubsetOrdering(S)
<1> SUFFICES ASSUME Bad # {} PROVE FALSE
  OBVIOUS
<1>1. Bad \subseteq FiniteSubsetsOf(S)
  BY FS_FiniteSubsetsOfFinite
<1>2. IsWellFoundedOn(R, FiniteSubsetsOf(S))
  BY FS_StrictSubsetOrderingWellFounded
<1>3. PICK T \in Bad : \A U \in Bad : ~(<<U, T>> \in R)
  <2> HIDE DEF Bad, R
  <2>1. QED
    BY <1>1, <1>2, WFMin
<1>4. \A U \in SUBSET T : U # T => <<U, T>> \in R
  BY DEF StrictSubsetOrdering
<1>5. ASSUME NEW U \in SUBSET T, U # T
      PROVE  U \in G
  <2>1. U \in SUBSET S /\ U \notin Bad
    <3> HIDE DEF R
    <3>1. QED
      BY <1>3, <1>4, <1>5
  <2>2. QED
    BY <2>1
<1>6. QED
  BY <1>5

\* What a function makes of a finite set is finite.
LEMMA ImageFinite ==
  ASSUME NEW S, IsFiniteSet(S), NEW f, NEW T, T = {f[x] : x \in S}
  PROVE  IsFiniteSet(T)
<1> DEFINE g == [x \in S |-> f[x]]
<1>1. g \in Surjection(S, T)
  BY DEF Surjection
<1>2. QED
  BY <1>1, FS_Surjection

\* A finite set of integers has a least and a greatest.
LEMMA FiniteEnds ==
  ASSUME NEW S, IsFiniteSet(S), S \subseteq Int, S # {}
  PROVE  /\ \E x \in S : \A y \in S : x <= y
         /\ \E x \in S : \A y \in S : y <= x
<1> DEFINE Ends(T, lo, hi) == lo \in T /\ hi \in T /\ \A y \in T : lo <= y /\ y <= hi
           G == {T \in SUBSET S : T # {} => \E lo, hi : Ends(T, lo, hi)}
<1>1. ASSUME NEW T \in SUBSET S, \A U \in SUBSET T : U # T => U \in G
      PROVE  T \in G
  <2>1. CASE T = {}
    BY <2>1
  <2>2. CASE T # {}
    <3>1. PICK z : z \in T
      BY <2>2
    <3>2. PICK U : U = T \ {z}
      OBVIOUS
    <3>3. U \in G /\ z \in Int /\ T = U \cup {z}
      BY <1>1, <3>1, <3>2
    <3>4. CASE U = {}
      <4>1. Ends(T, z, z)
        BY <3>3, <3>4
      <4>2. QED
        BY <4>1
    <3>5. CASE U # {}
      <4>1. PICK lo, hi : Ends(U, lo, hi)
        BY <3>3, <3>5
      <4>2. lo \in Int /\ hi \in Int /\ U \subseteq Int
        BY <3>2, <4>1
      <4>3. Ends(T, IF z < lo THEN z ELSE lo, IF z > hi THEN z ELSE hi)
        BY <3>3, <4>1, <4>2
      <4>4. QED
        BY <4>3
    <3>6. QED
      BY <3>4, <3>5
  <2>3. QED
    BY <2>1, <2>2
<1>2. S \in G
  <2> HIDE DEF G
  <2>1. \A T \in SUBSET S : T \in G
    BY <1>1, FiniteInduct
  <2>2. QED
    BY <2>1
<1>3. QED
  BY <1>2

-----------------------------------------------------------------------------
\* The running sum of a set: by what element a sum goes on.
Chosen(S) == CHOOSE x \in S : TRUE

IsSum(it, f, S) ==
    it = [s \in SUBSET S |-> IF s = {} THEN 0 ELSE f[Chosen(s)] + it[s \ {Chosen(s)}]]

SumOf(f, S) == (CHOOSE it : IsSum(it, f, S))[S]

LEMMA ChosenIn ==
  ASSUME NEW S, S # {}
  PROVE  Chosen(S) \in S
  BY DEF Chosen

LEMMA SumAt ==
  ASSUME NEW it, NEW f, NEW S, IsSum(it, f, S), NEW T \in SUBSET S
  PROVE  it[T] = IF T = {} THEN 0 ELSE f[Chosen(T)] + it[T \ {Chosen(T)}]
  BY DEF IsSum

LEMMA SumUnique ==
  ASSUME NEW S, IsFiniteSet(S), NEW f, NEW A, NEW B, S \subseteq A, S \subseteq B,
         NEW i, NEW j, IsSum(i, f, A), IsSum(j, f, B)
  PROVE  i[S] = j[S]
<1> DEFINE G == {T \in SUBSET S : i[T] = j[T]}
<1>1. ASSUME NEW T \in SUBSET S, \A U \in SUBSET T : U # T => U \in G
      PROVE  T \in G
  <2>1. CASE T = {}
    BY <2>1, SumAt
  <2>2. CASE T # {}
    <3>1. T \ {Chosen(T)} \in G
      BY <1>1, <2>2, ChosenIn
    <3>2. i[T] = f[Chosen(T)] + i[T \ {Chosen(T)}] /\ j[T] = f[Chosen(T)] + j[T \ {Chosen(T)}]
      <4> HIDE DEF G
      <4>1. T \in SUBSET A /\ T \in SUBSET B
        OBVIOUS
      <4>2. i[T] = f[Chosen(T)] + i[T \ {Chosen(T)}]
        BY <2>2, <4>1, SumAt, ZenonT(40)
      <4>3. j[T] = f[Chosen(T)] + j[T \ {Chosen(T)}]
        BY <2>2, <4>1, SumAt
      <4>4. QED
        BY <4>2, <4>3
    <3>3. QED
      BY <3>1, <3>2
  <2>3. QED
    BY <2>1, <2>2
<1>2. \A T \in SUBSET S : T \in G
  <2> HIDE DEF G
  <2>1. QED
    BY <1>1, FiniteInduct
<1>3. QED
  BY <1>2

LEMMA SumExists ==
  ASSUME NEW S, IsFiniteSet(S), NEW f
  PROVE  \E it : IsSum(it, f, S)
<1> DEFINE G == {T \in SUBSET S : \E it : IsSum(it, f, T)}
           val(T) == SumOf(f, T)
<1>1. ASSUME NEW T \in SUBSET S, \A U \in SUBSET T : U # T => U \in G
      PROVE  T \in G
  <2> DEFINE it == [s \in SUBSET T |->
                       IF s # T THEN val(s)
                       ELSE IF T = {} THEN 0 ELSE f[Chosen(T)] + val(T \ {Chosen(T)})]
             g(s) == CHOOSE i : IsSum(i, f, s)
  <2>1. \A s \in SUBSET T : s # T => IsSum(g(s), f, s) /\ val(s) = g(s)[s]
    BY <1>1 DEF SumOf
  <2>2. ASSUME NEW s \in SUBSET T, s # {}
        PROVE  it[s \ {Chosen(s)}] = val(s \ {Chosen(s)}) /\ s \ {Chosen(s)} # T
    BY <2>2, ChosenIn
  <2>3. ASSUME NEW s \in SUBSET T, s # T
        PROVE  val(s) = IF s = {} THEN 0 ELSE f[Chosen(s)] + it[s \ {Chosen(s)}]
    <3>1. CASE s = {}
      BY <2>1, <2>3, <3>1, SumAt
    <3>2. CASE s # {}
      <4> DEFINE u == s \ {Chosen(s)}
      <4>1. u \in SUBSET s /\ u # T /\ u \in SUBSET T
        BY <2>2, <3>2
      <4>2. IsSum(g(s), f, s) /\ IsSum(g(u), f, u) /\ val(s) = g(s)[s] /\ val(u) = g(u)[u]
        BY <2>1, <2>3, <4>1
      <4>3. IsFiniteSet(u)
        BY <4>1, FS_Subset
      <4> HIDE DEF g, val
      <4>4. g(s)[u] = g(u)[u]
        BY <4>1, <4>2, <4>3, SumUnique
      <4>5. g(s)[s] = f[Chosen(s)] + g(s)[u]
        <5>1. PICK i : i = g(s)
          OBVIOUS
        <5>2. IsSum(i, f, s) /\ s \in SUBSET s
          BY <4>2, <5>1
        <5>3. i[s] = f[Chosen(s)] + i[s \ {Chosen(s)}]
          BY <3>2, <5>2, SumAt
        <5>4. QED
          BY <5>1, <5>3
      <4>6. QED
        BY <2>2, <3>2, <4>2, <4>4, <4>5
    <3>3. QED
      BY <3>1, <3>2
  <2>4. ASSUME NEW s \in SUBSET T
        PROVE  it[s] = IF s = {} THEN 0 ELSE f[Chosen(s)] + it[s \ {Chosen(s)}]
    <3>1. CASE s # T
      <4>1. it[s] = val(s)
        BY <3>1
      <4> HIDE DEF it, val
      <4>2. QED
        BY <2>3, <3>1, <4>1
    <3>2. CASE s = T /\ T # {}
      <4>1. it[s] = f[Chosen(T)] + val(T \ {Chosen(T)})
        BY <3>2
      <4> HIDE DEF it, val
      <4>2. QED
        BY <2>2, <3>2, <4>1
    <3>3. CASE s = T /\ T = {}
      BY <3>3
    <3>4. QED
      BY <3>1, <3>2, <3>3
  <2>5. it = [s \in SUBSET T |-> it[s]]
    OBVIOUS
  <2>6. IsSum(it, f, T)
    <3> HIDE DEF it
    <3>1. QED
      BY <2>4, <2>5 DEF IsSum
  <2>7. QED
    BY <2>6
<1>2. \A T \in SUBSET S : T \in G
  <2> HIDE DEF G
  <2>1. QED
    BY <1>1, FiniteInduct
<1>3. QED
  BY <1>2

LEMMA SumFound ==
  ASSUME NEW S, IsFiniteSet(S), NEW f, NEW it, IsSum(it, f, S)
  PROVE  it[S] = SumOf(f, S)
<1>1. PICK j : j = CHOOSE i : IsSum(i, f, S)
  OBVIOUS
<1>2. IsSum(j, f, S)
  BY <1>1
<1>3. SumOf(f, S) = j[S]
  BY <1>1 DEF SumOf
<1>4. QED
  BY <1>2, <1>3, SumUnique

LEMMA SumEmpty ==
  ASSUME NEW f
  PROVE  SumOf(f, {}) = 0
<1>1. IsFiniteSet({})
  BY FS_EmptySet
<1>2. PICK it : IsSum(it, f, {})
  BY <1>1, SumExists
<1>3. it[{}] = 0
  BY <1>2, SumAt
<1>4. QED
  BY <1>1, <1>2, <1>3, SumFound

LEMMA SumGoesOn ==
  ASSUME NEW S, IsFiniteSet(S), S # {}, NEW f
  PROVE  SumOf(f, S) = f[Chosen(S)] + SumOf(f, S \ {Chosen(S)})
<1>1. PICK i : IsSum(i, f, S)
  BY SumExists
<1>2. PICK T : T = S \ {Chosen(S)}
  OBVIOUS
<1>3. IsFiniteSet(T) /\ T \subseteq S
  BY <1>2, FS_Subset
<1>4. PICK j : IsSum(j, f, T)
  BY <1>3, SumExists
<1>5. i[T] = j[T]
  BY <1>1, <1>3, <1>4, SumUnique
<1>6. i[S] = f[Chosen(S)] + i[T]
  BY <1>1, <1>2, SumAt
<1>7. i[S] = SumOf(f, S)
  BY <1>1, SumFound
<1>8. j[T] = SumOf(f, T)
  BY <1>3, <1>4, SumFound
<1>9. QED
  BY <1>2, <1>5, <1>6, <1>7, <1>8

LEMMA SumType ==
  ASSUME NEW S, IsFiniteSet(S), NEW f, \A x \in S : f[x] \in Int
  PROVE  SumOf(f, S) \in Int
<1> DEFINE G == {T \in SUBSET S : SumOf(f, T) \in Int}
<1>1. ASSUME NEW T \in SUBSET S, \A U \in SUBSET T : U # T => U \in G
      PROVE  T \in G
  <2>1. CASE T = {}
    BY <2>1, SumEmpty
  <2>2. CASE T # {}
    <3>1. Chosen(T) \in T /\ IsFiniteSet(T)
      BY <2>2, ChosenIn, FS_Subset
    <3>2. SumOf(f, T \ {Chosen(T)}) \in Int
      BY <1>1, <3>1
    <3>3. SumOf(f, T) = f[Chosen(T)] + SumOf(f, T \ {Chosen(T)})
      BY <2>2, <3>1, SumGoesOn
    <3>4. QED
      BY <3>1, <3>2, <3>3
  <2>3. QED
    BY <2>1, <2>2
<1>2. \A T \in SUBSET S : T \in G
  <2> HIDE DEF G
  <2>1. QED
    BY <1>1, FiniteInduct
<1>3. QED
  BY <1>2

\* Any term may be taken out first.
LEMMA SumTakes ==
  ASSUME NEW S, IsFiniteSet(S), NEW f, \A x \in S : f[x] \in Int, NEW r \in S
  PROVE  SumOf(f, S) = f[r] + SumOf(f, S \ {r})
<1> DEFINE G == {T \in SUBSET S : \A x \in T : SumOf(f, T) = f[x] + SumOf(f, T \ {x})}
<1>1. ASSUME NEW T \in SUBSET S, \A U \in SUBSET T : U # T => U \in G
      PROVE  T \in G
  <2>1. SUFFICES ASSUME NEW x \in T
                 PROVE  SumOf(f, T) = f[x] + SumOf(f, T \ {x})
    OBVIOUS
  <2>2. PICK y \in T : y = Chosen(T)
    BY ChosenIn
  <2>3. IsFiniteSet(T) /\ IsFiniteSet(T \ {x, y}) /\ f[x] \in Int /\ f[y] \in Int
    BY FS_Subset
  <2>4. SumOf(f, T) = f[y] + SumOf(f, T \ {y})
    BY <2>2, <2>3, SumGoesOn
  <2>5. CASE x = y
    BY <2>4, <2>5
  <2>6. CASE x # y
    <3>1. SumOf(f, T \ {y}) = f[x] + SumOf(f, T \ {x, y})
      <4>1. T \ {y} \in G /\ x \in T \ {y} /\ (T \ {y}) \ {x} = T \ {x, y}
        BY <1>1, <2>6
      <4>2. QED
        BY <4>1
    <3>2. SumOf(f, T \ {x}) = f[y] + SumOf(f, T \ {x, y})
      <4>1. T \ {x} \in G /\ y \in T \ {x} /\ (T \ {x}) \ {y} = T \ {x, y}
        BY <1>1, <2>6
      <4>2. QED
        BY <4>1
    <3>3. SumOf(f, T \ {x, y}) \in Int
      BY <2>3, SumType
    <3>4. PICK a, b, n : a = f[x] /\ b = f[y] /\ n = SumOf(f, T \ {x, y})
      OBVIOUS
    <3>5. SumOf(f, T) = b + (a + n) /\ SumOf(f, T \ {x}) = b + n
      BY <2>4, <3>1, <3>2, <3>4
    <3>6. QED
      BY <2>3, <3>3, <3>4, <3>5
  <2>7. QED
    BY <2>5, <2>6
<1>2. S \in G
  <2> HIDE DEF G
  <2>1. \A T \in SUBSET S : T \in G
    BY <1>1, FiniteInduct
  <2>2. QED
    BY <2>1
<1>3. QED
  BY <1>2

LEMMA SumsCompare ==
  ASSUME NEW S, IsFiniteSet(S), NEW f, NEW g,
         \A x \in S : f[x] \in Int /\ g[x] \in Int /\ f[x] <= g[x]
  PROVE  SumOf(f, S) <= SumOf(g, S)
<1> DEFINE G == {T \in SUBSET S : SumOf(f, T) <= SumOf(g, T)}
<1>1. ASSUME NEW T \in SUBSET S, \A U \in SUBSET T : U # T => U \in G
      PROVE  T \in G
  <2>1. CASE T = {}
    BY <2>1, SumEmpty
  <2>2. CASE T # {}
    <3>1. PICK y \in T : y = Chosen(T)
      BY <2>2, ChosenIn
    <3>2. IsFiniteSet(T) /\ IsFiniteSet(T \ {y}) /\ f[y] \in Int /\ g[y] \in Int /\ f[y] <= g[y]
      BY FS_Subset
    <3>3. SumOf(f, T \ {y}) \in Int /\ SumOf(g, T \ {y}) \in Int
      BY <3>2, SumType
    <3>4. SumOf(f, T \ {y}) <= SumOf(g, T \ {y})
      BY <1>1
    <3>5. SumOf(f, T) = f[y] + SumOf(f, T \ {y}) /\ SumOf(g, T) = g[y] + SumOf(g, T \ {y})
      BY <2>2, <3>1, <3>2, SumGoesOn
    <3>6. PICK a, b, m, n : a = f[y] /\ b = g[y] /\ m = SumOf(f, T \ {y}) /\ n = SumOf(g, T \ {y})
      OBVIOUS
    <3>7. a + m <= b + n
      BY <3>2, <3>3, <3>4, <3>6
    <3>8. QED
      BY <3>5, <3>6, <3>7
  <2>3. QED
    BY <2>1, <2>2
<1>2. S \in G
  <2> HIDE DEF G
  <2>1. \A T \in SUBSET S : T \in G
    BY <1>1, FiniteInduct
  <2>2. QED
    BY <2>1
<1>3. QED
  BY <1>2

LEMMA SumsEqual ==
  ASSUME NEW S, IsFiniteSet(S), NEW f, NEW g, \A x \in S : f[x] \in Int /\ f[x] = g[x]
  PROVE  SumOf(f, S) = SumOf(g, S)
<1>1. SumOf(f, S) \in Int /\ SumOf(g, S) \in Int
  BY SumType
<1>2. SumOf(f, S) <= SumOf(g, S) /\ SumOf(g, S) <= SumOf(f, S)
  BY SumsCompare
<1>3. QED
  BY <1>1, <1>2

LEMMA SumsAdd ==
  ASSUME NEW S, IsFiniteSet(S), NEW f, NEW g, NEW k,
         \A x \in S : f[x] \in Int /\ g[x] \in Int /\ k[x] = f[x] + g[x]
  PROVE  SumOf(k, S) = SumOf(f, S) + SumOf(g, S)
<1> DEFINE G == {T \in SUBSET S : SumOf(k, T) = SumOf(f, T) + SumOf(g, T)}
<1>1. ASSUME NEW T \in SUBSET S, \A U \in SUBSET T : U # T => U \in G
      PROVE  T \in G
  <2>1. CASE T = {}
    BY <2>1, SumEmpty
  <2>2. CASE T # {}
    <3>1. PICK y \in T : y = Chosen(T)
      BY <2>2, ChosenIn
    <3>2. IsFiniteSet(T) /\ IsFiniteSet(T \ {y}) /\ f[y] \in Int /\ g[y] \in Int
      BY FS_Subset
    <3>3. SumOf(f, T \ {y}) \in Int /\ SumOf(g, T \ {y}) \in Int
      BY <3>2, SumType
    <3>4. SumOf(k, T \ {y}) = SumOf(f, T \ {y}) + SumOf(g, T \ {y}) /\ k[y] = f[y] + g[y]
      BY <1>1
    <3>5. /\ SumOf(f, T) = f[y] + SumOf(f, T \ {y}) /\ SumOf(g, T) = g[y] + SumOf(g, T \ {y})
          /\ SumOf(k, T) = k[y] + SumOf(k, T \ {y})
      BY <2>2, <3>1, <3>2, SumGoesOn
    <3>6. PICK a, b, m, n : a = f[y] /\ b = g[y] /\ m = SumOf(f, T \ {y}) /\ n = SumOf(g, T \ {y})
      OBVIOUS
    <3>7. (a + b) + (m + n) = (a + m) + (b + n)
      BY <3>2, <3>3, <3>6
    <3>8. QED
      BY <3>4, <3>5, <3>6, <3>7
  <2>3. QED
    BY <2>1, <2>2
<1>2. S \in G
  <2> HIDE DEF G
  <2>1. \A T \in SUBSET S : T \in G
    BY <1>1, FiniteInduct
  <2>2. QED
    BY <2>1
<1>3. QED
  BY <1>2

\* Two sums that differ in one term.
LEMMA SumChanges ==
  ASSUME NEW S, IsFiniteSet(S), NEW f, NEW g, NEW r \in S,
         \A x \in S : f[x] \in Int /\ g[x] \in Int,
         \A x \in S \ {r} : g[x] = f[x]
  PROVE  SumOf(g, S) = SumOf(f, S) - f[r] + g[r]
<1>1. PICK T : T = S \ {r}
  OBVIOUS
<1>2. IsFiniteSet(T) /\ T \subseteq S
  BY <1>1, FS_Subset
<1>3. SumOf(g, T) = SumOf(f, T) /\ SumOf(f, T) \in Int
  BY <1>1, <1>2, SumsEqual, SumType
<1>4. SumOf(f, S) = f[r] + SumOf(f, T) /\ SumOf(g, S) = g[r] + SumOf(g, T)
  BY <1>1, SumTakes
<1>5. PICK a, b, n : a = f[r] /\ b = g[r] /\ n = SumOf(f, T)
  OBVIOUS
<1>6. n \in Int /\ a \in Int /\ b \in Int
  BY <1>3, <1>5
<1>7. b + n = (a + n) - a + b
  BY <1>6
<1>8. QED
  BY <1>3, <1>4, <1>5, <1>7

LEMMA SumZero ==
  ASSUME NEW S, IsFiniteSet(S), NEW f, \A x \in S : f[x] = 0
  PROVE  SumOf(f, S) = 0
<1> DEFINE G == {T \in SUBSET S : SumOf(f, T) = 0}
<1>1. ASSUME NEW T \in SUBSET S, \A U \in SUBSET T : U # T => U \in G
      PROVE  T \in G
  <2>1. CASE T = {}
    BY <2>1, SumEmpty
  <2>2. CASE T # {}
    <3>1. Chosen(T) \in T /\ IsFiniteSet(T)
      BY <2>2, ChosenIn, FS_Subset
    <3>2. SumOf(f, T \ {Chosen(T)}) = 0
      BY <1>1, <3>1
    <3>3. SumOf(f, T) = f[Chosen(T)] + SumOf(f, T \ {Chosen(T)})
      BY <2>2, <3>1, SumGoesOn
    <3>4. f[Chosen(T)] = 0
      BY <3>1
    <3>5. QED
      BY <3>2, <3>3, <3>4
  <2>3. QED
    BY <2>1, <2>2
<1>2. \A T \in SUBSET S : T \in G
  <2> HIDE DEF G
  <2>1. QED
    BY <1>1, FiniteInduct
<1>3. QED
  BY <1>2

\* A sum of one term.
LEMMA SumOne ==
  ASSUME NEW S, IsFiniteSet(S), NEW f, NEW r \in S, f[r] \in Int, \A x \in S \ {r} : f[x] = 0
  PROVE  SumOf(f, S) = f[r]
<1>1. PICK T : T = S \ {r}
  OBVIOUS
<1>2. IsFiniteSet(T) /\ \A x \in T : f[x] = 0
  BY <1>1, FS_Subset
<1>3. SumOf(f, T) = 0
  BY <1>2, SumZero
<1>4. \A x \in S : f[x] \in Int
  <2>1. ASSUME NEW x \in S PROVE f[x] \in Int
    BY <1>1, <1>2
  <2>2. QED
    BY <2>1
<1>5. SumOf(f, S) = f[r] + SumOf(f, T)
  BY <1>1, <1>4, SumTakes
<1>6. QED
  BY <1>3, <1>5

\* A set counts as many as it has ones.
LEMMA SumOnes ==
  ASSUME NEW S, IsFiniteSet(S), NEW f, \A x \in S : f[x] = 1
  PROVE  SumOf(f, S) = Cardinality(S)
<1> DEFINE G == {T \in SUBSET S : SumOf(f, T) = Cardinality(T)}
<1>1. ASSUME NEW T \in SUBSET S, \A U \in SUBSET T : U # T => U \in G
      PROVE  T \in G
  <2>1. CASE T = {}
    BY <2>1, SumEmpty, FS_EmptySet
  <2>2. CASE T # {}
    <3>1. PICK y \in T : y = Chosen(T)
      BY <2>2, ChosenIn
    <3>2. PICK U : U = T \ {y}
      OBVIOUS
    <3>3. IsFiniteSet(T) /\ U \in SUBSET T /\ U # T /\ f[y] = 1
      BY <3>1, <3>2, FS_Subset
    <3>4. Cardinality(U) = Cardinality(T) - 1 /\ Cardinality(T) \in Nat
      BY <3>1, <3>2, <3>3, FS_RemoveElement, FS_CardinalityType
    <3>5. SumOf(f, T) = f[y] + SumOf(f, U)
      BY <2>2, <3>1, <3>2, <3>3, SumGoesOn
    <3>6. SumOf(f, U) = Cardinality(U)
      BY <1>1, <3>3
    <3>7. QED
      BY <3>3, <3>4, <3>5, <3>6
  <2>3. QED
    BY <2>1, <2>2
<1>2. S \in G
  <2> HIDE DEF G
  <2>1. \A T \in SUBSET S : T \in G
    BY <1>1, FiniteInduct
  <2>2. QED
    BY <2>1
<1>3. QED
  BY <1>2

\* A sum that loses no more than another sum makes up for.
LEMMA SumsFall ==
  ASSUME NEW S, IsFiniteSet(S), NEW f, NEW g, NEW k,
         \A x \in S : f[x] \in Int /\ g[x] \in Int /\ k[x] \in Int /\ f[x] <= g[x] + k[x]
  PROVE  SumOf(f, S) <= SumOf(g, S) + SumOf(k, S)
<1>1. PICK j : j = [x \in S |-> g[x] + k[x]]
  OBVIOUS
<1>2. \A x \in S : j[x] = g[x] + k[x] /\ j[x] \in Int /\ f[x] <= j[x]
  BY <1>1
<1>3. SumOf(f, S) <= SumOf(j, S)
  BY <1>2, SumsCompare
<1>4. SumOf(j, S) = SumOf(g, S) + SumOf(k, S)
  BY <1>2, SumsAdd
<1>5. QED
  BY <1>3, <1>4

LEMMA SumUnion ==
  ASSUME NEW A, IsFiniteSet(A), NEW B, IsFiniteSet(B), A \cap B = {},
         NEW f, \A x \in A \cup B : f[x] \in Int
  PROVE  SumOf(f, A \cup B) = SumOf(f, A) + SumOf(f, B)
<1> DEFINE G == {T \in SUBSET B : SumOf(f, A \cup T) = SumOf(f, A) + SumOf(f, T)}
<1>0. SumOf(f, A) \in Int
  BY SumType
<1>1. ASSUME NEW T \in SUBSET B, \A U \in SUBSET T : U # T => U \in G
      PROVE  T \in G
  <2>1. CASE T = {}
    <3>1. A \cup T = A /\ SumOf(f, T) = 0
      BY <2>1, SumEmpty
    <3>2. PICK n : n = SumOf(f, A)
      OBVIOUS
    <3>3. n = n + 0
      BY <1>0, <3>2
    <3>4. QED
      BY <3>1, <3>2, <3>3
  <2>2. CASE T # {}
    <3>1. PICK y \in T : y = Chosen(T)
      BY <2>2, ChosenIn
    <3>2. PICK U : U = T \ {y}
      OBVIOUS
    <3>3. /\ IsFiniteSet(T) /\ IsFiniteSet(U) /\ IsFiniteSet(A \cup T)
          /\ U \in SUBSET T /\ U # T /\ f[y] \in Int
          /\ (A \cup T) \ {y} = A \cup U
      BY <3>1, <3>2, FS_Subset, FS_Union
    <3>4. SumOf(f, A \cup U) = SumOf(f, A) + SumOf(f, U)
      BY <1>1, <3>3
    <3>5. SumOf(f, T) = f[y] + SumOf(f, U)
      BY <3>1, <3>2, <3>3, SumGoesOn
    <3>6. SumOf(f, A \cup T) = f[y] + SumOf(f, A \cup U)
      <4>1. y \in A \cup T /\ \A x \in A \cup T : f[x] \in Int
        BY <3>1
      <4>2. SumOf(f, A \cup T) = f[y] + SumOf(f, (A \cup T) \ {y})
        BY <3>3, <4>1, SumTakes
      <4>3. QED
        BY <3>3, <4>2
    <3>7. SumOf(f, U) \in Int
      BY <3>3, SumType
    <3>8. PICK a, b, n : a = f[y] /\ b = SumOf(f, A) /\ n = SumOf(f, U)
      OBVIOUS
    <3>9. a + (b + n) = b + (a + n)
      BY <1>0, <3>3, <3>7, <3>8
    <3>10. QED
      BY <3>4, <3>5, <3>6, <3>8, <3>9
  <2>3. QED
    BY <2>1, <2>2
<1>2. B \in G
  <2> HIDE DEF G
  <2>1. \A T \in SUBSET B : T \in G
    BY <1>1, FiniteInduct
  <2>2. QED
    BY <2>1
<1>3. QED
  BY <1>2

\* A set taken apart by a key: the sum is the sum of what each key has.
Having(S, h, d) == {x \in S : h[x] = d}

LEMMA SumOfParts ==
  ASSUME NEW S, IsFiniteSet(S), NEW D, IsFiniteSet(D), NEW f, NEW h, NEW g,
         \A x \in S : f[x] \in Int /\ h[x] \in D,
         \A d \in D : g[d] = SumOf(f, Having(S, h, d))
  PROVE  SumOf(f, S) = SumOf(g, D)
<1> DEFINE Among(T) == {x \in S : h[x] \in T}
           G == {T \in SUBSET D : SumOf(f, Among(T)) = SumOf(g, T)}
<1>1. ASSUME NEW T \in SUBSET D, \A U \in SUBSET T : U # T => U \in G
      PROVE  T \in G
  <2>1. CASE T = {}
    <3>1. Among(T) = {}
      BY <2>1
    <3>2. QED
      BY <2>1, <3>1, SumEmpty
  <2>2. CASE T # {}
    <3>1. PICK y \in T : y = Chosen(T)
      BY <2>2, ChosenIn
    <3>2. PICK U : U = T \ {y}
      OBVIOUS
    <3>3. PICK A, B : A = Among(U) /\ B = Having(S, h, y)
      OBVIOUS
    <3>4. /\ IsFiniteSet(T) /\ U \in SUBSET T /\ U # T
          /\ A \subseteq S /\ B \subseteq S /\ Among(T) = B \cup A /\ B \cap A = {}
      BY <3>1, <3>2, <3>3, FS_Subset DEF Having
    <3>5. IsFiniteSet(A) /\ IsFiniteSet(B) /\ \A x \in B \cup A : f[x] \in Int
      BY <3>4, FS_Subset
    <3>6. SumOf(f, B \cup A) = SumOf(f, B) + SumOf(f, A)
      BY <3>4, <3>5, SumUnion
    <3>7. SumOf(f, A) = SumOf(g, U)
      BY <1>1, <3>3, <3>4
    <3>8. SumOf(g, T) = g[y] + SumOf(g, U)
      BY <2>2, <3>1, <3>2, <3>4, SumGoesOn
    <3>9. g[y] = SumOf(f, B)
      BY <3>1, <3>3
    <3>10. QED
      BY <3>4, <3>6, <3>7, <3>8, <3>9
  <2>3. QED
    BY <2>1, <2>2
<1>2. D \in G
  <2> HIDE DEF G
  <2>1. \A T \in SUBSET D : T \in G
    BY <1>1, FiniteInduct
  <2>2. QED
    BY <2>1
<1>3. Among(D) = S
  OBVIOUS
<1>4. QED
  BY <1>2, <1>3

\* Summed over rows or over columns, a table of integers has the same sum.
Transposed(a, b, K, I) == \A k \in K, i \in I : a[k][i] \in Int /\ b[i][k] = a[k][i]

SumsAcross(row, a, K, I) == \A k \in K : row[k] = SumOf(a[k], I)

LEMMA SumsSwap ==
  ASSUME NEW K, IsFiniteSet(K), NEW I, IsFiniteSet(I), NEW a, NEW b, NEW row, NEW col,
         Transposed(a, b, K, I), SumsAcross(row, a, K, I), SumsAcross(col, b, I, K)
  PROVE  SumOf(row, K) = SumOf(col, I)
<1> USE DEF Transposed, SumsAcross
<1> DEFINE Col(T) == [i \in I |-> SumOf(b[i], T)]
           G == {T \in SUBSET K : SumOf(row, T) = SumOf(Col(T), I)}
<1>1. ASSUME NEW T \in SUBSET K, \A U \in SUBSET T : U # T => U \in G
      PROVE  T \in G
  <2>1. CASE T = {}
    <3>1. \A i \in I : Col(T)[i] = 0
      BY <2>1, SumEmpty
    <3>2. SumOf(Col(T), I) = 0
      <4> HIDE DEF Col
      <4>1. QED
        BY <3>1, SumZero
    <3>3. SumOf(row, T) = 0
      BY <2>1, SumEmpty
    <3>4. QED
      BY <3>2, <3>3
  <2>2. CASE T # {}
    <3>1. PICK y \in T : y = Chosen(T)
      BY <2>2, ChosenIn
    <3>2. PICK U : U = T \ {y}
      OBVIOUS
    <3>3. IsFiniteSet(T) /\ IsFiniteSet(U) /\ U \in SUBSET T /\ U # T /\ y \in K
      BY <3>1, <3>2, FS_Subset
    <3>4. SumOf(row, T) = row[y] + SumOf(row, U)
      BY <2>2, <3>1, <3>2, <3>3, SumGoesOn
    <3>5. SumOf(row, U) = SumOf(Col(U), I)
      BY <1>1, <3>3
    <3>6. ASSUME NEW i \in I
          PROVE  a[y][i] \in Int /\ Col(U)[i] \in Int /\ Col(T)[i] = a[y][i] + Col(U)[i]
      <4>1. PICK f : f = b[i]
        OBVIOUS
      <4>2. \A x \in U : f[x] \in Int
        BY <3>3, <4>1
      <4>3. SumOf(f, T) = f[y] + SumOf(f, U) /\ SumOf(f, U) \in Int
        BY <2>2, <3>1, <3>2, <3>3, <4>2, SumGoesOn, SumType
      <4>4. f[y] = a[y][i] /\ a[y][i] \in Int
        BY <3>3, <4>1
      <4>5. Col(U)[i] = SumOf(f, U) /\ Col(T)[i] = SumOf(f, T)
        BY <4>1
      <4>6. QED
        BY <4>3, <4>4, <4>5
    <3>7. SumOf(Col(T), I) = SumOf(a[y], I) + SumOf(Col(U), I)
      <4>1. PICK f, g, k : f = a[y] /\ g = Col(U) /\ k = Col(T)
        OBVIOUS
      <4>2. \A i \in I : f[i] \in Int /\ g[i] \in Int /\ k[i] = f[i] + g[i]
        BY <3>6, <4>1
      <4>3. SumOf(k, I) = SumOf(f, I) + SumOf(g, I)
        BY <4>2, SumsAdd
      <4>4. QED
        BY <4>1, <4>3
    <3>8. row[y] = SumOf(a[y], I)
      BY <3>3
    <3>9. QED
      BY <3>4, <3>5, <3>7, <3>8
  <2>3. QED
    BY <2>1, <2>2
<1>2. K \in G
  <2> HIDE DEF G
  <2>1. \A T \in SUBSET K : T \in G
    BY <1>1, FiniteInduct
  <2>2. QED
    BY <2>1
<1>3. SumOf(Col(K), I) = SumOf(col, I)
  <2>1. PICK f : f = Col(K)
    OBVIOUS
  <2>2. \A i \in I : f[i] \in Int /\ f[i] = col[i]
    <3> TAKE i \in I
    <3>1. f[i] = SumOf(b[i], K) /\ col[i] = SumOf(b[i], K)
      BY <2>1
    <3>2. \A k \in K : b[i][k] \in Int
      OBVIOUS
    <3>3. SumOf(b[i], K) \in Int
      BY <3>2, SumType
    <3>4. QED
      BY <3>1, <3>3
  <2>3. SumOf(f, I) = SumOf(col, I)
    BY <2>2, SumsEqual
  <2>4. QED
    BY <2>1, <2>3
<1>4. QED
  BY <1>2, <1>3

\* No term is negative, nor is the sum.
LEMMA SumNat ==
  ASSUME NEW S, IsFiniteSet(S), NEW f, \A x \in S : f[x] \in Nat
  PROVE  SumOf(f, S) \in Nat
<1>1. PICK z : z = [x \in S |-> 0]
  OBVIOUS
<1>2. SumOf(z, S) = 0
  BY <1>1, SumZero
<1>3. SumOf(z, S) <= SumOf(f, S)
  <2>1. \A x \in S : z[x] \in Int /\ f[x] \in Int /\ z[x] <= f[x]
    BY <1>1
  <2>2. QED
    BY <2>1, SumsCompare
<1>4. SumOf(f, S) \in Int
  BY SumType
<1>5. QED
  BY <1>2, <1>3, <1>4

-----------------------------------------------------------------------------
\* The sum of a function as the community modules have it.
LEMMA SumFunctionIs ==
  ASSUME NEW f, IsFiniteSet(DOMAIN f)
  PROVE  SumFunction(f) = SumOf(f, DOMAIN f)
<1> DEFINE S == DOMAIN f
           P(i) == i = [s \in SUBSET S |->
                          IF s = {} THEN 0 ELSE LET x == CHOOSE x \in s : TRUE IN f[x] + i[s \ {x}]]
<1>1. ASSUME NEW i
      PROVE  P(i) <=> IsSum(i, f, S)
  BY DEF IsSum, Chosen
<1>2. SumFunction(f) = (CHOOSE i : P(i))[S]
  BY DEF SumFunction, SumFunctionOnSet, FoldFunctionOnSet, MapThenFoldSet
<1>3. PICK j : j = CHOOSE i : P(i)
  OBVIOUS
<1>4. \E i : P(i)
  <2> HIDE DEF P
  <2>1. QED
    BY <1>1, SumExists
<1>5. P(j)
  <2> HIDE DEF P
  <2>1. QED
    BY <1>3, <1>4
<1>6. IsSum(j, f, S)
  <2> HIDE DEF P
  <2>1. QED
    BY <1>1, <1>5
<1>7. j[S] = SumOf(f, S)
  BY <1>6, SumFound
<1>8. QED
  <2> HIDE DEF P
  <2>1. QED
    BY <1>2, <1>3, <1>7

\* A total is the sum of a function that has its terms.
LEMMA TermsSum ==
  ASSUME NEW S, IsFiniteSet(S), NEW f, NEW g, DOMAIN f = S, \A x \in S : f[x] \in Int /\ f[x] = g[x]
  PROVE  SumFunction(f) = SumOf(g, S)
<1>1. SumFunction(f) = SumOf(f, S)
  BY SumFunctionIs
<1>2. SumOf(f, S) = SumOf(g, S)
  BY SumsEqual
<1>3. QED
  BY <1>1, <1>2

\* A set taken apart by a key: the parts' sums, the parts' numbers.
LEMMA PartsTotal ==
  ASSUME NEW S, IsFiniteSet(S), NEW D, IsFiniteSet(D), NEW f, NEW h, NEW g,
         \A x \in S : f[x] \in Int /\ h[x] \in D,
         DOMAIN g = D, \A d \in D : g[d] = SumOf(f, Having(S, h, d))
  PROVE  SumFunction(g) = SumOf(f, S)
<1>1. SumOf(f, S) = SumOf(g, D)
  BY SumOfParts
<1>2. SumFunction(g) = SumOf(g, D)
  BY SumFunctionIs
<1>3. QED
  BY <1>1, <1>2

LEMMA PartsCount ==
  ASSUME NEW S, IsFiniteSet(S), NEW D, IsFiniteSet(D), NEW h, NEW g,
         \A x \in S : h[x] \in D,
         DOMAIN g = D, \A d \in D : g[d] = Cardinality(Having(S, h, d))
  PROVE  SumFunction(g) = Cardinality(S)
<1>1. PICK one : one = [x \in S |-> 1]
  OBVIOUS
<1>2. \A x \in S : one[x] = 1
  BY <1>1
<1>3. SumOf(one, S) = Cardinality(S)
  BY <1>2, SumOnes
<1>4. ASSUME NEW d \in D
      PROVE  g[d] = SumOf(one, Having(S, h, d))
  <2>1. PICK H : H = Having(S, h, d)
    OBVIOUS
  <2>2. H \subseteq S
    BY <2>1 DEF Having
  <2>3. IsFiniteSet(H) /\ \A x \in H : one[x] = 1
    BY <1>2, <2>2, FS_Subset
  <2>4. SumOf(one, H) = Cardinality(H)
    BY <2>3, SumOnes
  <2>5. QED
    BY <2>1, <2>4
<1>5. \A x \in S : one[x] \in Int /\ h[x] \in D
  BY <1>2
<1>6. SumFunction(g) = SumOf(one, S)
  BY <1>4, <1>5, PartsTotal
<1>7. QED
  BY <1>3, <1>6
=============================================================================
