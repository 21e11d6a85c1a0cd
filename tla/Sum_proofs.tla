----------------------------- MODULE Sum_proofs -----------------------------
(* Sums over finite sets, as the folds of the community modules define     *)
(* them: the recursive function that they choose exists, and what it adds  *)
(* up are natural numbers.                                                 *)
EXTENDS Integers, FiniteSets, FiniteSetsExt, Functions, TLAPS,
        FiniteSetTheorems, WellFoundedInduction

(* The element a fold takes out of a set next. *)
Pick(s) == CHOOSE x \in s : TRUE

(* What the fold of w says of the sums g over the subsets of S. *)
Step(w, S, g) ==
  [s \in SUBSET S |-> IF s = {} THEN 0 ELSE w[Pick(s)] + g[s \ {Pick(s)}]]

LEMMA PickTaken ==
  ASSUME NEW S, IsFiniteSet(S), NEW s \in SUBSET S, s # {}
  PROVE  /\ Pick(s) \in s /\ s \ {Pick(s)} \in SUBSET S
         /\ Cardinality(s) \in Nat /\ Cardinality(s \ {Pick(s)}) \in Nat
         /\ Cardinality(s) = Cardinality(s \ {Pick(s)}) + 1
<1>1. Pick(s) \in s
  BY DEF Pick
<1>2. IsFiniteSet(s)
  BY FS_Subset
<1>3. Cardinality(s) \in Nat
  BY <1>2, FS_CardinalityType
<1>4. IsFiniteSet(s \ {Pick(s)}) /\ Cardinality(s \ {Pick(s)}) = Cardinality(s) - 1
  BY <1>1, <1>2, FS_RemoveElement
<1>5. Cardinality(s \ {Pick(s)}) \in Nat
  BY <1>4, FS_CardinalityType
<1> QED  BY <1>1, <1>3, <1>4, <1>5

LEMMA SumsAreNat ==
  ASSUME NEW S, IsFiniteSet(S), NEW w, \A x \in S : w[x] \in Nat, NEW g, g = Step(w, S, g),
         NEW T \in SUBSET S
  PROVE  g[T] \in Nat
<1> DEFINE Bad == {n \in Nat : \E s \in SUBSET S : Cardinality(s) = n /\ g[s] \notin Nat}
<1>1. SUFFICES Bad = {}
  <2>1. IsFiniteSet(T)
    BY FS_Subset
  <2>2. Cardinality(T) \in Nat
    BY <2>1, FS_CardinalityType
  <2> QED  BY <2>2
<1>2. SUFFICES ASSUME Bad # {} PROVE FALSE
  OBVIOUS
<1>3. PICK n \in Bad : \A m \in Bad : ~(m < n)
  <2>1. IsWellFoundedOn(OpToRel(<, Nat), Nat)
    BY NatLessThanWellFounded
  <2>2. Bad \subseteq Nat
    OBVIOUS
  <2>3. \E n \in Bad : \A m \in Bad : ~(<<m, n>> \in OpToRel(<, Nat))
    BY <1>2, <2>1, <2>2, WFMin
  <2> QED  BY <2>2, <2>3 DEF OpToRel
<1>4. PICK s \in SUBSET S : Cardinality(s) = n /\ g[s] \notin Nat
  BY <1>3
<1>5. g[s] = IF s = {} THEN 0 ELSE w[Pick(s)] + g[s \ {Pick(s)}]
  BY DEF Step
<1>6. s # {}
  BY <1>4, <1>5
<1>7. /\ Pick(s) \in s /\ s \ {Pick(s)} \in SUBSET S
      /\ Cardinality(s \ {Pick(s)}) \in Nat
      /\ Cardinality(s) = Cardinality(s \ {Pick(s)}) + 1
  BY <1>6, PickTaken
<1>8. Cardinality(s \ {Pick(s)}) \notin Bad
  <2>1. n \in Nat /\ Cardinality(s \ {Pick(s)}) < n
    BY <1>4, <1>7
  <2> HIDE DEF Bad
  <2> QED  BY <1>3, <2>1
<1>9. g[s \ {Pick(s)}] \in Nat
  BY <1>7, <1>8
<1>10. w[Pick(s)] \in Nat
  BY <1>7
<1> QED  BY <1>4, <1>5, <1>6, <1>9, <1>10

LEMMA SumsExist ==
  ASSUME NEW S, IsFiniteSet(S), NEW w, \A x \in S : w[x] \in Nat
  PROVE  \E g : g = Step(w, S, g)
<1> DEFINE Upto(n) ==
      {g \in [SUBSET S -> Nat] :
         \A s \in SUBSET S : Cardinality(s) <= n => g[s] = Step(w, S, g)[s]}
           Bad == {n \in Nat : Upto(n) = {}}
<1>1. \A s \in SUBSET S : Cardinality(s) \in Nat /\ (Cardinality(s) = 0 <=> s = {})
  BY FS_Subset, FS_CardinalityType, FS_EmptySet
<1>2. Upto(0) # {}
  <2> DEFINE zero == [s \in SUBSET S |-> 0]
  <2>1. zero \in [SUBSET S -> Nat]
    OBVIOUS
  <2>2. ASSUME NEW s \in SUBSET S, Cardinality(s) <= 0 PROVE zero[s] = Step(w, S, zero)[s]
    <3>1. s = {}
      BY <1>1, <2>2
    <3> QED  BY <3>1 DEF Step
  <2> QED  BY <2>1, <2>2
<1>3. ASSUME NEW n \in Nat, Upto(n) # {} PROVE Upto(n + 1) # {}
  <2>1. PICK g \in Upto(n) : TRUE
    BY <1>3
  <2> DEFINE h == Step(w, S, g)
  <2>2. h \in [SUBSET S -> Nat]
    <3>1. SUFFICES ASSUME NEW s \in SUBSET S, s # {}
                   PROVE  w[Pick(s)] + g[s \ {Pick(s)}] \in Nat
      BY DEF Step
    <3>2. Pick(s) \in s /\ s \ {Pick(s)} \in SUBSET S
      BY <3>1, PickTaken
    <3>3. w[Pick(s)] \in Nat /\ g[s \ {Pick(s)}] \in Nat
      BY <2>1, <3>2
    <3> QED  BY <3>3
  <2>3. ASSUME NEW s \in SUBSET S, Cardinality(s) <= n + 1 PROVE h[s] = Step(w, S, h)[s]
    <3>1. CASE s = {}
      BY <3>1 DEF Step
    <3>2. CASE s # {}
      <4> DEFINE t == s \ {Pick(s)}
      <4>1. t \in SUBSET S /\ Cardinality(t) <= n
        BY <1>1, <2>3, <3>2, PickTaken
      <4>2. g[t] = h[t]
        BY <2>1, <4>1
      <4>3. h[s] = w[Pick(s)] + g[t] /\ Step(w, S, h)[s] = w[Pick(s)] + h[t]
        BY <3>2 DEF Step
      <4> QED  BY <4>2, <4>3
    <3> QED  BY <3>1, <3>2
  <2> HIDE DEF h
  <2> QED  BY <2>2, <2>3
<1>4. Bad = {}
  <2>1. SUFFICES ASSUME Bad # {} PROVE FALSE
    OBVIOUS
  <2>2. IsWellFoundedOn(OpToRel(<, Nat), Nat)
    BY NatLessThanWellFounded
  <2>3. Bad \subseteq Nat
    OBVIOUS
  <2>4. \E n \in Bad : \A m \in Bad : ~(<<m, n>> \in OpToRel(<, Nat))
    BY <2>1, <2>2, <2>3, WFMin
  <2>5. PICK n \in Bad : \A m \in Bad : ~(m < n)
    BY <2>3, <2>4 DEF OpToRel
  <2>6. n # 0 /\ n \in Nat
    BY <1>2, <2>5
  <2>7. n - 1 \in Nat /\ n - 1 \notin Bad
    <3>1. n - 1 \in Nat /\ n - 1 < n
      BY <2>6
    <3> HIDE DEF Bad
    <3> QED  BY <2>5, <3>1
  <2>8. Upto(n - 1) # {}
    BY <2>7
  <2>9. Upto((n - 1) + 1) # {}
    BY <1>3, <2>7, <2>8
  <2> HIDE DEF Upto
  <2> QED  BY <2>5, <2>6, <2>9
<1>5. Cardinality(S) \in Nat /\ \A s \in SUBSET S : Cardinality(s) <= Cardinality(S)
  BY FS_Subset, FS_CardinalityType
<1>6. PICK g \in Upto(Cardinality(S)) : TRUE
  <2> HIDE DEF Upto
  <2> QED  BY <1>4, <1>5
<1>7. g = Step(w, S, g)
  <2>1. g \in [SUBSET S -> Nat] /\ DOMAIN Step(w, S, g) = SUBSET S
    BY <1>6 DEF Step
  <2>2. \A s \in SUBSET S : g[s] = Step(w, S, g)[s]
    BY <1>5, <1>6
  <2>3. Step(w, S, g) = [s \in SUBSET S |-> Step(w, S, g)[s]]
    BY DEF Step
  <2> QED  BY <2>1, <2>2, <2>3
<1> QED  BY <1>7

-----------------------------------------------------------------------------
(* A family of subsets that holds a set whenever it holds what is left of  *)
(* it without any one of its elements holds all of them.                   *)
LEMMA SetInduction ==
  ASSUME NEW S, IsFiniteSet(S), NEW G,
         {} \in G,
         \A T \in SUBSET S : T # {} /\ (\A x \in T : T \ {x} \in G) => T \in G
  PROVE  S \in G
<1> DEFINE Bad == {n \in Nat : \E T \in SUBSET S : Cardinality(T) = n /\ T \notin G}
<1>1. SUFFICES Bad = {}
  <2>1. Cardinality(S) \in Nat /\ S \in SUBSET S
    BY FS_CardinalityType
  <2> QED  BY <2>1
<1>2. SUFFICES ASSUME Bad # {} PROVE FALSE
  OBVIOUS
<1>3. PICK n \in Bad : \A m \in Bad : ~(m < n)
  <2>1. IsWellFoundedOn(OpToRel(<, Nat), Nat)
    BY NatLessThanWellFounded
  <2>2. Bad \subseteq Nat
    OBVIOUS
  <2> HIDE DEF Bad
  <2>3. \E k \in Bad : \A m \in Bad : ~(<<m, k>> \in OpToRel(<, Nat))
    BY <1>2, <2>1, <2>2, WFMin
  <2> QED  BY <2>2, <2>3 DEF OpToRel
<1>4. PICK T \in SUBSET S : Cardinality(T) = n /\ T \notin G
  BY <1>3
<1>5. ASSUME NEW x \in T PROVE T \ {x} \in G
  <2>1. IsFiniteSet(T)
    BY FS_Subset
  <2>2. IsFiniteSet(T \ {x}) /\ Cardinality(T \ {x}) = Cardinality(T) - 1
    BY <2>1, FS_RemoveElement
  <2>3. Cardinality(T) \in Nat /\ Cardinality(T \ {x}) \in Nat
    BY <2>1, <2>2, FS_CardinalityType
  <2>4. Cardinality(T \ {x}) \notin Bad
    <3>1. n \in Nat /\ Cardinality(T \ {x}) < n
      BY <1>4, <2>2, <2>3
    <3> HIDE DEF Bad
    <3> QED  BY <1>3, <3>1
  <2> QED  BY <2>3, <2>4
<1> QED  BY <1>4, <1>5

LEMMA ImageIsFinite ==
  ASSUME NEW f, IsFiniteSet(DOMAIN f)
  PROVE  IsFiniteSet({f[x] : x \in DOMAIN f})
<1> DEFINE T == {f[x] : x \in DOMAIN f}
           g == [x \in DOMAIN f |-> f[x]]
<1>1. g \in Surjection(DOMAIN f, T)
  BY DEF Surjection
<1>2. IsFiniteSet(T)
  <2> HIDE DEF T, g
  <2> QED  BY <1>1, FS_Surjection
<1> QED  BY <1>2

(* Induction over the natural numbers. *)
LEMMA CountingUp ==
  ASSUME NEW G, 0 \in G, \A n \in Nat : n \in G => n + 1 \in G
  PROVE  \A n \in Nat : n \in G
<1> DEFINE Bad == {n \in Nat : n \notin G}
<1>1. SUFFICES ASSUME Bad # {} PROVE FALSE
  OBVIOUS
<1>2. PICK n \in Bad : \A m \in Bad : ~(m < n)
  <2>1. IsWellFoundedOn(OpToRel(<, Nat), Nat)
    BY NatLessThanWellFounded
  <2>2. Bad \subseteq Nat
    OBVIOUS
  <2> HIDE DEF Bad
  <2>3. \E k \in Bad : \A m \in Bad : ~(<<m, k>> \in OpToRel(<, Nat))
    BY <1>1, <2>1, <2>2, WFMin
  <2> QED  BY <2>2, <2>3 DEF OpToRel
<1>3. n # 0 /\ n - 1 \in Nat /\ n - 1 < n /\ (n - 1) + 1 = n /\ n \notin G
  BY <1>2
<1>4. n - 1 \in G
  <2>1. n - 1 \notin Bad
    <3> HIDE DEF Bad
    <3> QED  BY <1>2, <1>3
  <2> QED  BY <1>3, <2>1
<1> QED  BY <1>3, <1>4

LEMMA HasGreatest ==
  ASSUME NEW S, IsFiniteSet(S), S \subseteq Int, S # {}
  PROVE  \E x \in S : \A y \in S : x >= y
<1> DEFINE G == {T \in SUBSET S : T = {} \/ \E x \in T : \A y \in T : x >= y}
<1>1. ASSUME NEW T \in SUBSET S, T # {}, \A x \in T : T \ {x} \in G PROVE T \in G
  <2>1. PICK z \in T : TRUE
    BY <1>1
  <2>2. CASE T \ {z} = {}
    BY <2>1, <2>2
  <2>3. CASE T \ {z} # {}
    <3>1. PICK x \in T \ {z} : \A y \in T \ {z} : x >= y
      BY <1>1, <2>3
    <3>2. CASE x >= z
      BY <3>1, <3>2
    <3>3. CASE z > x
      BY <2>1, <3>1, <3>3
    <3> QED  BY <2>1, <3>1, <3>2, <3>3
  <2> QED  BY <2>2, <2>3
<1>2. S \in G
  <2>1. {} \in G
    OBVIOUS
  <2> HIDE DEF G
  <2> QED  BY <1>1, <2>1, SetInduction
<1> QED  BY <1>2

(* Two families of sums of w agree where both are defined. *)
LEMMA SumsAgree ==
  ASSUME NEW S, IsFiniteSet(S), NEW R \in SUBSET S, NEW w,
         NEW g, g = Step(w, S, g), NEW h, h = Step(w, R, h)
  PROVE  g[R] = h[R]
<1> DEFINE G == {s \in SUBSET R : g[s] = h[s]}
<1>1. IsFiniteSet(R)
  BY FS_Subset
<1>2. {} \in G
  BY DEF Step
<1>3. ASSUME NEW T \in SUBSET R, T # {}, \A x \in T : T \ {x} \in G PROVE T \in G
  <2>1. Pick(T) \in T
    BY <1>3 DEF Pick
  <2>2. g[T \ {Pick(T)}] = h[T \ {Pick(T)}]
    BY <1>3, <2>1
  <2>3. g[T] = w[Pick(T)] + g[T \ {Pick(T)}] /\ h[T] = w[Pick(T)] + h[T \ {Pick(T)}]
    BY <1>3 DEF Step
  <2> QED  BY <2>2, <2>3
<1>4. R \in G
  <2> HIDE DEF G
  <2> QED  BY <1>1, <1>2, <1>3, SetInduction
<1> QED  BY <1>4

(* What SumFunctionOnSet is: the fold that the library chooses. *)
LEMMA SumChosen ==
  ASSUME NEW S, NEW w
  PROVE  SumFunctionOnSet(w, S) = (CHOOSE g : g = Step(w, S, g))[S]
BY DEF SumFunctionOnSet, FoldFunctionOnSet, MapThenFoldSet, Step, Pick

(* A sum of natural numbers over a finite set is one. *)
LEMMA SumIsNat ==
  ASSUME NEW S, IsFiniteSet(S), NEW w, \A x \in S : w[x] \in Nat
  PROVE  SumFunctionOnSet(w, S) \in Nat
<1> DEFINE g == CHOOSE g : g = Step(w, S, g)
<1>1. g = Step(w, S, g)
  BY SumsExist
<1>2. g[S] \in Nat
  <2> HIDE DEF g
  <2> QED  BY <1>1, SumsAreNat
<1> QED  BY <1>2, SumChosen

LEMMA SumEmpty ==
  ASSUME NEW w
  PROVE  SumFunctionOnSet(w, {}) = 0
<1> DEFINE g == CHOOSE g : g = Step(w, {}, g)
<1>1. g = Step(w, {}, g)
  BY SumsExist, FS_EmptySet
<1>2. g[{}] = 0
  <2> HIDE DEF g
  <2> QED  BY <1>1 DEF Step
<1> QED  BY <1>2, SumChosen

(* Whichever element is taken out, the sum is that and the rest. *)
LEMMA SumTake ==
  ASSUME NEW S, IsFiniteSet(S), NEW w, \A x \in S : w[x] \in Nat, NEW x \in S
  PROVE  SumFunctionOnSet(w, S) = w[x] + SumFunctionOnSet(w, S \ {x})
<1> DEFINE Sum(T) == SumFunctionOnSet(w, T)
           G == {T \in SUBSET S : \A y \in T : Sum(T) = w[y] + Sum(T \ {y})}
<1>1. ASSUME NEW T \in SUBSET S PROVE IsFiniteSet(T) /\ Sum(T) \in Nat
  BY FS_Subset, SumIsNat
<1>2. ASSUME NEW T \in SUBSET S, T # {}
      PROVE  Pick(T) \in T /\ Sum(T) = w[Pick(T)] + Sum(T \ {Pick(T)})
  <2> DEFINE R == T \ {Pick(T)}
             g == CHOOSE g : g = Step(w, T, g)
             h == CHOOSE h : h = Step(w, R, h)
  <2>1. Pick(T) \in T /\ R \in SUBSET T
    BY <1>2 DEF Pick
  <2>2. IsFiniteSet(T) /\ IsFiniteSet(R)
    BY FS_Subset
  <2>3. g = Step(w, T, g)
    BY <2>2, SumsExist
  <2>4. h = Step(w, R, h)
    <3>1. \A y \in R : w[y] \in Nat
      OBVIOUS
    <3> HIDE DEF R
    <3> QED  BY <2>2, <3>1, SumsExist
  <2>5. Sum(T) = g[T]
    BY SumChosen
  <2>6. Sum(R) = h[R]
    BY SumChosen
  <2> HIDE DEF g, h, Sum
  <2>7. g[R] = h[R]
    <3> HIDE DEF R
    <3> QED  BY <2>1, <2>2, <2>3, <2>4, SumsAgree
  <2>8. g[T] = w[Pick(T)] + g[R]
    BY <1>2, <2>3 DEF Step
  <2> QED  BY <2>1, <2>5, <2>6, <2>7, <2>8
<1> HIDE DEF Sum
<1>3. {} \in G
  OBVIOUS
<1>4. ASSUME NEW T \in SUBSET S, T # {}, \A y \in T : T \ {y} \in G PROVE T \in G
  <2> DEFINE p == Pick(T)
  <2>1. p \in T /\ Sum(T) = w[p] + Sum(T \ {p})
    BY <1>2, <1>4
  <2> HIDE DEF p
  <2> SUFFICES ASSUME NEW y \in T PROVE Sum(T) = w[y] + Sum(T \ {y})
    OBVIOUS
  <2>2. CASE y = p
    BY <2>1, <2>2
  <2>3. CASE y # p
    <3>1. Sum(T \ {p}) = w[y] + Sum((T \ {p}) \ {y})
      BY <1>4, <2>1, <2>3
    <3>2. Sum(T \ {y}) = w[p] + Sum((T \ {y}) \ {p})
      BY <1>4, <2>1, <2>3
    <3>3. (T \ {y}) \ {p} = (T \ {p}) \ {y}
      OBVIOUS
    <3>4. Sum((T \ {p}) \ {y}) \in Nat /\ w[p] \in Nat /\ w[y] \in Nat
      BY <1>1, <2>1
    <3> QED  BY <2>1, <3>1, <3>2, <3>3, <3>4
  <2> QED  BY <2>2, <2>3
<1>5. S \in G
  <2> HIDE DEF G
  <2> QED  BY <1>3, <1>4, SetInduction
<1> QED  BY <1>5 DEF Sum

(* A property of the sums over the subsets of S holds of the sum over S if *)
(* it holds of the empty set's and is kept when an element is added.       *)
LEMMA SumInduction ==
  ASSUME NEW S, IsFiniteSet(S), NEW w, \A x \in S : w[x] \in Nat, NEW G,
         {} \in G,
         \A T \in SUBSET S, x \in S :
            /\ T \in G /\ x \notin T /\ IsFiniteSet(T) /\ w[x] \in Nat
            /\ SumFunctionOnSet(w, T) \in Nat
            /\ SumFunctionOnSet(w, T \cup {x}) = w[x] + SumFunctionOnSet(w, T)
            => T \cup {x} \in G
  PROVE  S \in G
<1>1. ASSUME NEW T \in SUBSET S, T # {}, \A x \in T : T \ {x} \in G PROVE T \in G
  <2>1. PICK x \in T : TRUE
    BY <1>1
  <2> DEFINE R == T \ {x}
  <2>2. R \in SUBSET S /\ R \in G /\ x \notin R /\ x \in S /\ T = R \cup {x}
    BY <1>1
  <2>3. IsFiniteSet(T) /\ IsFiniteSet(R)
    BY FS_Subset
  <2>4. \A y \in T : w[y] \in Nat
    OBVIOUS
  <2>5. SumFunctionOnSet(w, T) = w[x] + SumFunctionOnSet(w, R)
    BY <2>3, <2>4, SumTake
  <2>6. SumFunctionOnSet(w, R) \in Nat
    <3>1. \A y \in R : w[y] \in Nat
      OBVIOUS
    <3> HIDE DEF R
    <3> QED  BY <2>3, <3>1, SumIsNat
  <2> HIDE DEF R
  <2>7. SumFunctionOnSet(w, R \cup {x}) = w[x] + SumFunctionOnSet(w, R)
    BY <2>2, <2>5
  <2> QED  BY <2>2, <2>3, <2>4, <2>6, <2>7
<1> QED  BY <1>1, SetInduction

LEMMA SumAdd ==
  ASSUME NEW S, IsFiniteSet(S), NEW w, NEW x, x \notin S,
         \A y \in S \cup {x} : w[y] \in Nat
  PROVE  SumFunctionOnSet(w, S \cup {x}) = w[x] + SumFunctionOnSet(w, S)
<1>1. IsFiniteSet(S \cup {x})
  BY FS_AddElement
<1>2. (S \cup {x}) \ {x} = S
  OBVIOUS
<1>3. SumFunctionOnSet(w, S \cup {x}) = w[x] + SumFunctionOnSet(w, (S \cup {x}) \ {x})
  BY <1>1, SumTake
<1> QED  BY <1>2, <1>3

LEMMA SumOne ==
  ASSUME NEW w, NEW x, w[x] \in Nat
  PROVE  SumFunctionOnSet(w, {x}) = w[x]
<1>1. SumFunctionOnSet(w, {} \cup {x}) = w[x] + SumFunctionOnSet(w, {})
  BY FS_EmptySet, SumAdd
<1>2. {} \cup {x} = {x}
  OBVIOUS
<1> QED  BY <1>1, <1>2, SumEmpty

(* What is less for each element is less in the sum. *)
LEMMA SumMono ==
  ASSUME NEW S, IsFiniteSet(S), NEW w, NEW v,
         \A x \in S : w[x] \in Nat /\ v[x] \in Nat /\ w[x] <= v[x]
  PROVE  SumFunctionOnSet(w, S) <= SumFunctionOnSet(v, S)
<1> DEFINE G == {T \in SUBSET S : SumFunctionOnSet(w, T) <= SumFunctionOnSet(v, T)}
<1>1. {} \in G
  BY SumEmpty
<1>2. ASSUME NEW T \in SUBSET S, NEW x \in S, T \in G, x \notin T, IsFiniteSet(T),
             SumFunctionOnSet(w, T) \in Nat,
             SumFunctionOnSet(w, T \cup {x}) = w[x] + SumFunctionOnSet(w, T)
      PROVE  T \cup {x} \in G
  <2>1. \A y \in T \cup {x} : v[y] \in Nat
    OBVIOUS
  <2>2. SumFunctionOnSet(v, T \cup {x}) = v[x] + SumFunctionOnSet(v, T)
    BY <1>2, <2>1, SumAdd
  <2>3. SumFunctionOnSet(v, T) \in Nat
    BY <1>2, <2>1, SumIsNat
  <2> QED  BY <1>2, <2>2, <2>3
<1> HIDE DEF G
<1>3. S \in G
  BY <1>1, <1>2, SumInduction
<1> QED  BY <1>3 DEF G

LEMMA SumSame ==
  ASSUME NEW S, IsFiniteSet(S), NEW w, NEW v,
         \A x \in S : w[x] \in Nat /\ v[x] = w[x]
  PROVE  SumFunctionOnSet(v, S) = SumFunctionOnSet(w, S)
<1>1. SumFunctionOnSet(w, S) <= SumFunctionOnSet(v, S)
  BY SumMono
<1>2. SumFunctionOnSet(v, S) <= SumFunctionOnSet(w, S)
  BY SumMono
<1>3. SumFunctionOnSet(w, S) \in Nat /\ SumFunctionOnSet(v, S) \in Nat
  BY SumIsNat
<1> QED  BY <1>1, <1>2, <1>3

LEMMA SumPlus ==
  ASSUME NEW S, IsFiniteSet(S), NEW w, NEW u, NEW v,
         \A x \in S : u[x] \in Nat /\ v[x] \in Nat /\ w[x] = u[x] + v[x]
  PROVE  SumFunctionOnSet(w, S) = SumFunctionOnSet(u, S) + SumFunctionOnSet(v, S)
<1> DEFINE G == {T \in SUBSET S :
                  SumFunctionOnSet(w, T) = SumFunctionOnSet(u, T) + SumFunctionOnSet(v, T)}
<1>1. {} \in G
  BY SumEmpty
<1>2. ASSUME NEW T \in SUBSET S, NEW x \in S, T \in G, x \notin T, IsFiniteSet(T),
             SumFunctionOnSet(w, T) \in Nat,
             SumFunctionOnSet(w, T \cup {x}) = w[x] + SumFunctionOnSet(w, T)
      PROVE  T \cup {x} \in G
  <2>1. \A y \in T \cup {x} : v[y] \in Nat /\ u[y] \in Nat
    OBVIOUS
  <2>2. SumFunctionOnSet(v, T \cup {x}) = v[x] + SumFunctionOnSet(v, T)
    BY <1>2, <2>1, SumAdd
  <2>3. SumFunctionOnSet(u, T \cup {x}) = u[x] + SumFunctionOnSet(u, T)
    BY <1>2, <2>1, SumAdd
  <2>4. SumFunctionOnSet(v, T) \in Nat /\ SumFunctionOnSet(u, T) \in Nat
    BY <1>2, <2>1, SumIsNat
  <2> QED  BY <1>2, <2>2, <2>3, <2>4
<1> HIDE DEF G
<1>3. \A x \in S : w[x] \in Nat
  OBVIOUS
<1>4. S \in G
  BY <1>1, <1>2, <1>3, SumInduction
<1> QED  BY <1>4 DEF G

(* Two sets that have nothing in common add up. *)
LEMMA SumUnion ==
  ASSUME NEW S, IsFiniteSet(S), NEW R, IsFiniteSet(R), S \cap R = {},
         NEW w, \A x \in S \cup R : w[x] \in Nat
  PROVE  SumFunctionOnSet(w, S \cup R) = SumFunctionOnSet(w, S) + SumFunctionOnSet(w, R)
<1> DEFINE G == {T \in SUBSET S :
                  SumFunctionOnSet(w, T \cup R)
                    = SumFunctionOnSet(w, T) + SumFunctionOnSet(w, R)}
<1>0. SumFunctionOnSet(w, R) \in Nat
  BY SumIsNat
<1>1. {} \in G
  <2>1. {} \cup R = R
    OBVIOUS
  <2> QED  BY <1>0, <2>1, SumEmpty
<1>2. ASSUME NEW T \in SUBSET S, NEW x \in S, T \in G, x \notin T, IsFiniteSet(T),
             SumFunctionOnSet(w, T) \in Nat,
             SumFunctionOnSet(w, T \cup {x}) = w[x] + SumFunctionOnSet(w, T)
      PROVE  T \cup {x} \in G
  <2>1. (T \cup {x}) \cup R = (T \cup R) \cup {x} /\ x \notin T \cup R
    BY <1>2
  <2>2. IsFiniteSet(T \cup R)
    BY <1>2, FS_Union
  <2>3. \A y \in (T \cup R) \cup {x} : w[y] \in Nat
    OBVIOUS
  <2>4. SumFunctionOnSet(w, (T \cup R) \cup {x}) = w[x] + SumFunctionOnSet(w, T \cup R)
    BY <2>1, <2>2, <2>3, SumAdd
  <2>5. w[x] \in Nat
    OBVIOUS
  <2>6. SumFunctionOnSet(w, T \cup R) = SumFunctionOnSet(w, T) + SumFunctionOnSet(w, R)
    BY <1>2
  <2>7. SumFunctionOnSet(w, (T \cup {x}) \cup R)
          = SumFunctionOnSet(w, T \cup {x}) + SumFunctionOnSet(w, R)
    <3> DEFINE a == SumFunctionOnSet(w, (T \cup {x}) \cup R)
               b == SumFunctionOnSet(w, (T \cup R) \cup {x})
    <3>1. a = b
      BY <2>1
    <3>2. b = w[x] + (SumFunctionOnSet(w, T) + SumFunctionOnSet(w, R))
      BY <2>4, <2>6
    <3> HIDE DEF G, a, b
    <3>3. a = SumFunctionOnSet(w, T \cup {x}) + SumFunctionOnSet(w, R)
      BY <1>0, <1>2, <2>5, <3>1, <3>2
    <3> QED  BY <3>3 DEF a
  <2> QED  BY <2>7
<1> HIDE DEF G
<1>3. \A x \in S : w[x] \in Nat
  OBVIOUS
<1>4. S \in G
  BY <1>1, <1>2, <1>3, SumInduction
<1> QED  BY <1>4 DEF G

LEMMA SumZero ==
  ASSUME NEW S, IsFiniteSet(S), NEW w, \A x \in S : w[x] = 0
  PROVE  SumFunctionOnSet(w, S) = 0
<1> DEFINE G == {T \in SUBSET S : SumFunctionOnSet(w, T) = 0}
<1>1. {} \in G
  BY SumEmpty
<1>2. ASSUME NEW T \in SUBSET S, NEW x \in S, T \in G, x \notin T,
             SumFunctionOnSet(w, T \cup {x}) = w[x] + SumFunctionOnSet(w, T)
      PROVE  T \cup {x} \in G
  BY <1>2
<1> HIDE DEF G
<1>3. \A x \in S : w[x] \in Nat
  OBVIOUS
<1>4. S \in G
  BY <1>1, <1>2, <1>3, SumInduction
<1> QED  BY <1>4 DEF G

(* What is nothing may be left out. *)
LEMMA SumSupport ==
  ASSUME NEW S, IsFiniteSet(S), NEW T \in SUBSET S, NEW w,
         \A x \in T : w[x] \in Nat, \A x \in S \ T : w[x] = 0
  PROVE  SumFunctionOnSet(w, S) = SumFunctionOnSet(w, T)
<1> DEFINE R == S \ T
<1>1. IsFiniteSet(T) /\ IsFiniteSet(R) /\ T \cap R = {} /\ S = T \cup R
  BY FS_Subset
<1>2. \A x \in T \cup R : w[x] \in Nat
  OBVIOUS
<1>3. SumFunctionOnSet(w, R) = 0
  <2>1. \A x \in R : w[x] = 0
    OBVIOUS
  <2> HIDE DEF R
  <2> QED  BY <1>1, <2>1, SumZero
<1>4. SumFunctionOnSet(w, T) \in Nat
  BY <1>1, SumIsNat
<1> HIDE DEF R
<1>5. SumFunctionOnSet(w, T \cup R) = SumFunctionOnSet(w, T) + SumFunctionOnSet(w, R)
  BY <1>1, <1>2, SumUnion
<1> QED  BY <1>1, <1>3, <1>4, <1>5

(* The elements with a key. *)
Keyed(S, k, c) == {x \in S : k[x] = c}

(* Adding up class by class, by the key k, or at once, is the same. *)
LEMMA SumByKey ==
  ASSUME NEW S, IsFiniteSet(S), NEW w, \A x \in S : w[x] \in Nat,
         NEW K, IsFiniteSet(K), NEW k, \A x \in S : k[x] \in K,
         NEW v, \A c \in K : v[c] = SumFunctionOnSet(w, Keyed(S, k, c))
  PROVE  SumFunctionOnSet(v, K) = SumFunctionOnSet(w, S)
<1> DEFINE Part(L) == {x \in S : k[x] \in L}
           Class(c) == {x \in S : k[x] = c}
           G == {L \in SUBSET K : SumFunctionOnSet(v, L) = SumFunctionOnSet(w, Part(L))}
<1>1. \A L : IsFiniteSet(Part(L)) /\ \A x \in Part(L) : w[x] \in Nat
  BY FS_Subset
<1>2. \A c : IsFiniteSet(Class(c)) /\ \A x \in Class(c) : w[x] \in Nat
  BY FS_Subset
<1>3. \A c \in K : v[c] = SumFunctionOnSet(w, Class(c)) /\ v[c] \in Nat
  <2> SUFFICES ASSUME NEW c \in K
               PROVE  v[c] = SumFunctionOnSet(w, Class(c)) /\ v[c] \in Nat
    OBVIOUS
  <2>1. v[c] = SumFunctionOnSet(w, Class(c))
    BY DEF Keyed
  <2> HIDE DEF Class
  <2> QED  BY <1>2, <2>1, SumIsNat
<1>4. {} \in G
  <2>1. Part({}) = {}
    OBVIOUS
  <2> QED  BY <2>1, SumEmpty
<1>5. ASSUME NEW L \in SUBSET K, NEW c \in K, L \in G, c \notin L,
             SumFunctionOnSet(v, L) \in Nat,
             SumFunctionOnSet(v, L \cup {c}) = v[c] + SumFunctionOnSet(v, L)
      PROVE  L \cup {c} \in G
  <2>1. /\ Part(L \cup {c}) = Part(L) \cup Class(c) /\ Part(L) \cap Class(c) = {}
        /\ \A x \in Part(L) \cup Class(c) : w[x] \in Nat
    BY <1>5
  <2>2. SumFunctionOnSet(v, L) = SumFunctionOnSet(w, Part(L))
    BY <1>5
  <2>3. SumFunctionOnSet(w, Part(L) \cup Class(c))
          = SumFunctionOnSet(w, Part(L)) + SumFunctionOnSet(w, Class(c))
    <3> HIDE DEF Part, Class
    <3> QED  BY <1>1, <1>2, <2>1, SumUnion
  <2>4. SumFunctionOnSet(v, L \cup {c}) = SumFunctionOnSet(w, Part(L \cup {c}))
    <3>1. v[c] = SumFunctionOnSet(w, Class(c)) /\ v[c] \in Nat
      BY <1>3
    <3> DEFINE a == SumFunctionOnSet(w, Part(L \cup {c}))
               b == SumFunctionOnSet(w, Part(L) \cup Class(c))
    <3>2. a = b
      BY <2>1
    <3> HIDE DEF Part, Class, G
    <3>3. b = SumFunctionOnSet(v, L) + v[c]
      BY <2>2, <2>3, <3>1
    <3> HIDE DEF a, b
    <3>4. SumFunctionOnSet(v, L \cup {c}) = a
      BY <1>5, <3>1, <3>2, <3>3
    <3> QED  BY <3>4 DEF a
  <2> QED  BY <2>4
<1>6. K \in G
  <2> HIDE DEF G
  <2> QED  BY <1>3, <1>4, <1>5, SumInduction
<1>7. Part(K) = S
  OBVIOUS
<1> QED  BY <1>6, <1>7
=============================================================================
