---------------------------- MODULE SumTheorems ----------------------------
(***************************************************************************)
(* Sums of integers over finite sets, and heights that are multiples of    *)
(* the length of a term.  The community modules define                     *)
(* SumFunctionOnSet by a recursive function over the subsets, each of      *)
(* which gives up an arbitrary element; these lemmas say that the function *)
(* exists and that the order does not matter, and how a sum follows a      *)
(* change of the summands.                                                 *)
(***************************************************************************)
EXTENDS FiniteSetsExt, FiniteSetTheorems, WellFoundedInduction, TLAPS

(* Among some subsets of a finite set there is one with none of them below. *)
LEMMA MinimalSubset ==
    ASSUME NEW S, IsFiniteSet(S), NEW F \in SUBSET SUBSET S, F # {}
    PROVE  \E U \in F : \A V \in F : V \subseteq U => V = U
<1> DEFINE R == StrictSubsetOrdering(S)
<1>1. IsWellFoundedOn(R, SUBSET S)
  BY FS_StrictSubsetOrderingWellFounded, FS_FiniteSubsetsOfFinite, Zenon
<1>2. PICK U \in F : \A V \in F : ~(<<V, U>> \in R)
  <2> HIDE DEF R
  <2> QED
    BY <1>1, WFMin, Zenon
<1>3. ASSUME NEW V \in F, V \subseteq U, V # U PROVE FALSE
  <2>1. <<V, U>> \in R
    BY <1>3 DEF StrictSubsetOrdering
  <2> QED
    BY <1>2, <2>1
<1> QED
  BY <1>2, <1>3

(* Induction over a finite set: a family that has {} and with every set the *)
(* set with one more element has them all.                                  *)
LEMMA FiniteInduction ==
    ASSUME NEW S, IsFiniteSet(S), NEW F \in SUBSET SUBSET S, {} \in F,
           \A U \in F : \A x \in S \ U : U \cup {x} \in F
    PROVE  S \in F
<1> DEFINE G == {U \in SUBSET S : S \ U \in F}
<1>1. G \in SUBSET SUBSET S /\ G # {}
  <2>1. S \ S = {}
    OBVIOUS
  <2> QED
    BY <2>1
<1>2. PICK U \in G : \A V \in G : V \subseteq U => V = U
  <2> HIDE DEF G
  <2> QED
    BY <1>1, MinimalSubset
<1>3. CASE U = {}
  <2>1. S \ U = S
    BY <1>3
  <2> QED
    BY <1>2, <2>1
<1>4. CASE U # {}
  <2>1. PICK x \in U : TRUE
    BY <1>4
  <2>2. S \ (U \ {x}) = (S \ U) \cup {x} /\ x \in S \ (S \ U)
    BY <1>2, <2>1
  <2>3. U \ {x} \in G
    BY <1>2, <2>2
  <2> QED
    BY <1>2, <2>1, <2>3
<1> QED
  BY <1>3, <1>4

(* A finite set of numbers has a largest one. *)
LEMMA FiniteMax ==
    ASSUME NEW S, IsFiniteSet(S), S \subseteq Int, S # {}
    PROVE  \E i \in S : \A j \in S : i >= j
<1> DEFINE HasMax(U) == U = {} \/ \E i \in U : \A j \in U : i >= j
           F == {U \in SUBSET S : HasMax(U)}
<1>1. {} \in F /\ F \in SUBSET SUBSET S
  OBVIOUS
<1>2. ASSUME NEW U \in F, NEW x \in S \ U PROVE U \cup {x} \in F
  <2>1. CASE U = {}
    BY <2>1
  <2>2. CASE U # {}
    <3>1. PICK i \in U : \A j \in U : i >= j
      BY <2>2
    <3>2. CASE i >= x
      BY <3>1, <3>2
    <3>3. CASE ~(i >= x)
      <4>1. \A j \in U \cup {x} : x >= j
        BY <3>1, <3>3
      <4> QED
        BY <4>1
    <3> QED
      BY <3>2, <3>3
  <2> QED
    BY <2>1, <2>2
<1>3. S \in F
  <2> HIDE DEF F
  <2> QED
    BY <1>1, <1>2, FiniteInduction
<1> QED
  BY <1>3

(* The library's Max is that number. *)
LEMMA MaxOfFinite ==
    ASSUME NEW S, IsFiniteSet(S), S \subseteq Int, S # {}
    PROVE  Max(S) \in S /\ \A j \in S : Max(S) >= j
<1>1. \E i \in S : \A j \in S : i >= j
  BY FiniteMax
<1> QED
  BY <1>1, Zenon DEF Max

(* Only one number is largest. *)
LEMMA MaxIs ==
    ASSUME NEW S, S \subseteq Int, NEW m \in S, \A j \in S : m >= j
    PROVE  Max(S) = m
<1>1. Max(S) \in S /\ \A j \in S : Max(S) >= j
  BY Zenon DEF Max
<1>2. Max(S) \in Int /\ m \in Int /\ Max(S) >= m /\ m >= Max(S)
  BY <1>1, Zenon
<1> QED
  BY <1>2, SMT

(* A set of numbers up to a bound has a smallest one. *)
LEMMA Least ==
    ASSUME NEW m \in Nat, NEW S \in SUBSET (0 .. m), S # {}
    PROVE  \E x \in S : \A y \in S : x <= y
<1> DEFINE T == 0 .. m
           F == {0 .. n : n \in S}
<1>1. F \in SUBSET SUBSET T /\ F # {}
  <2>1. \A n \in S : (0 .. n) \in SUBSET T
    OBVIOUS
  <2>2. F # {}
    OBVIOUS
  <2> HIDE DEF T
  <2> QED
    BY <2>1, <2>2
<1>2. PICK U \in F : \A V \in F : V \subseteq U => V = U
  <2>1. IsFiniteSet(T)
    BY FS_Interval
  <2> HIDE DEF F, T
  <2> QED
    BY <1>1, <2>1, MinimalSubset
<1>3. PICK x \in S : U = 0 .. x
  BY <1>2
<1>4. ASSUME NEW y \in S, ~(x <= y) PROVE FALSE
  <2>1. 0 .. y \in F /\ 0 .. y \subseteq U
    BY <1>3, <1>4
  <2>2. 0 .. y = 0 .. x
    BY <1>2, <1>3, <2>1
  <2>3. x \in 0 .. x /\ ~(x \in 0 .. y)
    BY <1>4
  <2> QED
    BY <2>2, <2>3
<1> QED
  BY <1>4

-----------------------------------------------------------------------------
(* The recursive function. *)

Chosen(s) == CHOOSE x \in s : TRUE
Sums(g, f, S) ==
    g = [s \in SUBSET S |-> IF s = {} THEN 0 ELSE f[Chosen(s)] + g[s \ {Chosen(s)}]]
SumsOf(f, S) == CHOOSE g : Sums(g, f, S)

(* The library's sum is this function at the whole set. *)
LEMMA SumIsRecursive ==
    ASSUME NEW f, NEW S
    PROVE  SumFunctionOnSet(f, S) = SumsOf(f, S)[S]
BY DEF SumFunctionOnSet, FoldFunctionOnSet, MapThenFoldSet, SumsOf, Sums, Chosen

(* What the equation says of one set. *)
LEMMA SumsAt ==
    ASSUME NEW f, NEW S, NEW g, Sums(g, f, S), NEW s \in SUBSET S
    PROVE  g[s] = IF s = {} THEN 0 ELSE f[Chosen(s)] + g[s \ {Chosen(s)}]
<1> DEFINE body(t) == IF t = {} THEN 0 ELSE f[Chosen(t)] + g[t \ {Chosen(t)}]
<1>1. g = [t \in SUBSET S |-> body(t)]
  BY DEF Sums
<1> HIDE DEF body
<1>2. g[s] = body(s)
  BY <1>1
<1> QED
  BY <1>2 DEF body

(* Two solutions agree. *)
LEMMA SumsAgree ==
    ASSUME NEW f, NEW S, NEW T \in SUBSET S, IsFiniteSet(S), NEW g, NEW h,
           Sums(g, f, S), Sums(h, f, T)
    PROVE  \A s \in SUBSET T : g[s] = h[s]
<1> DEFINE F == {s \in SUBSET T : g[s] # h[s]}
<1> SUFFICES ASSUME F # {} PROVE FALSE
  OBVIOUS
<1>1. IsFiniteSet(T)
  BY FS_Subset
<1>2. PICK s \in F : \A t \in F : t \subseteq s => t = s
  <2>1. F \in SUBSET SUBSET T
    OBVIOUS
  <2> HIDE DEF F
  <2> QED
    BY <1>1, <2>1, MinimalSubset
<1>3. s \in SUBSET T /\ s \in SUBSET S /\ g[s] # h[s]
  BY <1>2
<1> DEFINE c == Chosen(s)
<1>s. /\ g[s] = IF s = {} THEN 0 ELSE f[c] + g[s \ {c}]
      /\ h[s] = IF s = {} THEN 0 ELSE f[c] + h[s \ {c}]
  BY <1>3, SumsAt
<1>4. CASE s = {}
  BY <1>3, <1>4, <1>s
<1>5. CASE s # {}
  <2>1. c \in s
    BY <1>5 DEF Chosen
  <2>2. g[s \ {c}] = h[s \ {c}]
    BY <1>2, <2>1
  <2> QED
    BY <1>3, <1>s, <2>2
<1> QED
  BY <1>4, <1>5

(* There is a solution. *)
LEMMA SumsExist ==
    ASSUME NEW f, NEW S, IsFiniteSet(S)
    PROVE  Sums(SumsOf(f, S), f, S)
<1> DEFINE F == {U \in SUBSET S : ~(\E g : Sums(g, f, U))}
<1>1. F = {}
  <2> SUFFICES ASSUME F # {} PROVE FALSE
    OBVIOUS
  <2>1. PICK U \in F : \A V \in F : V \subseteq U => V = U
    <3>1. F \in SUBSET SUBSET S
      OBVIOUS
    <3> HIDE DEF F
    <3> QED
      BY <3>1, MinimalSubset
  <2>2. \A V \in SUBSET U : V # U => Sums(SumsOf(f, V), f, V) /\ IsFiniteSet(V)
    <3>1. \A V \in SUBSET U : V # U => \E g : Sums(g, f, V)
      BY <2>1
    <3>2. \A V \in SUBSET U : IsFiniteSet(V)
      BY <2>1, FS_Subset
    <3> QED
      BY <3>1, <3>2 DEF SumsOf
  <2> DEFINE below(s) == s \ {Chosen(s)}
             body(s) == IF s = {} THEN 0 ELSE f[Chosen(s)] + SumsOf(f, below(s))[below(s)]
             h == [s \in SUBSET U |-> body(s)]
  <2>3. ASSUME NEW s \in SUBSET U, s # {}
        PROVE  h[below(s)] = SumsOf(f, below(s))[below(s)]
    <3> DEFINE T == below(s)
    <3>1. T \in SUBSET U /\ T # U
      BY <2>3 DEF Chosen
    <3> HIDE DEF T
    <3>2. h[T] = body(T)
      BY <3>1
    <3>3. CASE T = {}
      <4>1. Sums(SumsOf(f, T), f, T) /\ T \in SUBSET T
        BY <2>2, <3>1
      <4>2. SumsOf(f, T)[T] = 0
        BY <3>3, <4>1, SumsAt
      <4> QED
        BY <3>2, <3>3, <4>2 DEF T
    <3>4. CASE T # {}
      <4>1. below(T) \in SUBSET T /\ below(T) \in SUBSET U /\ below(T) # U
        BY <3>1, <3>4 DEF Chosen
      <4>2. SumsOf(f, T)[T] = f[Chosen(T)] + SumsOf(f, T)[below(T)]
        BY <2>2, <3>1, <3>4, SumsAt
      <4>3. /\ Sums(SumsOf(f, T), f, T) /\ Sums(SumsOf(f, below(T)), f, below(T))
            /\ IsFiniteSet(T)
        BY <2>2, <3>1, <4>1
      <4>4. below(T) \in SUBSET below(T)
        OBVIOUS
      <4> HIDE DEF below
      <4>5. SumsOf(f, T)[below(T)] = SumsOf(f, below(T))[below(T)]
        BY <4>1, <4>3, <4>4, SumsAgree
      <4> QED
        BY <3>2, <3>4, <4>2, <4>5 DEF T
    <3> QED
      BY <3>3, <3>4
  <2>4. \A s \in SUBSET U : body(s) = IF s = {} THEN 0 ELSE f[Chosen(s)] + h[s \ {Chosen(s)}]
    BY <2>3
  <2>5. Sums(h, f, U)
    <3> HIDE DEF body
    <3>1. h = [s \in SUBSET U |->
                 IF s = {} THEN 0 ELSE f[Chosen(s)] + h[s \ {Chosen(s)}]]
      BY <2>4
    <3> QED
      BY <3>1 DEF Sums
  <2> QED
    BY <2>1, <2>5
<1>2. \E g : Sums(g, f, S)
  BY <1>1
<1> QED
  BY <1>2 DEF SumsOf

-----------------------------------------------------------------------------
(* What a sum is. *)

(* The sum over no elements. *)
LEMMA SumEmpty ==
    ASSUME NEW f
    PROVE  SumFunctionOnSet(f, {}) = 0
<1>1. Sums(SumsOf(f, {}), f, {})
  BY FS_EmptySet, SumsExist
<1>2. SumsOf(f, {})[{}] = 0
  BY <1>1, SumsAt
<1> QED
  BY <1>2, SumIsRecursive

(* The element the definition gives up first. *)
LEMMA SumChosen ==
    ASSUME NEW f, NEW S, IsFiniteSet(S), S # {}
    PROVE  /\ Chosen(S) \in S
           /\ SumFunctionOnSet(f, S) = f[Chosen(S)] + SumFunctionOnSet(f, S \ {Chosen(S)})
<1> DEFINE c == Chosen(S)
           T == S \ {c}
<1>1. c \in S
  BY DEF Chosen
<1>2. Sums(SumsOf(f, S), f, S)
  BY SumsExist
<1>3. SumsOf(f, S)[S] = f[c] + SumsOf(f, S)[T]
  BY <1>2, SumsAt
<1>4. T \in SUBSET S /\ IsFiniteSet(T)
  BY FS_Subset
<1>5. Sums(SumsOf(f, T), f, T) /\ T \in SUBSET T
  BY <1>4, SumsExist
<1> HIDE DEF T
<1>6. SumsOf(f, S)[T] = SumsOf(f, T)[T]
  BY <1>2, <1>4, <1>5, SumsAgree
<1> QED
  BY <1>1, <1>3, <1>6, SumIsRecursive DEF T

(* Of integers the sum is an integer. *)
LEMMA SumInt ==
    ASSUME NEW f, NEW S, IsFiniteSet(S), \A x \in S : f[x] \in Int
    PROVE  SumFunctionOnSet(f, S) \in Int
<1> DEFINE F == {U \in SUBSET S : SumFunctionOnSet(f, U) \notin Int}
<1> SUFFICES ASSUME F # {} PROVE FALSE
  OBVIOUS
<1>1. PICK U \in F : \A V \in F : V \subseteq U => V = U
  <2>1. F \in SUBSET SUBSET S
    OBVIOUS
  <2> HIDE DEF F
  <2> QED
    BY <2>1, MinimalSubset
<1>2. U \in SUBSET S /\ IsFiniteSet(U) /\ SumFunctionOnSet(f, U) \notin Int
  BY <1>1, FS_Subset
<1>3. U # {}
  BY <1>2, SumEmpty
<1> DEFINE c == Chosen(U)
<1>4. c \in U /\ SumFunctionOnSet(f, U) = f[c] + SumFunctionOnSet(f, U \ {c})
  BY <1>2, <1>3, SumChosen
<1>5. SumFunctionOnSet(f, U \ {c}) \in Int
  BY <1>1, <1>2, <1>4
<1>6. f[c] \in Int
  BY <1>2, <1>4
<1> QED
  BY <1>2, <1>4, <1>5, <1>6

(* Any element may be given up first. *)
LEMMA SumRemove ==
    ASSUME NEW f, NEW S, IsFiniteSet(S), \A x \in S : f[x] \in Int, NEW a \in S
    PROVE  SumFunctionOnSet(f, S) = f[a] + SumFunctionOnSet(f, S \ {a})
<1> DEFINE Good(U) == \A x \in U : SumFunctionOnSet(f, U) = f[x] + SumFunctionOnSet(f, U \ {x})
           F == {U \in SUBSET S : ~Good(U)}
<1> SUFFICES ASSUME F # {} PROVE FALSE
  OBVIOUS
<1>1. PICK U \in F : \A V \in F : V \subseteq U => V = U
  <2>1. F \in SUBSET SUBSET S
    OBVIOUS
  <2> HIDE DEF F
  <2> QED
    BY <2>1, MinimalSubset
<1>2. U \in SUBSET S /\ IsFiniteSet(U)
  BY <1>1, FS_Subset
<1>3. PICK x \in U : SumFunctionOnSet(f, U) # f[x] + SumFunctionOnSet(f, U \ {x})
  BY <1>1
<1> DEFINE c == Chosen(U)
<1>4. c \in U /\ SumFunctionOnSet(f, U) = f[c] + SumFunctionOnSet(f, U \ {c})
  BY <1>2, <1>3, SumChosen
<1> HIDE DEF c
<1>5. x # c
  BY <1>3, <1>4
<1>6. Good(U \ {c}) /\ Good(U \ {x})
  BY <1>1, <1>2, <1>3, <1>4
<1>7. SumFunctionOnSet(f, U \ {c}) = f[x] + SumFunctionOnSet(f, (U \ {c}) \ {x})
  BY <1>3, <1>5, <1>6
<1>8. SumFunctionOnSet(f, U \ {x}) = f[c] + SumFunctionOnSet(f, (U \ {x}) \ {c})
  BY <1>4, <1>5, <1>6
<1>9. (U \ {c}) \ {x} = (U \ {x}) \ {c}
  OBVIOUS
<1> DEFINE rest == SumFunctionOnSet(f, (U \ {c}) \ {x})
<1>10. rest \in Int
  <2>1. IsFiniteSet((U \ {c}) \ {x})
    BY <1>2, FS_Subset
  <2>2. \A y \in (U \ {c}) \ {x} : f[y] \in Int
    BY <1>2
  <2> QED
    BY <2>1, <2>2, SumInt
<1>11. f[x] \in Int /\ f[c] \in Int
  BY <1>2, <1>3, <1>4
<1>12. /\ SumFunctionOnSet(f, U) = f[c] + (f[x] + rest)
       /\ SumFunctionOnSet(f, U \ {x}) = f[c] + rest
  BY <1>4, <1>7, <1>8, <1>9
<1> HIDE DEF rest
<1>13. f[c] + (f[x] + rest) = f[x] + (f[c] + rest)
  BY <1>10, <1>11
<1> QED
  BY <1>3, <1>12, <1>13

(* One more element. *)
LEMMA SumAdd ==
    ASSUME NEW f, NEW S, IsFiniteSet(S), NEW a, a \notin S, \A x \in S \cup {a} : f[x] \in Int
    PROVE  SumFunctionOnSet(f, S \cup {a}) = f[a] + SumFunctionOnSet(f, S)
<1>1. IsFiniteSet(S \cup {a}) /\ (S \cup {a}) \ {a} = S /\ a \in S \cup {a}
  BY FS_AddElement
<1>2. SumFunctionOnSet(f, S \cup {a}) = f[a] + SumFunctionOnSet(f, (S \cup {a}) \ {a})
  BY <1>1, SumRemove
<1> QED
  BY <1>1, <1>2

-----------------------------------------------------------------------------
(* How sums compare. *)

(* Sums of two functions and of a third that adds them up. *)
LEMMA SumPlus ==
    ASSUME NEW f, NEW g, NEW h, NEW S, IsFiniteSet(S),
           \A x \in S : f[x] \in Int /\ g[x] \in Int /\ h[x] = f[x] + g[x]
    PROVE  SumFunctionOnSet(h, S) = SumFunctionOnSet(f, S) + SumFunctionOnSet(g, S)
<1> DEFINE Good(U) ==
             SumFunctionOnSet(h, U) = SumFunctionOnSet(f, U) + SumFunctionOnSet(g, U)
           F == {U \in SUBSET S : Good(U)}
<1>1. {} \in F
  BY SumEmpty
<1>2. ASSUME NEW U \in F, NEW x \in S \ U PROVE U \cup {x} \in F
  <2>1. IsFiniteSet(U) /\ U \in SUBSET S /\ Good(U)
    BY <1>2, FS_Subset
  <2>2. \A y \in U \cup {x} : f[y] \in Int /\ g[y] \in Int /\ h[y] \in Int
    BY <2>1
  <2>3. /\ SumFunctionOnSet(f, U \cup {x}) = f[x] + SumFunctionOnSet(f, U)
        /\ SumFunctionOnSet(g, U \cup {x}) = g[x] + SumFunctionOnSet(g, U)
        /\ SumFunctionOnSet(h, U \cup {x}) = h[x] + SumFunctionOnSet(h, U)
    BY <2>1, <2>2, SumAdd
  <2>4. SumFunctionOnSet(f, U) \in Int /\ SumFunctionOnSet(g, U) \in Int
    BY <2>1, <2>2, SumInt
  <2>5. h[x] = f[x] + g[x] /\ f[x] \in Int /\ g[x] \in Int
    OBVIOUS
  <2>6. Good(U \cup {x})
    BY <2>1, <2>3, <2>4, <2>5
  <2> QED
    BY <2>1, <2>6
<1>3. F \in SUBSET SUBSET S
  OBVIOUS
<1>4. S \in F
  <2> HIDE DEF F
  <2> QED
    BY <1>1, <1>2, <1>3, FiniteInduction
<1> QED
  BY <1>4

(* Smaller summands, smaller sum. *)
LEMMA SumLeq ==
    ASSUME NEW f, NEW g, NEW S, IsFiniteSet(S),
           \A x \in S : f[x] \in Int /\ g[x] \in Int /\ f[x] <= g[x]
    PROVE  SumFunctionOnSet(f, S) <= SumFunctionOnSet(g, S)
<1> DEFINE Good(U) == SumFunctionOnSet(f, U) <= SumFunctionOnSet(g, U)
           F == {U \in SUBSET S : Good(U)}
<1>1. {} \in F
  BY SumEmpty
<1>2. ASSUME NEW U \in F, NEW x \in S \ U PROVE U \cup {x} \in F
  <2>1. IsFiniteSet(U) /\ U \in SUBSET S /\ Good(U)
    BY <1>2, FS_Subset
  <2>2. \A y \in U \cup {x} : f[y] \in Int /\ g[y] \in Int
    BY <2>1
  <2>3. /\ SumFunctionOnSet(f, U \cup {x}) = f[x] + SumFunctionOnSet(f, U)
        /\ SumFunctionOnSet(g, U \cup {x}) = g[x] + SumFunctionOnSet(g, U)
    BY <2>1, <2>2, SumAdd
  <2>4. SumFunctionOnSet(f, U) \in Int /\ SumFunctionOnSet(g, U) \in Int
    BY <2>1, <2>2, SumInt
  <2>5. f[x] <= g[x] /\ f[x] \in Int /\ g[x] \in Int
    OBVIOUS
  <2>6. Good(U \cup {x})
    BY <2>1, <2>3, <2>4, <2>5
  <2> QED
    BY <2>1, <2>6
<1>3. F \in SUBSET SUBSET S
  OBVIOUS
<1>4. S \in F
  <2> HIDE DEF F
  <2> QED
    BY <1>1, <1>2, <1>3, FiniteInduction
<1> QED
  BY <1>4

(* Equal summands, equal sums. *)
LEMMA SumEqual ==
    ASSUME NEW f, NEW g, NEW S, IsFiniteSet(S), \A x \in S : f[x] \in Int /\ g[x] = f[x]
    PROVE  SumFunctionOnSet(g, S) = SumFunctionOnSet(f, S)
<1>1. \A x \in S : g[x] \in Int /\ f[x] <= g[x] /\ g[x] <= f[x]
  OBVIOUS
<1>2. /\ SumFunctionOnSet(f, S) <= SumFunctionOnSet(g, S)
      /\ SumFunctionOnSet(g, S) <= SumFunctionOnSet(f, S)
  BY <1>1, SumLeq
<1>3. SumFunctionOnSet(f, S) \in Int /\ SumFunctionOnSet(g, S) \in Int
  BY <1>1, SumInt
<1> QED
  BY <1>2, <1>3

(* One summand changes. *)
LEMMA SumUpdate ==
    ASSUME NEW f, NEW g, NEW S, IsFiniteSet(S), NEW a \in S,
           \A x \in S : f[x] \in Int /\ g[x] \in Int,
           \A x \in S \ {a} : g[x] = f[x]
    PROVE  SumFunctionOnSet(g, S) = SumFunctionOnSet(f, S) + (g[a] - f[a])
<1>1. IsFiniteSet(S \ {a})
  BY FS_Subset
<1>2. SumFunctionOnSet(g, S \ {a}) = SumFunctionOnSet(f, S \ {a})
  BY <1>1, SumEqual
<1>3. /\ SumFunctionOnSet(g, S) = g[a] + SumFunctionOnSet(g, S \ {a})
      /\ SumFunctionOnSet(f, S) = f[a] + SumFunctionOnSet(f, S \ {a})
  BY SumRemove
<1>4. SumFunctionOnSet(f, S \ {a}) \in Int /\ f[a] \in Int /\ g[a] \in Int
  BY <1>1, SumInt
<1> QED
  BY <1>2, <1>3, <1>4

(* Summands that are zero do not count. *)
LEMMA SumOfPart ==
    ASSUME NEW f, NEW g, NEW S, IsFiniteSet(S), NEW T \in SUBSET S,
           \A x \in T : f[x] \in Int /\ g[x] = f[x],
           \A x \in S \ T : g[x] = 0
    PROVE  SumFunctionOnSet(g, S) = SumFunctionOnSet(f, T)
<1> DEFINE Good(U) == SumFunctionOnSet(g, U) = SumFunctionOnSet(f, U \cap T)
           F == {U \in SUBSET S : Good(U)}
<1>1. {} \in F
  <2>1. {} \cap T = {}
    OBVIOUS
  <2> QED
    BY <2>1, SumEmpty
<1>2. ASSUME NEW U \in F, NEW x \in S \ U PROVE U \cup {x} \in F
  <2>1. IsFiniteSet(U) /\ U \in SUBSET S /\ Good(U) /\ IsFiniteSet(U \cap T)
    BY <1>2, FS_Subset
  <2>2. \A y \in U \cup {x} : g[y] \in Int
    BY <2>1
  <2>3. SumFunctionOnSet(g, U \cup {x}) = g[x] + SumFunctionOnSet(g, U)
    BY <2>1, <2>2, SumAdd
  <2>4. SumFunctionOnSet(g, U) \in Int
    BY <2>1, <2>2, SumInt
  <2>5. CASE x \in T
    <3>1. (U \cup {x}) \cap T = (U \cap T) \cup {x}
      BY <2>5
    <3>2. SumFunctionOnSet(f, (U \cap T) \cup {x}) = f[x] + SumFunctionOnSet(f, U \cap T)
      BY <2>1, <2>5, SumAdd
    <3> QED
      BY <2>1, <2>3, <2>5, <3>1, <3>2
  <2>6. CASE x \notin T
    <3>1. (U \cup {x}) \cap T = U \cap T /\ g[x] = 0
      BY <2>6
    <3>2. g[x] + SumFunctionOnSet(g, U) = SumFunctionOnSet(g, U)
      BY <2>4, <3>1
    <3>3. Good(U \cup {x})
      BY <2>1, <2>3, <3>1, <3>2
    <3> QED
      BY <2>1, <3>3
  <2> QED
    BY <2>5, <2>6
<1>3. F \in SUBSET SUBSET S
  OBVIOUS
<1>4. S \in F
  <2> HIDE DEF F
  <2> QED
    BY <1>1, <1>2, <1>3, FiniteInduction
<1>5. S \cap T = T
  OBVIOUS
<1> QED
  BY <1>4, <1>5

(* The sum over two sets that have nothing in common. *)
LEMMA SumUnion ==
    ASSUME NEW f, NEW A, NEW B, IsFiniteSet(A), IsFiniteSet(B), A \cap B = {},
           \A x \in A \cup B : f[x] \in Int
    PROVE  SumFunctionOnSet(f, A \cup B) = SumFunctionOnSet(f, A) + SumFunctionOnSet(f, B)
<1> DEFINE Good(U) ==
             SumFunctionOnSet(f, A \cup U) = SumFunctionOnSet(f, A) + SumFunctionOnSet(f, U)
           F == {U \in SUBSET B : Good(U)}
<1>0. SumFunctionOnSet(f, A) \in Int
  BY SumInt
<1>1. {} \in F
  <2>1. A \cup {} = A /\ SumFunctionOnSet(f, {}) = 0
    BY SumEmpty
  <2>2. SumFunctionOnSet(f, A) = SumFunctionOnSet(f, A) + 0
    BY <1>0
  <2> QED
    BY <2>1, <2>2
<1>2. ASSUME NEW U \in F, NEW x \in B \ U PROVE U \cup {x} \in F
  <2>1. IsFiniteSet(U) /\ U \in SUBSET B /\ Good(U)
    BY <1>2, FS_Subset
  <2>2. IsFiniteSet(A \cup U) /\ A \cup (U \cup {x}) = (A \cup U) \cup {x} /\ x \notin A \cup U
    BY <2>1, FS_Union
  <2>3. f[x] \in Int /\ \A y \in (A \cup U) \cup {x} : f[y] \in Int
    BY <2>1
  <2>4. /\ SumFunctionOnSet(f, (A \cup U) \cup {x}) = f[x] + SumFunctionOnSet(f, A \cup U)
        /\ SumFunctionOnSet(f, U \cup {x}) = f[x] + SumFunctionOnSet(f, U)
    BY <2>1, <2>2, <2>3, SumAdd
  <2>5. SumFunctionOnSet(f, U) \in Int
    BY <2>1, <2>3, SumInt
  <2>6. SumFunctionOnSet(f, A \cup (U \cup {x}))
          = f[x] + (SumFunctionOnSet(f, A) + SumFunctionOnSet(f, U))
    BY <2>1, <2>2, <2>4
  <2>7. f[x] + (SumFunctionOnSet(f, A) + SumFunctionOnSet(f, U))
          = SumFunctionOnSet(f, A) + (f[x] + SumFunctionOnSet(f, U))
    BY <1>0, <2>3, <2>5
  <2>8. Good(U \cup {x})
    BY <2>4, <2>6, <2>7
  <2> QED
    BY <2>1, <2>8
<1>3. F \in SUBSET SUBSET B
  OBVIOUS
<1>4. B \in F
  <2> HIDE DEF F
  <2> QED
    BY <1>1, <1>2, <1>3, FiniteInduction
<1> QED
  BY <1>4

(* The sum of zeros. *)
LEMMA SumZero ==
    ASSUME NEW f, NEW S, IsFiniteSet(S), \A x \in S : f[x] = 0
    PROVE  SumFunctionOnSet(f, S) = 0
<1>1. {} \in SUBSET S /\ (\A x \in {} : f[x] \in Int /\ f[x] = f[x]) /\ \A x \in S \ {} : f[x] = 0
  OBVIOUS
<1>2. SumFunctionOnSet(f, S) = SumFunctionOnSet(f, {})
  BY <1>1, SumOfPart
<1> QED
  BY <1>2, SumEmpty

(* The sum of natural numbers. *)
LEMMA SumNat ==
    ASSUME NEW f, NEW S, IsFiniteSet(S), \A x \in S : f[x] \in Nat
    PROVE  SumFunctionOnSet(f, S) \in Nat
<1> DEFINE z == [x \in S |-> 0]
<1>1. \A x \in S : z[x] = 0 /\ z[x] \in Int /\ f[x] \in Int /\ z[x] <= f[x]
  OBVIOUS
<1> HIDE DEF z
<1>2. SumFunctionOnSet(z, S) = 0
  BY <1>1, SumZero
<1>3. SumFunctionOnSet(z, S) <= SumFunctionOnSet(f, S)
  BY <1>1, SumLeq
<1>4. SumFunctionOnSet(f, S) \in Int
  BY <1>1, SumInt
<1> QED
  BY <1>2, <1>3, <1>4

(* Fewer natural numbers, a smaller sum. *)
LEMMA SumSubset ==
    ASSUME NEW f, NEW S, IsFiniteSet(S), NEW T \in SUBSET S, \A x \in S : f[x] \in Nat
    PROVE  SumFunctionOnSet(f, T) <= SumFunctionOnSet(f, S)
<1>1. IsFiniteSet(T) /\ IsFiniteSet(S \ T) /\ T \cap (S \ T) = {} /\ T \cup (S \ T) = S
  BY FS_Subset
<1>2. SumFunctionOnSet(f, T \cup (S \ T))
        = SumFunctionOnSet(f, T) + SumFunctionOnSet(f, S \ T)
  BY <1>1, SumUnion
<1>3. SumFunctionOnSet(f, T) \in Nat /\ SumFunctionOnSet(f, S \ T) \in Nat
  BY <1>1, SumNat
<1>4. SumFunctionOnSet(f, S) = SumFunctionOnSet(f, T) + SumFunctionOnSet(f, S \ T)
  BY <1>1, <1>2
<1> QED
  BY <1>3, <1>4

(* A common factor. *)
LEMMA SumScale ==
    ASSUME NEW f, NEW g, NEW S, IsFiniteSet(S), NEW k \in Int,
           \A x \in S : f[x] \in Int /\ g[x] = k * f[x]
    PROVE  SumFunctionOnSet(g, S) = k * SumFunctionOnSet(f, S)
<1> DEFINE Good(U) == SumFunctionOnSet(g, U) = k * SumFunctionOnSet(f, U)
           F == {U \in SUBSET S : Good(U)}
<1>1. {} \in F
  <2>1. SumFunctionOnSet(f, {}) = 0 /\ SumFunctionOnSet(g, {}) = 0 /\ 0 = k * 0
    BY SumEmpty
  <2> QED
    BY <2>1
<1>2. ASSUME NEW U \in F, NEW x \in S \ U PROVE U \cup {x} \in F
  <2>1. IsFiniteSet(U) /\ U \in SUBSET S /\ Good(U)
    BY <1>2, FS_Subset
  <2>2. \A y \in U \cup {x} : f[y] \in Int /\ g[y] \in Int
    BY <2>1
  <2>3. /\ SumFunctionOnSet(f, U \cup {x}) = f[x] + SumFunctionOnSet(f, U)
        /\ SumFunctionOnSet(g, U \cup {x}) = g[x] + SumFunctionOnSet(g, U)
    BY <2>1, <2>2, SumAdd
  <2>4. SumFunctionOnSet(f, U) \in Int
    BY <2>1, <2>2, SumInt
  <2>5. \A m \in Int, n \in Int : k * m + k * n = k * (m + n)
    OBVIOUS
  <2>6. g[x] = k * f[x] /\ f[x] \in Int
    OBVIOUS
  <2>7. Good(U \cup {x})
    BY <2>1, <2>3, <2>4, <2>5, <2>6
  <2> QED
    BY <2>1, <2>7
<1>3. F \in SUBSET SUBSET S
  OBVIOUS
<1>4. S \in F
  <2> HIDE DEF F
  <2> QED
    BY <1>1, <1>2, <1>3, FiniteInduction
<1> QED
  BY <1>4

(* The same summand for every element. *)
LEMMA SumConstant ==
    ASSUME NEW f, NEW S, IsFiniteSet(S), NEW k \in Int, \A x \in S : f[x] = k
    PROVE  SumFunctionOnSet(f, S) = Cardinality(S) * k
<1> DEFINE Good(U) == SumFunctionOnSet(f, U) = Cardinality(U) * k
           F == {U \in SUBSET S : Good(U)}
<1>1. {} \in F
  <2>1. SumFunctionOnSet(f, {}) = 0 /\ Cardinality({}) = 0 /\ 0 = 0 * k
    BY SumEmpty, FS_EmptySet
  <2> QED
    BY <2>1
<1>2. ASSUME NEW U \in F, NEW x \in S \ U PROVE U \cup {x} \in F
  <2>1. IsFiniteSet(U) /\ U \in SUBSET S /\ Good(U)
    BY <1>2, FS_Subset
  <2>2. SumFunctionOnSet(f, U \cup {x}) = f[x] + SumFunctionOnSet(f, U) /\ f[x] = k
    BY <2>1, SumAdd
  <2>3. Cardinality(U \cup {x}) = Cardinality(U) + 1 /\ Cardinality(U) \in Int
    <3>1. x \notin U /\ Cardinality(U) \in Nat
      BY <2>1, FS_CardinalityType
    <3>2. Cardinality(U \cup {x}) = Cardinality(U) + 1
      BY <2>1, <3>1, FS_AddElement, Zenon
    <3> QED
      BY <3>1, <3>2
  <2>4. \A n \in Int : k + n * k = (n + 1) * k
    OBVIOUS
  <2>5. Good(U \cup {x})
    BY <2>1, <2>2, <2>3, <2>4
  <2> QED
    BY <2>1, <2>5
<1>3. F \in SUBSET SUBSET S
  OBVIOUS
<1>4. S \in F
  <2> HIDE DEF F
  <2> QED
    BY <1>1, <1>2, <1>3, FiniteInduction
<1> QED
  BY <1>4

\* a table of integers, by rows and by columns, with the sums of its columns and rows
IsTable(I, S, t, u, c, r) ==
    /\ \A i \in I, a \in S : t[i][a] \in Int /\ u[a][i] = t[i][a]
    /\ \A i \in I : c[i] = SumFunctionOnSet(t[i], S)
    /\ \A a \in S : r[a] = SumFunctionOnSet(u[a], I)

(* A table has the same sum by rows and by columns. *)
LEMMA SumSwap ==
    ASSUME NEW I, NEW S, IsFiniteSet(I), IsFiniteSet(S), NEW t, NEW u, NEW c, NEW r,
           IsTable(I, S, t, u, c, r)
    PROVE  SumFunctionOnSet(r, S) = SumFunctionOnSet(c, I)
<1> DEFINE p(U) == [a \in S |-> SumFunctionOnSet(u[a], U)]
           Good(U) == SumFunctionOnSet(p(U), S) = SumFunctionOnSet(c, U)
           F == {U \in SUBSET I : Good(U)}
<1>0. /\ \A i \in I, a \in S : t[i][a] \in Int /\ u[a][i] = t[i][a]
      /\ \A i \in I : c[i] = SumFunctionOnSet(t[i], S)
      /\ \A a \in S : r[a] = SumFunctionOnSet(u[a], I)
  BY DEF IsTable
<1>1. {} \in F
  <2>1. \A a \in S : p({})[a] = 0
    BY SumEmpty
  <2>2. SumFunctionOnSet(p({}), S) = 0
    <3> DEFINE q == p({})
    <3>1. \A a \in S : q[a] = 0
      BY <2>1
    <3> HIDE DEF q
    <3>2. SumFunctionOnSet(q, S) = 0
      BY <3>1, SumZero
    <3> QED
      BY <3>2 DEF q
  <2> QED
    BY <2>2, SumEmpty
<1>2. ASSUME NEW U \in F, NEW x \in I \ U PROVE U \cup {x} \in F
  <2> DEFINE q == p(U)
             v == p(U \cup {x})
             w == t[x]
  <2>1. IsFiniteSet(U) /\ U \in SUBSET I /\ SumFunctionOnSet(q, S) = SumFunctionOnSet(c, U)
    BY <1>2, FS_Subset
  <2>2. ASSUME NEW a \in S PROVE w[a] \in Int /\ q[a] \in Int /\ v[a] = w[a] + q[a]
    <3>1. \A i \in U \cup {x} : u[a][i] \in Int /\ u[a][i] = t[i][a]
      BY <1>0, <2>1
    <3>2. /\ SumFunctionOnSet(u[a], U \cup {x}) = u[a][x] + SumFunctionOnSet(u[a], U)
          /\ SumFunctionOnSet(u[a], U) \in Int
      BY <2>1, <3>1, SumAdd, SumInt
    <3> QED
      BY <3>1, <3>2
  <2>3. \A i \in I : c[i] \in Int
    BY <1>0, SumInt
  <2>4. SumFunctionOnSet(c, U \cup {x}) = c[x] + SumFunctionOnSet(c, U)
    BY <2>1, <2>3, SumAdd
  <2>5. SumFunctionOnSet(v, S) = SumFunctionOnSet(w, S) + SumFunctionOnSet(q, S)
    <3> HIDE DEF v, w, q
    <3> QED
      BY <2>2, SumPlus
  <2>6. Good(U \cup {x})
    BY <1>0, <2>1, <2>4, <2>5
  <2> QED
    BY <2>1, <2>6
<1>3. F \in SUBSET SUBSET I
  OBVIOUS
<1>4. I \in F
  <2> HIDE DEF F
  <2> QED
    BY <1>1, <1>2, <1>3, FiniteInduction
<1>5. SumFunctionOnSet(p(I), S) = SumFunctionOnSet(r, S)
  <2> DEFINE q == p(I)
  <2>1. \A a \in S : r[a] \in Int /\ q[a] = r[a]
    BY <1>0, SumInt
  <2> HIDE DEF q
  <2>2. SumFunctionOnSet(q, S) = SumFunctionOnSet(r, S)
    BY <2>1, SumEqual
  <2> QED
    BY <2>2 DEF q
<1> QED
  BY <1>4, <1>5

(* The sum over sets no two of which have anything in common. *)
LEMMA SumParts ==
    ASSUME NEW I, NEW S, IsFiniteSet(I), IsFiniteSet(S), NEW P, NEW g, NEW c,
           \A i \in I : P[i] \in SUBSET S /\ c[i] = SumFunctionOnSet(g, P[i]),
           \A i \in I, j \in I : i # j => P[i] \cap P[j] = {},
           \A x \in S : g[x] \in Int
    PROVE  SumFunctionOnSet(c, I) = SumFunctionOnSet(g, UNION {P[i] : i \in I})
<1> DEFINE all(U) == UNION {P[i] : i \in U}
           Good(U) == SumFunctionOnSet(c, U) = SumFunctionOnSet(g, all(U))
           F == {U \in SUBSET I : Good(U)}
<1>1. {} \in F
  <2>1. all({}) = {}
    OBVIOUS
  <2> QED
    BY <2>1, SumEmpty
<1>2. ASSUME NEW U \in F, NEW x \in I \ U PROVE U \cup {x} \in F
  <2>1. IsFiniteSet(U) /\ U \in SUBSET I /\ Good(U)
    BY <1>2, FS_Subset
  <2>2. all(U) \in SUBSET S /\ P[x] \in SUBSET S /\ all(U) \cap P[x] = {}
    BY <2>1
  <2>3. all(U \cup {x}) = all(U) \cup P[x]
    OBVIOUS
  <2>4. IsFiniteSet(all(U)) /\ IsFiniteSet(P[x])
    <3> HIDE DEF all
    <3> QED
      BY <2>2, FS_Subset
  <2>5. SumFunctionOnSet(g, all(U) \cup P[x])
          = SumFunctionOnSet(g, all(U)) + SumFunctionOnSet(g, P[x])
    <3> HIDE DEF all
    <3> QED
      BY <2>2, <2>4, SumUnion
  <2>6. \A i \in I : c[i] \in Int
    <3>1. \A i \in I : IsFiniteSet(P[i])
      BY FS_Subset
    <3> QED
      BY <3>1, SumInt
  <2>7. SumFunctionOnSet(c, U \cup {x}) = c[x] + SumFunctionOnSet(c, U)
    BY <2>1, <2>6, SumAdd
  <2>8. SumFunctionOnSet(c, U) \in Int /\ c[x] = SumFunctionOnSet(g, P[x])
    BY <2>1, <2>6, SumInt
  <2>9. c[x] + SumFunctionOnSet(c, U) = SumFunctionOnSet(c, U) + c[x]
    BY <2>6, <2>8
  <2>10. SumFunctionOnSet(c, U \cup {x}) = SumFunctionOnSet(g, all(U \cup {x}))
    <3>1. SumFunctionOnSet(c, U) = SumFunctionOnSet(g, all(U))
      BY <2>1
    <3> HIDE DEF all
    <3> QED
      BY <2>3, <2>5, <2>7, <2>8, <2>9, <3>1
  <2> QED
    BY <2>1, <2>10
<1>3. F \in SUBSET SUBSET I
  OBVIOUS
<1>4. I \in F
  <2> HIDE DEF F
  <2> QED
    BY <1>1, <1>2, <1>3, FiniteInduction
<1> QED
  BY <1>4

(* Shares of an amount, rounded down, in the proportion of some numbers are *)
(* together no more than the amount.                                        *)
LEMMA SharesBounded ==
    ASSUME NEW S, IsFiniteSet(S), NEW d, \A x \in S : d[x] \in Nat, NEW total \in Nat, total > 0,
           total = SumFunctionOnSet(d, S), NEW k \in Nat, NEW q,
           \A x \in S : q[x] = (k * d[x]) \div total
    PROVE  SumFunctionOnSet(q, S) <= k
<1> DEFINE tq == [x \in S |-> total * q[x]]
           kd == [x \in S |-> k * d[x]]
<1>1. ASSUME NEW x \in S PROVE q[x] \in Int /\ total * q[x] <= k * d[x]
  <2> DEFINE m == k * d[x]
  <2>1. m \in Nat /\ q[x] = m \div total
    OBVIOUS
  <2> HIDE DEF m
  <2>2. m \div total \in Int /\ total * (m \div total) <= m
    BY <2>1, Z3T(30)
  <2> QED
    BY <2>1, <2>2 DEF m
<1>2. \A x \in S : /\ q[x] \in Int /\ d[x] \in Int /\ tq[x] = total * q[x] /\ kd[x] = k * d[x]
                   /\ tq[x] \in Int /\ kd[x] \in Int /\ tq[x] <= kd[x]
  BY <1>1
<1> HIDE DEF tq, kd
<1>3. /\ SumFunctionOnSet(tq, S) = total * SumFunctionOnSet(q, S)
      /\ SumFunctionOnSet(kd, S) = k * SumFunctionOnSet(d, S)
  BY <1>2, SumScale
<1>4. SumFunctionOnSet(tq, S) <= SumFunctionOnSet(kd, S)
  BY <1>2, SumLeq
<1>5. SumFunctionOnSet(q, S) \in Int
  BY <1>2, SumInt
<1>6. \A n \in Int : total * n <= k * total => n <= k
  BY Z3T(30)
<1> QED
  BY <1>3, <1>4, <1>5, <1>6

-----------------------------------------------------------------------------
(* Heights that are ends of terms. *)

(* What % is. *)
LEMMA Quotient ==
    ASSUME NEW T \in Nat, T > 0, NEW x \in Nat
    PROVE  /\ \E q \in Int : x = T * q + (x % T)
           /\ x % T \in Nat /\ x % T < T
<1>1. \E q \in Int : x = T * q + (x % T)
  BY Z3T(30)
<1>2. x % T \in Nat /\ x % T < T
  BY Z3T(30)
<1> QED
  BY <1>1, <1>2

(* Between two ends of terms lies a whole term. *)
LEMMA TermsApart ==
    ASSUME NEW T \in Nat, T > 0, NEW x \in Nat, NEW y \in Nat,
           x % T = 0, y % T = 0, x < y
    PROVE  x + T <= y
<1>1. PICK q \in Int : x = T * q
  <2>1. PICK q \in Int : x = T * q + (x % T)
    BY Quotient
  <2> QED
    BY <2>1
<1>2. PICK r \in Int : y = T * r
  <2>1. PICK r \in Int : y = T * r + (y % T)
    BY Quotient
  <2> QED
    BY <2>1
<1>3. q < r
  BY <1>1, <1>2, SMT
<1>4. T * (q + 1) <= T * r
  BY <1>3, SMT
<1>5. T * (q + 1) = T * q + T
  BY SMT
<1> QED
  BY <1>1, <1>2, <1>4, <1>5, SMT

(* One term after the end of a term is the end of a term. *)
LEMMA NextTerm ==
    ASSUME NEW T \in Nat, T > 0, NEW x \in Nat, x % T = 0
    PROVE  (x + T) % T = 0
<1>1. PICK q \in Int : x = T * q
  <2>1. PICK q \in Int : x = T * q + (x % T)
    BY Quotient
  <2> QED
    BY <2>1
<1>2. PICK r \in Int : x + T = T * r + ((x + T) % T)
  BY Quotient
<1>3. (x + T) % T \in Nat /\ (x + T) % T < T
  BY Quotient
<1>4. T * (q + 1) = T * q + T
  BY SMT
<1>5. T * (q + 1) - T * r \in Nat /\ T * (q + 1) - T * r < T
  BY <1>1, <1>2, <1>3, <1>4, SMT
<1>6. T * (q + 1 - r) = T * (q + 1) - T * r
  BY SMT
<1>7. q + 1 - r = 0
  <2>1. CASE q + 1 - r >= 1
    <3>1. T * (q + 1 - r) >= T * 1
      BY <2>1, SMT
    <3> QED
      BY <1>5, <1>6, <3>1, SMT
  <2>2. CASE q + 1 - r <= -1
    <3>1. T * (q + 1 - r) <= T * (-1)
      BY <2>2, SMT
    <3> QED
      BY <1>5, <1>6, <3>1, SMT
  <2> QED
    BY <2>1, <2>2, SMT
<1>8. T * (q + 1 - r) = 0
  BY <1>7, SMT
<1> QED
  BY <1>1, <1>2, <1>3, <1>4, <1>6, <1>8, SMT

(* The end of the term before a block of the term that follows it. *)
LEMMA TermEndIs ==
    ASSUME NEW T \in Nat, T > 0, NEW e \in Nat, e % T = 0, NEW h \in Nat, e <= h, h < e + T
    PROVE  h - (h % T) = e
<1>1. PICK q \in Int : e = T * q + (e % T)
  BY Quotient
<1>2. PICK r \in Int : h = T * r + (h % T)
  BY Quotient
<1>3. h % T \in Nat /\ h % T < T
  BY Quotient
<1>4. e = T * q
  BY <1>1
<1>5. T * r <= h /\ h < T * r + T
  BY <1>2, <1>3
<1>6. T * (r - q) < T /\ T * (r - q) > 0 - T
  BY <1>4, <1>5, Z3T(30)
<1>7. r = q
  <2>1. PICK k \in Int : k = r - q
    OBVIOUS
  <2>2. T * k < T /\ T * k > 0 - T
    BY <1>6, <2>1
  <2>3. ~(k >= 1)
    BY <2>2, Z3T(30)
  <2>4. ~(k <= -1)
    BY <2>2, Z3T(30)
  <2> QED
    BY <2>1, <2>3, <2>4
<1> QED
  BY <1>2, <1>3, <1>4, <1>7

(* One term before the end of a term is the end of a term. *)
LEMMA LastTerm ==
    ASSUME NEW T \in Nat, T > 0, NEW x \in Nat, (x + T) % T = 0
    PROVE  x % T = 0
<1>1. PICK r \in Int : x + T = T * r
  <2>1. PICK r \in Int : x + T = T * r + ((x + T) % T)
    BY Quotient
  <2> QED
    BY <2>1
<1>2. PICK q \in Int : x = T * q + (x % T)
  BY Quotient
<1>3. x % T \in Nat /\ x % T < T
  BY Quotient
<1>4. PICK m \in Nat : m = x % T
  BY <1>3
<1>5. T * r - T = T * q + m /\ m < T
  BY <1>1, <1>2, <1>3, <1>4
<1>6. PICK k \in Int : k = r - 1 - q
  OBVIOUS
<1>7. T * k = m
  BY <1>5, <1>6, Z3T(30)
<1>8. ~(k >= 1)
  BY <1>5, <1>7, Z3T(30)
<1>9. ~(k <= -1)
  BY <1>7, Z3T(30)
<1>10. k = 0
  BY <1>8, <1>9
<1> QED
  BY <1>4, <1>7, <1>10
=============================================================================
