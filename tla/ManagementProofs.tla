-------------------------- MODULE ManagementProofs --------------------------
(***************************************************************************)
(* What Management promises for every chain, every length of a term and    *)
(* any number of candidates, rollbacks and crashes: the governance         *)
(* variables and P-Rep lists that pay for a block are the ones the chain   *)
(* has in force for it, candidates are rewarded while they are registered, *)
(* and a restart loads what was in memory.                                 *)
(***************************************************************************)
EXTENDS Management, SumTheorems

Phases == {"idle", "gv", "prep", "candidate", "rewards"}
TXs == [addr : Address, type : {"reg", "unreg"}, blockHeight : Nat]

\* the heights a bucket has entries of, and what the chain recorded
Keys(db) == {h \in DOMAIN db : db[h] # None}
Recorded(field) == {h \in Height : chain[h][field] # None}

\* the list has the entries of the bucket, by block height
InOrder(list) == \A i, j \in DOMAIN list : i < j => list[i].blockHeight < list[j].blockHeight
Listed(list, db, values) ==
    /\ list \in Seq(EntryOf(values))
    /\ InOrder(list)
    /\ \A i \in DOMAIN list : \E h \in Keys(db) : list[i] = Entry(h, db[h])
    /\ \A h \in Keys(db) : \E i \in DOMAIN list : list[i] = Entry(h, db[h])

-----------------------------------------------------------------------------
(* The inductive invariant. *)

\* the state as the code types it
Buckets(values) == UNION {[(h - Term) .. (h - 1) -> values] : h \in Height}
CalcType ==
    [phase : Phases, height : Height, quit : BOOLEAN,
     gvs : Buckets(GVValue \cup {None}) \cup {<<>>},
     preps : Buckets(PRepValue \cup {None}) \cup {<<>>}, txs : SUBSET TXs]
Types ==
    /\ gvDB \in [Height -> GVValue \cup {None}]
    /\ prepDB \in [Height -> PRepValue \cup {None}]
    /\ prep \in Seq(EntryOf(PRepValue))
    /\ candidate \in [Address -> [start : Height, end : Height]]
    /\ info \in [calcDone : Height, prevCalcDone : Height, calculating : Height]
    /\ calc \in CalcType
    /\ rollback \in {"idle", "info", "gv", "prep"}
    /\ tip \in Height
    /\ chain \in [Height -> [gv : GVValue \cup {None}, prep : PRepValue \cup {None}]]
    /\ \A h \in Height : h > tip => chain[h] = [gv |-> None, prep |-> None]
    /\ chain[0].gv # None

\* which term is calculated, and how far the chain is
Schedule ==
    /\ info.calcDone % Term = 0
    /\ info.calcDone \in {info.prevCalcDone, info.prevCalcDone + Term}
    /\ info.calculating \in {info.calcDone, info.calcDone + Term}
    /\ info.prevCalcDone <= tip /\ tip < info.calcDone + 2 * Term
    /\ rollback # "idle" => info.prevCalcDone < tip
    /\ rollback # "info" => info.calcDone <= tip
    /\ calc.phase = "idle" => calc = Idle
    /\ calc.phase # "idle" =>
          /\ calc.height = info.calculating /\ info.calculating = info.calcDone + Term
          /\ info.calcDone < tip
    /\ calc.phase # "idle" /\ rollback # "info" /\ ~calc.quit => calc.height <= tip
    /\ calc.quit => calc.phase = "rewards"
    /\ rollback \in {"gv", "prep"} => calc.phase = "idle" \/ calc.quit

\* no calculation that may still be done, or be done again, starts after the
\* entry was replaced
Needed(field, c) == ~\E d \in Recorded(field) : c < d /\ d <= info.prevCalcDone

\* the governance variables of the IISS data are the chain's, as far as it goes
Data ==
    /\ calc.phase = "gv" =>
          /\ calc.gvs \in [(calc.height - Term) .. (calc.height - 1) -> GVValue \cup {None}]
          /\ \A b \in DOMAIN calc.gvs : b <= tip => calc.gvs[b] = chain[b].gv
    /\ calc.phase \in {"gv", "prep"} =>
          /\ calc.preps \in [(calc.height - Term) .. (calc.height - 1) -> PRepValue \cup {None}]
          /\ \A b \in DOMAIN calc.preps : b <= tip => calc.preps[b] = chain[b].prep

OfChain(db) == \A h \in Keys(db) : h <= tip => chain[h].gv = db[h]
NotAhead(db) == \A h \in Keys(db) : h <= tip
\* an entry that is needed is there, unless it and all that follow it are still
\* to be calculated with
NothingMissing(db) ==
    \A c \in Recorded("gv") : Needed("gv", c) =>
        /\ c < info.calcDone => c \in Keys(db)
        /\ (\E k \in Keys(db) : c <= k) => c \in Keys(db)
HasFirst(db) ==
    \/ Keys(db) = {} /\ info.calcDone = 0
    \/ \A c \in Recorded("gv") : Needed("gv", c) /\ c <= info.prevCalcDone => c \in Keys(db)
UpTo(db, height) ==
    \A c \in Recorded("gv") : Needed("gv", c) /\ c < height => c \in Keys(db)

GVInv ==
    /\ Listed(gv, gvDB, GVValue)
    /\ OfChain(gvDB) /\ NothingMissing(gvDB) /\ HasFirst(gvDB)
    /\ rollback \notin {"info", "gv"} => NotAhead(gvDB)
    /\ calc.phase \in {"prep", "candidate", "rewards"} /\ ~calc.quit => UpTo(gvDB, calc.height)

\* a candidate is not known yet, registered, or registered and unregistered
Candidate(a) ==
    \/ candidate[a] = NoCandidate
    \/ candidate[a] = [start |-> Registered[a], end |-> 0]
    \/ Unregistered[a] # 0 /\ candidate[a] = [start |-> Registered[a], end |-> Unregistered[a]]
Applied(tx) ==
    IF tx.type = "reg" THEN candidate[tx.addr] # NoCandidate
    ELSE candidate[tx.addr].end = tx.blockHeight
CandidateInv ==
    /\ candidateDB = candidate
    /\ \A a \in Address : Candidate(a)
    /\ \A a \in Address :
          /\ Registered[a] <= info.calcDone => candidate[a] # NoCandidate
          /\ Unregistered[a] # 0 /\ Unregistered[a] <= info.calcDone =>
                candidate[a].end = Unregistered[a]
    /\ calc.phase \in {"gv", "prep"} => calc.txs = IISSTXs(calc.height)
    /\ calc.phase \in {"candidate", "rewards"} =>
          \A tx \in IISSTXs(calc.height) \ calc.txs : Applied(tx)
    /\ calc.phase = "candidate" => calc.txs \subseteq IISSTXs(calc.height)
    /\ calc.phase = "rewards" => calc.txs = {}

ManagementInv == Types /\ Schedule /\ Data /\ GVInv /\ CandidateInv

\* one P-Rep list a term, recorded with its last block
OneListATerm == PRepBlocks = {h \in Height : h % Term = 0}

\* no P-Rep list is newer than what is calculated next, and the one the term
\* begins with is the last when the rewards are calculated
ListsOfChain == \A h \in Height : h <= tip => (chain[h].prep # None <=> h % Term = 0)
NotNewer(list, db, height) ==
    /\ \A i \in DOMAIN list : list[i].blockHeight <= height
    /\ \A h \in Keys(db) : h <= height
EndsWith(list, entry) ==
    /\ list # <<>> /\ list[Len(list)] = entry
    /\ \A i \in DOMAIN list : list[i].blockHeight <= entry.blockHeight
OnlyAt(db, height) == \A b \in DOMAIN db : db[b] # None => b = height
PRepInv ==
    /\ ListsOfChain
    /\ NotNewer(prep, prepDB, info.calcDone + Term)
    /\ info.prevCalcDone < info.calcDone => NotNewer(prep, prepDB, info.calcDone)
    /\ calc.phase \in {"gv", "prep"} => OnlyAt(calc.preps, info.calcDone)
    /\ calc.phase \in {"candidate", "rewards"} /\ ~calc.quit =>
          EndsWith(prep, Entry(info.calcDone, chain[info.calcDone].prep))

-----------------------------------------------------------------------------
(* Sets of heights in order, and lists of entries. *)

(* Ranks are the numbers from 1 on, in the order of the elements. *)
LEMMA RankOrder ==
    ASSUME NEW S, IsFiniteSet(S), S \subseteq Int
    PROVE  /\ Cardinality(S) \in Nat
           /\ \A x \in S : Rank(S, x) \in 1 .. Cardinality(S)
           /\ \A x, y \in S : x < y => Rank(S, x) < Rank(S, y)
<1>1. Cardinality(S) \in Nat
  BY FS_CardinalityType
<1>2. ASSUME NEW x \in S PROVE Rank(S, x) \in 1 .. Cardinality(S)
  <2> DEFINE T == {y \in S : y <= x}
  <2>1. T \in SUBSET S /\ x \in T
    OBVIOUS
  <2> HIDE DEF T
  <2>2. IsFiniteSet(T) /\ Cardinality(T) <= Cardinality(S) /\ Cardinality(T) \in Nat
    BY <2>1, FS_Subset, FS_CardinalityType
  <2>3. Cardinality(T) # 0
    BY <2>1, <2>2, FS_EmptySet
  <2>4. Rank(S, x) = Cardinality(T)
    BY DEF Rank, T
  <2> QED
    BY <1>1, <2>2, <2>3, <2>4
<1>3. ASSUME NEW x \in S, NEW y \in S, x < y PROVE Rank(S, x) < Rank(S, y)
  <2> DEFINE T == {z \in S : z <= x}
             U == {z \in S : z <= y}
  <2>0. x \in Int /\ y \in Int /\ \A z \in S : z \in Int
    OBVIOUS
  <2>1. T \in SUBSET U /\ U \in SUBSET S /\ y \in U /\ y \notin T
    <3>1. \A z \in S : z <= x => z <= y
      BY <1>3, <2>0
    <3>2. y <= y /\ ~(y <= x)
      BY <1>3, <2>0
    <3> QED
      BY <3>1, <3>2
  <2>2. Rank(S, x) = Cardinality(T) /\ Rank(S, y) = Cardinality(U)
    BY DEF Rank
  <2> HIDE DEF T, U
  <2>3. IsFiniteSet(U)
    BY <2>1, FS_Subset
  <2>4. IsFiniteSet(T) /\ Cardinality(T) <= Cardinality(U) /\ Cardinality(U) # Cardinality(T)
    BY <2>1, <2>3, FS_Subset
  <2>5. Cardinality(T) \in Nat /\ Cardinality(U) \in Nat
    BY <2>3, <2>4, FS_CardinalityType
  <2> QED
    BY <2>2, <2>4, <2>5
<1> QED
  BY <1>1, <1>2, <1>3

(* Ascending has every element of the set once, in order. *)
LEMMA AscendingIs ==
    ASSUME NEW S, IsFiniteSet(S), S \subseteq Int
    PROVE  /\ Cardinality(S) \in Nat
           /\ Ascending(S) \in [1 .. Cardinality(S) -> S]
           /\ \A x \in S : \E i \in 1 .. Cardinality(S) : Ascending(S)[i] = x
           /\ \A i \in 1 .. Cardinality(S) : Rank(S, Ascending(S)[i]) = i
           /\ \A i, j \in 1 .. Cardinality(S) : i < j => Ascending(S)[i] < Ascending(S)[j]
<1> DEFINE n == Cardinality(S)
           f == [x \in S |-> Rank(S, x)]
<1>1. /\ n \in Nat
      /\ \A x \in S : f[x] \in 1 .. n
      /\ \A x, y \in S : x < y => f[x] < f[y]
  BY RankOrder
<1>2. f \in Injection(S, 1 .. n)
  <2>1. f \in [S -> 1 .. n]
    BY <1>1
  <2>2. ASSUME NEW x \in S, NEW y \in S, f[x] = f[y] PROVE x = y
    <3>1. x \in Int /\ y \in Int /\ f[x] \in Int /\ f[y] \in Int
      BY <1>1
    <3>2. ~(x < y) /\ ~(y < x)
      <4> HIDE DEF f
      <4> QED
        BY <1>1, <2>2, <3>1
    <3> QED
      BY <3>1, <3>2
  <2> HIDE DEF f
  <2> QED
    BY <2>1, <2>2 DEF Injection, IsInjective
<1>3. IsFiniteSet(1 .. n) /\ Cardinality(1 .. n) = n
  BY <1>1, FS_Interval
<1>4. f \in Surjection(S, 1 .. n)
  <2> HIDE DEF f
  <2> QED
    BY <1>2, <1>3, FS_Injection
<1>5. ASSUME NEW i \in 1 .. n PROVE \E x \in S : Rank(S, x) = i
  <2>1. \E x \in S : f[x] = i
    <3> HIDE DEF f
    <3> QED
      BY <1>4 DEF Surjection
  <2> QED
    BY <2>1
<1>6. ASSUME NEW i \in 1 .. n PROVE Ascending(S)[i] \in S /\ Rank(S, Ascending(S)[i]) = i
  <2>1. Ascending(S)[i] = CHOOSE x \in S : Rank(S, x) = i
    BY DEF Ascending
  <2> QED
    BY <1>5, <2>1
<1>7. ASSUME NEW x \in S PROVE Ascending(S)[f[x]] = x
  <2>1. f[x] \in 1 .. n
    BY <1>1
  <2>2. PICK y \in S : y = Ascending(S)[f[x]] /\ f[y] = f[x]
    BY <1>6, <2>1
  <2>3. y = x
    <3> HIDE DEF f
    <3> QED
      BY <1>2, <2>2 DEF Injection, IsInjective
  <2> QED
    BY <2>2, <2>3
<1>8. ASSUME NEW i \in 1 .. n, NEW j \in 1 .. n, i < j
      PROVE  Ascending(S)[i] < Ascending(S)[j]
  <2>1. PICK x \in S, y \in S : x = Ascending(S)[i] /\ y = Ascending(S)[j]
    BY <1>6
  <2>2. f[x] = i /\ f[y] = j
    BY <1>6, <2>1
  <2>3. x \in Int /\ y \in Int /\ i \in Int /\ j \in Int
    BY <1>1
  <2>4. ~(y < x) /\ x # y
    <3> HIDE DEF f
    <3> QED
      BY <1>1, <1>8, <2>2, <2>3
  <2> QED
    BY <2>1, <2>3, <2>4
<1>9. Ascending(S) \in [1 .. n -> S]
  <2>1. Ascending(S) = [i \in 1 .. n |-> CHOOSE x \in S : Rank(S, x) = i]
    BY DEF Ascending
  <2> QED
    BY <1>5, <2>1
<1> QED
  BY <1>1, <1>6, <1>7, <1>8, <1>9

(* A bucket has finitely many entries. *)
LEMMA KeysFinite ==
    ASSUME NEW V, NEW D \in SUBSET Height, NEW db \in [D -> V]
    PROVE  IsFiniteSet(Keys(db)) /\ Keys(db) \subseteq D /\ Keys(db) \subseteq Int
<1>1. IsFiniteSet(Height) /\ Height \subseteq Int
  BY ManagementAssumption, FS_Interval DEF Height
<1>2. Keys(db) \in SUBSET Height /\ Keys(db) \subseteq D
  BY DEF Keys
<1> QED
  BY <1>1, <1>2, FS_Subset

(* What is loaded from a bucket is the list of its entries. *)
LEMMA LoadListed ==
    ASSUME NEW V, NEW D \in SUBSET Height, NEW db \in [D -> V \cup {None}]
    PROVE  Listed(Load(db), db, V)
<1> DEFINE K == Keys(db)
           f == Ascending(K)
           n == Cardinality(K)
<1>1. IsFiniteSet(K) /\ K \subseteq D /\ K \subseteq Int
  BY KeysFinite
<1>2. /\ n \in Nat
      /\ f \in [1 .. n -> K]
      /\ \A x \in K : \E i \in 1 .. n : f[i] = x
      /\ \A i, j \in 1 .. n : i < j => f[i] < f[j]
  <2> HIDE DEF K
  <2> QED
    BY <1>1, AscendingIs
<1>3. Load(db) = [i \in 1 .. n |-> Entry(f[i], db[f[i]])]
  <2>1. Load(db) = [i \in DOMAIN f |-> Entry(f[i], db[f[i]])]
    BY DEF Load, Keys
  <2> QED
    BY <1>2, <2>1
<1>4. \A h \in K : h \in Height /\ db[h] \in V
  BY <1>1 DEF Keys
<1> HIDE DEF K, f, n
<1>5. \A i \in 1 .. n : f[i] \in K
  BY <1>2
<1>6. ASSUME NEW i \in 1 .. n
      PROVE  Load(db)[i] = Entry(f[i], db[f[i]]) /\ Load(db)[i] \in EntryOf(V)
             /\ Load(db)[i].blockHeight = f[i]
  <2>1. Load(db)[i] = Entry(f[i], db[f[i]])
    BY <1>3
  <2>2. PICK h \in Height, v \in V : h = f[i] /\ v = db[f[i]]
    BY <1>4, <1>5
  <2>3. Entry(h, v) \in EntryOf(V) /\ Entry(h, v).blockHeight = h
    BY DEF Entry, EntryOf
  <2> QED
    BY <2>1, <2>2, <2>3
<1>7. DOMAIN Load(db) = 1 .. n
  BY <1>3
<1>8. Load(db) \in Seq(EntryOf(V))
  <2>1. Load(db) \in [1 .. n -> EntryOf(V)]
    BY <1>3, <1>6
  <2> QED
    BY <1>2, <2>1
<1>9. InOrder(Load(db))
  BY <1>2, <1>6, <1>7 DEF InOrder
<1>10. \A i \in DOMAIN Load(db) : \E h \in K : Load(db)[i] = Entry(h, db[h])
  BY <1>5, <1>6, <1>7
<1>11. \A h \in K : \E i \in DOMAIN Load(db) : Load(db)[i] = Entry(h, db[h])
  BY <1>2, <1>6, <1>7
<1> QED
  BY <1>8, <1>9, <1>10, <1>11 DEF Listed, K

(* The heights of a list, from the first entry to the i-th. *)
LEMMA HeightsUpTo ==
    ASSUME NEW V, NEW l \in Seq(EntryOf(V)), InOrder(l), NEW i \in 0 .. Len(l), NEW H,
           H = {l[j].blockHeight : j \in 1 .. i}
    PROVE  IsFiniteSet(H) /\ Cardinality(H) = i
<1> DEFINE f == [j \in 1 .. i |-> l[j].blockHeight]
<1>1. Len(l) \in Nat /\ DOMAIN l = 1 .. Len(l)
  OBVIOUS
<1>2. \A j \in 1 .. i : j \in DOMAIN l /\ l[j].blockHeight \in Int
  <2>1. \A j \in 1 .. i : j \in DOMAIN l
    BY <1>1
  <2>2. Height \subseteq Int
    BY ManagementAssumption DEF Height
  <2>3. ASSUME NEW j \in DOMAIN l PROVE l[j] \in EntryOf(V)
    BY <1>1
  <2> QED
    BY <2>1, <2>2, <2>3 DEF EntryOf
<1>3. f \in Bijection(1 .. i, H)
  <2>1. f \in [1 .. i -> H]
    OBVIOUS
  <2>2. ASSUME NEW j \in 1 .. i, NEW k \in 1 .. i, f[j] = f[k] PROVE j = k
    <3>1. l[j].blockHeight = l[k].blockHeight /\ j \in DOMAIN l /\ k \in DOMAIN l
      BY <1>2, <2>2
    <3>2. ~(j < k) /\ ~(k < j)
      BY <1>2, <3>1 DEF InOrder
    <3> QED
      BY <3>2
  <2>3. \A x \in H : \E j \in 1 .. i : f[j] = x
    OBVIOUS
  <2> HIDE DEF f
  <2> QED
    BY <2>1, <2>2, <2>3 DEF Bijection, Injection, Surjection, IsInjective
<1>4. IsFiniteSet(1 .. i) /\ Cardinality(1 .. i) = i
  BY <1>1, FS_Interval
<1> HIDE DEF f
<1> QED
  BY <1>3, <1>4, FS_Bijection DEF ExistsBijection

(* There is one such list. *)
LEMMA ListedIsLoad ==
    ASSUME NEW V, NEW D \in SUBSET Height, NEW db \in [D -> V \cup {None}],
           NEW l, Listed(l, db, V)
    PROVE  l = Load(db)
<1> DEFINE K == Keys(db)
           f == Ascending(K)
           n == Len(l)
<1>1. IsFiniteSet(K) /\ K \subseteq D /\ K \subseteq Int
  BY KeysFinite
<1>2. /\ l \in Seq(EntryOf(V)) /\ n \in Nat /\ DOMAIN l = 1 .. n /\ InOrder(l)
      /\ \A i \in 1 .. n : \E h \in K : l[i] = Entry(h, db[h])
      /\ \A h \in K : \E i \in 1 .. n : l[i] = Entry(h, db[h])
  BY DEF Listed
<1>3. \A h, v : Entry(h, v).blockHeight = h /\ Entry(h, v).value = v
  BY DEF Entry
<1>4. \A i \in 1 .. n : l[i].blockHeight \in K /\ l[i] = Entry(l[i].blockHeight, db[l[i].blockHeight])
  BY <1>2, <1>3
<1>5. \A h \in K : \E i \in 1 .. n : l[i].blockHeight = h
  BY <1>2, <1>3
<1> HIDE DEF K, f, n
<1>6. ASSUME NEW i \in 0 .. n
      PROVE  Cardinality({l[j].blockHeight : j \in 1 .. i}) = i
  BY <1>2, HeightsUpTo DEF n
<1>7. Cardinality(K) = n
  <2>1. K = {l[j].blockHeight : j \in 1 .. n}
    BY <1>4, <1>5
  <2>2. n \in 0 .. n
    BY <1>2
  <2>3. Cardinality({l[j].blockHeight : j \in 1 .. n}) = n
    BY <1>6, <2>2
  <2> QED
    BY <2>1, <2>3
<1>8. ASSUME NEW i \in 1 .. n PROVE Rank(K, l[i].blockHeight) = i
  <2>1. \A j \in 1 .. n : l[j].blockHeight <= l[i].blockHeight <=> j \in 1 .. i
    <3>1. ASSUME NEW j \in 1 .. n PROVE l[j].blockHeight <= l[i].blockHeight <=> j \in 1 .. i
      <4>1. l[j].blockHeight \in Int /\ l[i].blockHeight \in Int
        BY <1>1, <1>4
      <4>2. j < i => l[j].blockHeight < l[i].blockHeight
        BY <1>2 DEF InOrder
      <4>3. i < j => l[i].blockHeight < l[j].blockHeight
        BY <1>2 DEF InOrder
      <4> QED
        BY <4>1, <4>2, <4>3
    <3> QED
      BY <3>1
  <2>2. {y \in K : y <= l[i].blockHeight} = {l[j].blockHeight : j \in 1 .. i}
    <3>1. \A j \in 1 .. i : j \in 1 .. n
      BY <1>2
    <3>2. ASSUME NEW y \in K, y <= l[i].blockHeight PROVE \E j \in 1 .. i : y = l[j].blockHeight
      BY <1>5, <2>1, <3>2
    <3>3. ASSUME NEW j \in 1 .. i PROVE l[j].blockHeight \in K /\ l[j].blockHeight <= l[i].blockHeight
      BY <1>4, <2>1, <3>1
    <3> QED
      BY <3>2, <3>3
  <2>3. i \in 0 .. n
    BY <1>2
  <2> QED
    BY <1>6, <2>2, <2>3 DEF Rank
<1>9. ASSUME NEW i \in 1 .. n PROVE f[i] = l[i].blockHeight
  <2>1. /\ f \in [1 .. n -> K]
        /\ \A j \in 1 .. n : Rank(K, f[j]) = j
    BY <1>1, <1>7, AscendingIs DEF f
  <2>2. PICK j \in 1 .. n : l[j].blockHeight = f[i]
    BY <1>5, <2>1
  <2>3. Rank(K, f[i]) = i /\ Rank(K, l[j].blockHeight) = j
    BY <1>8, <2>1
  <2> QED
    BY <2>2, <2>3
<1>10. Load(db) = [i \in 1 .. n |-> Entry(f[i], db[f[i]])]
  <2>1. Load(db) = [i \in DOMAIN f |-> Entry(f[i], db[f[i]])]
    BY DEF Load, Keys, f, K
  <2>2. DOMAIN f = 1 .. n
    BY <1>7 DEF Ascending, f
  <2> QED
    BY <2>1, <2>2
<1>11. \A i \in 1 .. n : Load(db)[i] = l[i]
  BY <1>4, <1>9, <1>10
<1>12. Load(db) \in [1 .. n -> EntryOf(V)] /\ l \in [1 .. n -> EntryOf(V)]
  <2>1. l \in [1 .. n -> EntryOf(V)]
    BY <1>2 DEF n
  <2> QED
    BY <1>10, <1>11, <2>1
<1>13. Load(db) = [i \in 1 .. n |-> Load(db)[i]] /\ l = [i \in 1 .. n |-> l[i]]
  BY <1>12
<1> QED
  BY <1>11, <1>13

-----------------------------------------------------------------------------
(* Writes of a bucket. *)

Writes(values) == [key : Height, value : values \cup {None}]

\* the first n writes have none to k, or the i-th is the last one to it
NoneTo(W, n, k) == \A i \in 1 .. n : W[i].key # k
LastTo(W, n, k, i) == i \in 1 .. n /\ W[i].key = k /\ \A j \in 1 .. n : W[j].key = k => j <= i

(* A key has the value of the last write to it. *)
LEMMA WrittenAt ==
    ASSUME NEW db, NEW W, NEW n \in Nat, NEW k \in DOMAIN db
    PROVE  /\ NoneTo(W, n, k) => Written(db, W, n)[k] = db[k]
           /\ \A i : LastTo(W, n, k, i) => Written(db, W, n)[k] = W[i].value
           /\ NoneTo(W, n, k) \/ \E i : LastTo(W, n, k, i)
<1> DEFINE to == {i \in 1 .. n : W[i].key = k}
<1>1. Written(db, W, n)[k] = IF to = {} THEN db[k] ELSE W[Max(to)].value
  BY DEF Written
<1>2. to \subseteq Int /\ to \subseteq 1 .. n
  OBVIOUS
<1>3. IsFiniteSet(to)
  <2>1. IsFiniteSet(1 .. n)
    BY FS_Interval
  <2> HIDE DEF to
  <2> QED
    BY <1>2, <2>1, FS_Subset
<1>4. ASSUME NEW i \in 1 .. n, W[i].key = k, \A j \in 1 .. n : W[j].key = k => j <= i
      PROVE  Written(db, W, n)[k] = W[i].value
  <2>1. i \in to /\ \A j \in to : i >= j
    BY <1>4
  <2>2. Max(to) = i /\ to # {}
    <3> HIDE DEF to
    <3> QED
      BY <1>2, <2>1, MaxIs
  <2> HIDE DEF to
  <2> QED
    BY <1>1, <2>2
<1>5. ASSUME \A i \in 1 .. n : W[i].key # k PROVE Written(db, W, n)[k] = db[k]
  BY <1>1, <1>5
<1>6. ASSUME \E i \in 1 .. n : W[i].key = k
      PROVE  \E i \in 1 .. n : W[i].key = k /\ \A j \in 1 .. n : W[j].key = k => j <= i
  <2>1. to # {}
    BY <1>6
  <2>2. PICK i \in to : \A j \in to : i >= j
    <3> HIDE DEF to
    <3> QED
      BY <1>2, <1>3, <2>1, FiniteMax
  <2>3. i \in 1 .. n /\ W[i].key = k
    OBVIOUS
  <2>4. ASSUME NEW j \in 1 .. n, W[j].key = k PROVE j <= i
    <3>1. j \in to
      BY <2>4
    <3>2. i >= j /\ i \in Int /\ j \in Int
      BY <2>2, <3>1
    <3> QED
      BY <3>2
  <2> QED
    BY <2>3, <2>4
<1> QED
  BY <1>4, <1>5, <1>6 DEF NoneTo, LastTo

LEMMA WrittenType ==
    ASSUME NEW V, NEW D, NEW db \in [D -> V \cup {None}], NEW W \in Seq(Writes(V)),
           NEW n \in 0 .. Len(W)
    PROVE  Written(db, W, n) \in [D -> V \cup {None}]
<1>1. DOMAIN Written(db, W, n) = D /\ Written(db, W, n) = [k \in D |-> Written(db, W, n)[k]]
  BY DEF Written
<1>2. ASSUME NEW k \in D PROVE Written(db, W, n)[k] \in V \cup {None}
  <2>1. n \in Nat /\ k \in DOMAIN db /\ db[k] \in V \cup {None}
    OBVIOUS
  <2>2. \A i \in 1 .. n : W[i].value \in V \cup {None}
    <3>1. \A i \in 1 .. n : W[i] \in Writes(V)
      OBVIOUS
    <3> QED
      BY <3>1 DEF Writes
  <2>3. CASE NoneTo(W, n, k)
    BY <2>1, <2>3, WrittenAt
  <2>4. ASSUME NEW i, LastTo(W, n, k, i) PROVE Written(db, W, n)[k] \in V \cup {None}
    <3>1. Written(db, W, n)[k] = W[i].value /\ i \in 1 .. n
      BY <2>1, <2>4, WrittenAt DEF LastTo
    <3> QED
      BY <2>2, <3>1
  <2> QED
    BY <2>1, <2>3, <2>4, WrittenAt
<1> QED
  BY <1>1, <1>2

(* A crash between the writes of two loops. *)
LEMMA WrittenConcat ==
    ASSUME NEW V, NEW D, NEW db \in [D -> V \cup {None}],
           NEW A \in Seq(Writes(V)), NEW B \in Seq(Writes(V)), NEW n \in 0 .. Len(A \o B)
    PROVE  /\ n <= Len(A) => Written(db, A \o B, n) = Written(db, A, n)
           /\ n >= Len(A) => Written(db, A \o B, n) =
                                Written(Written(db, A, Len(A)), B, n - Len(A))
<1> DEFINE W == A \o B
           a == Len(A)
           da == Written(db, A, a)
<1>1. /\ a \in Nat /\ Len(B) \in Nat /\ Len(W) = a + Len(B) /\ n \in Nat
      /\ \A i \in 1 .. a : W[i] = A[i]
      /\ \A i \in 1 .. Len(B) : W[a + i] = B[i]
  OBVIOUS
<1>2. DOMAIN db = D /\ \A w, m : DOMAIN Written(db, w, m) = D /\ DOMAIN Written(da, w, m) = D
  BY DEF Written
<1> HIDE DEF W, a
<1>3. ASSUME n <= a, NEW k \in D PROVE Written(db, W, n)[k] = Written(db, A, n)[k]
  <2>1. \A i \in 1 .. n : W[i] = A[i]
    BY <1>1, <1>3
  <2>2. CASE NoneTo(A, n, k)
    <3>1. NoneTo(W, n, k)
      BY <2>1, <2>2 DEF NoneTo
    <3> QED
      BY <1>1, <1>2, <2>2, <3>1, WrittenAt
  <2>3. ASSUME NEW i, LastTo(A, n, k, i) PROVE Written(db, W, n)[k] = Written(db, A, n)[k]
    <3>1. LastTo(W, n, k, i) /\ W[i] = A[i]
      BY <2>1, <2>3 DEF LastTo
    <3> QED
      BY <1>1, <1>2, <2>3, <3>1, WrittenAt
  <2> QED
    BY <1>1, <1>2, <2>2, <2>3, WrittenAt
<1>4. ASSUME n >= a, NEW k \in D PROVE Written(db, W, n)[k] = Written(da, B, n - a)[k]
  <2>1. PICK p \in Nat : p = n - a /\ n = a + p /\ p <= Len(B)
    BY <1>1, <1>4 DEF W
  <2>2. \A i \in 1 .. p : i \in 1 .. Len(B) /\ a + i \in 1 .. n
    BY <1>1, <2>1
  <2>3. \A i \in 1 .. n : i \in 1 .. a \/ (i - a \in 1 .. p /\ i = a + (i - a))
    BY <1>1, <2>1
  <2>4. ASSUME NEW i, LastTo(B, p, k, i) PROVE Written(db, W, n)[k] = Written(da, B, p)[k]
    <3>1. i \in 1 .. p /\ B[i].key = k /\ \A j \in 1 .. p : B[j].key = k => j <= i
      BY <2>4 DEF LastTo
    <3>2. Written(da, B, p)[k] = B[i].value
      BY <1>2, <2>4, WrittenAt
    <3>3. ASSUME NEW j \in 1 .. n, W[j].key = k PROVE j <= a + i
      <4>1. CASE j \in 1 .. a
        BY <1>1, <3>1, <4>1
      <4>2. CASE j - a \in 1 .. p
        <5>1. PICK m \in 1 .. p : j = a + m
          BY <1>1, <4>2
        <5>2. B[m].key = k
          BY <1>1, <2>2, <3>3, <5>1
        <5>3. m <= i
          BY <3>1, <5>2
        <5> QED
          BY <1>1, <3>1, <5>1, <5>3
      <4> QED
        BY <2>3, <4>1, <4>2
    <3>4. a + i \in 1 .. n /\ W[a + i] = B[i]
      BY <1>1, <2>2, <3>1
    <3>5. PICK m : m = a + i
      OBVIOUS
    <3>6. LastTo(W, n, k, m)
      BY <3>1, <3>3, <3>4, <3>5 DEF LastTo
    <3>7. Written(db, W, n)[k] = W[m].value
      BY <1>1, <1>2, <3>6, WrittenAt
    <3> QED
      BY <3>2, <3>4, <3>5, <3>7
  <2>5. CASE NoneTo(B, p, k)
    <3>1. Written(da, B, p)[k] = da[k]
      BY <1>2, <2>5, WrittenAt
    <3>2. ASSUME NEW i \in 1 .. n, W[i].key = k PROVE i \in 1 .. a
      <4>1. ASSUME i - a \in 1 .. p PROVE FALSE
        <5>1. PICK m \in 1 .. p : i = a + m
          BY <1>1, <4>1
        <5>2. B[m].key = k
          BY <1>1, <2>2, <3>2, <5>1
        <5> QED
          BY <2>5, <5>2 DEF NoneTo
      <4> QED
        BY <2>3, <4>1
    <3>3. \A i \in 1 .. a : i \in 1 .. n /\ W[i] = A[i]
      BY <1>1, <1>4
    <3>4. CASE NoneTo(A, a, k)
      <4>1. da[k] = db[k]
        BY <1>1, <1>2, <3>4, WrittenAt
      <4>2. NoneTo(W, n, k)
        BY <3>2, <3>3, <3>4 DEF NoneTo
      <4>3. Written(db, W, n)[k] = db[k]
        BY <1>1, <1>2, <4>2, WrittenAt
      <4> QED
        BY <2>1, <3>1, <4>1, <4>3
    <3>5. ASSUME NEW i, LastTo(A, a, k, i) PROVE Written(db, W, n)[k] = Written(da, B, p)[k]
      <4>1. da[k] = A[i].value
        BY <1>1, <1>2, <3>5, WrittenAt
      <4>2. LastTo(W, n, k, i) /\ W[i] = A[i]
        BY <3>2, <3>3, <3>5 DEF LastTo
      <4>3. Written(db, W, n)[k] = W[i].value
        BY <1>1, <1>2, <4>2, WrittenAt
      <4> QED
        BY <3>1, <4>1, <4>2, <4>3
    <3>6. NoneTo(A, a, k) \/ \E i : LastTo(A, a, k, i)
      BY <1>1, <1>2, WrittenAt
    <3> QED
      BY <2>1, <3>4, <3>5, <3>6
  <2>6. NoneTo(B, p, k) \/ \E i : LastTo(B, p, k, i)
    BY <1>2, WrittenAt
  <2> QED
    BY <2>1, <2>4, <2>5, <2>6
<1>5. \A c, w, m : Written(c, w, m) = [k \in DOMAIN c |-> Written(c, w, m)[k]]
  BY DEF Written
<1>6. ASSUME n <= a PROVE Written(db, W, n) = Written(db, A, n)
  BY <1>2, <1>3, <1>5, <1>6
<1>7. ASSUME n >= a PROVE Written(db, W, n) = Written(da, B, n - a)
  <2>1. DOMAIN da = D
    BY <1>2
  <2> HIDE DEF da
  <2> QED
    BY <1>2, <1>4, <1>5, <1>7, <2>1
<1> QED
  BY <1>6, <1>7 DEF W, a

(* The first n entries of a list are written to a bucket. *)
LEMMA SetsWrite ==
    ASSUME NEW V, NEW db \in [Height -> V \cup {None}], NEW l \in Seq(EntryOf(V)), InOrder(l),
           NEW n \in 0 .. Len(l)
    PROVE  /\ Sets(l) \in Seq(Writes(V)) /\ Len(Sets(l)) = Len(l)
           /\ Written(db, Sets(l), n) \in [Height -> V \cup {None}]
           /\ \A i \in 1 .. n : Written(db, Sets(l), n)[l[i].blockHeight] = l[i].value
           /\ \A h \in Height : (\A i \in 1 .. n : l[i].blockHeight # h) =>
                 Written(db, Sets(l), n)[h] = db[h]
<1> DEFINE W == Sets(l)
<1>1. Len(l) \in Nat /\ DOMAIN l = 1 .. Len(l) /\ n \in Nat /\ \A i \in 1 .. Len(l) : l[i] \in EntryOf(V)
  OBVIOUS
<1>2. Height \subseteq Int
  BY ManagementAssumption DEF Height
<1>3. ASSUME NEW i \in 1 .. Len(l)
      PROVE  /\ W[i] \in Writes(V) /\ W[i].key = l[i].blockHeight /\ W[i].value = l[i].value
             /\ l[i].blockHeight \in Height
  <2>1. W[i] = Write(l[i].blockHeight, l[i].value)
    BY <1>1 DEF Sets
  <2>2. l[i].blockHeight \in Height /\ l[i].value \in V
    BY <1>1 DEF EntryOf
  <2> QED
    BY <2>1, <2>2 DEF Write, Writes
<1>4. W \in Seq(Writes(V)) /\ Len(W) = Len(l)
  <2>1. W = [i \in 1 .. Len(l) |-> W[i]]
    BY <1>1 DEF Sets
  <2> HIDE DEF W
  <2>2. W \in [1 .. Len(l) -> Writes(V)]
    BY <1>3, <2>1
  <2> QED
    BY <1>1, <2>2
<1> HIDE DEF W
<1>5. Written(db, W, n) \in [Height -> V \cup {None}]
  BY <1>4, WrittenType
<1>6. ASSUME NEW i \in 1 .. n PROVE Written(db, W, n)[l[i].blockHeight] = l[i].value
  <2>1. \A j \in 1 .. n : j \in 1 .. Len(l)
    BY <1>1
  <2>2. ASSUME NEW j \in 1 .. n, W[j].key = l[i].blockHeight PROVE j <= i
    <3>1. l[j].blockHeight = l[i].blockHeight /\ l[i].blockHeight \in Int
      BY <1>2, <1>3, <2>1, <2>2
    <3>2. ~(i < j)
      BY <1>1, <2>1, <3>1 DEF InOrder
    <3> QED
      BY <3>2
  <2>3. l[i].blockHeight \in DOMAIN db /\ W[i].key = l[i].blockHeight /\ W[i].value = l[i].value
    BY <1>3, <2>1
  <2>4. LastTo(W, n, l[i].blockHeight, i)
    BY <2>2, <2>3 DEF LastTo
  <2> QED
    BY <1>1, <2>3, <2>4, WrittenAt
<1>7. ASSUME NEW h \in Height, \A i \in 1 .. n : l[i].blockHeight # h
      PROVE  Written(db, W, n)[h] = db[h]
  <2>1. NoneTo(W, n, h)
    BY <1>1, <1>3, <1>7 DEF NoneTo
  <2> QED
    BY <1>1, <2>1, WrittenAt
<1> QED
  BY <1>4, <1>5, <1>6, <1>7 DEF W

LEMMA DescendingIs ==
    ASSUME NEW S, IsFiniteSet(S), S \subseteq Int
    PROVE  /\ Cardinality(S) \in Nat
           /\ Descending(S) \in [1 .. Cardinality(S) -> S]
           /\ \A x \in S : \E i \in 1 .. Cardinality(S) : Descending(S)[i] = x
<1> DEFINE n == Cardinality(S)
           f == Ascending(S)
<1>1. /\ n \in Nat /\ f \in [1 .. n -> S]
      /\ \A x \in S : \E i \in 1 .. n : f[i] = x
  BY AscendingIs
<1>2. Descending(S) = [i \in 1 .. n |-> f[n + 1 - i]]
  BY DEF Descending
<1> HIDE DEF n, f
<1>3. \A i \in 1 .. n : n + 1 - i \in 1 .. n /\ n + 1 - (n + 1 - i) = i
  BY <1>1
<1>4. ASSUME NEW x \in S PROVE \E i \in 1 .. n : Descending(S)[i] = x
  <2>1. PICK j \in 1 .. n : f[j] = x
    BY <1>1
  <2>2. PICK i \in 1 .. n : i = n + 1 - j /\ n + 1 - i = j
    BY <1>3
  <2> QED
    BY <1>2, <2>1, <2>2
<1>5. Descending(S) \in [1 .. n -> S]
  BY <1>1, <1>2, <1>3
<1> QED
  BY <1>1, <1>4, <1>5 DEF n

\* the deletes of entries of a list, the last one first
Deletes(l, I) ==
    [i \in 1 .. Cardinality(I) |-> Write(l[Descending(I)[i]].blockHeight, None)]
Heights(l, I) == {l[i].blockHeight : i \in I}

(* The first n deletes leave the other entries as they are. *)
LEMMA DeletesWrite ==
    ASSUME NEW V, NEW db \in [Height -> V \cup {None}], NEW l \in Seq(EntryOf(V)),
           NEW I \in SUBSET DOMAIN l, NEW n \in 0 .. Cardinality(I)
    PROVE  /\ Deletes(l, I) \in Seq(Writes(V)) /\ Len(Deletes(l, I)) = Cardinality(I)
           /\ Cardinality(I) \in Nat
           /\ Written(db, Deletes(l, I), n) \in [Height -> V \cup {None}]
           /\ \A h \in Height : \/ Written(db, Deletes(l, I), n)[h] = db[h]
                                \/ h \in Heights(l, I) /\ Written(db, Deletes(l, I), n)[h] = None
           /\ n = Cardinality(I) =>
                 \A h \in Heights(l, I) : Written(db, Deletes(l, I), n)[h] = None
<1> DEFINE W == Deletes(l, I)
           c == Cardinality(I)
           f == Descending(I)
<1>1. IsFiniteSet(I) /\ I \subseteq Int /\ DOMAIN l = 1 .. Len(l) /\ Len(l) \in Nat
  <2>1. DOMAIN l = 1 .. Len(l) /\ Len(l) \in Nat
    OBVIOUS
  <2>2. IsFiniteSet(1 .. Len(l))
    BY <2>1, FS_Interval
  <2>3. I \in SUBSET (1 .. Len(l))
    BY <2>1
  <2> QED
    BY <2>1, <2>2, <2>3, FS_Subset
<1>2. c \in Nat /\ f \in [1 .. c -> I] /\ \A x \in I : \E i \in 1 .. c : f[i] = x
  BY <1>1, DescendingIs
<1>3. W = [i \in 1 .. c |-> Write(l[f[i]].blockHeight, None)]
  BY DEF Deletes
<1>4. \A i \in I : l[i].blockHeight \in Height
  <2>1. \A i \in I : l[i] \in EntryOf(V)
    BY <1>1
  <2> QED
    BY <2>1 DEF EntryOf
<1> HIDE DEF W, c, f
<1>5. ASSUME NEW i \in 1 .. c
      PROVE  W[i] \in Writes(V) /\ W[i].key = l[f[i]].blockHeight /\ W[i].value = None /\ f[i] \in I
  <2>1. f[i] \in I /\ l[f[i]].blockHeight \in Height
    BY <1>2, <1>4
  <2>2. W[i] = Write(l[f[i]].blockHeight, None)
    BY <1>3
  <2> QED
    BY <2>1, <2>2 DEF Write, Writes
<1>6. W \in Seq(Writes(V)) /\ Len(W) = c
  <2>1. W \in [1 .. c -> Writes(V)]
    BY <1>3, <1>5
  <2> QED
    BY <1>2, <2>1
<1>7. Written(db, W, n) \in [Height -> V \cup {None}]
  <2>1. n \in 0 .. Len(W)
    BY <1>6 DEF c
  <2> QED
    BY <1>6, <2>1, WrittenType
<1>8. n \in Nat /\ (\A i \in 1 .. n : i \in 1 .. c) /\ DOMAIN db = Height
  BY <1>2 DEF c
<1>9. ASSUME NEW h \in Height
      PROVE  \/ Written(db, W, n)[h] = db[h]
             \/ h \in Heights(l, I) /\ Written(db, W, n)[h] = None
  <2>1. CASE NoneTo(W, n, h)
    BY <1>8, <2>1, WrittenAt
  <2>2. ASSUME NEW i, LastTo(W, n, h, i)
        PROVE  h \in Heights(l, I) /\ Written(db, W, n)[h] = None
    <3>1. i \in 1 .. c /\ W[i].key = h
      BY <1>8, <2>2 DEF LastTo
    <3>2. Written(db, W, n)[h] = W[i].value
      BY <1>8, <2>2, WrittenAt
    <3> QED
      BY <1>5, <3>1, <3>2 DEF Heights
  <2> QED
    BY <1>8, <2>1, <2>2, WrittenAt
<1>10. ASSUME n = c, NEW h \in Heights(l, I) PROVE Written(db, W, n)[h] = None
  <2>1. PICK x \in I : h = l[x].blockHeight
    BY DEF Heights
  <2>2. PICK j \in 1 .. c : f[j] = x
    BY <1>2
  <2>3. h \in Height /\ W[j].key = h /\ j \in 1 .. n
    BY <1>4, <1>5, <1>10, <2>1, <2>2
  <2>4. ~NoneTo(W, n, h)
    BY <2>3 DEF NoneTo
  <2>5. PICK i : LastTo(W, n, h, i)
    BY <1>8, <2>3, <2>4, WrittenAt
  <2>6. Written(db, W, n)[h] = W[i].value /\ i \in 1 .. c
    BY <1>8, <2>3, <2>5, WrittenAt DEF LastTo
  <2> QED
    BY <1>5, <2>6
<1> QED
  BY <1>2, <1>6, <1>7, <1>9, <1>10 DEF W, c

(* The deletes of the two operations are of this form. *)
LEMMA DeletesAre ==
    ASSUME NEW V, NEW l \in Seq(EntryOf(V))
    PROVE  /\ DeleteNewer(l) = Deletes(l, Newer(l))
           /\ DeleteOld(l) = Deletes(l, Old(l) \ {Max(Old(l))})
           /\ Newer(l) \in SUBSET DOMAIN l /\ Old(l) \in SUBSET DOMAIN l
<1>1. Newer(l) \in SUBSET DOMAIN l /\ Old(l) \in SUBSET DOMAIN l
  BY DEF Newer, Old
<1>2. \A I : DOMAIN Descending(I) = 1 .. Cardinality(I)
  BY DEF Descending
<1>3. DeleteNewer(l) = Deletes(l, Newer(l))
  BY <1>2 DEF DeleteNewer, Deletes
<1>4. CASE Old(l) = {}
  <2>1. Cardinality(Old(l) \ {Max(Old(l))}) = 0
    BY <1>4, FS_EmptySet
  <2>2. DeleteOld(l) = [i \in DOMAIN <<>> |-> Write(l[(<<>>)[i]].blockHeight, None)]
    BY <1>4 DEF DeleteOld
  <2>3. DeleteOld(l) = <<>> /\ 1 .. 0 = {}
    BY <2>2
  <2>4. Deletes(l, Old(l) \ {Max(Old(l))}) = <<>>
    <3>1. PICK I : I = Old(l) \ {Max(Old(l))}
      OBVIOUS
    <3>2. Deletes(l, I) = [i \in 1 .. 0 |-> Write(l[Descending(I)[i]].blockHeight, None)]
      BY <2>1, <3>1 DEF Deletes
    <3>3. Deletes(l, I) \in Seq({}) /\ Len(Deletes(l, I)) = 0
      BY <2>3, <3>2
    <3> QED
      BY <3>1, <3>3
  <2> QED
    BY <1>1, <1>3, <2>3, <2>4
<1>5. CASE Old(l) # {}
  BY <1>1, <1>2, <1>3, <1>5 DEF DeleteOld, Deletes
<1> QED
  BY <1>4, <1>5

-----------------------------------------------------------------------------
(* What the operations do to a list and to its bucket. *)

(* New entries at the end. *)
LEMMA AppendListed ==
    ASSUME NEW V, NEW db \in [Height -> V \cup {None}], NEW l, Listed(l, db, V),
           NEW new \in Seq(EntryOf(V)), InOrder(l \o new),
           NEW d \in [Height -> V \cup {None}], None \notin V,
           \A i \in DOMAIN new : d[new[i].blockHeight] = new[i].value,
           \A h \in Height : (\A i \in DOMAIN new : new[i].blockHeight # h) => d[h] = db[h]
    PROVE  Listed(l \o new, d, V)
<1> DEFINE m == l \o new
           a == Len(l)
<1>1. /\ l \in Seq(EntryOf(V)) /\ a \in Nat /\ Len(new) \in Nat /\ m \in Seq(EntryOf(V))
      /\ DOMAIN l = 1 .. a /\ DOMAIN new = 1 .. Len(new) /\ DOMAIN m = 1 .. a + Len(new)
      /\ \A i \in DOMAIN l : m[i] = l[i] /\ i \in DOMAIN m
      /\ \A i \in DOMAIN new : m[a + i] = new[i] /\ a + i \in DOMAIN m
  BY DEF Listed
<1>2. \A i \in DOMAIN m : i \in DOMAIN l \/ (i - a \in DOMAIN new /\ m[i] = new[i - a])
  <2>1. ASSUME NEW i \in DOMAIN m, i \notin DOMAIN l PROVE i - a \in DOMAIN new /\ i = a + (i - a)
    BY <1>1, <2>1
  <2>2. ASSUME NEW i \in DOMAIN m, i \notin DOMAIN l PROVE m[i] = new[i - a]
    <3>1. PICK j \in DOMAIN new : i = a + j /\ j = i - a
      BY <2>1, <2>2
    <3> QED
      BY <1>1, <3>1
  <2> QED
    BY <2>1, <2>2
<1>3. \A i \in DOMAIN new :
         /\ new[i].blockHeight \in Height /\ new[i].value \in V
         /\ new[i] = Entry(new[i].blockHeight, new[i].value)
  <2>1. \A i \in DOMAIN new : new[i] \in EntryOf(V)
    BY <1>1
  <2> QED
    BY <2>1 DEF EntryOf, Entry
<1>4. \A h, v : Entry(h, v).blockHeight = h /\ Entry(h, v).value = v
  BY DEF Entry
<1>5. Height \subseteq Int
  BY ManagementAssumption DEF Height
<1> HIDE DEF m, a
<1>6. ASSUME NEW i \in DOMAIN new
      PROVE  new[i].blockHeight \in Keys(d) /\ new[i] = Entry(new[i].blockHeight, d[new[i].blockHeight])
  BY <1>3 DEF Keys
<1>7. ASSUME NEW i \in DOMAIN l
      PROVE  \E h \in Keys(d) : h \in Keys(db) /\ l[i] = Entry(h, d[h]) /\ d[h] = db[h]
  <2>1. PICK h \in Keys(db) : l[i] = Entry(h, db[h])
    BY DEF Listed
  <2>2. h \in Height /\ l[i].blockHeight = h /\ db[h] # None
    BY <1>4, <2>1 DEF Keys
  <2>3. ASSUME NEW j \in DOMAIN new, new[j].blockHeight = h PROVE FALSE
    <3>1. i < a + j /\ m[i] = l[i] /\ m[a + j] = new[j] /\ i \in DOMAIN m /\ a + j \in DOMAIN m
      BY <1>1
    <3>2. m[i].blockHeight < m[a + j].blockHeight
      BY <3>1 DEF InOrder, m
    <3> QED
      BY <1>5, <2>2, <2>3, <3>1, <3>2
  <2>4. d[h] = db[h]
    BY <2>2, <2>3
  <2> QED
    BY <2>1, <2>2, <2>4 DEF Keys
<1>8. \A i \in DOMAIN m : \E h \in Keys(d) : m[i] = Entry(h, d[h])
  <2>1. ASSUME NEW i \in DOMAIN m PROVE \E h \in Keys(d) : m[i] = Entry(h, d[h])
    <3>1. CASE i \in DOMAIN l
      BY <1>1, <1>7, <3>1
    <3>2. CASE i - a \in DOMAIN new /\ m[i] = new[i - a]
      BY <1>6, <3>2
    <3> QED
      BY <1>2, <3>1, <3>2
  <2> QED
    BY <2>1
<1>9. ASSUME NEW h \in Keys(d) PROVE \E i \in DOMAIN m : m[i] = Entry(h, d[h])
  <2>1. h \in Height /\ d[h] # None
    BY DEF Keys
  <2>2. CASE \E i \in DOMAIN new : new[i].blockHeight = h
    BY <1>1, <1>6, <2>2
  <2>3. CASE \A i \in DOMAIN new : new[i].blockHeight # h
    <3>1. d[h] = db[h]
      BY <2>1, <2>3
    <3>2. h \in Keys(db)
      BY <2>1, <3>1 DEF Keys
    <3>3. PICK i \in DOMAIN l : l[i] = Entry(h, db[h])
      BY <3>2 DEF Listed
    <3> QED
      BY <1>1, <3>1, <3>3
  <2> QED
    BY <2>2, <2>3
<1> QED
  BY <1>1, <1>8, <1>9 DEF Listed, m

(* The entries from the x-th to the y-th. *)
LEMMA SubListed ==
    ASSUME NEW V, NEW db \in [Height -> V \cup {None}], NEW l, Listed(l, db, V),
           NEW x \in 1 .. Len(l) + 1, NEW y \in x - 1 .. Len(l), NEW d,
           d \in [Height -> V \cup {None}],
           \A i \in x .. y : d[l[i].blockHeight] = db[l[i].blockHeight],
           \A h \in Height : (\A i \in x .. y : l[i].blockHeight # h) => d[h] = None
    PROVE  Listed(SubSeq(l, x, y), d, V)
<1> DEFINE m == SubSeq(l, x, y)
<1>1. /\ l \in Seq(EntryOf(V)) /\ DOMAIN l = 1 .. Len(l) /\ Len(l) \in Nat
      /\ x \in Int /\ y \in Int /\ \A i \in x .. y : i \in DOMAIN l
  BY DEF Listed
<1>2. m \in Seq(EntryOf(V)) /\ DOMAIN m = 1 .. y - x + 1
      /\ \A i \in DOMAIN m : m[i] = l[x + i - 1] /\ x + i - 1 \in x .. y
  <2>1. m = [i \in 1 .. y - x + 1 |-> l[x + i - 1]] /\ y - x + 1 \in Nat
    BY <1>1
  <2>2. \A i \in 1 .. y - x + 1 : x + i - 1 \in x .. y /\ l[x + i - 1] \in EntryOf(V)
    <3>1. \A i \in 1 .. y - x + 1 : x + i - 1 \in x .. y
      BY <1>1
    <3> QED
      BY <1>1, <3>1
  <2> HIDE DEF m
  <2>3. m \in [1 .. y - x + 1 -> EntryOf(V)]
    BY <2>1, <2>2
  <2>4. PICK k \in Nat : k = y - x + 1
    BY <2>1
  <2>5. m \in Seq(EntryOf(V)) /\ DOMAIN m = 1 .. k
    BY <2>3, <2>4
  <2>6. \A i \in 1 .. k : m[i] = l[x + i - 1]
    BY <2>1, <2>4
  <2> QED
    BY <2>2, <2>4, <2>5, <2>6
<1>3. \A i \in x .. y : i - x + 1 \in DOMAIN m /\ m[i - x + 1] = l[i]
  <2>1. ASSUME NEW i \in x .. y PROVE i - x + 1 \in DOMAIN m /\ x + (i - x + 1) - 1 = i
    BY <1>1, <1>2
  <2> HIDE DEF m
  <2> QED
    BY <1>2, <2>1
<1>4. \A h, v : Entry(h, v).blockHeight = h /\ Entry(h, v).value = v
  BY DEF Entry
<1> HIDE DEF m
<1>5. InOrder(m)
  <2>1. ASSUME NEW i \in DOMAIN m, NEW j \in DOMAIN m, i < j
        PROVE  m[i].blockHeight < m[j].blockHeight
    <3>1. PICK p \in DOMAIN l, q \in DOMAIN l : p < q /\ m[i] = l[p] /\ m[j] = l[q]
      <4>1. x + i - 1 < x + j - 1
        BY <1>1, <1>2, <2>1
      <4> QED
        BY <1>1, <1>2, <4>1
    <3> QED
      BY <3>1 DEF Listed, InOrder
  <2> QED
    BY <2>1 DEF InOrder
<1>6. ASSUME NEW i \in x .. y
      PROVE  l[i].blockHeight \in Keys(d) /\ l[i] = Entry(l[i].blockHeight, d[l[i].blockHeight])
  <2>1. PICK h \in Keys(db) : l[i] = Entry(h, db[h])
    BY <1>1 DEF Listed
  <2>2. l[i].blockHeight = h /\ d[h] = db[h]
    BY <1>4, <2>1
  <2> QED
    BY <2>1, <2>2 DEF Keys
<1>7. \A i \in DOMAIN m : \E h \in Keys(d) : m[i] = Entry(h, d[h])
  BY <1>2, <1>6
<1>8. ASSUME NEW h \in Keys(d) PROVE \E i \in DOMAIN m : m[i] = Entry(h, d[h])
  <2>1. h \in Height /\ d[h] # None
    BY DEF Keys
  <2>2. PICK i \in x .. y : l[i].blockHeight = h
    BY <2>1
  <2> QED
    BY <1>3, <1>6, <2>2
<1> QED
  BY <1>2, <1>5, <1>7, <1>8 DEF Listed, m

(* The least of finitely many numbers. *)
LEMMA MinOfFinite ==
    ASSUME NEW m \in Nat, NEW S \in SUBSET (0 .. m), S # {}
    PROVE  Min(S) \in S /\ \A y \in S : Min(S) <= y
<1>1. \E x \in S : \A y \in S : x <= y
  BY Least
<1>2. Min(S) = CHOOSE x \in S : \A y \in S : x <= y
  BY DEF Min
<1> QED
  BY <1>1, <1>2

\* the heights of a list, and the entries at them
LEMMA ListEntries ==
    ASSUME NEW V, NEW l \in Seq(EntryOf(V))
    PROVE  /\ Len(l) \in Nat /\ DOMAIN l = 1 .. Len(l)
           /\ \A i \in DOMAIN l : /\ l[i].blockHeight \in Height /\ l[i].blockHeight \in Int
                                  /\ l[i].value \in V
                                  /\ l[i] = Entry(l[i].blockHeight, l[i].value)
<1>1. Len(l) \in Nat /\ DOMAIN l = 1 .. Len(l) /\ \A i \in DOMAIN l : l[i] \in EntryOf(V)
  OBVIOUS
<1>2. Height \subseteq Int
  BY ManagementAssumption DEF Height
<1> QED
  BY <1>1, <1>2 DEF EntryOf, Entry

(* The old entries of a list are its first ones. *)
LEMMA OldIs ==
    ASSUME NEW V, NEW l \in Seq(EntryOf(V)), InOrder(l), Old(l) # {}, info.prevCalcDone \in Int
    PROVE  /\ Max(Old(l)) \in DOMAIN l /\ Max(Old(l)) \in Int
           /\ l[Max(Old(l))].blockHeight <= info.prevCalcDone
           /\ \A i \in DOMAIN l : i \in Old(l) <=> i <= Max(Old(l))
<1>1. /\ Len(l) \in Nat /\ DOMAIN l = 1 .. Len(l)
      /\ \A i \in DOMAIN l : l[i].blockHeight \in Int
  BY ListEntries
<1>2. IsFiniteSet(Old(l)) /\ Old(l) \subseteq Int
  <2>1. Old(l) \in SUBSET (1 .. Len(l)) /\ IsFiniteSet(1 .. Len(l))
    BY <1>1, FS_Interval DEF Old
  <2> QED
    BY <2>1, FS_Subset
<1>3. Max(Old(l)) \in Old(l) /\ \A j \in Old(l) : Max(Old(l)) >= j
  BY <1>2, MaxOfFinite
<1>4. PICK x \in DOMAIN l : x = Max(Old(l)) /\ x \in Old(l)
  BY <1>3 DEF Old
<1>5. l[x].blockHeight <= info.prevCalcDone
  BY <1>4 DEF Old
<1>6. ASSUME NEW i \in DOMAIN l, i <= x PROVE i \in Old(l)
  <2>1. CASE i = x
    BY <1>4, <2>1
  <2>2. CASE i < x
    <3>1. l[i].blockHeight < l[x].blockHeight
      BY <1>4, <2>2 DEF InOrder
    <3>2. l[i].blockHeight <= info.prevCalcDone
      BY <1>1, <1>4, <1>5, <3>1
    <3> QED
      BY <3>2 DEF Old
  <2> QED
    BY <1>1, <1>6, <2>1, <2>2
<1>7. ASSUME NEW i \in DOMAIN l, i \in Old(l) PROVE i <= x
  BY <1>1, <1>3, <1>4, <1>7
<1> QED
  BY <1>1, <1>4, <1>5, <1>6, <1>7

(* The entries a rollback removes are the last ones. *)
LEMMA NewerIs ==
    ASSUME NEW V, NEW l \in Seq(EntryOf(V)), InOrder(l), Newer(l) # {}, tip \in Int
    PROVE  /\ Min(Newer(l)) \in DOMAIN l /\ Min(Newer(l)) \in Int
           /\ \A i \in DOMAIN l : i \in Newer(l) <=> Min(Newer(l)) <= i
<1>1. /\ Len(l) \in Nat /\ DOMAIN l = 1 .. Len(l)
      /\ \A i \in DOMAIN l : l[i].blockHeight \in Int
  BY ListEntries
<1>2. Newer(l) \in SUBSET (0 .. Len(l)) /\ Newer(l) \subseteq DOMAIN l
  BY <1>1 DEF Newer
<1>3. Min(Newer(l)) \in Newer(l) /\ \A j \in Newer(l) : Min(Newer(l)) <= j
  BY <1>1, <1>2, MinOfFinite
<1>4. PICK x \in DOMAIN l : x = Min(Newer(l)) /\ x \in Newer(l)
  BY <1>2, <1>3
<1>5. l[x].blockHeight > tip
  BY <1>4 DEF Newer
<1>6. ASSUME NEW i \in DOMAIN l, x <= i PROVE i \in Newer(l)
  <2>1. CASE i = x
    BY <1>4, <2>1
  <2>2. CASE x < i
    <3>1. l[x].blockHeight < l[i].blockHeight
      BY <1>4, <2>2 DEF InOrder
    <3>2. l[i].blockHeight > tip
      BY <1>1, <1>4, <1>5, <3>1
    <3> QED
      BY <3>2 DEF Newer
  <2> QED
    BY <1>1, <1>6, <2>1, <2>2
<1>7. ASSUME NEW i \in DOMAIN l, i \in Newer(l) PROVE x <= i
  BY <1>3, <1>4, <1>7
<1> QED
  BY <1>1, <1>4, <1>6, <1>7

(* RollbackManagementDB: what is newer than the tip goes, from memory and,   *)
(* as far as it got, from the DB.                                            *)
LEMMA RollbackLists ==
    ASSUME NEW V, NEW db \in [Height -> V \cup {None}], NEW l, Listed(l, db, V), tip \in Int,
           NEW n \in 0 .. Len(DeleteNewer(l)), NEW d, d = Written(db, DeleteNewer(l), n)
    PROVE  /\ d \in [Height -> V \cup {None}]
           /\ \A h \in Height : d[h] = db[h] \/ (h > tip /\ d[h] = None)
           /\ n = Len(DeleteNewer(l)) =>
                 (\A h \in Keys(d) : h <= tip) /\ Listed(WithoutNewer(l), d, V)
<1> DEFINE I == Newer(l)
<1>1. /\ l \in Seq(EntryOf(V)) /\ InOrder(l)
      /\ Len(l) \in Nat /\ DOMAIN l = 1 .. Len(l)
      /\ \A i \in DOMAIN l : l[i].blockHeight \in Height /\ l[i].blockHeight \in Int
  BY ListEntries DEF Listed
<1>2. DeleteNewer(l) = Deletes(l, I) /\ I \in SUBSET DOMAIN l
  BY <1>1, DeletesAre
<1>3. \A i \in DOMAIN l : i \in I <=> l[i].blockHeight > tip
  BY DEF Newer
<1>4. \A h \in Heights(l, I) : h > tip
  BY <1>2, <1>3 DEF Heights
<1>5. Len(Deletes(l, I)) = Cardinality(I) /\ Cardinality(I) \in Nat
  <2>1. IsFiniteSet(I)
    <3>1. I \in SUBSET (1 .. Len(l)) /\ IsFiniteSet(1 .. Len(l))
      BY <1>1, <1>2, FS_Interval
    <3> QED
      BY <3>1, FS_Subset
  <2>2. Cardinality(I) \in Nat
    BY <2>1, FS_CardinalityType
  <2>3. 0 \in 0 .. Cardinality(I)
    BY <2>2
  <2> HIDE DEF I
  <2> QED
    BY <1>1, <1>2, <2>2, <2>3, DeletesWrite
<1>6. n \in 0 .. Cardinality(I)
  BY <1>2, <1>5
<1> HIDE DEF I
<1>7. /\ d \in [Height -> V \cup {None}]
      /\ \A h \in Height : d[h] = db[h] \/ (h \in Heights(l, I) /\ d[h] = None)
      /\ n = Cardinality(I) => \A h \in Heights(l, I) : d[h] = None
  BY <1>1, <1>2, <1>6, DeletesWrite
<1>8. ASSUME n = Cardinality(I)
      PROVE  (\A h \in Keys(d) : h <= tip) /\ Listed(WithoutNewer(l), d, V)
  <2>1. ASSUME NEW h \in Keys(d) PROVE h <= tip
    <3>1. h \in Height /\ d[h] # None /\ h \in Int
      BY <1>7, ManagementAssumption DEF Keys, Height
    <3>2. h \notin Heights(l, I) /\ d[h] = db[h]
      BY <1>7, <1>8, <3>1
    <3>3. h \in Keys(db)
      BY <3>1, <3>2 DEF Keys
    <3>4. PICK i \in DOMAIN l : l[i] = Entry(h, db[h])
      BY <3>3 DEF Listed
    <3>5. l[i].blockHeight = h
      BY <3>4 DEF Entry
    <3>6. i \notin I
      BY <3>2, <3>5 DEF Heights
    <3> QED
      BY <1>3, <3>1, <3>5, <3>6
  <2>2. PICK y \in 0 .. Len(l) : /\ WithoutNewer(l) = SubSeq(l, 1, y)
                                 /\ \A i \in DOMAIN l : i \in I <=> y < i
    <3>1. CASE I = {}
      <4>1. WithoutNewer(l) = l /\ l = SubSeq(l, 1, Len(l))
        BY <1>1, <3>1 DEF WithoutNewer, I
      <4>2. \A i \in DOMAIN l : ~(Len(l) < i) /\ i \notin I
        BY <1>1, <3>1
      <4>3. Len(l) \in 0 .. Len(l)
        BY <1>1
      <4> QED
        BY <4>1, <4>2, <4>3
    <3>2. CASE I # {}
      <4>1. /\ Min(I) \in DOMAIN l /\ Min(I) \in Int
            /\ \A i \in DOMAIN l : i \in I <=> Min(I) <= i
        BY <1>1, <3>2, NewerIs DEF I
      <4>2. WithoutNewer(l) = SubSeq(l, 1, Min(I) - 1)
        BY <3>2 DEF WithoutNewer, I
      <4>3. Min(I) - 1 \in 0 .. Len(l) /\ \A i \in DOMAIN l : Min(I) <= i <=> Min(I) - 1 < i
        BY <1>1, <4>1
      <4> QED
        BY <4>1, <4>2, <4>3
    <3> QED
      BY <3>1, <3>2
  <2>3. ASSUME NEW i \in 1 .. y PROVE d[l[i].blockHeight] = db[l[i].blockHeight]
    <3>1. i \in DOMAIN l /\ i \notin I
      BY <1>1, <2>2
    <3>2. l[i].blockHeight \notin Heights(l, I)
      BY <1>1, <1>3, <1>4, <3>1
    <3> QED
      BY <1>1, <1>7, <3>1, <3>2
  <2>4. ASSUME NEW h \in Height, \A i \in 1 .. y : l[i].blockHeight # h PROVE d[h] = None
    <3>1. CASE h \in Keys(db)
      <4>1. PICK i \in DOMAIN l : l[i] = Entry(h, db[h])
        BY <3>1 DEF Listed
      <4>2. l[i].blockHeight = h
        BY <4>1 DEF Entry
      <4>3. i \in I
        BY <1>1, <2>2, <2>4, <4>2
      <4>4. h \in Heights(l, I)
        BY <4>2, <4>3 DEF Heights
      <4> QED
        BY <1>7, <1>8, <4>4
    <3>2. CASE h \notin Keys(db)
      BY <1>7, <3>2 DEF Keys
    <3> QED
      BY <3>1, <3>2
  <2>5. 1 \in 1 .. Len(l) + 1 /\ y \in 1 - 1 .. Len(l)
    BY <1>1
  <2>6. Listed(SubSeq(l, 1, y), d, V)
    BY <1>7, <2>3, <2>4, <2>5, SubListed
  <2> QED
    BY <2>1, <2>2, <2>6
<1> QED
  BY <1>2, <1>4, <1>5, <1>7, <1>8

\* the writes of an update, and what a bucket may have after some of them
UpdateWrites(l, new) == Sets(new) \o DeleteOld(l \o new)
Origin(db, new, d) ==
    \A h \in Keys(d) : \/ h \in Keys(db) /\ d[h] = db[h]
                       \/ \E i \in DOMAIN new : new[i] = Entry(h, d[h])
NotYet(new, d, h) == h \in Heights(new, DOMAIN new) /\ \A k \in Keys(d) : k < h
Replaced(d, h) == \E g \in Keys(d) : h < g /\ g <= info.prevCalcDone

(* The parts of a list that two lists make. *)
LEMMA Parts ==
    ASSUME NEW V, NEW l \in Seq(EntryOf(V)), NEW new \in Seq(EntryOf(V)), InOrder(l \o new)
    PROVE  /\ l \o new \in Seq(EntryOf(V)) /\ InOrder(new) /\ InOrder(l)
           /\ \A i \in DOMAIN l, j \in DOMAIN new : l[i].blockHeight < new[j].blockHeight
<1>1. /\ Len(l) \in Nat /\ Len(new) \in Nat /\ l \o new \in Seq(EntryOf(V))
      /\ DOMAIN l = 1 .. Len(l) /\ DOMAIN new = 1 .. Len(new)
      /\ DOMAIN (l \o new) = 1 .. Len(l) + Len(new)
      /\ \A i \in DOMAIN l : (l \o new)[i] = l[i]
      /\ \A i \in DOMAIN new : (l \o new)[Len(l) + i] = new[i]
  OBVIOUS
<1>2. \A i \in DOMAIN l : i \in DOMAIN (l \o new)
  BY <1>1
<1>3. \A i \in DOMAIN new : Len(l) + i \in DOMAIN (l \o new)
  BY <1>1
<1>4. InOrder(l)
  BY <1>1, <1>2 DEF InOrder
<1>5. ASSUME NEW i \in DOMAIN new, NEW j \in DOMAIN new, i < j
      PROVE  new[i].blockHeight < new[j].blockHeight
  <2>1. Len(l) + i < Len(l) + j
    BY <1>1, <1>5
  <2>2. (l \o new)[Len(l) + i].blockHeight < (l \o new)[Len(l) + j].blockHeight
    BY <1>3, <2>1 DEF InOrder
  <2> QED
    BY <1>1, <2>2
<1>6. ASSUME NEW i \in DOMAIN l, NEW j \in DOMAIN new
      PROVE  l[i].blockHeight < new[j].blockHeight
  <2>1. i < Len(l) + j
    BY <1>1
  <2>2. (l \o new)[i].blockHeight < (l \o new)[Len(l) + j].blockHeight
    BY <1>2, <1>3, <2>1 DEF InOrder
  <2> QED
    BY <1>1, <2>2
<1> QED
  BY <1>1, <1>4, <1>5, <1>6 DEF InOrder

(* The new entries are written first, in order: what is missing is newer    *)
(* than everything the bucket has.                                          *)
LEMMA SetsLists ==
    ASSUME NEW V, None \notin V, NEW db \in [Height -> V \cup {None}], NEW l, Listed(l, db, V),
           NEW new \in Seq(EntryOf(V)), InOrder(l \o new), NEW n \in 0 .. Len(new),
           NEW d, d = Written(db, Sets(new), n)
    PROVE  /\ d \in [Height -> V \cup {None}]
           /\ Origin(db, new, d)
           /\ \A h \in Keys(db) : h \in Keys(d)
           /\ \A h \in Heights(new, DOMAIN new) : h \in Keys(d) \/ NotYet(new, d, h)
           /\ n = Len(new) => Listed(l \o new, d, V) /\ \A h \in Heights(new, DOMAIN new) : h \in Keys(d)
<1>1. /\ l \in Seq(EntryOf(V)) /\ Len(new) \in Nat /\ DOMAIN new = 1 .. Len(new)
      /\ \A i \in DOMAIN new : /\ new[i].blockHeight \in Height /\ new[i].blockHeight \in Int
                               /\ new[i].value \in V
                               /\ new[i] = Entry(new[i].blockHeight, new[i].value)
  BY ListEntries DEF Listed
<1>2. InOrder(new) /\ \A i \in DOMAIN l, j \in DOMAIN new : l[i].blockHeight < new[j].blockHeight
  BY <1>1, Parts
<1>3. /\ d \in [Height -> V \cup {None}]
      /\ \A i \in 1 .. n : d[new[i].blockHeight] = new[i].value
      /\ \A h \in Height : (\A i \in 1 .. n : new[i].blockHeight # h) => d[h] = db[h]
  BY <1>2, SetsWrite
<1>4. \A i \in 1 .. n : i \in DOMAIN new
  BY <1>1
<1>5. \A h, v : Entry(h, v).blockHeight = h /\ Entry(h, v).value = v
  BY DEF Entry
<1>6. \A h \in Keys(db) : h \in Height /\ \E i \in DOMAIN l : l[i].blockHeight = h
  BY <1>5 DEF Listed, Keys
<1>7. ASSUME NEW i \in 1 .. n PROVE new[i].blockHeight \in Keys(d) /\ new[i] = Entry(new[i].blockHeight, d[new[i].blockHeight])
  <2>1. i \in DOMAIN new
    BY <1>4
  <2>2. new[i].blockHeight \in Height /\ new[i].value \in V
        /\ new[i] = Entry(new[i].blockHeight, new[i].value)
    BY <1>1, <2>1
  <2>3. d[new[i].blockHeight] = new[i].value
    BY <1>3
  <2>4. d[new[i].blockHeight] # None /\ DOMAIN d = Height
    BY <1>3, <2>2, <2>3
  <2>5. new[i].blockHeight \in Keys(d)
    BY <2>2, <2>4 DEF Keys
  <2> QED
    BY <2>2, <2>3, <2>5
<1>8. ASSUME NEW h \in Keys(d) PROVE \/ h \in Keys(db) /\ d[h] = db[h]
                                     \/ \E i \in 1 .. n : new[i] = Entry(h, d[h]) /\ new[i].blockHeight = h
  <2>1. h \in Height /\ d[h] # None
    BY <1>3 DEF Keys
  <2>2. CASE \E i \in 1 .. n : new[i].blockHeight = h
    BY <1>7, <2>2
  <2>3. CASE \A i \in 1 .. n : new[i].blockHeight # h
    <3>1. d[h] = db[h]
      BY <1>3, <2>1, <2>3
    <3> QED
      BY <2>1, <3>1 DEF Keys
  <2> QED
    BY <2>2, <2>3
<1>9. Origin(db, new, d)
  BY <1>4, <1>8 DEF Origin
<1>10. ASSUME NEW h \in Keys(db) PROVE h \in Keys(d)
  <2>1. h \in Height /\ db[h] # None
    BY DEF Keys
  <2>2. ASSUME NEW i \in 1 .. n, new[i].blockHeight = h PROVE FALSE
    <3>1. PICK j \in DOMAIN l : l[j].blockHeight = h
      BY <1>6
    <3>2. i \in DOMAIN new
      BY <1>4
    <3>3. h < h
      BY <1>2, <2>2, <3>1, <3>2
    <3>4. h \in Int
      BY <2>1, ManagementAssumption DEF Height
    <3> QED
      BY <3>3, <3>4
  <2>3. d[h] = db[h]
    BY <1>3, <2>1, <2>2
  <2> QED
    BY <1>3, <2>1, <2>3 DEF Keys
<1>11. ASSUME NEW j \in DOMAIN new, j \notin 1 .. n PROVE NotYet(new, d, new[j].blockHeight)
  <2>1. ASSUME NEW k \in Keys(d) PROVE k < new[j].blockHeight
    <3>1. CASE k \in Keys(db)
      BY <1>2, <1>6, <3>1
    <3>2. CASE \E i \in 1 .. n : new[i].blockHeight = k
      <4>1. PICK i \in 1 .. n : new[i].blockHeight = k
        BY <3>2
      <4>2. i < j /\ i \in DOMAIN new
        BY <1>1, <1>4, <1>11
      <4> QED
        BY <1>2, <4>1, <4>2 DEF InOrder
    <3> QED
      BY <1>8, <3>1, <3>2
  <2> QED
    BY <2>1 DEF NotYet, Heights
<1>12. \A h \in Heights(new, DOMAIN new) : h \in Keys(d) \/ NotYet(new, d, h)
  <2>1. \A j \in DOMAIN new : j \in 1 .. n => new[j].blockHeight \in Keys(d)
    BY <1>7
  <2>2. \A j \in DOMAIN new : new[j].blockHeight \in Keys(d) \/ NotYet(new, d, new[j].blockHeight)
    BY <1>11, <2>1
  <2> QED
    BY <2>2 DEF Heights
<1>13. ASSUME n = Len(new)
       PROVE  Listed(l \o new, d, V) /\ \A h \in Heights(new, DOMAIN new) : h \in Keys(d)
  <2>1. \A i \in DOMAIN new : i \in 1 .. n
    BY <1>1, <1>13
  <2>2. \A i \in DOMAIN new : d[new[i].blockHeight] = new[i].value
    BY <1>3, <2>1
  <2>3. \A h \in Height : (\A i \in DOMAIN new : new[i].blockHeight # h) => d[h] = db[h]
    BY <1>3, <1>4
  <2>4. Listed(l \o new, d, V)
    BY <1>3, <2>2, <2>3, AppendListed
  <2>5. \A h \in Heights(new, DOMAIN new) : h \in Keys(d)
    BY <1>7, <2>1 DEF Heights
  <2> QED
    BY <2>4, <2>5
<1> QED
  BY <1>3, <1>9, <1>10, <1>12, <1>13

(* Then the old entries are deleted, but for the newest of them. *)
LEMMA OldLists ==
    ASSUME NEW V, NEW db \in [Height -> V \cup {None}], NEW m, Listed(m, db, V),
           info.prevCalcDone \in Int,
           NEW n \in 0 .. Len(DeleteOld(m)), NEW d, d = Written(db, DeleteOld(m), n)
    PROVE  /\ d \in [Height -> V \cup {None}]
           /\ \A h \in Keys(d) : h \in Keys(db) /\ d[h] = db[h]
           /\ \A h \in Keys(db) : h \in Keys(d) \/ Replaced(d, h)
           /\ n = Len(DeleteOld(m)) => Listed(WithoutOld(m), d, V)
<1> DEFINE I == Old(m) \ {Max(Old(m))}
<1>1. /\ m \in Seq(EntryOf(V)) /\ InOrder(m)
      /\ Len(m) \in Nat /\ DOMAIN m = 1 .. Len(m)
      /\ \A i \in DOMAIN m : m[i].blockHeight \in Height /\ m[i].blockHeight \in Int
  BY ListEntries DEF Listed
<1>2. DeleteOld(m) = Deletes(m, I) /\ I \in SUBSET DOMAIN m
  BY <1>1, DeletesAre
<1>3. Len(Deletes(m, I)) = Cardinality(I) /\ Cardinality(I) \in Nat
  <2>1. IsFiniteSet(I)
    <3>1. I \in SUBSET (1 .. Len(m)) /\ IsFiniteSet(1 .. Len(m))
      BY <1>1, <1>2, FS_Interval
    <3> QED
      BY <3>1, FS_Subset
  <2>2. Cardinality(I) \in Nat
    BY <2>1, FS_CardinalityType
  <2>3. 0 \in 0 .. Cardinality(I)
    BY <2>2
  <2> HIDE DEF I
  <2> QED
    BY <1>1, <1>2, <2>2, <2>3, DeletesWrite
<1>4. PICK x \in 1 .. Len(m) + 1 :
         /\ WithoutOld(m) = SubSeq(m, x, Len(m))
         /\ \A i \in DOMAIN m : i \in I <=> i < x
         /\ I # {} => x \in DOMAIN m /\ m[x].blockHeight <= info.prevCalcDone
  <2>1. CASE Old(m) = {}
    <3>1. WithoutOld(m) = m /\ m = SubSeq(m, 1, Len(m))
      BY <1>1, <2>1 DEF WithoutOld
    <3>2. I = {} /\ \A i \in DOMAIN m : ~(i < 1)
      BY <1>1, <2>1
    <3>3. 1 \in 1 .. Len(m) + 1
      BY <1>1
    <3> HIDE DEF I
    <3> QED
      BY <3>1, <3>2, <3>3
  <2>2. CASE Old(m) # {}
    <3>1. PICK x \in DOMAIN m :
             /\ x = Max(Old(m)) /\ m[x].blockHeight <= info.prevCalcDone
             /\ \A i \in DOMAIN m : i \in Old(m) <=> i <= x
      BY <1>1, <2>2, OldIs
    <3>2. \A i \in DOMAIN m : i \in I <=> i < x
      BY <1>1, <3>1
    <3>3. WithoutOld(m) = SubSeq(m, x, Len(m))
      BY <2>2, <3>1 DEF WithoutOld
    <3>4. x \in 1 .. Len(m) + 1
      BY <1>1
    <3> HIDE DEF I
    <3> QED
      BY <3>1, <3>2, <3>3, <3>4
  <2> QED
    BY <2>1, <2>2
<1> HIDE DEF I
<1>5. n \in 0 .. Cardinality(I)
  BY <1>2, <1>3
<1>6. /\ d \in [Height -> V \cup {None}]
      /\ \A h \in Height : d[h] = db[h] \/ (h \in Heights(m, I) /\ d[h] = None)
      /\ n = Cardinality(I) => \A h \in Heights(m, I) : d[h] = None
  BY <1>1, <1>2, <1>5, DeletesWrite
<1>7. \A h, v : Entry(h, v).blockHeight = h /\ Entry(h, v).value = v
  BY DEF Entry
<1>8. \A h \in Keys(d) : h \in Keys(db) /\ d[h] = db[h]
  BY <1>6 DEF Keys
<1>9. ASSUME NEW i \in DOMAIN m, i \notin I
      PROVE  d[m[i].blockHeight] = db[m[i].blockHeight] /\ m[i].blockHeight \in Keys(d)
  <2>1. ASSUME m[i].blockHeight \in Heights(m, I) PROVE FALSE
    <3>1. PICK j \in I : m[j].blockHeight = m[i].blockHeight
      BY <2>1 DEF Heights
    <3>2. j < i /\ j \in DOMAIN m
      BY <1>1, <1>2, <1>4, <1>9
    <3>3. m[j].blockHeight < m[i].blockHeight
      BY <1>1, <3>2 DEF InOrder
    <3> QED
      BY <1>1, <3>1, <3>2, <3>3
  <2>2. d[m[i].blockHeight] = db[m[i].blockHeight]
    BY <1>1, <1>6, <2>1
  <2>3. m[i].blockHeight \in Keys(db)
    BY <1>7 DEF Listed
  <2> QED
    BY <1>1, <1>6, <2>2, <2>3 DEF Keys
<1>10. ASSUME NEW h \in Keys(db) PROVE h \in Keys(d) \/ Replaced(d, h)
  <2>1. PICK i \in DOMAIN m : m[i].blockHeight = h
    BY <1>7 DEF Listed
  <2>2. CASE i \notin I
    BY <1>9, <2>1, <2>2
  <2>3. CASE i \in I
    <3>0. I # {}
      BY <2>3
    <3>1. x \in DOMAIN m /\ m[x].blockHeight <= info.prevCalcDone /\ i < x /\ x \notin I
      <4>1. x \in DOMAIN m /\ m[x].blockHeight <= info.prevCalcDone
        BY <1>4, <3>0
      <4>2. i < x
        BY <1>4, <2>3
      <4>3. x \in Int /\ ~(x < x)
        BY <1>1, <4>1
      <4> QED
        BY <1>4, <4>1, <4>2, <4>3
    <3>2. h < m[x].blockHeight
      BY <1>1, <2>1, <3>1 DEF InOrder
    <3>3. m[x].blockHeight \in Keys(d)
      BY <1>9, <3>1
    <3> QED
      BY <3>1, <3>2, <3>3 DEF Replaced
  <2> QED
    BY <2>2, <2>3
<1>11. ASSUME n = Cardinality(I) PROVE Listed(WithoutOld(m), d, V)
  <2>1. \A i \in x .. Len(m) : d[m[i].blockHeight] = db[m[i].blockHeight]
    <3>1. ASSUME NEW i \in x .. Len(m) PROVE i \in DOMAIN m /\ i \notin I
      BY <1>1, <1>4
    <3> QED
      BY <1>9, <3>1
  <2>2. ASSUME NEW h \in Height, \A i \in x .. Len(m) : m[i].blockHeight # h PROVE d[h] = None
    <3>1. CASE h \in Keys(db)
      <4>1. PICK i \in DOMAIN m : m[i].blockHeight = h
        BY <1>7, <3>1 DEF Listed
      <4>2. i \in I
        BY <1>1, <1>4, <2>2, <4>1
      <4> QED
        BY <1>6, <1>11, <4>1, <4>2 DEF Heights
    <3>2. CASE h \notin Keys(db)
      BY <1>6, <3>2 DEF Keys
    <3> QED
      BY <3>1, <3>2
  <2>3. Len(m) \in x - 1 .. Len(m)
    BY <1>1
  <2>4. Listed(SubSeq(m, x, Len(m)), d, V)
    BY <1>6, <2>1, <2>2, <2>3, SubListed
  <2> QED
    BY <1>4, <2>4
<1> QED
  BY <1>2, <1>3, <1>6, <1>8, <1>10, <1>11

(* The deletes of a list are writes. *)
LEMMA DeleteTypes ==
    ASSUME NEW V, NEW m \in Seq(EntryOf(V))
    PROVE  DeleteOld(m) \in Seq(Writes(V)) /\ DeleteNewer(m) \in Seq(Writes(V))
<1>1. ASSUME NEW I \in SUBSET DOMAIN m PROVE Deletes(m, I) \in Seq(Writes(V))
  <2>1. DOMAIN m = 1 .. Len(m) /\ Len(m) \in Nat
    OBVIOUS
  <2>2. IsFiniteSet(I)
    <3>1. I \in SUBSET (1 .. Len(m)) /\ IsFiniteSet(1 .. Len(m))
      BY <2>1, FS_Interval
    <3> QED
      BY <3>1, FS_Subset
  <2>3. 0 \in 0 .. Cardinality(I)
    BY <2>2, FS_CardinalityType
  <2>4. PICK db : db \in [Height -> V \cup {None}]
    <3>1. [h \in Height |-> None] \in [Height -> V \cup {None}]
      OBVIOUS
    <3> QED
      BY <3>1
  <2> QED
    BY <2>3, <2>4, DeletesWrite
<1>2. /\ DeleteNewer(m) = Deletes(m, Newer(m)) /\ Newer(m) \in SUBSET DOMAIN m
      /\ DeleteOld(m) = Deletes(m, Old(m) \ {Max(Old(m))})
      /\ Old(m) \ {Max(Old(m))} \in SUBSET DOMAIN m
  BY DeletesAre
<1> QED
  BY <1>1, <1>2

(* What an update leaves in the bucket, after any number of its writes. *)
LEMMA UpdateLists ==
    ASSUME NEW V, None \notin V, NEW db \in [Height -> V \cup {None}], NEW l, Listed(l, db, V),
           NEW new \in Seq(EntryOf(V)), InOrder(l \o new), info.prevCalcDone \in Int,
           NEW n \in 0 .. Len(UpdateWrites(l, new)),
           NEW d, d = Written(db, UpdateWrites(l, new), n)
    PROVE  /\ d \in [Height -> V \cup {None}]
           /\ Origin(db, new, d)
           /\ \A h \in Keys(db) : h \in Keys(d) \/ Replaced(d, h)
           /\ \A h \in Heights(new, DOMAIN new) :
                 h \in Keys(d) \/ Replaced(d, h) \/ NotYet(new, d, h)
           /\ n = Len(UpdateWrites(l, new)) =>
                 /\ Listed(WithoutOld(l \o new), d, V)
                 /\ \A h \in Heights(new, DOMAIN new) : h \in Keys(d) \/ Replaced(d, h)
<1> DEFINE m == l \o new
           A == Sets(new)
           B == DeleteOld(m)
           e == Written(db, A, Len(A))
<1>1. l \in Seq(EntryOf(V))
  BY DEF Listed
<1>2. m \in Seq(EntryOf(V)) /\ InOrder(new)
  BY <1>1, Parts
<1>3. Len(new) \in Nat /\ Len(new) \in 0 .. Len(new) /\ 0 \in 0 .. Len(new)
  OBVIOUS
<1>4. A \in Seq(Writes(V)) /\ Len(A) = Len(new)
  BY <1>2, <1>3, SetsWrite
<1>5. /\ e \in [Height -> V \cup {None}]
      /\ Origin(db, new, e)
      /\ \A h \in Keys(db) : h \in Keys(e)
      /\ Listed(m, e, V) /\ \A h \in Heights(new, DOMAIN new) : h \in Keys(e)
  <2>1. PICK k \in 0 .. Len(new) : k = Len(new) /\ e = Written(db, Sets(new), k)
    BY <1>3, <1>4
  <2> HIDE DEF e
  <2> QED
    BY <2>1, SetsLists
<1>6. B \in Seq(Writes(V))
  <2> HIDE DEF m
  <2> QED
    BY <1>2, DeleteTypes
<1>7. UpdateWrites(l, new) = A \o B
  BY DEF UpdateWrites
<1> HIDE DEF A, B, e, m
<1>8. Len(A) \in Nat /\ Len(B) \in Nat /\ Len(A \o B) = Len(A) + Len(B) /\ n \in 0 .. Len(A \o B)
  <2>1. Len(A) \in Nat /\ Len(B) \in Nat /\ Len(A \o B) = Len(A) + Len(B)
    BY <1>4, <1>6
  <2> QED
    BY <1>7, <2>1
<1>9. /\ n <= Len(A) => d = Written(db, A, n)
      /\ n >= Len(A) => d = Written(e, B, n - Len(A))
  <2>1. d = Written(db, A \o B, n)
    BY <1>7
  <2>2. /\ n <= Len(A) => Written(db, A \o B, n) = Written(db, A, n)
        /\ n >= Len(A) => Written(db, A \o B, n) =
                             Written(Written(db, A, Len(A)), B, n - Len(A))
    <3>1. A \in Seq(Writes(V)) /\ B \in Seq(Writes(V)) /\ n \in 0 .. Len(A \o B)
      BY <1>4, <1>6, <1>8
    <3> QED
      BY <3>1, WrittenConcat
  <2> QED
    BY <2>1, <2>2 DEF e
<1>10. ASSUME n <= Len(A)
       PROVE  /\ d \in [Height -> V \cup {None}]
              /\ Origin(db, new, d)
              /\ \A h \in Keys(db) : h \in Keys(d) \/ Replaced(d, h)
              /\ \A h \in Heights(new, DOMAIN new) :
                    h \in Keys(d) \/ Replaced(d, h) \/ NotYet(new, d, h)
  <2>1. n \in 0 .. Len(new) /\ d = Written(db, Sets(new), n)
    BY <1>4, <1>8, <1>9, <1>10 DEF A
  <2> QED
    BY <2>1, SetsLists
<1>11. ASSUME n >= Len(A)
       PROVE  /\ d \in [Height -> V \cup {None}]
              /\ Origin(db, new, d)
              /\ \A h \in Keys(db) : h \in Keys(d) \/ Replaced(d, h)
              /\ \A h \in Heights(new, DOMAIN new) : h \in Keys(d) \/ Replaced(d, h)
              /\ n = Len(A \o B) => Listed(WithoutOld(m), d, V)
  <2>1. PICK k \in 0 .. Len(DeleteOld(m)) : k = n - Len(A) /\ d = Written(e, DeleteOld(m), k)
    BY <1>8, <1>9, <1>11 DEF B
  <2>2. /\ d \in [Height -> V \cup {None}]
        /\ \A h \in Keys(d) : h \in Keys(e) /\ d[h] = e[h]
        /\ \A h \in Keys(e) : h \in Keys(d) \/ Replaced(d, h)
        /\ k = Len(DeleteOld(m)) => Listed(WithoutOld(m), d, V)
    BY <1>5, <2>1, OldLists
  <2>3. Origin(db, new, d)
    BY <1>5, <2>2 DEF Origin
  <2>4. n = Len(A \o B) => k = Len(DeleteOld(m))
    BY <1>8, <2>1 DEF B
  <2> QED
    BY <1>5, <2>2, <2>3, <2>4
<1>12. n <= Len(A) \/ n >= Len(A)
  BY <1>8
<1>13. n = Len(UpdateWrites(l, new)) => n >= Len(A) /\ n = Len(A \o B)
  BY <1>7, <1>8
<1> QED
  BY <1>10, <1>11, <1>12, <1>13 DEF m

-----------------------------------------------------------------------------
(* The bucket of governance variables and the chain. *)

(* What the IISS data adds is newer than the list, and all of it that is. *)
LEMMA NewGVIs ==
    ASSUME NEW l \in Seq(EntryOf(GVValue)), InOrder(l),
           NEW D \in SUBSET Height, NEW b \in [D -> GVValue \cup {None}],
           NEW new, new = NewGV(l, b)
    PROVE  /\ new \in Seq(EntryOf(GVValue)) /\ InOrder(l \o new)
           /\ \A i \in DOMAIN new : \E h \in Keys(b) : new[i] = Entry(h, b[h])
           /\ \A h \in Keys(b) : \/ h \in Heights(new, DOMAIN new)
                                 \/ l # <<>> /\ h <= l[Len(l)].blockHeight
<1> DEFINE E == {h \in D : l = <<>> \/ l[Len(l)].blockHeight < h}
           c == [h \in E |-> b[h]]
<1>1. DOMAIN b = D
  OBVIOUS
<1>2. new = Load(c)
  BY <1>1 DEF NewGV
<1>3. E \in SUBSET Height /\ c \in [E -> GVValue \cup {None}]
  OBVIOUS
<1>4. \A h \in E : c[h] = b[h] /\ h \in D
  OBVIOUS
<1>5. \A h \in D : h \in E <=> (l = <<>> \/ l[Len(l)].blockHeight < h)
  OBVIOUS
<1> HIDE DEF E, c
<1>6. Listed(new, c, GVValue)
  BY <1>2, <1>3, LoadListed
<1>7. /\ Len(new) \in Nat /\ DOMAIN new = 1 .. Len(new) /\ new \in Seq(EntryOf(GVValue))
      /\ Len(l) \in Nat /\ DOMAIN l = 1 .. Len(l)
      /\ \A i \in DOMAIN l : l[i].blockHeight \in Int
      /\ \A i \in DOMAIN new : new[i].blockHeight \in Int
  BY <1>6, ListEntries DEF Listed
<1>8. \A h, v : Entry(h, v).blockHeight = h /\ Entry(h, v).value = v
  BY DEF Entry
<1>9. \A h \in Keys(c) : h \in E /\ h \in Keys(b) /\ c[h] = b[h]
  BY <1>1, <1>3, <1>4 DEF Keys
<1>10. \A i \in DOMAIN new : new[i].blockHeight \in E
  BY <1>6, <1>8, <1>9 DEF Listed
<1>11. ASSUME NEW i \in DOMAIN l, NEW j \in DOMAIN new
       PROVE  l[i].blockHeight < new[j].blockHeight
  <2>1. l # <<>> /\ Len(l) \in DOMAIN l /\ (i < Len(l) \/ i = Len(l))
    BY <1>7
  <2>2. l[Len(l)].blockHeight < new[j].blockHeight
    BY <1>4, <1>5, <1>10, <2>1
  <2>3. l[i].blockHeight <= l[Len(l)].blockHeight
    BY <1>7, <2>1 DEF InOrder
  <2> QED
    BY <1>7, <2>1, <2>2, <2>3
<1>12. InOrder(l \o new)
  <2> DEFINE m == l \o new
  <2>1. /\ DOMAIN m = 1 .. Len(l) + Len(new)
        /\ \A i \in DOMAIN m : IF i <= Len(l) THEN i \in DOMAIN l /\ m[i] = l[i]
                               ELSE i - Len(l) \in DOMAIN new /\ m[i] = new[i - Len(l)]
    BY <1>7
  <2> HIDE DEF m
  <2>2. ASSUME NEW i \in DOMAIN m, NEW j \in DOMAIN m, i < j
        PROVE  m[i].blockHeight < m[j].blockHeight
    <3>1. i \in Int /\ j \in Int
      BY <1>7, <2>1
    <3>2. CASE j <= Len(l)
      <4>1. i <= Len(l)
        BY <1>7, <2>2, <3>1, <3>2
      <4> QED
        BY <2>1, <2>2, <3>2, <4>1 DEF InOrder
    <3>3. CASE i <= Len(l) /\ ~(j <= Len(l))
      BY <1>11, <2>1, <3>3
    <3>4. CASE ~(i <= Len(l))
      <4>1. ~(j <= Len(l)) /\ i - Len(l) < j - Len(l)
        BY <1>7, <2>2, <3>1, <3>4
      <4>2. InOrder(new)
        BY <1>6 DEF Listed
      <4> QED
        BY <2>1, <3>4, <4>1, <4>2 DEF InOrder
    <3> QED
      BY <3>2, <3>3, <3>4
  <2> QED
    BY <2>2 DEF InOrder, m
<1>13. \A i \in DOMAIN new : \E h \in Keys(b) : new[i] = Entry(h, b[h])
  <2>1. \A i \in DOMAIN new : \E h \in Keys(c) : new[i] = Entry(h, c[h])
    BY <1>6 DEF Listed
  <2> QED
    BY <1>9, <2>1
<1>14. ASSUME NEW h \in Keys(b), ~(l # <<>> /\ h <= l[Len(l)].blockHeight)
       PROVE  h \in Heights(new, DOMAIN new)
  <2>1. h \in D /\ b[h] # None /\ h \in Int
    BY <1>1, ManagementAssumption DEF Keys, Height
  <2>2. h \in E
    <3>1. CASE l = <<>>
      BY <1>5, <2>1, <3>1
    <3>2. CASE l # <<>>
      <4>1. l[Len(l)].blockHeight \in Int /\ ~(h <= l[Len(l)].blockHeight)
        BY <1>7, <1>14, <3>2
      <4> QED
        BY <1>5, <2>1, <4>1
    <3> QED
      BY <3>1, <3>2
  <2>3. h \in Keys(c)
    BY <1>3, <1>4, <2>1, <2>2 DEF Keys
  <2>4. PICK i \in DOMAIN new : new[i] = Entry(h, c[h])
    BY <1>6, <2>3 DEF Listed
  <2>5. new[i].blockHeight = h
    BY <1>8, <2>4
  <2> QED
    BY <2>5 DEF Heights
<1> QED
  BY <1>7, <1>12, <1>13, <1>14

(* The numbers the invariant compares. *)
LEMMA HeightTypes ==
    ASSUME Types
    PROVE  /\ MaxHeight \in Nat /\ Term \in Nat /\ Term > 0 /\ Height \subseteq Nat
           /\ \A h \in Nat : h \in Height <=> h <= MaxHeight
           /\ info.calcDone \in Height /\ info.prevCalcDone \in Height
           /\ info.calculating \in Height /\ tip \in Height /\ calc.height \in Height
           /\ calc.phase \in Phases /\ calc.quit \in BOOLEAN
<1>1. MaxHeight \in Nat /\ Term \in Nat /\ Term > 0
  BY ManagementAssumption
<1>2. Height \subseteq Nat /\ \A h \in Nat : h \in Height <=> h <= MaxHeight
  BY <1>1 DEF Height
<1> QED
  BY <1>1, <1>2 DEF Types, CalcType

(* A needed entry of the chain that the bucket had is not deleted as old. *)
LEMMA NeededStays ==
    ASSUME Types, Schedule, NEW d, DOMAIN d = Height, OfChain(d),
           NEW c \in Recorded("gv"), Needed("gv", c)
    PROVE  ~Replaced(d, c)
<1> SUFFICES ASSUME NEW g \in Keys(d), c < g, g <= info.prevCalcDone
             PROVE  FALSE
  BY DEF Replaced
<1>1. g \in Height /\ d[g] # None
  BY DEF Keys
<1>2. g <= tip
  BY <1>1, HeightTypes DEF Schedule
<1>3. chain[g].gv # None
  BY <1>1, <1>2 DEF OfChain
<1>4. chain[g]["gv"] # None
  BY <1>3
<1>5. g \in Recorded("gv")
  BY <1>1, <1>4 DEF Recorded
<1> QED
  BY <1>5 DEF Needed

(* The window of the IISS data that is being applied. *)
LEMMA Window ==
    ASSUME Types, Schedule, Data, calc.phase \in {"gv", "prep"}
    PROVE  /\ calc.height = info.calcDone + Term /\ ~calc.quit
           /\ rollback \in {"idle", "info"} /\ info.calcDone < tip
           /\ rollback = "idle" => calc.height <= tip
           /\ info.calcDone .. (calc.height - 1) \in SUBSET Height
           /\ calc.phase = "gv" =>
                 /\ calc.gvs \in [info.calcDone .. (calc.height - 1) -> GVValue \cup {None}]
                 /\ \A b \in info.calcDone .. (calc.height - 1) :
                       b <= tip => calc.gvs[b] = chain[b].gv
           /\ calc.preps \in [info.calcDone .. (calc.height - 1) -> PRepValue \cup {None}]
           /\ \A b \in info.calcDone .. (calc.height - 1) :
                 b <= tip => calc.preps[b] = chain[b].prep
<1>1. /\ calc.height = info.calcDone + Term /\ info.calcDone < tip /\ ~calc.quit
      /\ rollback = "idle" => calc.height <= tip
  BY DEF Schedule
<1>2. rollback \in {"idle", "info"}
  BY <1>1 DEF Schedule, Types
<1>3. calc.height - Term = info.calcDone
  BY <1>1, HeightTypes
<1>4. info.calcDone .. (calc.height - 1) \in SUBSET Height
  BY HeightTypes, ManagementAssumption DEF Height
<1>5. ASSUME calc.phase = "gv"
      PROVE  /\ calc.gvs \in [info.calcDone .. (calc.height - 1) -> GVValue \cup {None}]
             /\ \A b \in info.calcDone .. (calc.height - 1) : b <= tip => calc.gvs[b] = chain[b].gv
  BY <1>3, <1>5 DEF Data
<1>6. /\ calc.preps \in [info.calcDone .. (calc.height - 1) -> PRepValue \cup {None}]
      /\ \A b \in info.calcDone .. (calc.height - 1) : b <= tip => calc.preps[b] = chain[b].prep
  BY <1>3 DEF Data
<1> QED
  BY <1>1, <1>2, <1>4, <1>5, <1>6

(* After any number of the writes of an update, the bucket is as the         *)
(* invariant says, and after all of them so is the list.                      *)
LEMMA GVUpdate ==
    ASSUME Types, Schedule, Data, GVInv, calc.phase = "gv",
           NEW n \in 0 .. Len(GVWrites), NEW d, d = Written(gvDB, GVWrites, n)
    PROVE  /\ d \in [Height -> GVValue \cup {None}]
           /\ OfChain(d) /\ NothingMissing(d) /\ HasFirst(d)
           /\ rollback \notin {"info", "gv"} => NotAhead(d)
           /\ n = Len(GVWrites) => /\ Listed(WithoutOld(gv \o NewGV(gv, calc.gvs)), d, GVValue)
                                   /\ UpTo(d, calc.height)
<1> DEFINE new == NewGV(gv, calc.gvs)
           C == info.calcDone
           W == info.calcDone .. (calc.height - 1)
<1>1. /\ calc.height = C + Term
      /\ rollback \in {"idle", "info"} /\ C < tip
      /\ rollback = "idle" => calc.height <= tip
      /\ W \in SUBSET Height
      /\ calc.gvs \in [W -> GVValue \cup {None}]
      /\ \A b \in W : b <= tip => calc.gvs[b] = chain[b].gv
  BY Window
<1>2. GVWrites = UpdateWrites(gv, new)
  BY DEF GVWrites, UpdateWrites
<1>3. /\ Listed(gv, gvDB, GVValue) /\ OfChain(gvDB) /\ NothingMissing(gvDB) /\ HasFirst(gvDB)
      /\ rollback \notin {"info", "gv"} => NotAhead(gvDB)
  BY DEF GVInv
<1>4. gv \in Seq(EntryOf(GVValue)) /\ InOrder(gv)
  BY <1>3 DEF Listed
<1>5. gvDB \in [Height -> GVValue \cup {None}] /\ None \notin GVValue
  BY ManagementAssumption DEF Types
<1>6. /\ info.calcDone \in Nat /\ info.prevCalcDone \in Nat /\ calc.height \in Nat
      /\ tip \in Nat /\ Term \in Nat /\ Term > 0 /\ Height \subseteq Nat
  BY HeightTypes
<1>7. \A b : b \in W <=> b \in Int /\ C <= b /\ b < calc.height
  BY <1>6
<1> HIDE DEF new, W
<1>8. /\ new \in Seq(EntryOf(GVValue)) /\ InOrder(gv \o new)
      /\ \A i \in DOMAIN new : \E h \in Keys(calc.gvs) : new[i] = Entry(h, calc.gvs[h])
      /\ \A h \in Keys(calc.gvs) : \/ h \in Heights(new, DOMAIN new)
                                   \/ gv # <<>> /\ h <= gv[Len(gv)].blockHeight
  BY <1>1, <1>4, NewGVIs DEF new
<1>9. info.prevCalcDone \in Int /\ n \in 0 .. Len(UpdateWrites(gv, new))
      /\ d = Written(gvDB, UpdateWrites(gv, new), n)
  BY <1>2, <1>6
<1>10. /\ d \in [Height -> GVValue \cup {None}]
       /\ Origin(gvDB, new, d)
       /\ \A h \in Keys(gvDB) : h \in Keys(d) \/ Replaced(d, h)
       /\ \A h \in Heights(new, DOMAIN new) :
             h \in Keys(d) \/ Replaced(d, h) \/ NotYet(new, d, h)
       /\ n = Len(UpdateWrites(gv, new)) =>
             /\ Listed(WithoutOld(gv \o new), d, GVValue)
             /\ \A h \in Heights(new, DOMAIN new) : h \in Keys(d) \/ Replaced(d, h)
  BY <1>3, <1>5, <1>8, <1>9, UpdateLists
<1>11. \A h, v : Entry(h, v).blockHeight = h /\ Entry(h, v).value = v
  BY DEF Entry
<1>12. ASSUME NEW h \in Keys(d)
       PROVE  /\ h \in Height
              /\ \/ h \in Keys(gvDB) /\ d[h] = gvDB[h]
                 \/ h \in W /\ d[h] = calc.gvs[h]
  <2>1. h \in Height
    BY <1>10 DEF Keys
  <2>2. CASE \E i \in DOMAIN new : new[i] = Entry(h, d[h])
    <3>1. PICK i \in DOMAIN new : new[i] = Entry(h, d[h])
      BY <2>2
    <3>2. PICK k \in Keys(calc.gvs) : new[i] = Entry(k, calc.gvs[k])
      BY <1>8
    <3>3. h = k /\ d[h] = calc.gvs[k]
      <4>1. new[i].blockHeight = h /\ new[i].value = d[h]
        BY <1>11, <3>1
      <4>2. new[i].blockHeight = k /\ new[i].value = calc.gvs[k]
        BY <1>11, <3>2
      <4> QED
        BY <4>1, <4>2
    <3>4. k \in W
      BY <1>1 DEF Keys
    <3> QED
      BY <2>1, <3>3, <3>4
  <2>3. \/ h \in Keys(gvDB) /\ d[h] = gvDB[h]
        \/ \E i \in DOMAIN new : new[i] = Entry(h, d[h])
    BY <1>10 DEF Origin
  <2> QED
    BY <2>1, <2>2, <2>3
<1>13. OfChain(d)
  BY <1>1, <1>3, <1>12 DEF OfChain
<1>14. DOMAIN d = Height
  BY <1>10
<1>15. ASSUME NEW c \in Recorded("gv"), Needed("gv", c), c \in Keys(gvDB) PROVE c \in Keys(d)
  BY <1>10, <1>13, <1>14, <1>15, NeededStays
<1>16. ASSUME NEW c \in Recorded("gv") PROVE c \in Height /\ c <= tip /\ c \in Nat /\ chain[c].gv # None
  <2>1. c \in Height /\ chain[c].gv # None
    BY DEF Recorded
  <2> QED
    BY <1>6, <2>1 DEF Types
<1>17. ASSUME NEW c \in Recorded("gv"), Needed("gv", c), C <= c, c < calc.height
       PROVE  c \in Keys(d) \/ (c \in Heights(new, DOMAIN new) /\ ~Replaced(d, c))
  <2>1. c \in W
    BY <1>7, <1>16, <1>17
  <2>2. calc.gvs[c] # None
    BY <1>1, <1>16, <2>1
  <2>3. c \in Keys(calc.gvs)
    BY <1>1, <2>1, <2>2 DEF Keys
  <2>4. CASE c \in Heights(new, DOMAIN new)
    BY <1>13, <1>14, <1>17, <2>4, NeededStays
  <2>5. CASE gv # <<>> /\ c <= gv[Len(gv)].blockHeight
    <3>1. Len(gv) \in DOMAIN gv
      BY <1>4, <2>5
    <3>2. PICK k \in Keys(gvDB) : gv[Len(gv)] = Entry(k, gvDB[k])
      BY <1>3, <3>1 DEF Listed
    <3>3. c <= k
      BY <1>11, <2>5, <3>2
    <3>4. c \in Keys(gvDB)
      BY <1>3, <1>17, <3>3 DEF NothingMissing
    <3> QED
      BY <1>15, <1>17, <3>4
  <2> QED
    BY <1>8, <2>3, <2>4, <2>5
<1>18. NothingMissing(d)
  <2> SUFFICES ASSUME NEW c \in Recorded("gv"), Needed("gv", c)
               PROVE  /\ c < info.calcDone => c \in Keys(d)
                      /\ (\E k \in Keys(d) : c <= k) => c \in Keys(d)
    BY DEF NothingMissing
  <2>1. c < info.calcDone => c \in Keys(d)
    BY <1>3, <1>15 DEF NothingMissing
  <2>2. ASSUME NEW k \in Keys(d), c <= k PROVE c \in Keys(d)
    <3>1. CASE k \in Keys(gvDB)
      BY <1>3, <1>15, <2>2, <3>1 DEF NothingMissing
    <3>2. CASE k \in W /\ ~(c < info.calcDone)
      <4>1. C <= c /\ c < calc.height /\ k \in Nat
        BY <1>6, <1>7, <1>16, <2>2, <3>2
      <4>2. ~NotYet(new, d, c)
        BY <1>16, <2>2, <4>1 DEF NotYet
      <4> QED
        BY <1>10, <1>17, <4>1, <4>2
    <3> QED
      BY <1>12, <2>1, <3>1, <3>2
  <2> QED
    BY <2>1, <2>2
<1>19. HasFirst(d)
  <2>1. CASE \A c \in Recorded("gv") : Needed("gv", c) /\ c <= info.prevCalcDone => c \in Keys(gvDB)
    BY <1>15, <2>1 DEF HasFirst
  <2>2. CASE Keys(gvDB) = {} /\ info.calcDone = 0
    <3>1. info.prevCalcDone = 0
      BY <1>6, <2>2 DEF Schedule
    <3>2. CASE Keys(d) = {}
      BY <2>2, <3>2 DEF HasFirst
    <3>3. CASE Keys(d) # {}
      <4>1. PICK k \in Keys(d) : TRUE
        BY <3>3
      <4>2. k \in Nat
        BY <1>6, <1>12
      <4>3. ASSUME NEW c \in Recorded("gv"), Needed("gv", c), c <= info.prevCalcDone
            PROVE  c \in Keys(d)
        <5>1. c <= k
          BY <1>16, <3>1, <4>2, <4>3
        <5> QED
          BY <1>18, <4>3, <5>1 DEF NothingMissing
      <4> QED
        BY <4>3 DEF HasFirst
    <3> QED
      BY <3>2, <3>3
  <2> QED
    BY <1>3, <2>1, <2>2 DEF HasFirst
<1>20. ASSUME rollback \notin {"info", "gv"} PROVE NotAhead(d)
  <2>1. calc.height <= tip /\ NotAhead(gvDB)
    BY <1>1, <1>3, <1>20
  <2>2. \A b \in W : b <= tip
    BY <1>6, <1>7, <2>1
  <2> QED
    BY <1>12, <2>1, <2>2 DEF NotAhead
<1>21. ASSUME n = Len(GVWrites)
       PROVE  Listed(WithoutOld(gv \o new), d, GVValue) /\ UpTo(d, calc.height)
  <2>1. /\ Listed(WithoutOld(gv \o new), d, GVValue)
        /\ \A h \in Heights(new, DOMAIN new) : h \in Keys(d) \/ Replaced(d, h)
    BY <1>2, <1>10, <1>21
  <2>2. ASSUME NEW c \in Recorded("gv"), Needed("gv", c), c < calc.height PROVE c \in Keys(d)
    <3>1. CASE c < info.calcDone
      BY <1>18, <2>2, <3>1 DEF NothingMissing
    <3>2. CASE ~(c < info.calcDone)
      <4>1. C <= c
        BY <1>6, <1>16, <3>2
      <4> QED
        BY <1>17, <2>1, <2>2, <4>1
    <3> QED
      BY <3>1, <3>2
  <2> QED
    BY <2>1, <2>2 DEF UpTo
<1> QED
  BY <1>10, <1>13, <1>18, <1>19, <1>20, <1>21 DEF new

(* After any number of the deletes of a rollback, the bucket is as the       *)
(* invariant says, and after all of them so is the list.                      *)
LEMMA GVRollback ==
    ASSUME Types, GVInv, NEW n \in 0 .. Len(DeleteNewer(gv)),
           NEW d, d = Written(gvDB, DeleteNewer(gv), n)
    PROVE  /\ d \in [Height -> GVValue \cup {None}]
           /\ OfChain(d) /\ NothingMissing(d) /\ HasFirst(d)
           /\ n = Len(DeleteNewer(gv)) => Listed(WithoutNewer(gv), d, GVValue) /\ NotAhead(d)
<1>1. /\ Listed(gv, gvDB, GVValue) /\ gvDB \in [Height -> GVValue \cup {None}] /\ tip \in Int
      /\ OfChain(gvDB) /\ NothingMissing(gvDB) /\ HasFirst(gvDB)
  BY HeightTypes DEF GVInv, Types
<1>2. /\ d \in [Height -> GVValue \cup {None}]
      /\ \A h \in Height : d[h] = gvDB[h] \/ (h > tip /\ d[h] = None)
      /\ n = Len(DeleteNewer(gv)) =>
            (\A h \in Keys(d) : h <= tip) /\ Listed(WithoutNewer(gv), d, GVValue)
  <2>1. n \in 0 .. Len(DeleteNewer(gv)) /\ d = Written(gvDB, DeleteNewer(gv), n)
    OBVIOUS
  <2> QED
    BY <1>1, <2>1, RollbackLists
<1>3. \A h \in Keys(d) : h \in Keys(gvDB) /\ d[h] = gvDB[h]
  BY <1>1, <1>2 DEF Keys
<1>4. ASSUME NEW c \in Recorded("gv"), c \in Keys(gvDB) PROVE c \in Keys(d)
  <2>1. c \in Height /\ chain[c].gv # None /\ c \in Nat
    BY HeightTypes DEF Recorded
  <2>2. ~(c > tip)
    BY <2>1 DEF Types
  <2> QED
    BY <1>1, <1>2, <1>4, <2>1, <2>2 DEF Keys
<1>5. OfChain(d)
  BY <1>1, <1>3 DEF OfChain
<1>6. NothingMissing(d)
  BY <1>1, <1>3, <1>4 DEF NothingMissing
<1>7. HasFirst(d)
  BY <1>1, <1>3, <1>4 DEF HasFirst
<1> QED
  BY <1>2, <1>5, <1>6, <1>7 DEF NotAhead

(* What a bucket has is what it had or was written. *)
LEMMA KeysWritten ==
    ASSUME NEW db, NEW W, NEW n \in Nat, NEW h \in Keys(Written(db, W, n))
    PROVE  h \in DOMAIN db /\ (h \in Keys(db) \/ \E i \in 1 .. n : W[i].key = h /\ W[i].value # None)
<1>1. h \in DOMAIN db /\ Written(db, W, n)[h] # None
  BY DEF Keys, Written
<1>2. CASE NoneTo(W, n, h)
  <2>1. Written(db, W, n)[h] = db[h]
    BY <1>1, <1>2, WrittenAt
  <2> QED
    BY <1>1, <2>1 DEF Keys
<1>3. CASE \E i : LastTo(W, n, h, i)
  <2>1. PICK i : LastTo(W, n, h, i)
    BY <1>3
  <2>2. Written(db, W, n)[h] = W[i].value
    BY <1>1, <2>1, WrittenAt
  <2> QED
    BY <1>1, <2>1, <2>2 DEF LastTo
<1> QED
  BY <1>1, <1>2, <1>3, WrittenAt

(* What is left of a list without its oldest or newest entries. *)
LEMMA CutLists ==
    ASSUME NEW V, NEW l \in Seq(EntryOf(V)), info.prevCalcDone \in Int, tip \in Int
    PROVE  /\ WithoutOld(l) \in Seq(EntryOf(V)) /\ WithoutNewer(l) \in Seq(EntryOf(V))
           /\ \A i \in DOMAIN WithoutOld(l) : \E j \in DOMAIN l : WithoutOld(l)[i] = l[j]
           /\ \A i \in DOMAIN WithoutNewer(l) : \E j \in DOMAIN l : WithoutNewer(l)[i] = l[j]
           /\ l # <<>> => /\ WithoutOld(l) # <<>>
                          /\ WithoutOld(l)[Len(WithoutOld(l))] = l[Len(l)]
           /\ l # <<>> /\ l[Len(l)].blockHeight <= info.prevCalcDone => Len(WithoutOld(l)) = 1
<1>1. Len(l) \in Nat /\ DOMAIN l = 1 .. Len(l)
  OBVIOUS
<1>2. ASSUME NEW x \in 1 .. Len(l) + 1, NEW y \in x - 1 .. Len(l), NEW s, s = SubSeq(l, x, y)
      PROVE  /\ s \in Seq(EntryOf(V)) /\ Len(s) = y + 1 - x
             /\ DOMAIN s = 1 .. y + 1 - x
             /\ \A i \in DOMAIN s : x + i - 1 \in DOMAIN l /\ s[i] = l[x + i - 1]
  <2>1. x \in Int /\ y \in Int /\ y + 1 - x \in Nat
    BY <1>1
  <2>2. s = [i \in 1 .. y + 1 - x |-> l[x + i - 1]]
    BY <1>2, <2>1
  <2>3. \A i \in 1 .. y + 1 - x : x + i - 1 \in DOMAIN l
    BY <1>1, <2>1
  <2>4. \A i \in DOMAIN l : l[i] \in EntryOf(V)
    OBVIOUS
  <2>5. s \in [1 .. y + 1 - x -> EntryOf(V)]
    BY <2>2, <2>3, <2>4
  <2> QED
    BY <2>1, <2>2, <2>3, <2>5
<1>3. PICK x \in 1 .. Len(l) + 1 :
         /\ WithoutOld(l) = SubSeq(l, x, Len(l)) /\ (l # <<>> => x \in DOMAIN l)
         /\ l # <<>> /\ l[Len(l)].blockHeight <= info.prevCalcDone => x = Len(l)
  <2>1. CASE Old(l) = {}
    <3>1. WithoutOld(l) = l /\ l = SubSeq(l, 1, Len(l)) /\ 1 \in 1 .. Len(l) + 1
      BY <1>1, <2>1 DEF WithoutOld
    <3>2. l # <<>> => 1 \in DOMAIN l /\ Len(l) \in DOMAIN l
      BY <1>1
    <3>3. l # <<>> => ~(l[Len(l)].blockHeight <= info.prevCalcDone)
      BY <2>1, <3>2 DEF Old
    <3> QED
      BY <3>1, <3>2, <3>3
  <2>2. CASE Old(l) # {}
    <3> DEFINE O == Old(l)
    <3>1. O \in SUBSET (1 .. Len(l)) /\ O # {}
      BY <1>1, <2>2 DEF Old
    <3>2. WithoutOld(l) = SubSeq(l, Max(O), Len(l))
      BY <2>2 DEF WithoutOld
    <3>3. l # <<>> /\ l[Len(l)].blockHeight <= info.prevCalcDone => Len(l) \in O
      BY <1>1 DEF Old
    <3> HIDE DEF O
    <3>4. IsFiniteSet(O) /\ O \subseteq Int
      <4>1. IsFiniteSet(1 .. Len(l)) /\ 1 .. Len(l) \subseteq Int
        BY <1>1, FS_Interval
      <4> QED
        BY <3>1, <4>1, FS_Subset
    <3>5. Max(O) \in O /\ \A j \in O : Max(O) >= j
      BY <3>1, <3>4, MaxOfFinite
    <3>6. PICK x \in 1 .. Len(l) : x = Max(O)
      BY <3>1, <3>5
    <3>7. x \in 1 .. Len(l) + 1 /\ x \in DOMAIN l
      BY <1>1
    <3>8. l # <<>> /\ l[Len(l)].blockHeight <= info.prevCalcDone => x = Len(l)
      <4>1. Len(l) \in O => x >= Len(l)
        BY <3>5, <3>6
      <4>2. x \in Nat /\ x <= Len(l)
        BY <1>1
      <4>3. \A k \in Nat, z \in Nat : z <= k /\ z >= k => z = k
        OBVIOUS
      <4> QED
        BY <1>1, <3>3, <4>1, <4>2, <4>3
    <3> QED
      BY <3>2, <3>6, <3>7, <3>8
  <2> QED
    BY <2>1, <2>2
<1>4. PICK y \in 0 .. Len(l) : WithoutNewer(l) = SubSeq(l, 1, y)
  <2>1. CASE Newer(l) = {}
    <3>1. WithoutNewer(l) = l
      BY <2>1 DEF WithoutNewer
    <3>2. l = SubSeq(l, 1, Len(l)) /\ Len(l) \in 0 .. Len(l)
      BY <1>1
    <3> QED
      BY <3>1, <3>2
  <2>2. CASE Newer(l) # {}
    <3> DEFINE N == Newer(l)
    <3>1. N \in SUBSET (0 .. Len(l)) /\ N \in SUBSET (1 .. Len(l)) /\ N # {}
      BY <1>1, <2>2 DEF Newer
    <3>2. WithoutNewer(l) = SubSeq(l, 1, Min(N) - 1)
      BY <2>2 DEF WithoutNewer
    <3> HIDE DEF N
    <3>3. Min(N) \in N
      BY <1>1, <3>1, MinOfFinite
    <3>4. PICK z \in 1 .. Len(l) : z = Min(N)
      BY <3>1, <3>3
    <3>5. z - 1 \in 0 .. Len(l)
      BY <1>1
    <3> QED
      BY <3>2, <3>4, <3>5
  <2> QED
    BY <2>1, <2>2
<1>5. Len(l) \in x - 1 .. Len(l) /\ 1 \in 1 .. Len(l) + 1 /\ y \in 1 - 1 .. Len(l)
  BY <1>1
<1> DEFINE s == WithoutOld(l)
<1>6. /\ s \in Seq(EntryOf(V)) /\ Len(s) = Len(l) + 1 - x
      /\ DOMAIN s = 1 .. Len(l) + 1 - x
      /\ \A i \in DOMAIN s : x + i - 1 \in DOMAIN l /\ s[i] = l[x + i - 1]
  BY <1>2, <1>3, <1>5
<1>7. /\ WithoutNewer(l) \in Seq(EntryOf(V))
      /\ \A i \in DOMAIN WithoutNewer(l) : 1 + i - 1 \in DOMAIN l /\ WithoutNewer(l)[i] = l[1 + i - 1]
  BY <1>2, <1>4, <1>5
<1> HIDE DEF s
<1>8. ASSUME l # <<>> PROVE s # <<>> /\ s[Len(s)] = l[Len(l)]
  <2>1. x \in DOMAIN l /\ x \in Int
    BY <1>3, <1>8
  <2>2. Len(s) \in DOMAIN s /\ Len(s) > 0 /\ x + Len(s) - 1 = Len(l)
    BY <1>1, <1>6, <2>1
  <2> QED
    BY <1>6, <2>2
<1>9. l # <<>> /\ l[Len(l)].blockHeight <= info.prevCalcDone => Len(s) = 1
  BY <1>1, <1>3, <1>6
<1> QED
  BY <1>6, <1>7, <1>8, <1>9 DEF s

-----------------------------------------------------------------------------
(* The P-Rep lists. *)

(* The P-Rep lists of the IISS data are appended and written. *)
LEMMA PRepUpdate ==
    ASSUME Types, Schedule, Data, calc.phase = "prep", NEW new, new = Load(calc.preps)
    PROVE  /\ Listed(new, calc.preps, PRepValue)
           /\ prep \o new \in Seq(EntryOf(PRepValue))
           /\ PRepWrites = Sets(new) \o DeleteOld(prep \o new)
           /\ Sets(new) \in Seq(Writes(PRepValue))
           /\ DeleteOld(prep \o new) \in Seq(Writes(PRepValue))
           /\ PRepWrites \in Seq(Writes(PRepValue))
<1>1. /\ info.calcDone .. (calc.height - 1) \in SUBSET Height
      /\ calc.preps \in [info.calcDone .. (calc.height - 1) -> PRepValue \cup {None}]
  BY Window
<1>2. Listed(new, calc.preps, PRepValue)
  BY <1>1, LoadListed
<1>3. new \in Seq(EntryOf(PRepValue)) /\ InOrder(new) /\ prep \in Seq(EntryOf(PRepValue))
  BY <1>2 DEF Listed, Types
<1>4. prep \o new \in Seq(EntryOf(PRepValue))
  BY <1>3
<1>5. DeleteOld(prep \o new) \in Seq(Writes(PRepValue))
  BY <1>4, DeleteTypes
<1>6. Sets(new) \in Seq(Writes(PRepValue))
  <2>1. prepDB \in [Height -> PRepValue \cup {None}] /\ 0 \in 0 .. Len(new)
    BY <1>3 DEF Types
  <2> QED
    BY <1>3, <2>1, SetsWrite
<1>7. PRepWrites = Sets(new) \o DeleteOld(prep \o new)
  BY DEF PRepWrites
<1> QED
  BY <1>2, <1>4, <1>5, <1>6, <1>7

(* What the bucket has after any number of the writes. *)
LEMMA PRepUpdateKeys ==
    ASSUME Types, Schedule, Data, calc.phase = "prep",
           NEW n \in 0 .. Len(PRepWrites), NEW d, d = Written(prepDB, PRepWrites, n)
    PROVE  /\ d \in [Height -> PRepValue \cup {None}]
           /\ \A h \in Keys(d) : h \in Keys(prepDB) \/ h \in Keys(calc.preps)
<1> DEFINE new == Load(calc.preps)
           A == Sets(new)
           B == DeleteOld(prep \o new)
<1>1. /\ Listed(new, calc.preps, PRepValue) /\ prep \o new \in Seq(EntryOf(PRepValue))
      /\ PRepWrites = A \o B /\ A \in Seq(Writes(PRepValue)) /\ B \in Seq(Writes(PRepValue))
      /\ PRepWrites \in Seq(Writes(PRepValue))
  BY PRepUpdate
<1>2. \A i \in DOMAIN new : \E h \in Keys(calc.preps) : new[i] = Entry(h, calc.preps[h])
  BY <1>1 DEF Listed
<1>3. \A h, v : Entry(h, v).blockHeight = h /\ Write(h, v).key = h /\ Write(h, v).value = v
  BY DEF Entry, Write
<1>4. \A i \in DOMAIN A : A[i].key \in Keys(calc.preps)
  <2>1. DOMAIN A = DOMAIN new /\ \A i \in DOMAIN A : A[i] = Write(new[i].blockHeight, new[i].value)
    BY DEF Sets
  <2> HIDE DEF new, A
  <2> QED
    BY <1>2, <1>3, <2>1
<1>5. \A i \in DOMAIN B : B[i].value = None
  <2> DEFINE m == prep \o new
             o == IF Old(m) = {} THEN <<>> ELSE Descending(Old(m) \ {Max(Old(m))})
  <2>1. B = [i \in DOMAIN o |-> Write(m[o[i]].blockHeight, None)]
    BY DEF DeleteOld
  <2> HIDE DEF B, m, o
  <2> QED
    BY <1>3, <2>1
<1> HIDE DEF new, A, B
<1>6. prepDB \in [Height -> PRepValue \cup {None}]
  BY DEF Types
<1>7. d \in [Height -> PRepValue \cup {None}]
  BY <1>1, <1>6, WrittenType
<1>8. ASSUME NEW h \in Keys(d), h \notin Keys(prepDB) PROVE h \in Keys(calc.preps)
  <2>1. n \in Nat /\ h \in Keys(Written(prepDB, PRepWrites, n))
    BY <1>1
  <2>2. PICK i \in 1 .. n : PRepWrites[i].key = h /\ PRepWrites[i].value # None
    BY <1>8, <2>1, KeysWritten
  <2>3. /\ Len(A) \in Nat /\ Len(B) \in Nat /\ DOMAIN A = 1 .. Len(A) /\ DOMAIN B = 1 .. Len(B)
        /\ Len(A \o B) = Len(A) + Len(B)
        /\ \A k \in 1 .. Len(A) + Len(B) :
              (A \o B)[k] = IF k <= Len(A) THEN A[k] ELSE B[k - Len(A)]
    BY <1>1
  <2>4. i \in 1 .. Len(A) + Len(B) /\ i \in Int
    BY <1>1, <2>3
  <2>5. CASE i <= Len(A)
    <3>1. i \in DOMAIN A /\ PRepWrites[i] = A[i]
      BY <1>1, <2>3, <2>4, <2>5
    <3> QED
      BY <1>4, <2>2, <3>1
  <2>6. CASE ~(i <= Len(A))
    <3>1. i - Len(A) \in DOMAIN B /\ PRepWrites[i] = B[i - Len(A)]
      BY <1>1, <2>3, <2>4, <2>6
    <3> QED
      BY <1>5, <2>2, <3>1
  <2> QED
    BY <2>5, <2>6
<1> QED
  BY <1>7, <1>8

(* A rollback only deletes. *)
LEMMA PRepRollback ==
    ASSUME Types, NEW n \in 0 .. Len(DeleteNewer(prep)),
           NEW d, d = Written(prepDB, DeleteNewer(prep), n)
    PROVE  /\ d \in [Height -> PRepValue \cup {None}]
           /\ \A h \in Keys(d) : h \in Keys(prepDB)
<1> DEFINE B == DeleteNewer(prep)
<1>1. prep \in Seq(EntryOf(PRepValue)) /\ prepDB \in [Height -> PRepValue \cup {None}]
  BY DEF Types
<1>2. B \in Seq(Writes(PRepValue))
  BY <1>1, DeleteTypes
<1>3. \A i \in DOMAIN B : B[i].value = None
  <2> DEFINE o == Descending(Newer(prep))
  <2>1. B = [i \in DOMAIN o |-> Write(prep[o[i]].blockHeight, None)]
    BY DEF DeleteNewer
  <2>2. \A h, v : Write(h, v).value = v
    BY DEF Write
  <2> HIDE DEF B, o
  <2> QED
    BY <2>1, <2>2
<1> HIDE DEF B
<1>4. n \in 0 .. Len(B) /\ d = Written(prepDB, B, n)
  BY DEF B
<1>5. d \in [Height -> PRepValue \cup {None}]
  BY <1>1, <1>2, <1>4, WrittenType
<1>6. ASSUME NEW h \in Keys(d), h \notin Keys(prepDB) PROVE FALSE
  <2>1. n \in Nat /\ h \in Keys(Written(prepDB, B, n))
    BY <1>2, <1>4
  <2>2. PICK i \in 1 .. n : B[i].key = h /\ B[i].value # None
    BY <1>6, <2>1, KeysWritten
  <2>3. i \in DOMAIN B
    BY <1>2, <1>4
  <2> QED
    BY <1>3, <2>2, <2>3
<1> QED
  BY <1>5, <1>6

-----------------------------------------------------------------------------
(* The initial states. *)

(* A calculation that has nothing to do, and one that has its IISS data. *)
LEMMA CalcTypes ==
    /\ Idle \in CalcType /\ Idle.phase = "idle" /\ ~Idle.quit
    /\ 0 \in Height /\ None \notin GVValue /\ None \notin PRepValue
<1>1. 0 \in Height
  BY ManagementAssumption DEF Height
<1>2. Idle \in CalcType
  <2>1. PICK g \in {<<>>}, p \in {<<>>}, t \in SUBSET TXs : g = <<>> /\ p = <<>> /\ t = {}
    OBVIOUS
  <2> DEFINE c == [phase |-> "idle", height |-> 0, quit |-> FALSE,
                   gvs |-> g, preps |-> p, txs |-> t]
  <2>2. Idle = c
    BY <2>1 DEF Idle
  <2>3. g \in Buckets(GVValue \cup {None}) \cup {<<>>} /\ p \in Buckets(PRepValue \cup {None}) \cup {<<>>}
    BY <2>1
  <2>4. c \in CalcType
    BY <1>1, <2>3 DEF CalcType, Phases
  <2> QED
    BY <2>2, <2>4
<1> QED
  BY <1>1, <1>2, ManagementAssumption DEF Idle

LEMMA InitInv == Init => ManagementInv
<1> SUFFICES ASSUME Init PROVE ManagementInv
  OBVIOUS
<1>1. /\ MaxHeight \in Nat /\ Term \in Nat /\ Term > 0 /\ Height \subseteq Nat /\ 0 \in Height
      /\ None \notin GVValue /\ None \notin PRepValue
  BY ManagementAssumption DEF Height
<1>2. info \in [calcDone : Height, prevCalcDone : Height, calculating : Height]
      /\ info.calcDone = 0 /\ info.prevCalcDone = 0 /\ info.calculating = 0
  BY <1>1 DEF Init
<1>3. PICK g \in GVValue, p \in PRepValue :
         chain = [h \in Height |-> IF h = 0 THEN [gv |-> g, prep |-> p]
                                   ELSE [gv |-> None, prep |-> None]]
  BY DEF Init
<1>4. /\ chain \in [Height -> [gv : GVValue \cup {None}, prep : PRepValue \cup {None}]]
      /\ \A h \in Height : h > 0 => chain[h] = [gv |-> None, prep |-> None]
      /\ chain[0].gv = g
  BY <1>1, <1>3
<1>5. calc = Idle /\ rollback = "idle" /\ tip = 0
  BY DEF Init
<1>6. /\ gvDB \in [Height -> GVValue \cup {None}] /\ \A h \in Height : gvDB[h] = None
      /\ prepDB \in [Height -> PRepValue \cup {None}]
  BY DEF Init
<1>7. Keys(gvDB) = {}
  BY <1>6 DEF Keys
<1>8. /\ candidate \in [Address -> [start : Height, end : Height]]
      /\ candidateDB = candidate /\ \A a \in Address : candidate[a] = NoCandidate
  BY <1>1 DEF Init, NoCandidate
<1>9. Types
  BY <1>1, <1>2, <1>4, <1>5, <1>6, <1>8, CalcTypes DEF Types, Init
<1>10. Schedule
  <2>1. 0 % Term = 0 /\ 0 < 0 + 2 * Term
    BY <1>1
  <2> QED
    BY <1>2, <1>5, <2>1, CalcTypes DEF Schedule
<1>11. Data
  BY <1>5, CalcTypes DEF Data
<1>12. GVInv
  <2>1. gv \in Seq(EntryOf(GVValue)) /\ DOMAIN gv = {}
    BY DEF Init
  <2>2. Listed(gv, gvDB, GVValue)
    BY <1>7, <2>1 DEF Listed, InOrder
  <2>3. OfChain(gvDB) /\ NotAhead(gvDB) /\ HasFirst(gvDB)
    BY <1>2, <1>7 DEF OfChain, NotAhead, HasFirst
  <2>4. NothingMissing(gvDB)
    <3>1. \A c \in Recorded("gv") : c \in Nat
      BY <1>1 DEF Recorded
    <3>2. \A c \in Recorded("gv") : ~(c < 0)
      BY <3>1
    <3> QED
      BY <1>2, <1>7, <3>2 DEF NothingMissing
  <2> QED
    BY <1>5, <2>2, <2>3, <2>4, CalcTypes DEF GVInv
<1>13. CandidateInv
  <2>1. \A a \in Address : ~(Registered[a] <= 0) /\ ~(Unregistered[a] # 0 /\ Unregistered[a] <= 0)
    BY ManagementAssumption
  <2> QED
    BY <1>2, <1>5, <1>8, <2>1, CalcTypes DEF CandidateInv, Candidate
<1> QED
  BY <1>9, <1>10, <1>11, <1>12, <1>13 DEF ManagementInv

-----------------------------------------------------------------------------
(* Steps that leave the chain and the calculations done as they are. *)

(* What the invariant says of a bucket does not change with them. *)
LEMMA SameChain ==
    ASSUME NEW d, UNCHANGED <<chain, tip>>,
           info'.calcDone = info.calcDone, info'.prevCalcDone = info.prevCalcDone
    PROVE  /\ OfChain(d)' <=> OfChain(d)
           /\ NotAhead(d)' <=> NotAhead(d)
           /\ NothingMissing(d)' <=> NothingMissing(d)
           /\ HasFirst(d)' <=> HasFirst(d)
           /\ \A h : UpTo(d, h)' <=> UpTo(d, h)
<1>1. Recorded("gv")' = Recorded("gv")
  BY DEF Recorded
<1>2. \A c : Needed("gv", c)' <=> Needed("gv", c)
  BY <1>1 DEF Needed
<1>3. OfChain(d)' <=> OfChain(d)
  BY DEF OfChain
<1>4. NotAhead(d)' <=> NotAhead(d)
  BY DEF NotAhead
<1>5. NothingMissing(d)' <=> NothingMissing(d)
  BY <1>1, <1>2 DEF NothingMissing
<1>6. HasFirst(d)' <=> HasFirst(d)
  BY <1>1, <1>2 DEF HasFirst
<1>7. \A h : UpTo(d, h)' <=> UpTo(d, h)
  BY <1>1, <1>2 DEF UpTo
<1> QED
  BY <1>3, <1>4, <1>5, <1>6, <1>7

(* The term that is over is the one after the last calculation. *)
LEMMA NextCalculation ==
    ASSUME Types, Schedule, rollback = "idle", info.calcDone < TermEnd(tip)
    PROVE  TermEnd(tip) = info.calcDone + Term /\ TermEnd(tip) <= tip
           /\ (info.calcDone + Term) % Term = 0
<1>1. /\ Term \in Nat /\ Term > 0 /\ info.calcDone \in Nat /\ tip \in Nat
      /\ info.calcDone % Term = 0 /\ info.calcDone <= tip /\ tip < info.calcDone + 2 * Term
  BY HeightTypes DEF Schedule
<1>2. PICK T \in Nat, C \in Nat, x \in Nat : T = Term /\ C = info.calcDone /\ x = tip
  BY <1>1
<1>3. T > 0 /\ C % T = 0 /\ C <= x /\ x < C + 2 * T /\ C < x - (x % T)
  BY <1>1, <1>2 DEF TermEnd
<1>4. (C + T) % T = 0
  BY <1>3, NextTerm
<1>5. C + T <= x
  <2>1. CASE x < C + T
    <3>1. x - (x % T) = C
      BY <1>3, <2>1, TermEndIs
    <3> QED
      BY <1>3, <3>1
  <2> QED
    BY <2>1
<1>6. x - (x % T) = C + T
  <2>1. x < (C + T) + T /\ C + T \in Nat
    BY <1>3
  <2> QED
    BY <1>3, <1>4, <1>5, <2>1, TermEndIs
<1> QED
  BY <1>2, <1>4, <1>5, <1>6 DEF TermEnd

\* a calculation that is about to use the IISS data of a term
Begins(c, h) ==
    /\ c \in CalcType
    /\ c.phase = "gv" /\ c.height = h /\ ~c.quit /\ c.txs = IISSTXs(h)
    /\ c.gvs \in [(h - Term) .. (h - 1) -> GVValue \cup {None}]
    /\ c.preps \in [(h - Term) .. (h - 1) -> PRepValue \cup {None}]
    /\ \A b \in (h - Term) .. (h - 1) : c.gvs[b] = chain[b].gv /\ c.preps[b] = chain[b].prep

(* This is how it begins. *)
LEMMA LoadedTypes ==
    ASSUME Types, NEW h \in Height, h >= Term
    PROVE  Begins(Loaded(h), h)
<1> DEFINE W == (h - Term) .. (h - 1)
<1>0. PICK c : c = Loaded(h)
  OBVIOUS
<1>1. MaxHeight \in Nat /\ Term \in Nat /\ Height \subseteq Nat /\ h \in Nat /\ h <= MaxHeight
  BY HeightTypes
<1>2. W \in SUBSET Height
  BY <1>1, ManagementAssumption DEF Height
<1>3. chain \in [Height -> [gv : GVValue \cup {None}, prep : PRepValue \cup {None}]]
  BY DEF Types
<1>4. PICK g, p, t : g = IISSEntries("gv", h) /\ p = IISSEntries("prep", h) /\ t = IISSTXs(h)
  OBVIOUS
<1>5. \A b \in Height : chain[b]["gv"] = chain[b].gv /\ chain[b]["prep"] = chain[b].prep
                        /\ chain[b].gv \in GVValue \cup {None} /\ chain[b].prep \in PRepValue \cup {None}
  BY <1>3
<1>6. g = [b \in W |-> chain[b].gv] /\ p = [b \in W |-> chain[b].prep]
  BY <1>2, <1>4, <1>5 DEF IISSEntries
<1>7. g \in [W -> GVValue \cup {None}] /\ p \in [W -> PRepValue \cup {None}]
  BY <1>2, <1>5, <1>6
<1>8. t \in SUBSET TXs
  <2>1. Registered \in [Address -> Nat] /\ Unregistered \in [Address -> Nat]
    BY ManagementAssumption
  <2> QED
    BY <1>4, <2>1 DEF IISSTXs, TXs
<1>9. g \in Buckets(GVValue \cup {None}) /\ p \in Buckets(PRepValue \cup {None})
  BY <1>7 DEF Buckets
<1>10. c = [phase |-> "gv", height |-> h, quit |-> FALSE, gvs |-> g, preps |-> p, txs |-> t]
  BY <1>0, <1>4 DEF Loaded, Idle
<1>11. c \in CalcType
  BY <1>8, <1>9, <1>10 DEF CalcType, Phases
<1>12. /\ c.phase = "gv" /\ c.height = h /\ ~c.quit /\ c.txs = t
       /\ c.gvs = g /\ c.preps = p
  BY <1>10
<1> HIDE DEF W
<1>13. \A b \in W : g[b] = chain[b].gv /\ p[b] = chain[b].prep
  BY <1>6
<1> QED
  BY <1>0, <1>4, <1>7, <1>11, <1>12, <1>13 DEF W, Begins

(* What the invariant says of candidates does not change with other state. *)
LEMMA SameCandidates ==
    ASSUME UNCHANGED candidate
    PROVE  /\ \A a : Candidate(a)' <=> Candidate(a)
           /\ \A tx : Applied(tx)' <=> Applied(tx)
BY DEF Candidate, Applied

(* CALCULATE. *)
LEMMA StepCalculate == ASSUME ManagementInv, Calculate PROVE ManagementInv'
<1>1. Types /\ Schedule /\ Data /\ GVInv /\ CandidateInv
  BY DEF ManagementInv
<1>2. /\ calc = Idle /\ rollback = "idle" /\ info.calcDone < TermEnd(tip)
      /\ calc' = Loaded(TermEnd(tip)) /\ info' = [info EXCEPT !.calculating = TermEnd(tip)]
      /\ UNCHANGED <<gv, prep, candidate, gvDB, prepDB, candidateDB, rollback, tip, chain>>
  BY DEF Calculate, memory, dbs, isVars
<1>3. PICK h \in Height : h = TermEnd(tip) /\ h = info.calcDone + Term /\ h <= tip /\ h >= Term
  <2>1. /\ TermEnd(tip) = info.calcDone + Term /\ TermEnd(tip) <= tip
    BY <1>1, <1>2, NextCalculation
  <2>2. /\ info.calcDone \in Nat /\ Term \in Nat /\ tip \in Height /\ tip \in Nat /\ MaxHeight \in Nat
        /\ \A k \in Nat : k \in Height <=> k <= MaxHeight
    BY <1>1, HeightTypes
  <2>3. TermEnd(tip) \in Height /\ TermEnd(tip) >= Term
    BY <2>1, <2>2
  <2> QED
    BY <2>1, <2>3
<1>4. /\ calc' \in CalcType
      /\ calc'.phase = "gv" /\ calc'.height = h /\ ~calc'.quit /\ calc'.txs = IISSTXs(h)
      /\ calc'.gvs \in [(h - Term) .. (h - 1) -> GVValue \cup {None}]
      /\ calc'.preps \in [(h - Term) .. (h - 1) -> PRepValue \cup {None}]
      /\ \A b \in (h - Term) .. (h - 1) : calc'.gvs[b] = chain[b].gv /\ calc'.preps[b] = chain[b].prep
  <2>1. Begins(Loaded(h), h)
    BY <1>1, <1>3, LoadedTypes
  <2>2. calc' = Loaded(h)
    BY <1>2, <1>3
  <2> QED
    BY <2>1, <2>2 DEF Begins
<1>5. /\ info' \in [calcDone : Height, prevCalcDone : Height, calculating : Height]
      /\ info'.calcDone = info.calcDone /\ info'.prevCalcDone = info.prevCalcDone
      /\ info'.calculating = h
  BY <1>1, <1>2, <1>3 DEF Types
<1>6. Types'
  BY <1>1, <1>2, <1>4, <1>5 DEF Types
<1>7. Schedule'
  <2>1. info.calcDone < tip
    <3>1. info.calcDone \in Nat /\ Term \in Nat /\ Term > 0 /\ tip \in Nat
      BY <1>1, HeightTypes
    <3> QED
      BY <1>3, <3>1
  <2> QED
    BY <1>1, <1>2, <1>3, <1>4, <1>5, <2>1 DEF Schedule
<1>8. Data'
  BY <1>2, <1>4 DEF Data
<1>9. GVInv'
  BY <1>1, <1>2, <1>4, <1>5, SameChain DEF GVInv, OfChain, NotAhead, NothingMissing, HasFirst, UpTo, Recorded, Needed
<1>10. CandidateInv'
  BY <1>1, <1>2, <1>4, <1>5, SameCandidates DEF CandidateInv
<1> QED
  BY <1>6, <1>7, <1>8, <1>9, <1>10 DEF ManagementInv

(* The calculation goes on to its next phase. *)
LEMMA NextPhase ==
    ASSUME Types, NEW p \in Phases, calc' = [calc EXCEPT !.phase = p]
    PROVE  /\ calc' \in CalcType
           /\ calc'.phase = p /\ calc'.height = calc.height /\ calc'.quit = calc.quit
           /\ calc'.gvs = calc.gvs /\ calc'.preps = calc.preps /\ calc'.txs = calc.txs
<1>1. calc \in CalcType
  BY DEF Types
<1>2. calc' \in CalcType
  BY <1>1 DEF CalcType
<1> QED
  BY <1>1, <1>2 DEF CalcType

(* UpdateGovernanceVariable. *)
LEMMA StepUpdateGV == ASSUME ManagementInv, UpdateGovernanceVariable PROVE ManagementInv'
<1>1. Types /\ Schedule /\ Data /\ GVInv /\ CandidateInv
  BY DEF ManagementInv
<1>2. /\ calc.phase = "gv"
      /\ gv' = WithoutOld(gv \o NewGV(gv, calc.gvs))
      /\ gvDB' = Written(gvDB, GVWrites, Len(GVWrites))
      /\ calc' = [calc EXCEPT !.phase = "prep"]
      /\ UNCHANGED <<prep, candidate, prepDB, candidateDB, info, rollback, tip, chain>>
  BY DEF UpdateGovernanceVariable, isVars
<1>3. /\ calc' \in CalcType
      /\ calc'.phase = "prep" /\ calc'.height = calc.height /\ calc'.quit = calc.quit
      /\ calc'.preps = calc.preps /\ calc'.txs = calc.txs
  BY <1>1, <1>2, NextPhase DEF Phases
<1>4. /\ calc.height = info.calcDone + Term /\ ~calc.quit
      /\ rollback \in {"idle", "info"}
  BY <1>1, <1>2, Window
<1>5. PICK d, l : d = gvDB' /\ l = gv'
  OBVIOUS
<1>6. Len(GVWrites) \in Nat
  <2> DEFINE new == NewGV(gv, calc.gvs)
  <2>1. /\ info.calcDone .. (calc.height - 1) \in SUBSET Height
        /\ calc.gvs \in [info.calcDone .. (calc.height - 1) -> GVValue \cup {None}]
    BY <1>1, <1>2, Window
  <2>2. gv \in Seq(EntryOf(GVValue)) /\ InOrder(gv)
    BY <1>1 DEF GVInv, Listed
  <2>3. new \in Seq(EntryOf(GVValue)) /\ InOrder(gv \o new)
    BY <2>1, <2>2, NewGVIs
  <2> HIDE DEF new
  <2>4. gv \o new \in Seq(EntryOf(GVValue)) /\ InOrder(new) /\ 0 \in 0 .. Len(new)
    BY <2>2, <2>3, Parts
  <2>5. gvDB \in [Height -> GVValue \cup {None}]
    BY <1>1 DEF Types
  <2>6. Sets(new) \in Seq(Writes(GVValue))
    BY <2>3, <2>4, <2>5, SetsWrite
  <2>7. DeleteOld(gv \o new) \in Seq(Writes(GVValue))
    BY <2>4, DeleteTypes
  <2>8. GVWrites = Sets(new) \o DeleteOld(gv \o new)
    BY DEF GVWrites, new
  <2> QED
    BY <2>6, <2>7, <2>8
<1>7. /\ d \in [Height -> GVValue \cup {None}]
      /\ OfChain(d) /\ NothingMissing(d) /\ HasFirst(d)
      /\ rollback \notin {"info", "gv"} => NotAhead(d)
      /\ Listed(l, d, GVValue) /\ UpTo(d, calc.height)
  <2>1. PICK n \in 0 .. Len(GVWrites) : n = Len(GVWrites)
    BY <1>6
  <2>2. d = Written(gvDB, GVWrites, n) /\ l = WithoutOld(gv \o NewGV(gv, calc.gvs))
    BY <1>2, <1>5, <2>1
  <2> QED
    BY <1>1, <1>2, <2>1, <2>2, GVUpdate
<1>8. Types'
  BY <1>1, <1>2, <1>3, <1>5, <1>7 DEF Types
<1>9. Schedule'
  BY <1>1, <1>2, <1>3, <1>4 DEF Schedule
<1>10. Data'
  BY <1>1, <1>2, <1>3 DEF Data
<1>11. GVInv'
  <2>1. /\ OfChain(d)' /\ NothingMissing(d)' /\ HasFirst(d)' /\ UpTo(d, calc.height)'
        /\ rollback \notin {"info", "gv"} => NotAhead(d)'
    <3>1. UNCHANGED <<chain, tip>> /\ info'.calcDone = info.calcDone
          /\ info'.prevCalcDone = info.prevCalcDone
      BY <1>2
    <3> QED
      BY <1>3, <1>7, <3>1, SameChain DEF UpTo
  <2> QED
    BY <1>2, <1>3, <1>5, <1>7, <2>1 DEF GVInv, OfChain, NotAhead, NothingMissing, HasFirst, UpTo
<1>12. CandidateInv'
  BY <1>1, <1>2, <1>3, SameCandidates DEF CandidateInv
<1> QED
  BY <1>8, <1>9, <1>10, <1>11, <1>12 DEF ManagementInv

(* A step that leaves the bucket and the list as they are as well. *)
LEMMA SameGV ==
    ASSUME GVInv, UNCHANGED <<gv, gvDB, chain, tip>>,
           info'.calcDone = info.calcDone, info'.prevCalcDone = info.prevCalcDone
    PROVE  /\ Listed(gv, gvDB, GVValue)'
           /\ OfChain(gvDB)' /\ NothingMissing(gvDB)' /\ HasFirst(gvDB)'
           /\ NotAhead(gvDB) => NotAhead(gvDB)'
           /\ \A h : UpTo(gvDB, h) => UpTo(gvDB, h)'
<1>1. Recorded("gv")' = Recorded("gv")
  BY DEF Recorded
<1>2. \A c : Needed("gv", c)' <=> Needed("gv", c)
  BY <1>1 DEF Needed
<1>3. Listed(gv, gvDB, GVValue)' /\ OfChain(gvDB)' /\ (NotAhead(gvDB) => NotAhead(gvDB)')
  BY DEF GVInv, OfChain, NotAhead
<1>4. NothingMissing(gvDB)' /\ HasFirst(gvDB)'
  BY <1>1, <1>2 DEF GVInv, NothingMissing, HasFirst
<1>5. \A h : UpTo(gvDB, h) => UpTo(gvDB, h)'
  BY <1>1, <1>2 DEF UpTo
<1> QED
  BY <1>3, <1>4, <1>5

(* UpdatePRep. *)
LEMMA StepUpdatePRep == ASSUME ManagementInv, UpdatePRep PROVE ManagementInv'
<1>1. Types /\ Schedule /\ Data /\ GVInv /\ CandidateInv
  BY DEF ManagementInv
<1>2. /\ calc.phase = "prep"
      /\ prep' = WithoutOld(prep \o Load(calc.preps))
      /\ prepDB' = Written(prepDB, PRepWrites, Len(PRepWrites))
      /\ calc' = [calc EXCEPT !.phase = "candidate"]
      /\ UNCHANGED <<gv, candidate, gvDB, candidateDB, info, rollback, tip, chain>>
  BY DEF UpdatePRep, isVars
<1>3. /\ calc' \in CalcType
      /\ calc'.phase = "candidate" /\ calc'.height = calc.height /\ calc'.quit = calc.quit
      /\ calc'.txs = calc.txs
  BY <1>1, <1>2, NextPhase DEF Phases
<1>4. ~calc.quit /\ rollback \in {"idle", "info"}
  BY <1>1, <1>2, Window
<1>5. /\ prep \o Load(calc.preps) \in Seq(EntryOf(PRepValue))
      /\ PRepWrites \in Seq(Writes(PRepValue))
  BY <1>1, <1>2, PRepUpdate
<1>6. prep' \in Seq(EntryOf(PRepValue))
  <2>1. info.prevCalcDone \in Int /\ tip \in Int
    BY <1>1, HeightTypes
  <2>2. WithoutOld(prep \o Load(calc.preps)) \in Seq(EntryOf(PRepValue))
    BY <1>5, <2>1, CutLists
  <2> QED
    BY <1>2, <2>2
<1>7. prepDB' \in [Height -> PRepValue \cup {None}]
  <2>1. Len(PRepWrites) \in 0 .. Len(PRepWrites)
    BY <1>5
  <2>2. Written(prepDB, PRepWrites, Len(PRepWrites)) \in [Height -> PRepValue \cup {None}]
    BY <1>1, <1>2, <2>1, PRepUpdateKeys
  <2> QED
    BY <1>2, <2>2
<1>8. Types'
  BY <1>1, <1>2, <1>3, <1>6, <1>7 DEF Types
<1>9. Schedule'
  BY <1>1, <1>2, <1>3, <1>4 DEF Schedule
<1>10. Data'
  BY <1>3 DEF Data
<1>11. GVInv'
  BY <1>1, <1>2, <1>3, <1>4, SameGV DEF GVInv
<1>12. CandidateInv'
  BY <1>1, <1>2, <1>3, SameCandidates DEF CandidateInv
<1> QED
  BY <1>8, <1>9, <1>10, <1>11, <1>12 DEF ManagementInv

(* The end of the loop of UpdatePRepCandidate. *)
LEMMA StepEndPRepCandidate == ASSUME ManagementInv, EndPRepCandidate PROVE ManagementInv'
<1>1. Types /\ Schedule /\ Data /\ GVInv /\ CandidateInv
  BY DEF ManagementInv
<1>2. /\ calc.phase = "candidate" /\ calc.txs = {}
      /\ calc' = [calc EXCEPT !.phase = "rewards"]
      /\ UNCHANGED <<gv, prep, candidate, gvDB, prepDB, candidateDB, info, rollback, tip, chain>>
  BY DEF EndPRepCandidate, memory, dbs, isVars
<1>3. /\ calc' \in CalcType
      /\ calc'.phase = "rewards" /\ calc'.height = calc.height /\ calc'.quit = calc.quit
      /\ calc'.txs = calc.txs
  BY <1>1, <1>2, NextPhase DEF Phases
<1>4. ~calc.quit /\ rollback \in {"idle", "info"}
  BY <1>1, <1>2 DEF Schedule, Types
<1>5. Types'
  BY <1>1, <1>2, <1>3 DEF Types
<1>6. Schedule'
  BY <1>1, <1>2, <1>3, <1>4 DEF Schedule
<1>7. Data'
  BY <1>3 DEF Data
<1>8. GVInv'
  BY <1>1, <1>2, <1>3, <1>4, SameGV DEF GVInv
<1>9. CandidateInv'
  BY <1>1, <1>2, <1>3, SameCandidates DEF CandidateInv
<1> QED
  BY <1>5, <1>6, <1>7, <1>8, <1>9 DEF ManagementInv

(* The transactions of a term: what a candidate did in it. *)
LEMMA TXIs ==
    ASSUME NEW h \in Nat, NEW C \in Nat, h = C + Term, NEW tx \in IISSTXs(h)
    PROVE  /\ tx \in TXs /\ tx.addr \in Address /\ tx.type \in {"reg", "unreg"}
           /\ tx.blockHeight \in Nat /\ C < tx.blockHeight /\ tx.blockHeight <= h
           /\ tx.type = "reg" => tx.blockHeight = Registered[tx.addr]
           /\ tx.type = "unreg" => tx.blockHeight = Unregistered[tx.addr]
<1>1. Registered \in [Address -> Nat] /\ Unregistered \in [Address -> Nat] /\ Term \in Nat
  BY ManagementAssumption
<1>2. /\ tx \in {[addr |-> a, type |-> "reg", blockHeight |-> Registered[a]] : a \in Address}
                  \cup {[addr |-> a, type |-> "unreg", blockHeight |-> Unregistered[a]] : a \in Address}
      /\ tx.blockHeight \in (h - Term + 1) .. h
  BY DEF IISSTXs
<1>3. PICK a \in Address :
         \/ tx = [addr |-> a, type |-> "reg", blockHeight |-> Registered[a]]
         \/ tx = [addr |-> a, type |-> "unreg", blockHeight |-> Unregistered[a]]
  BY <1>2
<1>4. /\ tx.addr = a /\ tx.type \in {"reg", "unreg"} /\ tx.blockHeight \in Nat /\ tx \in TXs
      /\ tx.type = "reg" => tx.blockHeight = Registered[tx.addr]
      /\ tx.type = "unreg" => tx.blockHeight = Unregistered[tx.addr]
  BY <1>1, <1>3 DEF TXs
<1>5. C < tx.blockHeight /\ tx.blockHeight <= h
  BY <1>1, <1>2, <1>4
<1> QED
  BY <1>4, <1>5

(* ... and all that candidates did in it. *)
LEMMA TXOf ==
    ASSUME NEW h \in Nat, NEW C \in Nat, h = C + Term, NEW a \in Address
    PROVE  /\ C < Registered[a] /\ Registered[a] <= h =>
                 \E tx \in IISSTXs(h) : /\ tx.addr = a /\ tx.type = "reg"
                                        /\ tx.blockHeight = Registered[a]
           /\ C < Unregistered[a] /\ Unregistered[a] <= h =>
                 \E tx \in IISSTXs(h) : /\ tx.addr = a /\ tx.type = "unreg"
                                        /\ tx.blockHeight = Unregistered[a]
<1>1. Registered[a] \in Nat /\ Unregistered[a] \in Nat /\ Term \in Nat
  BY ManagementAssumption
<1>2. ASSUME C < Registered[a], Registered[a] <= h
      PROVE  \E tx \in IISSTXs(h) : tx.addr = a /\ tx.type = "reg" /\ tx.blockHeight = Registered[a]
  <2>1. PICK tx : tx = [addr |-> a, type |-> "reg", blockHeight |-> Registered[a]]
    OBVIOUS
  <2>2. tx.addr = a /\ tx.type = "reg" /\ tx.blockHeight = Registered[a]
    BY <2>1
  <2>3. tx.blockHeight \in (h - Term + 1) .. h
    BY <1>1, <1>2, <2>2
  <2>4. tx \in IISSTXs(h)
    BY <2>1, <2>3 DEF IISSTXs
  <2> QED
    BY <2>2, <2>4
<1>3. ASSUME C < Unregistered[a], Unregistered[a] <= h
      PROVE  \E tx \in IISSTXs(h) : tx.addr = a /\ tx.type = "unreg" /\ tx.blockHeight = Unregistered[a]
  <2>1. PICK tx : tx = [addr |-> a, type |-> "unreg", blockHeight |-> Unregistered[a]]
    OBVIOUS
  <2>2. tx.addr = a /\ tx.type = "unreg" /\ tx.blockHeight = Unregistered[a]
    BY <2>1
  <2>3. tx.blockHeight \in (h - Term + 1) .. h
    BY <1>1, <1>3, <2>2
  <2>4. tx \in IISSTXs(h)
    BY <2>1, <2>3 DEF IISSTXs
  <2> QED
    BY <2>2, <2>4
<1> QED
  BY <1>2, <1>3

(* When the rewards are calculated, candidates are as the term left them. *)
LEMMA AllApplied ==
    ASSUME Types, Schedule, CandidateInv, calc.phase = "rewards", NEW a \in Address
    PROVE  /\ Registered[a] <= calc.height => candidate[a] # NoCandidate
           /\ Unregistered[a] # 0 /\ Unregistered[a] <= calc.height =>
                 candidate[a].end = Unregistered[a]
<1>1. PICK C \in Nat, H \in Nat : C = info.calcDone /\ H = calc.height /\ H = C + Term
  BY HeightTypes DEF Schedule
<1>2. Registered[a] \in Nat /\ Unregistered[a] \in Nat
  BY ManagementAssumption
<1>3. \A tx \in IISSTXs(H) : Applied(tx)
  BY <1>1 DEF CandidateInv
<1>4. ASSUME Registered[a] <= H PROVE candidate[a] # NoCandidate
  <2>1. CASE Registered[a] <= C
    BY <1>1, <2>1 DEF CandidateInv
  <2>2. CASE ~(Registered[a] <= C)
    <3>1. C < Registered[a]
      BY <1>2, <2>2
    <3>2. PICK tx \in IISSTXs(H) : tx.addr = a /\ tx.type = "reg"
      BY <1>1, <1>4, <3>1, TXOf
    <3> QED
      BY <1>3, <3>2 DEF Applied
  <2> QED
    BY <2>1, <2>2
<1>5. ASSUME Unregistered[a] # 0, Unregistered[a] <= H PROVE candidate[a].end = Unregistered[a]
  <2>1. CASE Unregistered[a] <= C
    BY <1>1, <1>5, <2>1 DEF CandidateInv
  <2>2. CASE ~(Unregistered[a] <= C)
    <3>1. C < Unregistered[a]
      BY <1>2, <2>2
    <3>2. PICK tx \in IISSTXs(H) :
             tx.addr = a /\ tx.type = "unreg" /\ tx.blockHeight = Unregistered[a]
      BY <1>1, <1>5, <3>1, TXOf
    <3>3. tx.type # "reg"
      BY <3>2
    <3> QED
      BY <1>3, <3>2, <3>3 DEF Applied
  <2> QED
    BY <2>1, <2>2
<1> QED
  BY <1>1, <1>4, <1>5

(* A transaction of UpdatePRepCandidate. *)
LEMMA StepUpdatePRepCandidate == ASSUME ManagementInv, UpdatePRepCandidate PROVE ManagementInv'
<1>1. Types /\ Schedule /\ Data /\ GVInv /\ CandidateInv
  BY DEF ManagementInv
<1>2. PICK tx \in calc.txs :
         /\ \A t \in calc.txs : tx.blockHeight <= t.blockHeight
         /\ candidate' = [candidate EXCEPT ![tx.addr] = AfterTX(candidate[tx.addr], tx)]
         /\ candidateDB' = IF AfterTX(candidate[tx.addr], tx) = candidate[tx.addr] THEN candidateDB
                           ELSE [candidateDB EXCEPT ![tx.addr] = AfterTX(candidate[tx.addr], tx)]
         /\ calc' = [calc EXCEPT !.txs = @ \ {tx}]
  BY DEF UpdatePRepCandidate
<1>3. /\ calc.phase = "candidate"
      /\ UNCHANGED <<gv, prep, gvDB, prepDB, info, rollback, tip, chain>>
  BY DEF UpdatePRepCandidate, isVars
<1>4. calc \in CalcType
  BY <1>1 DEF Types
<1>5. /\ calc' \in CalcType
      /\ calc'.phase = "candidate" /\ calc'.height = calc.height /\ calc'.quit = calc.quit
      /\ calc'.txs = calc.txs \ {tx}
  <2>1. PICK t \in SUBSET TXs : t = calc.txs \ {tx}
    BY <1>4 DEF CalcType
  <2>2. calc' = [calc EXCEPT !.txs = t]
    BY <1>2, <1>4, <2>1 DEF CalcType
  <2> QED
    BY <1>3, <1>4, <2>1, <2>2 DEF CalcType
<1>6. ~calc.quit /\ calc.height = info.calcDone + Term
  BY <1>1, <1>3 DEF Schedule
<1>7. PICK C \in Nat, h \in Nat : /\ C = info.calcDone /\ h = calc.height /\ h = C + Term
                                  /\ h \in Height
  BY <1>1, <1>6, HeightTypes
<1>8. tx \in IISSTXs(h)
  BY <1>1, <1>3, <1>7 DEF CandidateInv
<1>9. PICK a \in Address : a = tx.addr
  BY <1>7, <1>8, TXIs
<1>10. /\ tx.type \in {"reg", "unreg"}
       /\ tx.blockHeight \in Height /\ tx.blockHeight # 0
       /\ tx.type = "reg" => tx.blockHeight = Registered[a]
       /\ tx.type = "unreg" => tx.blockHeight = Unregistered[a]
  <2>1. /\ tx.type \in {"reg", "unreg"} /\ tx.blockHeight \in Nat
        /\ C < tx.blockHeight /\ tx.blockHeight <= h
        /\ tx.type = "reg" => tx.blockHeight = Registered[a]
        /\ tx.type = "unreg" => tx.blockHeight = Unregistered[a]
    BY <1>7, <1>8, <1>9, TXIs
  <2> QED
    BY <1>7, <2>1, ManagementAssumption DEF Height
<1>11. candidate \in [Address -> [start : Height, end : Height]] /\ candidateDB = candidate
  BY <1>1 DEF Types, CandidateInv
<1>12. PICK c \in [start : Height, end : Height] : c = candidate[a] /\ Candidate(a)
  BY <1>1, <1>11 DEF CandidateInv
<1>13. \/ c = NoCandidate
       \/ c = [start |-> Registered[a], end |-> 0]
       \/ Unregistered[a] # 0 /\ c = [start |-> Registered[a], end |-> Unregistered[a]]
  BY <1>12 DEF Candidate
<1>14. Registered[a] \in Nat /\ Registered[a] # 0 /\ Unregistered[a] \in Nat
       /\ (Unregistered[a] # 0 => Registered[a] < Unregistered[a])
  BY ManagementAssumption
<1>15. PICK n : n = AfterTX(c, tx)
  OBVIOUS
<1>16. ASSUME tx.type = "reg"
       PROVE  /\ n \in [start : Height, end : Height] /\ n # NoCandidate
              /\ \/ n = [start |-> Registered[a], end |-> 0]
                 \/ Unregistered[a] # 0 /\ n = [start |-> Registered[a], end |-> Unregistered[a]]
              /\ c # NoCandidate => n = c
  <2>1. CASE c = NoCandidate
    <3>1. c.start = 0 /\ c.end = 0
      BY <2>1 DEF NoCandidate
    <3>2. n = [c EXCEPT !.start = tx.blockHeight]
      BY <1>15, <1>16, <2>1 DEF AfterTX
    <3>3. n = [start |-> Registered[a], end |-> 0] /\ n \in [start : Height, end : Height]
      BY <1>10, <1>16, <3>1, <3>2
    <3> QED
      BY <1>14, <2>1, <3>3 DEF NoCandidate
  <2>2. CASE c # NoCandidate
    <3>1. n = c
      BY <1>15, <1>16, <2>2 DEF AfterTX
    <3> QED
      BY <1>13, <2>2, <3>1
  <2> QED
    BY <2>1, <2>2
<1>17. ASSUME tx.type = "unreg"
       PROVE  c # NoCandidate
  <2>1. /\ C < Unregistered[a] /\ Unregistered[a] <= h /\ Registered[a] < Unregistered[a]
    <3>1. C < tx.blockHeight /\ tx.blockHeight <= h
      BY <1>7, <1>8, TXIs
    <3> QED
      BY <1>10, <1>14, <1>17, <3>1
  <2>2. CASE Registered[a] <= C
    BY <1>1, <1>7, <1>12, <2>2 DEF CandidateInv
  <2>3. CASE ~(Registered[a] <= C)
    <3>1. C < Registered[a] /\ Registered[a] <= h
      BY <1>14, <2>1, <2>3
    <3>2. PICK t \in IISSTXs(h) : t.addr = a /\ t.type = "reg" /\ t.blockHeight = Registered[a]
      BY <1>7, <3>1, TXOf
    <3>3. t \notin calc.txs
      BY <1>2, <1>10, <1>14, <1>17, <2>1, <3>2
    <3>4. Applied(t)
      BY <1>1, <1>3, <1>7, <3>2, <3>3 DEF CandidateInv
    <3> QED
      BY <1>12, <3>2, <3>4 DEF Applied
  <2> QED
    BY <2>2, <2>3
<1>18. ASSUME tx.type = "unreg"
       PROVE  /\ n \in [start : Height, end : Height] /\ n # NoCandidate
              /\ Unregistered[a] # 0 /\ n = [start |-> Registered[a], end |-> Unregistered[a]]
              /\ n.end = Unregistered[a]
  <2>1. c # NoCandidate /\ Unregistered[a] # 0 /\ tx.type # "reg"
    BY <1>10, <1>17, <1>18
  <2>2. CASE c.end = 0
    <3>1. n = [c EXCEPT !.end = tx.blockHeight]
      BY <1>15, <2>1, <2>2 DEF AfterTX
    <3>2. c = [start |-> Registered[a], end |-> 0]
      BY <1>13, <2>1, <2>2
    <3>3. n = [start |-> Registered[a], end |-> Unregistered[a]] /\ n \in [start : Height, end : Height]
      BY <1>10, <1>18, <3>1, <3>2
    <3> QED
      BY <1>14, <2>1, <3>3 DEF NoCandidate
  <2>3. CASE c.end # 0
    <3>1. n = c
      BY <1>15, <2>1, <2>3 DEF AfterTX
    <3>2. c = [start |-> Registered[a], end |-> Unregistered[a]]
      BY <1>13, <2>1, <2>3
    <3> QED
      BY <2>1, <3>1, <3>2
  <2> QED
    BY <2>2, <2>3
<1>19. /\ n \in [start : Height, end : Height] /\ n # NoCandidate
       /\ \/ n = [start |-> Registered[a], end |-> 0]
          \/ Unregistered[a] # 0 /\ n = [start |-> Registered[a], end |-> Unregistered[a]]
  BY <1>10, <1>16, <1>18
<1>20. candidate' = [candidate EXCEPT ![a] = n]
  BY <1>2, <1>9, <1>12, <1>15
<1>21. candidateDB' = candidate'
  <2>1. candidateDB' = IF n = candidate[a] THEN candidateDB ELSE [candidateDB EXCEPT ![a] = n]
    BY <1>2, <1>9, <1>12, <1>15
  <2> QED
    BY <1>11, <1>20, <2>1
<1>22. /\ candidate' \in [Address -> [start : Height, end : Height]]
       /\ candidate'[a] = n /\ \A b \in Address : b # a => candidate'[b] = candidate[b]
  BY <1>11, <1>19, <1>20
<1>23. Types'
  BY <1>1, <1>3, <1>5, <1>22 DEF Types
<1>24. Schedule'
  BY <1>1, <1>3, <1>5, <1>6 DEF Schedule
<1>25. Data'
  BY <1>5 DEF Data
<1>26. GVInv'
  BY <1>1, <1>3, <1>5, <1>6, SameGV DEF GVInv
<1>27. CandidateInv'
  <2>1. \A b \in Address : Candidate(b)'
    <3>1. ASSUME NEW b \in Address PROVE Candidate(b)'
      <4>1. CASE b = a
        BY <1>19, <1>22, <4>1 DEF Candidate
      <4>2. CASE b # a
        BY <1>1, <1>22, <4>2 DEF CandidateInv, Candidate
      <4> QED
        BY <4>1, <4>2
    <3> QED
      BY <3>1
  <2>2. \A b \in Address : candidate[b] # NoCandidate => candidate'[b] # NoCandidate
    BY <1>19, <1>22
  <2>3. ASSUME NEW b \in Address, Unregistered[b] # 0, candidate[b].end = Unregistered[b]
        PROVE  candidate'[b].end = Unregistered[b]
    <3>1. CASE b # a
      BY <1>22, <2>3, <3>1
    <3>2. CASE b = a
      <4>1. c.end = Unregistered[a] /\ c # NoCandidate
        BY <1>12, <2>3, <3>2 DEF NoCandidate
      <4>2. n.end = Unregistered[a]
        BY <1>10, <1>16, <1>18, <4>1
      <4> QED
        BY <1>22, <3>2, <4>2
    <3> QED
      BY <3>1, <3>2
  <2>4. \A b \in Address :
           /\ Registered[b] <= info'.calcDone => candidate'[b] # NoCandidate
           /\ Unregistered[b] # 0 /\ Unregistered[b] <= info'.calcDone =>
                 candidate'[b].end = Unregistered[b]
    BY <1>1, <1>3, <2>2, <2>3 DEF CandidateInv
  <2>5. ASSUME NEW t \in IISSTXs(h) \ calc'.txs PROVE Applied(t)'
    <3>1. /\ t.addr \in Address /\ t.type \in {"reg", "unreg"} /\ t.blockHeight # 0
          /\ t.type = "unreg" => t.blockHeight = Unregistered[t.addr]
      <4>1. t \in IISSTXs(h)
        OBVIOUS
      <4>2. /\ t.addr \in Address /\ t.type \in {"reg", "unreg"} /\ t.blockHeight \in Nat
            /\ C < t.blockHeight
            /\ t.type = "unreg" => t.blockHeight = Unregistered[t.addr]
        BY <1>7, <4>1, TXIs
      <4> QED
        BY <4>2
    <3>2. CASE t = tx
      <4>1. CASE tx.type = "reg"
        BY <1>9, <1>19, <1>22, <3>2, <4>1 DEF Applied
      <4>2. CASE tx.type = "unreg"
        <5>1. n.end = t.blockHeight /\ t.addr = a /\ t.type # "reg"
          BY <1>9, <1>10, <1>18, <3>2, <4>2
        <5> QED
          BY <1>22, <5>1 DEF Applied
      <4> QED
        BY <1>10, <4>1, <4>2
    <3>3. CASE t # tx
      <4>1. Applied(t)
        BY <1>1, <1>3, <1>5, <1>7, <3>3 DEF CandidateInv
      <4>2. CASE t.type = "reg"
        BY <2>2, <3>1, <4>1, <4>2 DEF Applied
      <4>3. CASE t.type # "reg"
        <5>1. candidate[t.addr].end = Unregistered[t.addr] /\ Unregistered[t.addr] # 0
              /\ t.blockHeight = Unregistered[t.addr]
          BY <3>1, <4>1, <4>3 DEF Applied
        <5>2. candidate'[t.addr].end = Unregistered[t.addr]
          BY <2>3, <3>1, <5>1
        <5> QED
          BY <4>3, <5>1, <5>2 DEF Applied
      <4> QED
        BY <4>2, <4>3
    <3> QED
      BY <3>2, <3>3
  <2>6. calc'.txs \subseteq IISSTXs(h)
    BY <1>1, <1>3, <1>5, <1>7 DEF CandidateInv
  <2> QED
    BY <1>5, <1>7, <1>21, <2>1, <2>4, <2>5, <2>6 DEF CandidateInv
<1> QED
  BY <1>23, <1>24, <1>25, <1>26, <1>27 DEF ManagementInv

-----------------------------------------------------------------------------
(* Steps that change the calculations done, or the chain. *)

(* The end of a calculation. *)
LEMMA StepEndCalculation == ASSUME ManagementInv, EndCalculation PROVE ManagementInv'
<1>1. Types /\ Schedule /\ Data /\ GVInv /\ CandidateInv
  BY DEF ManagementInv
<1>2. /\ calc.phase = "rewards"
      /\ info' = IF calc.quit THEN info
                 ELSE [info EXCEPT !.prevCalcDone = info.calcDone, !.calcDone = calc.height]
      /\ calc' = Idle
      /\ UNCHANGED <<gv, prep, candidate, gvDB, prepDB, candidateDB, rollback, tip, chain>>
  BY DEF EndCalculation, memory, dbs, isVars
<1>3. calc'.phase = "idle" /\ ~calc'.quit /\ calc' \in CalcType
  BY <1>2, CalcTypes
<1>4. PICK C \in Height, P \in Height, H \in Height :
         /\ C = info.calcDone /\ P = info.prevCalcDone /\ H = calc.height
         /\ H = C + Term /\ info.calculating = H /\ C < tip
  BY <1>1, <1>2, HeightTypes DEF Schedule
<1>5. /\ Height \subseteq Nat /\ C \in Nat /\ P \in Nat /\ H \in Nat
      /\ Term \in Nat /\ Term > 0 /\ tip \in Nat /\ P <= C
  BY <1>1, <1>4, HeightTypes DEF Schedule
<1>6. info \in [calcDone : Height, prevCalcDone : Height, calculating : Height]
  BY <1>1 DEF Types
<1>7. CASE calc.quit
  <2>1. info' = info
    BY <1>2, <1>7
  <2>2. Types'
    BY <1>1, <1>2, <1>3, <2>1 DEF Types
  <2>3. Schedule'
    BY <1>1, <1>2, <1>3, <2>1 DEF Schedule
  <2>4. Data'
    BY <1>3 DEF Data
  <2>5. GVInv'
    BY <1>1, <1>2, <1>3, <2>1, SameGV DEF GVInv
  <2>6. CandidateInv'
    BY <1>1, <1>2, <1>3, <2>1, SameCandidates DEF CandidateInv
  <2> QED
    BY <2>2, <2>3, <2>4, <2>5, <2>6 DEF ManagementInv
<1>8. CASE ~calc.quit
  <2>1. /\ info' \in [calcDone : Height, prevCalcDone : Height, calculating : Height]
        /\ info'.calcDone = H /\ info'.prevCalcDone = C /\ info'.calculating = H
    BY <1>2, <1>4, <1>6, <1>8
  <2>2. rollback \in {"idle", "info"} /\ (rollback = "idle" => H <= tip)
    BY <1>1, <1>2, <1>4, <1>8 DEF Schedule, Types
  <2>3. Types'
    BY <1>1, <1>2, <1>3, <2>1 DEF Types
  <2>4. Schedule'
    <3>1. H % Term = 0
      <4>1. C % Term = 0
        BY <1>1, <1>4 DEF Schedule
      <4> QED
        BY <1>4, <1>5, <4>1, NextTerm
    <3>2. C <= tip /\ tip < H + 2 * Term
      <4>1. tip < C + 2 * Term
        BY <1>1, <1>4 DEF Schedule
      <4> QED
        BY <1>4, <1>5, <4>1
    <3> QED
      BY <1>2, <1>3, <1>4, <2>1, <2>2, <3>1, <3>2 DEF Schedule
  <2>5. Data'
    BY <1>3 DEF Data
  <2>6. GVInv'
    <3>1. Recorded("gv")' = Recorded("gv") /\ \A c \in Recorded("gv") : c \in Nat
      BY <1>2, <1>5 DEF Recorded
    <3>2. ASSUME NEW c \in Recorded("gv"), Needed("gv", c)' PROVE Needed("gv", c)
      <4>1. ASSUME NEW d \in Recorded("gv"), c < d, d <= P PROVE FALSE
        <5>1. d \in Nat /\ d <= C
          BY <1>5, <3>1, <4>1
        <5> QED
          BY <2>1, <3>1, <3>2, <4>1, <5>1 DEF Needed
      <4> QED
        BY <1>4, <4>1 DEF Needed
    <3>3. UpTo(gvDB, H)
      BY <1>1, <1>2, <1>4, <1>8 DEF GVInv
    <3>4. OfChain(gvDB)' /\ (NotAhead(gvDB) => NotAhead(gvDB)') /\ Listed(gv, gvDB, GVValue)'
      BY <1>1, <1>2 DEF GVInv, OfChain, NotAhead
    <3>5. NothingMissing(gvDB)'
      BY <1>1, <1>2, <2>1, <3>1, <3>2, <3>3 DEF GVInv, NothingMissing, UpTo
    <3>6. HasFirst(gvDB)'
      <4>1. ASSUME NEW c \in Recorded("gv"), Needed("gv", c)', c <= C PROVE c \in Keys(gvDB)
        <5>1. c < H
          BY <1>4, <1>5, <3>1, <4>1
        <5> QED
          BY <3>2, <3>3, <4>1, <5>1 DEF UpTo
      <4> QED
        BY <1>2, <2>1, <3>1, <4>1 DEF HasFirst
    <3> QED
      BY <1>1, <1>2, <1>3, <3>4, <3>5, <3>6 DEF GVInv
  <2>7. CandidateInv'
    <3>1. \A a \in Address :
             /\ Registered[a] <= H => candidate[a] # NoCandidate
             /\ Unregistered[a] # 0 /\ Unregistered[a] <= H => candidate[a].end = Unregistered[a]
      BY <1>1, <1>2, <1>4, AllApplied
    <3>2. candidateDB' = candidate' /\ \A a \in Address : Candidate(a)'
      BY <1>1, <1>2, SameCandidates DEF CandidateInv
    <3> QED
      BY <1>2, <1>3, <2>1, <3>1, <3>2 DEF CandidateInv
  <2> QED
    BY <2>3, <2>4, <2>5, <2>6, <2>7 DEF ManagementInv
<1> QED
  BY <1>7, <1>8

(* ICON Service goes back to an earlier block. *)
LEMMA StepDecideRollback ==
    ASSUME ManagementInv, NEW to \in Height, DecideRollback(to) PROVE ManagementInv'
<1>1. Types /\ Schedule /\ Data /\ GVInv /\ CandidateInv
  BY DEF ManagementInv
<1>2. /\ rollback = "idle" /\ info.prevCalcDone < to /\ to < tip
      /\ to > info.calcDone \/ calc = Idle
      /\ tip' = to /\ rollback' = "info"
      /\ chain' = [h \in Height |-> IF h > to THEN [gv |-> None, prep |-> None] ELSE chain[h]]
      /\ UNCHANGED <<gv, prep, candidate, gvDB, prepDB, candidateDB, info, calc>>
  BY DEF DecideRollback, memory, dbs
<1>3. /\ Height \subseteq Nat /\ to \in Nat /\ tip \in Nat /\ 0 \in Height
      /\ info.calcDone \in Nat /\ info.prevCalcDone \in Nat /\ Term \in Nat
  BY <1>1, HeightTypes, CalcTypes
<1>4. /\ chain \in [Height -> [gv : GVValue \cup {None}, prep : PRepValue \cup {None}]]
      /\ chain[0].gv # None
  BY <1>1 DEF Types
<1>5. /\ chain' \in [Height -> [gv : GVValue \cup {None}, prep : PRepValue \cup {None}]]
      /\ \A h \in Height : h > to => chain'[h] = [gv |-> None, prep |-> None]
      /\ \A h \in Height : h <= to => chain'[h] = chain[h]
  BY <1>2, <1>3, <1>4
<1>6. Types'
  <2>1. chain'[0] = chain[0]
    BY <1>3, <1>5
  <2> QED
    BY <1>1, <1>2, <1>5, <2>1 DEF Types
<1>7. Schedule'
  <2>1. to < info.calcDone + 2 * Term /\ info.prevCalcDone <= to
    <3>1. tip < info.calcDone + 2 * Term
      BY <1>1 DEF Schedule
    <3> QED
      BY <1>2, <1>3, <3>1
  <2>2. calc.phase # "idle" => info.calcDone < to
    BY <1>1, <1>2, <1>3, CalcTypes DEF Schedule
  <2> QED
    BY <1>1, <1>2, <2>1, <2>2 DEF Schedule
<1>8. Data'
  <2>1. ASSUME calc.phase \in {"gv", "prep"}
        PROVE  \A b \in info.calcDone .. (calc.height - 1) : b <= to =>
                  chain'[b] = chain[b] /\ b <= tip
    <3>1. info.calcDone .. (calc.height - 1) \in SUBSET Height
      BY <1>1, <2>1, Window
    <3>2. \A b \in Height : b <= to => b <= tip
      BY <1>2, <1>3
    <3> QED
      BY <1>5, <3>1, <3>2
  <2>2. calc.phase \in {"gv", "prep"} => calc.height - Term = info.calcDone
    <3>1. calc.phase \in {"gv", "prep"} => calc.height = info.calcDone + Term
      BY <1>1 DEF Schedule
    <3> QED
      BY <1>3, <3>1
  <2> QED
    BY <1>1, <1>2, <2>1, <2>2 DEF Data
<1>9. GVInv'
  <2>1. ASSUME NEW c PROVE c \in Recorded("gv")' <=> c \in Recorded("gv") /\ c <= to
    <3>1. \A h \in Height : h <= to \/ h > to
      BY <1>3
    <3> QED
      BY <1>5, <3>1 DEF Recorded
  <2>2. ASSUME NEW c PROVE Needed("gv", c)' <=> Needed("gv", c)
    <3>1. \A d \in Recorded("gv") : d <= info.prevCalcDone => d <= to
      <4>1. Recorded("gv") \subseteq Nat
        BY <1>3 DEF Recorded
      <4> QED
        BY <1>2, <1>3, <4>1
    <3> QED
      BY <1>2, <2>1, <3>1 DEF Needed
  <2>3. OfChain(gvDB)'
    <3>1. Keys(gvDB) \subseteq Height
      BY <1>1 DEF Keys, Types
    <3>2. \A h \in Height : h <= to => h <= tip
      BY <1>2, <1>3
    <3> QED
      BY <1>1, <1>2, <1>5, <3>1, <3>2 DEF GVInv, OfChain
  <2>4. NothingMissing(gvDB)' /\ HasFirst(gvDB)'
    BY <1>1, <1>2, <2>1, <2>2 DEF GVInv, NothingMissing, HasFirst
  <2>5. \A h : UpTo(gvDB, h) => UpTo(gvDB, h)'
    BY <1>2, <2>1, <2>2 DEF UpTo
  <2> QED
    BY <1>1, <1>2, <2>3, <2>4, <2>5 DEF GVInv
<1>10. CandidateInv'
  BY <1>1, <1>2, SameCandidates DEF CandidateInv
<1> QED
  BY <1>6, <1>7, <1>8, <1>9, <1>10 DEF ManagementInv

(* ROLLBACK: the part of the account DBs. *)
LEMMA StepRollbackAccountDB == ASSUME ManagementInv, RollbackAccountDB PROVE ManagementInv'
<1>1. Types /\ Schedule /\ Data /\ GVInv /\ CandidateInv
  BY DEF ManagementInv
<1>2. /\ rollback = "info" /\ rollback' = "gv" /\ calc.phase \notin UpdatePhases
      /\ calc' = IF calc = Idle THEN calc ELSE [calc EXCEPT !.quit = TRUE]
      /\ info' = IF tip > info.calcDone THEN info
                 ELSE [info EXCEPT !.calcDone = info.prevCalcDone,
                                   !.calculating = info.prevCalcDone]
      /\ UNCHANGED <<gv, prep, candidate, gvDB, prepDB, candidateDB, tip, chain>>
  BY DEF RollbackAccountDB, memory, dbs, isVars
<1>3. PICK C \in Height, P \in Height : C = info.calcDone /\ P = info.prevCalcDone
  BY <1>1, HeightTypes
<1>4. /\ Height \subseteq Nat /\ C \in Nat /\ P \in Nat /\ tip \in Nat /\ Term \in Nat /\ Term > 0
      /\ calc.phase \in Phases
  BY <1>1, <1>3, HeightTypes
<1>5. /\ C % Term = 0 /\ C \in {P, P + Term} /\ P < tip /\ tip < C + 2 * Term
      /\ info.calculating \in {C, C + Term}
  BY <1>1, <1>2, <1>3 DEF Schedule
<1>6. \/ calc.phase = "idle" /\ calc = Idle
      \/ calc.phase = "rewards" /\ calc # Idle
  BY <1>1, <1>2, <1>4, CalcTypes DEF Schedule, Phases, UpdatePhases
<1>7. calc \in CalcType
  BY <1>1 DEF Types
<1>8. /\ calc' \in CalcType /\ calc'.phase = calc.phase /\ calc'.height = calc.height
      /\ calc'.txs = calc.txs
      /\ calc.phase = "idle" => calc' = Idle /\ ~calc'.quit
      /\ calc.phase = "rewards" => calc'.quit
  <2>1. CASE calc = Idle
    BY <1>2, <1>6, <1>7, <2>1, CalcTypes
  <2>2. CASE calc # Idle
    <3>1. PICK q \in BOOLEAN : q
      OBVIOUS
    <3>2. calc' = [calc EXCEPT !.quit = q]
      BY <1>2, <2>2, <3>1
    <3>3. /\ calc' \in CalcType /\ calc'.phase = calc.phase /\ calc'.height = calc.height
          /\ calc'.txs = calc.txs /\ calc'.quit = q
      BY <1>7, <3>2 DEF CalcType
    <3> QED
      BY <1>6, <2>2, <3>1, <3>3
  <2> QED
    BY <2>1, <2>2
<1>9. /\ info' \in [calcDone : Height, prevCalcDone : Height, calculating : Height]
      /\ info'.prevCalcDone = P
      /\ tip > C => info' = info
      /\ ~(tip > C) => info'.calcDone = P /\ info'.calculating = P
  BY <1>1, <1>2, <1>3 DEF Types
<1>10. ~(tip > C) => calc.phase = "idle"
  BY <1>1, <1>3, <1>4 DEF Schedule
<1>11. ~(tip > C) => C = P + Term
  BY <1>4, <1>5
<1>12. Types'
  BY <1>1, <1>2, <1>8, <1>9 DEF Types
<1>13. Schedule'
  <2>1. CASE tip > C
    <3>1. C <= tip
      BY <1>4, <2>1
    <3> QED
      BY <1>1, <1>2, <1>3, <1>6, <1>8, <1>9, <2>1, <3>1 DEF Schedule
  <2>2. CASE ~(tip > C)
    <3>1. P % Term = 0
      <4>1. PICK p \in Nat, T \in Nat : p = P /\ T = Term /\ T > 0 /\ (p + T) % T = 0
        BY <1>4, <1>5, <1>11, <2>2
      <4>2. p % T = 0
        BY <4>1, LastTerm
      <4> QED
        BY <4>1, <4>2
    <3>2. tip < P + 2 * Term /\ P <= tip
      BY <1>4, <1>5, <1>11, <2>2
    <3> QED
      BY <1>2, <1>5, <1>8, <1>9, <1>10, <2>2, <3>1, <3>2 DEF Schedule
  <2> QED
    BY <2>1, <2>2
<1>14. Data'
  BY <1>6, <1>8 DEF Data
<1>15. GVInv'
  <2>1. Recorded("gv")' = Recorded("gv") /\ \A c \in Recorded("gv") : c \in Nat
    BY <1>2, <1>4 DEF Recorded
  <2>2. \A c : Needed("gv", c)' <=> Needed("gv", c)
    BY <1>3, <1>9, <2>1 DEF Needed
  <2>3. info'.calcDone \in Nat /\ info'.calcDone <= C
    BY <1>3, <1>4, <1>9, <1>11
  <2>4. OfChain(gvDB)' /\ Listed(gv, gvDB, GVValue)'
    BY <1>1, <1>2 DEF GVInv, OfChain
  <2>5. NothingMissing(gvDB)'
    <3>1. \A c \in Recorded("gv") : c < info'.calcDone => c < info.calcDone
      BY <1>3, <1>4, <2>1, <2>3
    <3> QED
      BY <1>1, <1>2, <2>1, <2>2, <3>1 DEF GVInv, NothingMissing
  <2>6. HasFirst(gvDB)'
    <3>1. info.calcDone = 0 => info'.calcDone = 0
      BY <1>3, <1>4, <2>3
    <3> QED
      BY <1>1, <1>2, <1>3, <1>9, <2>1, <2>2, <3>1 DEF GVInv, HasFirst
  <2> QED
    BY <1>2, <1>6, <1>8, <2>4, <2>5, <2>6 DEF GVInv
<1>16. CandidateInv'
  <2>1. info'.calcDone \in Nat /\ info'.calcDone <= C
    BY <1>3, <1>4, <1>9, <1>11
  <2>2. \A a \in Address :
           /\ Registered[a] <= info'.calcDone => Registered[a] <= info.calcDone
           /\ Unregistered[a] <= info'.calcDone => Unregistered[a] <= info.calcDone
    BY <1>3, <1>4, <2>1, ManagementAssumption
  <2> QED
    BY <1>1, <1>2, <1>6, <1>8, <2>2, SameCandidates DEF CandidateInv
<1> QED
  BY <1>12, <1>13, <1>14, <1>15, <1>16 DEF ManagementInv

(* ROLLBACK: the governance variables. *)
LEMMA StepRollbackGV == ASSUME ManagementInv, RollbackGV PROVE ManagementInv'
<1>1. Types /\ Schedule /\ Data /\ GVInv /\ CandidateInv
  BY DEF ManagementInv
<1>2. /\ rollback = "gv" /\ rollback' = "prep"
      /\ gv' = WithoutNewer(gv)
      /\ gvDB' = Written(gvDB, DeleteNewer(gv), Len(DeleteNewer(gv)))
      /\ UNCHANGED <<prep, candidate, prepDB, candidateDB, info, calc, tip, chain>>
  BY DEF RollbackGV, isVars
<1>3. PICK d, l : d = gvDB' /\ l = gv'
  OBVIOUS
<1>4. /\ d \in [Height -> GVValue \cup {None}]
      /\ OfChain(d) /\ NothingMissing(d) /\ HasFirst(d)
      /\ Listed(l, d, GVValue) /\ NotAhead(d)
  <2>1. gv \in Seq(EntryOf(GVValue))
    BY <1>1 DEF GVInv, Listed
  <2>2. DeleteNewer(gv) \in Seq(Writes(GVValue))
    BY <2>1, DeleteTypes
  <2>3. PICK n \in 0 .. Len(DeleteNewer(gv)) : n = Len(DeleteNewer(gv))
    BY <2>2
  <2>4. d = Written(gvDB, DeleteNewer(gv), n) /\ l = WithoutNewer(gv)
    BY <1>2, <1>3, <2>3
  <2> QED
    BY <1>1, <2>3, <2>4, GVRollback
<1>5. calc.phase = "idle" \/ calc.quit
  BY <1>1, <1>2 DEF Schedule
<1>6. Types'
  BY <1>1, <1>2, <1>3, <1>4 DEF Types
<1>7. Schedule'
  BY <1>1, <1>2 DEF Schedule
<1>8. Data'
  BY <1>1, <1>2 DEF Data
<1>9. GVInv'
  <2>1. OfChain(d)' /\ NothingMissing(d)' /\ HasFirst(d)' /\ NotAhead(d)'
    <3>1. UNCHANGED <<chain, tip>> /\ info'.calcDone = info.calcDone
          /\ info'.prevCalcDone = info.prevCalcDone
      BY <1>2
    <3> QED
      BY <1>4, <3>1, SameChain
  <2> QED
    BY <1>2, <1>3, <1>4, <1>5, <2>1 DEF GVInv, OfChain, NotAhead, NothingMissing, HasFirst
<1>10. CandidateInv'
  BY <1>1, <1>2, SameCandidates DEF CandidateInv
<1> QED
  BY <1>6, <1>7, <1>8, <1>9, <1>10 DEF ManagementInv

(* ROLLBACK: the P-Rep lists. *)
LEMMA StepRollbackPRep == ASSUME ManagementInv, RollbackPRep PROVE ManagementInv'
<1>1. Types /\ Schedule /\ Data /\ GVInv /\ CandidateInv
  BY DEF ManagementInv
<1>2. /\ rollback = "prep" /\ rollback' = "idle"
      /\ prep' = WithoutNewer(prep)
      /\ prepDB' = Written(prepDB, DeleteNewer(prep), Len(DeleteNewer(prep)))
      /\ UNCHANGED <<gv, candidate, gvDB, candidateDB, info, calc, tip, chain>>
  BY DEF RollbackPRep, isVars
<1>3. prep \in Seq(EntryOf(PRepValue)) /\ info.prevCalcDone \in Int /\ tip \in Int
  BY <1>1, HeightTypes DEF Types
<1>4. prep' \in Seq(EntryOf(PRepValue))
  <2>1. WithoutNewer(prep) \in Seq(EntryOf(PRepValue))
    BY <1>3, CutLists
  <2> QED
    BY <1>2, <2>1
<1>5. prepDB' \in [Height -> PRepValue \cup {None}]
  <2>1. DeleteNewer(prep) \in Seq(Writes(PRepValue))
    BY <1>3, DeleteTypes
  <2>2. Len(DeleteNewer(prep)) \in 0 .. Len(DeleteNewer(prep))
    BY <2>1
  <2>3. Written(prepDB, DeleteNewer(prep), Len(DeleteNewer(prep))) \in [Height -> PRepValue \cup {None}]
    BY <1>1, <2>2, PRepRollback
  <2> QED
    BY <1>2, <2>3
<1>6. Types'
  BY <1>1, <1>2, <1>4, <1>5 DEF Types
<1>7. Schedule'
  BY <1>1, <1>2 DEF Schedule
<1>8. Data'
  BY <1>1, <1>2 DEF Data
<1>9. GVInv'
  BY <1>1, <1>2, SameGV DEF GVInv
<1>10. CandidateInv'
  BY <1>1, <1>2, SameCandidates DEF CandidateInv
<1> QED
  BY <1>6, <1>7, <1>8, <1>9, <1>10 DEF ManagementInv

(* The chain grows. *)
LEMMA StepAddBlock ==
    ASSUME ManagementInv, NEW g \in GVValue \cup {None}, NEW p \in PRepValue, AddBlock(g, p)
    PROVE  ManagementInv'
<1>1. Types /\ Schedule /\ Data /\ GVInv /\ CandidateInv
  BY DEF ManagementInv
<1>2. PICK v \in GVValue \cup {None}, w \in PRepValue \cup {None} :
         chain' = [chain EXCEPT ![tip + 1] = [gv |-> v, prep |-> w]]
  BY DEF AddBlock
<1>3. /\ rollback = "idle" /\ tip < MaxHeight /\ tip + 1 < info.calcDone + 2 * Term
      /\ tip' = tip + 1
      /\ UNCHANGED <<gv, prep, candidate, gvDB, prepDB, candidateDB, info, calc, rollback>>
  BY DEF AddBlock, memory, dbs
<1>4. /\ Height \subseteq Nat /\ tip \in Height /\ tip \in Nat /\ 0 \in Height /\ tip + 1 \in Height
      /\ info.calcDone \in Nat /\ info.prevCalcDone \in Nat /\ Term \in Nat
  BY <1>1, <1>3, HeightTypes, CalcTypes
<1>5. /\ chain \in [Height -> [gv : GVValue \cup {None}, prep : PRepValue \cup {None}]]
      /\ \A h \in Height : h > tip => chain[h] = [gv |-> None, prep |-> None]
      /\ chain[0].gv # None
  BY <1>1 DEF Types
<1>6. /\ chain' \in [Height -> [gv : GVValue \cup {None}, prep : PRepValue \cup {None}]]
      /\ \A h \in Height : h <= tip => chain'[h] = chain[h]
      /\ \A h \in Height : h > tip + 1 => chain'[h] = [gv |-> None, prep |-> None]
  <2>1. PICK b \in [gv : GVValue \cup {None}, prep : PRepValue \cup {None}] :
           b = [gv |-> v, prep |-> w]
    OBVIOUS
  <2>2. chain' = [chain EXCEPT ![tip + 1] = b]
    BY <1>2, <2>1
  <2>3. \A h \in Height : (h <= tip => h # tip + 1) /\ (h > tip + 1 => h # tip + 1 /\ h > tip)
    BY <1>4
  <2> QED
    BY <1>4, <1>5, <2>2, <2>3
<1>7. info.calcDone <= tip /\ info.prevCalcDone <= tip
  BY <1>1, <1>3 DEF Schedule
<1>8. \A h \in Height : h <= tip + 1 => h <= tip \/ h = tip + 1
  BY <1>4
<1>9. Types'
  <2>1. chain'[0] = chain[0]
    BY <1>4, <1>6
  <2> QED
    BY <1>1, <1>3, <1>4, <1>5, <1>6, <2>1 DEF Types
<1>10. calc.phase # "idle" /\ ~calc.quit => calc.height <= tip
  BY <1>1, <1>3 DEF Schedule
<1>11. Schedule'
  <2>1. /\ info.calcDone <= tip + 1 /\ info.prevCalcDone <= tip + 1
        /\ info.calcDone < tip => info.calcDone < tip + 1
    BY <1>4, <1>7
  <2>2. calc.height <= tip => calc.height <= tip + 1
    <3>1. calc.height \in Nat
      BY <1>1, HeightTypes
    <3> QED
      BY <1>4, <3>1
  <2> QED
    BY <1>1, <1>3, <2>1, <2>2 DEF Schedule
<1>12. Data'
  <2>1. ASSUME calc.phase \in {"gv", "prep"}
        PROVE  \A b \in info.calcDone .. (calc.height - 1) : b <= tip /\ chain'[b] = chain[b]
    <3>1. info.calcDone .. (calc.height - 1) \in SUBSET Height /\ ~calc.quit
      BY <1>1, <2>1, Window
    <3>2. calc.height <= tip /\ calc.height \in Nat
      BY <1>1, <1>10, <2>1, <3>1, HeightTypes
    <3>3. \A b \in info.calcDone .. (calc.height - 1) : b <= tip
      BY <1>4, <3>2
    <3> QED
      BY <1>6, <3>1, <3>3
  <2>2. calc.phase \in {"gv", "prep"} => calc.height - Term = info.calcDone
    <3>1. calc.phase \in {"gv", "prep"} => calc.height = info.calcDone + Term
      BY <1>1 DEF Schedule
    <3> QED
      BY <1>4, <3>1
  <2> QED
    BY <1>1, <1>3, <2>1, <2>2 DEF Data
<1>13. GVInv'
  <2>1. ASSUME NEW c \in Recorded("gv")' PROVE c \in Nat /\ (c \in Recorded("gv") \/ c = tip + 1)
    <3>1. c \in Height /\ chain'[c].gv # None
      BY DEF Recorded
    <3>2. c <= tip + 1
      <4>1. c \in Nat
        BY <1>4, <3>1
      <4>2. CASE c > tip + 1
        <5>1. chain'[c] = [gv |-> None, prep |-> None]
          BY <1>6, <3>1, <4>2
        <5> QED
          BY <3>1, <5>1
      <4> QED
        BY <1>4, <4>1, <4>2
    <3> QED
      BY <1>4, <1>6, <1>8, <3>1, <3>2 DEF Recorded
  <2>2. \A c \in Recorded("gv") : c \in Recorded("gv")'
    <3>1. ASSUME NEW c \in Recorded("gv") PROVE c \in Recorded("gv")'
      <4>1. c \in Height /\ chain[c].gv # None
        BY DEF Recorded
      <4>2. c <= tip
        BY <1>4, <1>5, <4>1
      <4> QED
        BY <1>6, <4>1, <4>2 DEF Recorded
    <3> QED
      BY <3>1
  <2>3. \A c : Needed("gv", c)' => Needed("gv", c)
    BY <1>3, <2>2 DEF Needed
  <2>4. \A h \in Keys(gvDB) : h \in Nat /\ h \in Height /\ h <= tip
    <3>1. Keys(gvDB) \subseteq Height
      BY <1>1 DEF Keys, Types
    <3> QED
      BY <1>1, <1>3, <1>4, <3>1 DEF GVInv, NotAhead
  <2>5. OfChain(gvDB)'
    BY <1>1, <1>3, <1>6, <2>4 DEF GVInv, OfChain
  <2>6. NotAhead(gvDB)'
    <3>1. \A h \in Keys(gvDB) : h <= tip + 1
      BY <1>4, <2>4
    <3> QED
      BY <1>3, <3>1 DEF NotAhead
  <2>7. NothingMissing(gvDB)'
    <3>1. ~(tip + 1 < info.calcDone) /\ \A k \in Keys(gvDB) : ~(tip + 1 <= k)
      BY <1>4, <1>7, <2>4
    <3> QED
      BY <1>1, <1>3, <2>1, <2>3, <3>1 DEF GVInv, NothingMissing
  <2>8. HasFirst(gvDB)'
    <3>1. ~(tip + 1 <= info.prevCalcDone)
      BY <1>4, <1>7
    <3> QED
      BY <1>1, <1>3, <2>1, <2>3, <3>1 DEF GVInv, HasFirst
  <2>9. calc.phase \in {"prep", "candidate", "rewards"} /\ ~calc.quit => UpTo(gvDB, calc.height)'
    <3>0. calc.height \in Nat
      BY <1>1, HeightTypes
    <3>1. calc.phase \in {"prep", "candidate", "rewards"} /\ ~calc.quit => ~(tip + 1 < calc.height)
      <4>1. calc.height <= tip => ~(tip + 1 < calc.height)
        BY <1>4, <3>0
      <4> QED
        BY <1>10, <4>1
    <3> QED
      BY <1>1, <1>3, <2>1, <2>3, <3>1 DEF GVInv, UpTo
  <2>10. Listed(gv, gvDB, GVValue)'
    BY <1>1, <1>3 DEF GVInv
  <2> QED
    BY <1>3, <2>5, <2>6, <2>7, <2>8, <2>9, <2>10 DEF GVInv
<1>14. CandidateInv'
  BY <1>1, <1>3, SameCandidates DEF CandidateInv
<1> QED
  BY <1>9, <1>11, <1>12, <1>13, <1>14 DEF ManagementInv

(* What a crash leaves in the bucket of governance variables. *)
LEMMA GVAfterCrash ==
    ASSUME Types, Schedule, Data, GVInv,
           NEW e \in Interrupted(gvDB, calc.phase = "gv", GVWrites),
           NEW d \in Interrupted(e, rollback = "gv", DeleteNewer(gv))
    PROVE  /\ d \in [Height -> GVValue \cup {None}]
           /\ OfChain(d) /\ NothingMissing(d) /\ HasFirst(d)
           /\ rollback \notin {"info", "gv"} => NotAhead(d)
<1>1. \/ calc.phase # "gv" /\ e = gvDB
      \/ calc.phase = "gv" /\ \E n \in 0 .. Len(GVWrites) : e = Written(gvDB, GVWrites, n)
  BY DEF Interrupted
<1>2. \/ rollback # "gv" /\ d = e
      \/ rollback = "gv" /\ \E n \in 0 .. Len(DeleteNewer(gv)) : d = Written(e, DeleteNewer(gv), n)
  BY DEF Interrupted
<1>3. CASE calc.phase = "gv"
  <2>1. PICK n \in 0 .. Len(GVWrites) : e = Written(gvDB, GVWrites, n)
    BY <1>1, <1>3
  <2>2. rollback # "gv"
    BY <1>3 DEF Schedule
  <2>3. d = Written(gvDB, GVWrites, n)
    BY <1>2, <2>1, <2>2
  <2> QED
    BY <1>3, <2>3, GVUpdate
<1>4. CASE calc.phase # "gv" /\ rollback = "gv"
  <2>1. PICK n \in 0 .. Len(DeleteNewer(gv)) : d = Written(gvDB, DeleteNewer(gv), n)
    BY <1>1, <1>2, <1>4
  <2> QED
    BY <1>4, <2>1, GVRollback
<1>5. CASE calc.phase # "gv" /\ rollback # "gv"
  <2>1. d = gvDB
    BY <1>1, <1>2, <1>5
  <2> QED
    BY <2>1 DEF GVInv, Types
<1> QED
  BY <1>3, <1>4, <1>5

(* What a crash leaves in the bucket of P-Rep lists. *)
LEMMA PRepAfterCrash ==
    ASSUME Types, Schedule, Data,
           NEW e \in Interrupted(prepDB, calc.phase = "prep", PRepWrites),
           NEW d \in Interrupted(e, rollback = "prep", DeleteNewer(prep))
    PROVE  /\ d \in [Height -> PRepValue \cup {None}]
           /\ \A h \in Keys(d) : \/ h \in Keys(prepDB)
                                 \/ calc.phase = "prep" /\ h \in Keys(calc.preps)
<1>1. \/ calc.phase # "prep" /\ e = prepDB
      \/ calc.phase = "prep" /\ \E n \in 0 .. Len(PRepWrites) : e = Written(prepDB, PRepWrites, n)
  BY DEF Interrupted
<1>2. \/ rollback # "prep" /\ d = e
      \/ rollback = "prep" /\ \E n \in 0 .. Len(DeleteNewer(prep)) : d = Written(e, DeleteNewer(prep), n)
  BY DEF Interrupted
<1>3. CASE calc.phase = "prep"
  <2>1. PICK n \in 0 .. Len(PRepWrites) : e = Written(prepDB, PRepWrites, n)
    BY <1>1, <1>3
  <2>2. rollback # "prep"
    BY <1>3 DEF Schedule
  <2>3. d = Written(prepDB, PRepWrites, n)
    BY <1>2, <2>1, <2>2
  <2> QED
    BY <1>3, <2>3, PRepUpdateKeys
<1>4. CASE calc.phase # "prep" /\ rollback = "prep"
  <2>1. PICK n \in 0 .. Len(DeleteNewer(prep)) : d = Written(prepDB, DeleteNewer(prep), n)
    BY <1>1, <1>2, <1>4
  <2> QED
    BY <1>4, <2>1, PRepRollback
<1>5. CASE calc.phase # "prep" /\ rollback # "prep"
  <2>1. d = prepDB
    BY <1>1, <1>2, <1>5
  <2> QED
    BY <2>1 DEF Types
<1> QED
  BY <1>3, <1>4, <1>5

(* A crash, and the start of the process. *)
LEMMA StepRestart == ASSUME ManagementInv, Restart PROVE ManagementInv'
<1>1. Types /\ Schedule /\ Data /\ GVInv /\ CandidateInv
  BY DEF ManagementInv
<1>0. PICK e \in Interrupted(gvDB, calc.phase = "gv", GVWrites) :
         gvDB' \in Interrupted(e, rollback = "gv", DeleteNewer(gv))
  BY DEF Restart
<1>2. PICK d \in Interrupted(e, rollback = "gv", DeleteNewer(gv)) : d = gvDB'
  BY <1>0
<1>3. PICK f \in Interrupted(prepDB, calc.phase = "prep", PRepWrites) :
         prepDB' \in Interrupted(f, rollback = "prep", DeleteNewer(prep))
  BY DEF Restart
<1>4. PICK b \in Interrupted(f, rollback = "prep", DeleteNewer(prep)) : b = prepDB'
  BY <1>3
<1>5. /\ candidateDB' = candidateDB
      /\ gv' = Load(d) /\ prep' = Load(b) /\ candidate' = candidateDB
      /\ rollback' = IF rollback = "idle" THEN "idle" ELSE "info"
      /\ UNCHANGED <<tip, chain>>
  BY <1>2, <1>4 DEF Restart, isVars, LoadGovernanceVariable, LoadPRep, LoadPRepCandidate
<1>6. IF info.calculating # info.calcDone /\ info.calculating <= tip
      THEN calc' = Loaded(info.calculating) /\ info' = info
      ELSE calc' = Idle /\ info' = [info EXCEPT !.calculating = info.calcDone]
  BY DEF Restart
<1>7. /\ d \in [Height -> GVValue \cup {None}]
      /\ OfChain(d) /\ NothingMissing(d) /\ HasFirst(d)
      /\ rollback \notin {"info", "gv"} => NotAhead(d)
  BY <1>1, GVAfterCrash
<1>8. b \in [Height -> PRepValue \cup {None}]
  BY <1>1, PRepAfterCrash
<1>9. Height \in SUBSET Height
  OBVIOUS
<1>10. Listed(gv', d, GVValue) /\ Listed(prep', b, PRepValue)
  BY <1>5, <1>7, <1>8, <1>9, LoadListed
<1>11. candidate' = candidate /\ candidateDB' = candidate'
  BY <1>1, <1>5 DEF CandidateInv
<1>12. /\ info \in [calcDone : Height, prevCalcDone : Height, calculating : Height]
       /\ info.calculating \in {info.calcDone, info.calcDone + Term}
       /\ Term \in Nat /\ Term > 0 /\ info.calcDone \in Nat /\ tip \in Nat
  BY <1>1, HeightTypes DEF Types, Schedule
<1>13. /\ info' \in [calcDone : Height, prevCalcDone : Height, calculating : Height]
       /\ info'.calcDone = info.calcDone /\ info'.prevCalcDone = info.prevCalcDone
       /\ info'.calculating \in {info.calcDone, info.calcDone + Term}
  <2>1. CASE info.calculating # info.calcDone /\ info.calculating <= tip
    BY <1>6, <1>12, <2>1
  <2>2. CASE ~(info.calculating # info.calcDone /\ info.calculating <= tip)
    <3>1. PICK c \in Height : c = info.calcDone
      BY <1>12
    <3>2. info' = [info EXCEPT !.calculating = c]
      BY <1>6, <2>2, <3>1
    <3> QED
      BY <1>12, <3>1, <3>2
  <2> QED
    BY <2>1, <2>2
<1>14. \/ calc' = Idle /\ calc'.phase = "idle" /\ ~calc'.quit /\ calc' \in CalcType
       \/ /\ info' = info /\ info.calculating = info.calcDone + Term /\ info.calculating <= tip
          /\ calc' = Loaded(info.calculating) /\ Begins(Loaded(info.calculating), info.calculating)
  <2>1. CASE info.calculating # info.calcDone /\ info.calculating <= tip
    <3>1. info.calculating = info.calcDone + Term /\ info.calculating \in Height
      BY <1>12, <2>1
    <3>2. info.calculating >= Term
      BY <1>12, <3>1
    <3>3. Begins(Loaded(info.calculating), info.calculating)
      BY <1>1, <3>1, <3>2, LoadedTypes
    <3> QED
      BY <1>6, <2>1, <3>1, <3>3
  <2>2. CASE ~(info.calculating # info.calcDone /\ info.calculating <= tip)
    BY <1>6, <2>2, CalcTypes
  <2> QED
    BY <2>1, <2>2
<1>15. \/ calc' = Idle /\ calc'.phase = "idle" /\ ~calc'.quit /\ calc' \in CalcType
       \/ /\ calc' \in CalcType /\ calc'.phase = "gv" /\ ~calc'.quit
          /\ calc'.height = info'.calculating /\ info'.calculating = info.calcDone + Term
          /\ info'.calculating <= tip /\ calc'.txs = IISSTXs(calc'.height)
          /\ calc'.gvs \in [(calc'.height - Term) .. (calc'.height - 1) -> GVValue \cup {None}]
          /\ calc'.preps \in [(calc'.height - Term) .. (calc'.height - 1) -> PRepValue \cup {None}]
          /\ \A k \in (calc'.height - Term) .. (calc'.height - 1) :
                calc'.gvs[k] = chain[k].gv /\ calc'.preps[k] = chain[k].prep
  BY <1>14 DEF Begins
<1>16. Types'
  <2>1. prep' \in Seq(EntryOf(PRepValue)) /\ calc' \in CalcType
    BY <1>10, <1>15 DEF Listed
  <2> QED
    BY <1>1, <1>2, <1>4, <1>5, <1>7, <1>8, <1>11, <1>13, <2>1 DEF Types
<1>17. Schedule'
  <2>1. info.calcDone + Term <= tip => info.calcDone < tip
    BY <1>12
  <2> QED
    BY <1>1, <1>5, <1>13, <1>15, <2>1 DEF Schedule
<1>18. Data'
  BY <1>5, <1>15 DEF Data
<1>19. GVInv'
  <2>1. /\ OfChain(d)' /\ NothingMissing(d)' /\ HasFirst(d)'
        /\ rollback \notin {"info", "gv"} => NotAhead(d)'
    <3>1. UNCHANGED <<chain, tip>>
      BY <1>5
    <3> QED
      BY <1>7, <1>13, <3>1, SameChain
  <2>2. rollback' \notin {"info", "gv"} => rollback \notin {"info", "gv"}
    BY <1>5
  <2>3. calc'.phase \notin {"prep", "candidate", "rewards"}
    BY <1>15
  <2> QED
    BY <1>2, <1>10, <2>1, <2>2, <2>3 DEF GVInv, OfChain, NotAhead, NothingMissing, HasFirst
<1>20. CandidateInv'
  BY <1>1, <1>11, <1>13, <1>15, SameCandidates DEF CandidateInv
<1> QED
  BY <1>16, <1>17, <1>18, <1>19, <1>20 DEF ManagementInv

-----------------------------------------------------------------------------
(* The invariance of ManagementInv, and what follows from it. *)

(* Every step keeps the invariant. *)
LEMMA StepInv == ManagementInv /\ [Next]_vars => ManagementInv'
<1> SUFFICES ASSUME ManagementInv, [Next]_vars PROVE ManagementInv'
  OBVIOUS
<1>1. CASE UNCHANGED vars
  <2>1. UNCHANGED <<gv, prep, candidate, gvDB, prepDB, candidateDB, info, calc, rollback, tip, chain>>
    BY <1>1 DEF vars, memory, dbs, isVars
  <2>2. Types /\ Schedule /\ Data /\ GVInv /\ CandidateInv
    BY DEF ManagementInv
  <2>3. Types' /\ Schedule' /\ Data'
    BY <2>1, <2>2 DEF Types, Schedule, Data
  <2>4. GVInv'
    BY <2>1, <2>2, SameGV DEF GVInv
  <2>5. CandidateInv'
    BY <2>1, <2>2, SameCandidates DEF CandidateInv
  <2> QED
    BY <2>3, <2>4, <2>5 DEF ManagementInv
<1>2. CASE Next
  <2>1. CASE Calculate
    BY <2>1, StepCalculate
  <2>2. CASE UpdateGovernanceVariable
    BY <2>2, StepUpdateGV
  <2>3. CASE UpdatePRep
    BY <2>3, StepUpdatePRep
  <2>4. CASE UpdatePRepCandidate
    BY <2>4, StepUpdatePRepCandidate
  <2>5. CASE EndPRepCandidate
    BY <2>5, StepEndPRepCandidate
  <2>6. CASE EndCalculation
    BY <2>6, StepEndCalculation
  <2>7. CASE \E to \in Height : DecideRollback(to)
    BY <2>7, StepDecideRollback
  <2>8. CASE RollbackAccountDB
    BY <2>8, StepRollbackAccountDB
  <2>9. CASE RollbackGV
    BY <2>9, StepRollbackGV
  <2>10. CASE RollbackPRep
    BY <2>10, StepRollbackPRep
  <2>11. CASE \E g \in GVValue \cup {None}, p \in PRepValue : AddBlock(g, p)
    BY <2>11, StepAddBlock
  <2>12. CASE Restart
    BY <2>12, StepRestart
  <2> QED
    BY <1>2, <2>1, <2>2, <2>3, <2>4, <2>5, <2>6, <2>7, <2>8, <2>9, <2>10, <2>11, <2>12 DEF Next
<1> QED
  BY <1>1, <1>2

(* The lists, their buckets and the chain stay together as ManagementInv     *)
(* says, whatever a crash interrupts, a reload repeats or a ROLLBACK undoes. *)
THEOREM ManagementInvariance == Spec => []ManagementInv
<1> QED
  BY InitInv, StepInv, PTL DEF Spec

(* Every variable keeps its type. *)
THEOREM ManagementTypes == Spec => []ManagementTypeOK
<1>1. ManagementInv => ManagementTypeOK
  <2> SUFFICES ASSUME ManagementInv PROVE ManagementTypeOK
    OBVIOUS
  <2>1. Types /\ gv \in Seq(EntryOf(GVValue))
    BY DEF ManagementInv, GVInv, Listed
  <2>2. \A i \in DOMAIN gv : gv[i] \in EntryOf(GVValue)
    BY <2>1
  <2>3. prep \in Seq(EntryOf(PRepValue))
    BY <2>1 DEF Types
  <2>4. \A i \in DOMAIN prep : prep[i] \in EntryOf(PRepValue)
    BY <2>3
  <2> QED
    BY <2>1, <2>2, <2>4 DEF Types, ManagementTypeOK
<1> QED
  BY <1>1, ManagementInvariance, PTL

(* What a start of the process loads is what was in memory: the writes of    *)
(* UpdateGovernanceVariable, UpdatePRepCandidate and RollbackManagementDB    *)
(* leave the buckets with exactly the entries of the lists.                  *)
THEOREM RestartLoadsMemory == Spec => []MemoryIsDB
<1>1. ManagementInv => MemoryIsDB
  <2> SUFFICES ASSUME ManagementInv PROVE MemoryIsDB
    OBVIOUS
  <2>1. /\ Listed(gv, gvDB, GVValue) /\ gvDB \in [Height -> GVValue \cup {None}]
        /\ candidateDB = candidate /\ Height \in SUBSET Height
    BY DEF ManagementInv, GVInv, CandidateInv, Types
  <2>2. gv = Load(gvDB)
    BY <2>1, ListedIsLoad
  <2> QED
    BY <2>1, <2>2 DEF MemoryIsDB, LoadGovernanceVariable, LoadPRepCandidate
<1> QED
  BY <1>1, ManagementInvariance, PTL

-----------------------------------------------------------------------------
(* Which entry of a list pays for a block. *)

(* The greater of two heights. *)
LEMMA MaxOfTwo ==
    ASSUME NEW x \in Int, NEW y \in Int
    PROVE  Max({x, y}) \in Int /\ \A b \in Int : Max({x, y}) < b <=> x < b /\ y < b
<1> DEFINE S == {x, y}
<1>1. S \subseteq Int
  OBVIOUS
<1>2. CASE x < y
  <2>1. y \in S /\ \A j \in S : y >= j
    BY <1>2
  <2>2. Max(S) = y
    <3> HIDE DEF S
    <3> QED
      BY <1>1, <2>1, MaxIs
  <2> QED
    BY <1>2, <2>2
<1>3. CASE ~(x < y)
  <2>1. x \in S /\ \A j \in S : x >= j
    BY <1>3
  <2>2. Max(S) = x
    <3> HIDE DEF S
    <3> QED
      BY <1>1, <2>1, MaxIs
  <2> QED
    BY <1>3, <2>2
<1> QED
  BY <1>2, <1>3

(* The blocks of a period: after the entry, up to the next one. *)
LEMMA PeriodIs ==
    ASSUME NEW V, NEW l \in Seq(EntryOf(V)), NEW i \in DOMAIN l,
           NEW C \in Int, NEW H \in Int, NEW b \in Int
    PROVE  b \in Period(l, i, C, H) <=>
              /\ C < b /\ l[i].blockHeight < b /\ b <= H
              /\ i < Len(l) => b <= l[i + 1].blockHeight
<1>1. /\ Len(l) \in Nat /\ DOMAIN l = 1 .. Len(l)
      /\ \A j \in DOMAIN l : l[j].blockHeight \in Int
  BY ListEntries
<1>2. PICK s \in Int : s = Max({C, l[i].blockHeight}) /\ (s < b <=> C < b /\ l[i].blockHeight < b)
  BY <1>1, MaxOfTwo
<1>3. PICK e : e = IF i < Len(l) /\ l[i + 1].blockHeight < H THEN l[i + 1].blockHeight ELSE H
  OBVIOUS
<1>4. Period(l, i, C, H) = (s + 1) .. e
  BY <1>2, <1>3 DEF Period
<1>5. e \in Int /\ (b <= e <=> b <= H /\ (i < Len(l) => b <= l[i + 1].blockHeight))
  <2>1. CASE i < Len(l)
    <3>1. PICK x \in Int : x = l[i + 1].blockHeight
      BY <1>1, <2>1
    <3>2. e = IF x < H THEN x ELSE H
      BY <1>3, <2>1, <3>1
    <3>3. e \in Int /\ (b <= e <=> b <= H /\ b <= x)
      BY <3>2
    <3> QED
      BY <2>1, <3>1, <3>3
  <2>2. CASE ~(i < Len(l))
    <3>1. e = H
      BY <1>3, <2>2
    <3> QED
      BY <2>2, <3>1
  <2> QED
    BY <2>1, <2>2
<1>6. b \in (s + 1) .. e <=> s < b /\ b <= e
  BY <1>5
<1> QED
  BY <1>2, <1>4, <1>5, <1>6

(* What the chain has in force: the last entry before the block. *)
LEMMA InForceIs ==
    ASSUME Types, NEW field, NEW b \in Nat, NEW r \in Recorded(field), r < b,
           \A h \in Recorded(field) : h < b => h <= r
    PROVE  InForce(field, b) = Entry(r, chain[r][field])
<1> DEFINE S == {h \in Height : h < b /\ chain[h][field] # None}
<1>1. S \subseteq Int /\ r \in S /\ \A j \in S : r >= j
  <2>1. Height \subseteq Nat
    BY HeightTypes
  <2>2. \A h : h \in Recorded(field) <=> h \in Height /\ chain[h][field] # None
    BY DEF Recorded
  <2>3. r \in Nat /\ r \in S
    BY <2>1, <2>2
  <2>4. \A j \in S : j \in Nat /\ j <= r
    BY <2>1, <2>2
  <2>5. \A j \in S : j \in Int /\ r >= j
    BY <2>3, <2>4
  <2> QED
    BY <2>3, <2>5
<1>2. InForce(field, b) = Entry(Max(S), chain[Max(S)][field])
  BY DEF InForce
<1> HIDE DEF S
<1>3. Max(S) = r
  BY <1>1, MaxIs
<1> QED
  BY <1>2, <1>3

(* Every block of a term is paid for once, with the governance variable the  *)
(* chain had in force, for every chain, term, rollback and crash.            *)
THEOREM GVInForceHolds == Spec => []GVInForce
<1>1. ManagementInv => GVInForce
  <2> SUFFICES ASSUME ManagementInv, Rewarding, NEW b \in TermBlocks
               PROVE  /\ \E i \in DOMAIN gv : Paying(gv, b) = {i} /\ gv[i] = InForce("gv", b)
                      /\ GVByBlockHeight(gv, b) = InForce("gv", b)
    BY DEF GVInForce
  <2>1. Types /\ Schedule /\ GVInv
    BY DEF ManagementInv
  <2>2. calc.phase = "rewards" /\ ~calc.quit /\ rollback = "idle"
    BY DEF Rewarding
  <2>3. PICK C \in Nat, P \in Nat, H \in Nat :
           /\ C = info.calcDone /\ P = info.prevCalcDone /\ H = calc.height /\ P <= C
    <3>1. info.calcDone \in Nat /\ info.prevCalcDone \in Nat /\ calc.height \in Nat /\ Term \in Nat
      BY <2>1, HeightTypes
    <3>2. info.prevCalcDone <= info.calcDone
      BY <2>1, <3>1 DEF Schedule
    <3> QED
      BY <3>1, <3>2
  <2>4. b \in Nat /\ C < b /\ b <= H
    BY <2>3 DEF TermBlocks
  <2>5. Listed(gv, gvDB, GVValue) /\ OfChain(gvDB) /\ NotAhead(gvDB) /\ UpTo(gvDB, H)
    BY <2>1, <2>2, <2>3 DEF GVInv
  <2>6. gv \in Seq(EntryOf(GVValue)) /\ InOrder(gv)
    BY <2>5 DEF Listed
  <2>7. /\ Len(gv) \in Nat /\ DOMAIN gv = 1 .. Len(gv)
        /\ \A j \in DOMAIN gv : gv[j].blockHeight \in Int
    BY <2>6, ListEntries
  <2>8. /\ Height \subseteq Nat /\ 0 \in Height /\ MaxHeight \in Nat
        /\ \A h \in Height : chain[h]["gv"] = chain[h].gv
        /\ chain[0].gv # None
    BY <2>1, HeightTypes, CalcTypes DEF Types
  <2>9. \A h : h \in Recorded("gv") <=> h \in Height /\ chain[h].gv # None
    BY <2>8 DEF Recorded
  <2>10. PICK r \in Recorded("gv") : r < b /\ \A h \in Recorded("gv") : h < b => h <= r
    <3> DEFINE S == {h \in Recorded("gv") : h < b}
    <3>1. 0 \in S /\ S \subseteq Int
      BY <2>4, <2>8, <2>9
    <3>2. IsFiniteSet(S)
      <4>1. S \in SUBSET (0 .. MaxHeight)
        BY <2>9 DEF Height
      <4>2. IsFiniteSet(0 .. MaxHeight)
        BY <2>8, FS_Interval
      <4> HIDE DEF S
      <4> QED
        BY <4>1, <4>2, FS_Subset
    <3>3. Max(S) \in S /\ \A j \in S : Max(S) >= j
      <4> HIDE DEF S
      <4> QED
        BY <3>1, <3>2, MaxOfFinite
    <3>4. PICK r \in S : \A j \in S : r >= j
      <4> HIDE DEF S
      <4> QED
        BY <3>3
    <3>5. r \in Recorded("gv") /\ r < b
      OBVIOUS
    <3>6. ASSUME NEW h \in Recorded("gv"), h < b PROVE h <= r
      <4>1. r >= h
        BY <3>4, <3>6
      <4>2. r \in Int /\ h \in Int
        <5>1. r \in Height /\ h \in Height
          BY <2>9, <3>5
        <5> QED
          BY <2>8, <5>1
      <4> QED
        BY <4>1, <4>2
    <3> QED
      BY <3>5, <3>6
  <2>11. r \in Nat /\ \A h \in Recorded("gv") : h \in Nat
    BY <2>8, <2>9
  <2>12. Needed("gv", r)
    <3>1. ASSUME NEW d \in Recorded("gv"), r < d, d <= P PROVE FALSE
      <4>1. d \in Nat /\ d < b
        BY <2>3, <2>4, <2>11, <3>1
      <4>2. d <= r
        BY <2>10, <4>1
      <4> QED
        BY <2>11, <3>1, <4>1, <4>2
    <3> QED
      BY <2>3, <3>1 DEF Needed
  <2>13. r \in Keys(gvDB)
    <3>1. r < H
      BY <2>4, <2>10, <2>11
    <3> QED
      BY <2>5, <2>12, <3>1 DEF UpTo
  <2>14. \A k \in Keys(gvDB) : k \in Recorded("gv") /\ gvDB[k] = chain[k].gv
    <3>1. \A k \in Keys(gvDB) : k \in Height /\ gvDB[k] # None
      BY <2>1 DEF Keys, Types
    <3> QED
      BY <2>5, <2>9, <3>1 DEF OfChain, NotAhead
  <2>15. \A h, v : Entry(h, v).blockHeight = h
    BY DEF Entry
  <2>16. PICK i \in DOMAIN gv : gv[i] = Entry(r, gvDB[r])
    BY <2>5, <2>13 DEF Listed
  <2>17. gv[i].blockHeight = r /\ gv[i] = InForce("gv", b)
    <3>1. gv[i].blockHeight = r
      BY <2>15, <2>16
    <3>2. InForce("gv", b) = Entry(r, chain[r]["gv"])
      BY <2>1, <2>4, <2>10, InForceIs
    <3> QED
      BY <2>8, <2>9, <2>13, <2>14, <2>16, <3>1, <3>2
  <2>18. ASSUME NEW j \in DOMAIN gv PROVE gv[j].blockHeight < b <=> j <= i
    <3>1. PICK k \in Keys(gvDB) : gv[j] = Entry(k, gvDB[k])
      BY <2>5 DEF Listed
    <3>2. gv[j].blockHeight = k /\ k \in Nat /\ (k < b => k <= r)
      BY <2>10, <2>11, <2>14, <2>15, <3>1
    <3>3. j \in Int /\ i \in Int
      BY <2>7
    <3>4. CASE j <= i
      <4>1. j = i \/ gv[j].blockHeight < gv[i].blockHeight
        BY <2>6, <3>3, <3>4 DEF InOrder
      <4>2. k <= r
        BY <2>11, <2>17, <3>2, <4>1
      <4> QED
        BY <2>4, <2>10, <2>11, <3>2, <3>4, <4>2
    <3>5. CASE ~(j <= i)
      <4>1. gv[i].blockHeight < gv[j].blockHeight
        BY <2>6, <3>3, <3>5 DEF InOrder
      <4>2. r < k
        BY <2>17, <3>2, <4>1
      <4> QED
        BY <2>11, <3>2, <3>5, <4>2
    <3> QED
      BY <3>4, <3>5
  <2>19. ASSUME NEW j \in DOMAIN gv PROVE b \in Period(gv, j, C, H) <=> j = i
    <3>1. b \in Period(gv, j, C, H) <=>
             /\ C < b /\ gv[j].blockHeight < b /\ b <= H
             /\ j < Len(gv) => b <= gv[j + 1].blockHeight
      <4>1. C \in Int /\ H \in Int /\ b \in Int
        BY <2>4
      <4> QED
        BY <2>6, <4>1, PeriodIs
    <3>2. j \in Int /\ i \in Int
      BY <2>7
    <3>3. CASE j < Len(gv)
      <4>1. j + 1 \in DOMAIN gv
        BY <2>7, <3>3
      <4>2. PICK x \in Int : x = gv[j + 1].blockHeight
        BY <2>7, <4>1
      <4>3. b <= x <=> ~(j + 1 <= i)
        <5>1. x < b <=> j + 1 <= i
          BY <2>18, <4>1, <4>2
        <5> QED
          BY <2>4, <5>1
      <4>4. b \in Period(gv, j, C, H) <=> j <= i /\ ~(j + 1 <= i)
        BY <2>4, <2>18, <3>1, <3>3, <4>2, <4>3
      <4> QED
        BY <3>2, <4>4
    <3>4. CASE ~(j < Len(gv))
      <4>1. j = Len(gv) /\ i <= Len(gv)
        BY <2>7, <3>2, <3>4
      <4>2. b \in Period(gv, j, C, H) <=> j <= i
        BY <2>4, <2>18, <3>1, <3>4
      <4> QED
        BY <2>7, <3>2, <4>1, <4>2
    <3> QED
      BY <3>3, <3>4
  <2>20. Paying(gv, b) = {i}
    BY <2>3, <2>19 DEF Paying
  <2>21. GVByBlockHeight(gv, b) = gv[i]
    <3> DEFINE B == Before(gv, b)
    <3>1. \A j : j \in B <=> j \in DOMAIN gv /\ j <= i
      BY <2>18 DEF Before
    <3>2. B \subseteq Int /\ i \in B /\ \A j \in B : i >= j
      <4> HIDE DEF B
      <4> QED
        BY <2>7, <3>1
    <3>3. Max(B) = i
      <4> HIDE DEF B
      <4> QED
        BY <3>2, MaxIs
    <3> QED
      BY <3>3 DEF GVByBlockHeight
  <2> QED
    BY <2>17, <2>20, <2>21
<1> QED
  BY <1>1, ManagementInvariance, PTL

-----------------------------------------------------------------------------
(* Candidates. *)

(* Delegations to a candidate are rewarded in the blocks it is registered    *)
(* in, although ROLLBACK leaves the candidates and their transactions are    *)
(* delivered again.                                                          *)
THEOREM CandidatesMatchChain == Spec => []CandidateBlocksMatchChain
<1>1. ManagementInv => CandidateBlocksMatchChain
  <2> DEFINE Blocks(a) == {b \in TermBlocks : /\ b > Registered[a]
                                              /\ Unregistered[a] # 0 => b <= Unregistered[a]}
  <2> SUFFICES ASSUME ManagementInv, Rewarding, NEW a \in Address
               PROVE  (IF candidate[a] = NoCandidate THEN {}
                       ELSE CandidateBlocks(candidate[a], info.calcDone, calc.height)) = Blocks(a)
    BY DEF CandidateBlocksMatchChain
  <2>1. Types /\ Schedule /\ CandidateInv /\ calc.phase = "rewards"
    BY DEF ManagementInv, Rewarding
  <2>2. PICK C \in Nat, H \in Nat : C = info.calcDone /\ H = calc.height
    BY <2>1, HeightTypes
  <2>3. PICK R \in Nat, U \in Nat : /\ R = Registered[a] /\ U = Unregistered[a] /\ R # 0
    BY ManagementAssumption
  <2>4. /\ R <= H => candidate[a] # NoCandidate
        /\ U # 0 /\ U <= H => candidate[a].end = U
    BY <2>1, <2>2, <2>3, AllApplied
  <2>5. \A b : b \in Blocks(a) <=> b \in Int /\ C < b /\ b <= H /\ R < b /\ (U # 0 => b <= U)
    BY <2>2, <2>3 DEF TermBlocks
  <2> HIDE DEF Blocks
  <2>6. CASE candidate[a] = NoCandidate
    <3>1. ~(R <= H)
      BY <2>4, <2>6
    <3>2. \A b : b \notin Blocks(a)
      BY <2>5, <3>1
    <3> QED
      BY <2>6, <3>2
  <2>7. CASE candidate[a] # NoCandidate
    <3>1. PICK e \in Nat : /\ candidate[a] = [start |-> R, end |-> e]
                           /\ e = 0 \/ (e = U /\ U # 0)
      <4>1. \/ candidate[a] = [start |-> R, end |-> 0]
            \/ U # 0 /\ candidate[a] = [start |-> R, end |-> U]
        BY <2>1, <2>3, <2>7 DEF CandidateInv, Candidate
      <4>2. CASE candidate[a] = [start |-> R, end |-> 0]
        BY <4>2
      <4>3. CASE U # 0 /\ candidate[a] = [start |-> R, end |-> U]
        BY <4>3
      <4> QED
        BY <4>1, <4>2, <4>3
    <3>2. candidate[a].start = R /\ candidate[a].end = e
      BY <3>1
    <3>3. PICK f \in Int : /\ f = Max({C, R})
                           /\ \A b \in Int : f < b <=> C < b /\ R < b
      BY MaxOfTwo
    <3>4. From(candidate[a], C) = f
      BY <3>2, <3>3 DEF From
    <3>5. PICK t \in Int : t = To(candidate[a], H) /\ t = IF e # 0 /\ e < H THEN e ELSE H
      BY <3>2 DEF To
    <3>6. \A b \in Int : b <= t <=> b <= H /\ (U # 0 => b <= U)
      <4>1. CASE e = 0
        <5>1. U # 0 => ~(U <= H)
          BY <2>4, <3>2, <4>1
        <5> QED
          BY <3>5, <4>1, <5>1
      <4>2. CASE e = U /\ U # 0
        BY <3>5, <4>2
      <4> QED
        BY <3>1, <4>1, <4>2
    <3>7. CandidateBlocks(candidate[a], C, H) = f + 1 .. t
      BY <3>4, <3>5 DEF CandidateBlocks
    <3>8. \A b : b \in f + 1 .. t <=> b \in Int /\ f < b /\ b <= t
      OBVIOUS
    <3>9. \A b : b \in CandidateBlocks(candidate[a], C, H) <=> b \in Blocks(a)
      BY <2>5, <3>3, <3>6, <3>7, <3>8
    <3> QED
      BY <2>2, <2>7, <3>9
  <2> QED
    BY <2>6, <2>7
<1> QED
  BY <1>1, ManagementInvariance, PTL

-----------------------------------------------------------------------------
(* P-Rep rewards, when the chain records one list with the last block of     *)
(* every term.                                                               *)

(* The only end of a term in the blocks of a term is its first. *)
LEMMA FirstOfTerm ==
    ASSUME Types, Schedule, NEW b \in Nat, info.calcDone <= b, b < info.calcDone + Term,
           b % Term = 0
    PROVE  b = info.calcDone
<1>1. PICK T \in Nat, C \in Nat : T = Term /\ C = info.calcDone /\ T > 0 /\ C % T = 0
  BY HeightTypes DEF Schedule
<1>2. C <= b /\ b < C + T /\ b % T = 0
  BY <1>1
<1>3. ~(C < b)
  <2> SUFFICES ASSUME C < b PROVE FALSE
    OBVIOUS
  <2>1. C + T <= b
    BY <1>1, <1>2, TermsApart
  <2> QED
    BY <1>2, <2>1
<1> QED
  BY <1>1, <1>2, <1>3

(* The IISS data of a term has the list of its first block. *)
LEMMA BeginsWithList ==
    ASSUME Types, Schedule, ListsOfChain, NEW c, NEW h \in Height,
           h = info.calcDone + Term, h <= tip, Begins(c, h)
    PROVE  OnlyAt(c.preps, info.calcDone)
<1>1. /\ Term \in Nat /\ info.calcDone \in Nat /\ h \in Nat /\ tip \in Nat
      /\ MaxHeight \in Nat /\ \A k \in Nat : k \in Height <=> k <= MaxHeight
  BY HeightTypes
<1>2. /\ c.preps \in [(h - Term) .. (h - 1) -> PRepValue \cup {None}]
      /\ \A b \in (h - Term) .. (h - 1) : c.preps[b] = chain[b].prep
  BY DEF Begins
<1>3. ASSUME NEW b \in DOMAIN c.preps, c.preps[b] # None PROVE b = info.calcDone
  <2>1. b \in (h - Term) .. (h - 1)
    BY <1>2
  <2>2. b \in Nat /\ info.calcDone <= b /\ b < info.calcDone + Term /\ b <= tip
    BY <1>1, <2>1
  <2>3. b \in Height
    BY <1>1, <2>1, <2>2
  <2>4. b % Term = 0
    BY <1>2, <1>3, <2>1, <2>2, <2>3 DEF ListsOfChain
  <2> QED
    BY <2>2, <2>4, FirstOfTerm
<1> QED
  BY <1>3 DEF OnlyAt

(* Lists that are not newer than a height are not newer than a later one. *)
LEMMA NotNewerLater ==
    ASSUME NEW V, NEW l \in Seq(EntryOf(V)), NEW db \in [Height -> V \cup {None}],
           NEW x \in Nat, NEW y \in Nat, x <= y, NotNewer(l, db, x)
    PROVE  NotNewer(l, db, y)
<1>1. \A i \in DOMAIN l : l[i].blockHeight \in Int /\ l[i].blockHeight <= x
  BY ListEntries DEF NotNewer
<1>2. \A h \in Keys(db) : h \in Int /\ h <= x
  BY ManagementAssumption DEF NotNewer, Keys, Height
<1>3. \A i \in DOMAIN l : l[i].blockHeight <= y
  BY <1>1
<1>4. \A h \in Keys(db) : h <= y
  BY <1>2
<1> QED
  BY <1>3, <1>4 DEF NotNewer

(* The initial states. *)
LEMMA PRepInit == OneListATerm /\ Init => PRepInv
<1> SUFFICES ASSUME OneListATerm, Init PROVE PRepInv
  OBVIOUS
<1>1. /\ Term \in Nat /\ Term > 0 /\ Height \subseteq Nat /\ 0 \in Height /\ None \notin PRepValue
  BY ManagementAssumption DEF Height
<1>2. PICK g \in GVValue, p \in PRepValue :
         chain = [h \in Height |-> IF h = 0 THEN [gv |-> g, prep |-> p]
                                   ELSE [gv |-> None, prep |-> None]]
  BY DEF Init
<1>3. tip = 0 /\ info.calcDone = 0 /\ info.prevCalcDone = 0 /\ calc.phase = "idle"
  BY CalcTypes DEF Init
<1>4. ListsOfChain
  <2>1. \A h \in Height : h <= tip => h = 0
    BY <1>1, <1>3
  <2>2. chain[0].prep # None /\ 0 % Term = 0
    BY <1>1, <1>2
  <2> QED
    BY <2>1, <2>2 DEF ListsOfChain
<1>5. NotNewer(prep, prepDB, info.calcDone + Term)
  <2>1. DOMAIN prep = {}
    BY DEF Init
  <2>2. Keys(prepDB) = {}
    BY DEF Init, Keys
  <2> QED
    BY <2>1, <2>2 DEF NotNewer
<1> QED
  BY <1>3, <1>4, <1>5 DEF PRepInv

(* What a step keeps that leaves the P-Rep lists, the chain and the terms. *)
LEMMA SamePReps ==
    ASSUME PRepInv, UNCHANGED <<prep, prepDB, chain, tip>>,
           info'.calcDone = info.calcDone, info'.prevCalcDone = info.prevCalcDone
    PROVE  /\ ListsOfChain'
           /\ NotNewer(prep, prepDB, info.calcDone + Term)'
           /\ (info.prevCalcDone < info.calcDone => NotNewer(prep, prepDB, info.calcDone))'
           /\ calc.phase \in {"candidate", "rewards"} /\ ~calc.quit =>
                 EndsWith(prep, Entry(info.calcDone, chain[info.calcDone].prep))'
<1>1. ListsOfChain'
  BY DEF PRepInv, ListsOfChain
<1>2. NotNewer(prep, prepDB, info.calcDone + Term)'
  BY DEF PRepInv, NotNewer, Keys
<1>3. (info.prevCalcDone < info.calcDone => NotNewer(prep, prepDB, info.calcDone))'
  BY DEF PRepInv, NotNewer, Keys
<1>4. calc.phase \in {"candidate", "rewards"} /\ ~calc.quit =>
         EndsWith(prep, Entry(info.calcDone, chain[info.calcDone].prep))'
  BY DEF PRepInv, EndsWith, Entry
<1> QED
  BY <1>1, <1>2, <1>3, <1>4

LEMMA PRepFrame ==
    ASSUME ManagementInv, PRepInv,
           \/ UpdateGovernanceVariable \/ UpdatePRepCandidate \/ EndPRepCandidate
           \/ RollbackGV \/ UNCHANGED vars
    PROVE  PRepInv'
<1>1. Types
  BY DEF ManagementInv
<1>2. /\ UNCHANGED <<prep, prepDB, chain, tip, info>>
  BY DEF UpdateGovernanceVariable, UpdatePRepCandidate, EndPRepCandidate, RollbackGV,
         vars, memory, dbs, isVars
<1>3. /\ calc'.preps = calc.preps /\ calc'.quit = calc.quit
      /\ \/ calc'.phase = calc.phase
         \/ calc.phase = "gv" /\ calc'.phase = "prep"
         \/ calc.phase = "candidate" /\ calc'.phase = "rewards"
  <2>1. CASE UpdateGovernanceVariable
    BY <1>1, <2>1, NextPhase DEF UpdateGovernanceVariable, Phases
  <2>2. CASE UpdatePRepCandidate
    <3>1. PICK tx : calc' = [calc EXCEPT !.txs = @ \ {tx}]
      BY <2>2 DEF UpdatePRepCandidate
    <3>2. calc \in CalcType
      BY <1>1 DEF Types
    <3> QED
      BY <3>1, <3>2 DEF CalcType
  <2>3. CASE EndPRepCandidate
    BY <1>1, <2>3, NextPhase DEF EndPRepCandidate, Phases
  <2>4. CASE RollbackGV
    BY <2>4 DEF RollbackGV
  <2>5. CASE UNCHANGED vars
    BY <2>5 DEF vars
  <2> QED
    BY <2>1, <2>2, <2>3, <2>4, <2>5
<1>4. (calc.phase \in {"gv", "prep"} => OnlyAt(calc.preps, info.calcDone))'
  <2>1. calc'.phase \in {"gv", "prep"} => calc.phase \in {"gv", "prep"}
    BY <1>3
  <2> QED
    BY <1>2, <1>3, <2>1 DEF PRepInv, OnlyAt
<1>5. (calc.phase \in {"candidate", "rewards"} /\ ~calc.quit =>
          EndsWith(prep, Entry(info.calcDone, chain[info.calcDone].prep)))'
  <2>1. calc'.phase \in {"candidate", "rewards"} => calc.phase \in {"candidate", "rewards"}
    BY <1>3
  <2> QED
    BY <1>2, <1>3, <2>1, SamePReps
<1> QED
  BY <1>2, <1>4, <1>5, SamePReps DEF PRepInv

LEMMA PRepCalculate ==
    ASSUME ManagementInv, PRepInv, Calculate PROVE PRepInv'
<1>1. Types /\ Schedule /\ ListsOfChain
  BY DEF ManagementInv, PRepInv
<1>2. /\ calc' = Loaded(TermEnd(tip)) /\ rollback = "idle" /\ info.calcDone < TermEnd(tip)
      /\ info' = [info EXCEPT !.calculating = TermEnd(tip)]
      /\ UNCHANGED <<prep, prepDB, chain, tip>>
  BY DEF Calculate, memory, dbs, isVars
<1>3. info'.calcDone = info.calcDone /\ info'.prevCalcDone = info.prevCalcDone
  BY <1>1, <1>2 DEF Types
<1>4. PICK h : h = TermEnd(tip)
  OBVIOUS
<1>5. /\ h = info.calcDone + Term /\ h <= tip
  BY <1>1, <1>2, <1>4, NextCalculation
<1>6. h \in Height /\ h >= Term
  <2>1. /\ Term \in Nat /\ info.calcDone \in Nat /\ tip \in Nat /\ tip \in Height
        /\ MaxHeight \in Nat /\ \A k \in Nat : k \in Height <=> k <= MaxHeight
    BY <1>1, HeightTypes
  <2> QED
    BY <1>5, <2>1
<1>7. Begins(calc', h)
  <2>1. Begins(Loaded(h), h)
    BY <1>1, <1>6, LoadedTypes
  <2> QED
    BY <1>2, <1>4, <2>1
<1>8. OnlyAt(calc'.preps, info.calcDone)
  <2>1. PICK c : c = calc'
    OBVIOUS
  <2>2. Begins(c, h)
    BY <1>7, <2>1
  <2>3. OnlyAt(c.preps, info.calcDone)
    BY <1>1, <1>5, <1>6, <2>2, BeginsWithList
  <2> QED
    BY <2>1, <2>3
<1>9. calc'.phase = "gv"
  BY <1>7 DEF Begins
<1>10. OnlyAt(calc.preps, info.calcDone)'
  BY <1>3, <1>8 DEF OnlyAt
<1> QED
  BY <1>2, <1>3, <1>9, <1>10, SamePReps DEF PRepInv

(* The IISS data of a term has its list, and no other. *)
LEMMA OneListDelivered ==
    ASSUME Types, Schedule, Data, PRepInv, calc.phase = "prep",
           NEW new, new = Load(calc.preps), NEW e,
           e = Entry(info.calcDone, chain[info.calcDone].prep)
    PROVE  /\ new # <<>> /\ \A i \in DOMAIN new : new[i] = e
           /\ \A h \in Keys(calc.preps) : h = info.calcDone
<1>1. /\ Term \in Nat /\ Term > 0 /\ info.calcDone \in Nat /\ info.calcDone \in Height
      /\ tip \in Nat /\ info.calcDone < tip
  BY HeightTypes, Window
<1>2. /\ calc.height = info.calcDone + Term
      /\ calc.preps \in [info.calcDone .. (calc.height - 1) -> PRepValue \cup {None}]
      /\ \A b \in info.calcDone .. (calc.height - 1) :
            b <= tip => calc.preps[b] = chain[b].prep
  BY Window
<1>3. info.calcDone \in info.calcDone .. (calc.height - 1)
  BY <1>1, <1>2
<1>4. calc.preps[info.calcDone] = chain[info.calcDone].prep
  BY <1>1, <1>2, <1>3
<1>5. chain[info.calcDone].prep # None
  BY <1>1 DEF PRepInv, ListsOfChain, Schedule
<1>6. info.calcDone \in Keys(calc.preps)
  BY <1>2, <1>3, <1>4, <1>5 DEF Keys
<1>7. \A h \in Keys(calc.preps) : h = info.calcDone
  BY DEF PRepInv, OnlyAt, Keys
<1>8. Listed(new, calc.preps, PRepValue)
  BY PRepUpdate
<1>9. \A i \in DOMAIN new : new[i] = e
  BY <1>4, <1>7, <1>8 DEF Listed
<1>10. new # <<>>
  <2>1. \E i \in DOMAIN new : TRUE
    BY <1>6, <1>8 DEF Listed
  <2> QED
    BY <2>1
<1> QED
  BY <1>7, <1>9, <1>10

(* The entries of two lists in a row. *)
LEMMA Joined ==
    ASSUME NEW V, NEW l \in Seq(EntryOf(V)), NEW new \in Seq(EntryOf(V)), new # <<>>, NEW e,
           \A i \in DOMAIN new : new[i] = e
    PROVE  /\ l \o new # <<>> /\ (l \o new)[Len(l \o new)] = e
           /\ \A i \in DOMAIN (l \o new) :
                 (l \o new)[i] = e \/ \E j \in DOMAIN l : (l \o new)[i] = l[j]
<1>1. /\ Len(l) \in Nat /\ Len(new) \in Nat /\ Len(l \o new) = Len(l) + Len(new)
      /\ DOMAIN l = 1 .. Len(l) /\ DOMAIN new = 1 .. Len(new)
      /\ DOMAIN (l \o new) = 1 .. (Len(l) + Len(new))
      /\ l \o new \in Seq(EntryOf(V))
  OBVIOUS
<1>2. Len(new) > 0
  BY <1>1
<1>3. \A i \in 1 .. (Len(l) + Len(new)) :
         (l \o new)[i] = IF i <= Len(l) THEN l[i] ELSE new[i - Len(l)]
  OBVIOUS
<1>4. ASSUME NEW i \in 1 .. (Len(l) + Len(new)), ~(i <= Len(l)) PROVE (l \o new)[i] = e
  <2>1. i - Len(l) \in 1 .. Len(new)
    BY <1>1, <1>4
  <2> QED
    BY <1>1, <1>3, <1>4, <2>1
<1>5. (l \o new)[Len(l \o new)] = e
  <2>1. /\ Len(l) + Len(new) \in 1 .. (Len(l) + Len(new))
        /\ ~(Len(l) + Len(new) <= Len(l))
    BY <1>1, <1>2
  <2> QED
    BY <1>1, <1>4, <2>1
<1>6. l \o new # <<>>
  BY <1>1, <1>2
<1>7. \A i \in 1 .. (Len(l) + Len(new)) : i <= Len(l) => i \in 1 .. Len(l)
  BY <1>1
<1> QED
  BY <1>1, <1>3, <1>4, <1>5, <1>6, <1>7

LEMMA PRepUpdated ==
    ASSUME ManagementInv, PRepInv, UpdatePRep PROVE PRepInv'
<1>1. Types /\ Schedule /\ Data
  BY DEF ManagementInv
<1>2. /\ calc.phase = "prep" /\ calc' = [calc EXCEPT !.phase = "candidate"]
      /\ prep' = WithoutOld(prep \o Load(calc.preps))
      /\ prepDB' = Written(prepDB, PRepWrites, Len(PRepWrites))
      /\ UNCHANGED <<info, chain, tip>>
  BY DEF UpdatePRep, isVars
<1>3. calc'.phase = "candidate"
  BY <1>1, <1>2, NextPhase DEF Phases
<1>4. PICK C \in Nat, P \in Nat, T \in Nat :
         /\ C = info.calcDone /\ P = info.prevCalcDone /\ T = Term
         /\ Height \subseteq Nat /\ C \in Height /\ tip \in Int
         /\ C = P \/ C = P + T
  <2>1. /\ info.calcDone \in Nat /\ info.prevCalcDone \in Nat /\ Term \in Nat
        /\ Height \subseteq Nat /\ info.calcDone \in Height /\ tip \in Int
    BY <1>1, HeightTypes
  <2> QED
    BY <1>1, <2>1 DEF Schedule
<1>5. PICK new : new = Load(calc.preps)
  OBVIOUS
<1>6. PICK e : e = Entry(C, chain[C].prep)
  OBVIOUS
<1>7. /\ new # <<>> /\ \A i \in DOMAIN new : new[i] = e
      /\ \A h \in Keys(calc.preps) : h = C
  <2>1. e = Entry(info.calcDone, chain[info.calcDone].prep)
    BY <1>4, <1>6
  <2>2. /\ new # <<>> /\ \A i \in DOMAIN new : new[i] = e
        /\ \A h \in Keys(calc.preps) : h = info.calcDone
    BY <1>1, <1>2, <1>5, <2>1, OneListDelivered
  <2> QED
    BY <1>4, <2>2
<1>8. prep \in Seq(EntryOf(PRepValue)) /\ new \in Seq(EntryOf(PRepValue))
  BY <1>1, <1>2, <1>5, PRepUpdate DEF Types, Listed
<1>9. PICK m : m = prep \o new
  OBVIOUS
<1>10. /\ m \in Seq(EntryOf(PRepValue)) /\ m # <<>> /\ m[Len(m)] = e
       /\ \A i \in DOMAIN m : m[i] = e \/ \E j \in DOMAIN prep : m[i] = prep[j]
  <2>1. /\ prep \o new # <<>> /\ (prep \o new)[Len(prep \o new)] = e
        /\ \A i \in DOMAIN (prep \o new) :
              (prep \o new)[i] = e \/ \E j \in DOMAIN prep : (prep \o new)[i] = prep[j]
    BY <1>7, <1>8, Joined
  <2> QED
    BY <1>8, <1>9, <2>1
<1>11. e.blockHeight = C
  BY <1>6 DEF Entry
<1>12. PICK l : l = WithoutOld(m)
  OBVIOUS
<1>13. prep' = l
  BY <1>2, <1>5, <1>9, <1>12
<1>14. /\ l \in Seq(EntryOf(PRepValue))
       /\ \A i \in DOMAIN l : \E j \in DOMAIN m : l[i] = m[j]
       /\ l # <<>> /\ l[Len(l)] = e
       /\ C <= P => Len(l) = 1
  <2>1. info.prevCalcDone \in Int /\ tip \in Int
    BY <1>4
  <2>2. /\ WithoutOld(m) \in Seq(EntryOf(PRepValue))
        /\ \A i \in DOMAIN WithoutOld(m) : \E j \in DOMAIN m : WithoutOld(m)[i] = m[j]
        /\ m # <<>> => /\ WithoutOld(m) # <<>>
                       /\ WithoutOld(m)[Len(WithoutOld(m))] = m[Len(m)]
        /\ m # <<>> /\ m[Len(m)].blockHeight <= info.prevCalcDone => Len(WithoutOld(m)) = 1
    BY <1>10, <2>1, CutLists
  <2> QED
    BY <1>4, <1>10, <1>11, <1>12, <2>2
<1>15. \A i \in DOMAIN l : l[i] = e \/ \E j \in DOMAIN prep : l[i] = prep[j]
  BY <1>10, <1>14
<1>16. \A i \in DOMAIN l : l[i].blockHeight = C
                             \/ \E j \in DOMAIN prep : l[i].blockHeight = prep[j].blockHeight
  BY <1>11, <1>15
<1>17. \A h \in Keys(prepDB') : h \in Keys(prepDB) \/ h = C
  <2>1. Len(PRepWrites) \in 0 .. Len(PRepWrites)
    <3>1. PRepWrites \in Seq(Writes(PRepValue))
      BY <1>1, <1>2, <1>5, PRepUpdate
    <3>2. Len(PRepWrites) \in Nat
      BY <3>1
    <3> QED
      BY <3>2
  <2>2. PICK d : d = Written(prepDB, PRepWrites, Len(PRepWrites))
    OBVIOUS
  <2>3. \A h \in Keys(d) : h \in Keys(prepDB) \/ h \in Keys(calc.preps)
    BY <1>1, <1>2, <2>1, <2>2, PRepUpdateKeys
  <2>4. prepDB' = d
    BY <1>2, <2>2
  <2> QED
    BY <1>7, <2>3, <2>4
<1>18. ASSUME NEW x \in Nat, C <= x, NotNewer(prep, prepDB, x) PROVE NotNewer(prep', prepDB', x)
  <2>1. \A i \in DOMAIN l : l[i].blockHeight <= x
    BY <1>16, <1>18 DEF NotNewer
  <2>2. \A h \in Keys(prepDB') : h <= x
    BY <1>17, <1>18 DEF NotNewer
  <2> QED
    BY <1>13, <2>1, <2>2 DEF NotNewer
<1>19. NotNewer(prep', prepDB', C + T)
  <2>1. NotNewer(prep, prepDB, C + T)
    BY <1>4 DEF PRepInv
  <2>2. C + T \in Nat /\ C <= C + T
    BY <1>4
  <2> QED
    BY <1>18, <2>1, <2>2
<1>20. P < C => NotNewer(prep', prepDB', C)
  BY <1>4, <1>18 DEF PRepInv
<1>21. EndsWith(prep', e)
  <2>1. \A i \in DOMAIN l : l[i].blockHeight <= C
    <3>1. CASE P < C
      BY <1>13, <1>20, <3>1 DEF NotNewer
    <3>2. CASE C <= P
      <4>1. DOMAIN l = 1 .. Len(l)
        BY <1>14
      <4>2. \A i \in DOMAIN l : i = Len(l)
        BY <1>14, <3>2, <4>1
      <4> QED
        BY <1>4, <1>11, <1>14, <4>2
    <3> QED
      BY <1>4, <3>1, <3>2
  <2> QED
    BY <1>11, <1>13, <1>14, <2>1 DEF EndsWith
<1>22. ListsOfChain'
  BY <1>2 DEF PRepInv, ListsOfChain
<1>23. info'.calcDone = C /\ info'.prevCalcDone = P /\ chain' = chain
  BY <1>2, <1>4
<1> QED
  BY <1>3, <1>4, <1>6, <1>19, <1>20, <1>21, <1>22, <1>23 DEF PRepInv

LEMMA PRepEndCalculation ==
    ASSUME ManagementInv, PRepInv, EndCalculation PROVE PRepInv'
<1>1. Types /\ Schedule
  BY DEF ManagementInv
<1>2. /\ calc.phase = "rewards" /\ calc' = Idle
      /\ info' = IF calc.quit THEN info
                 ELSE [info EXCEPT !.prevCalcDone = info.calcDone, !.calcDone = calc.height]
      /\ UNCHANGED <<prep, prepDB, chain, tip>>
  BY DEF EndCalculation, memory, dbs, isVars
<1>3. calc'.phase = "idle"
  BY <1>2, CalcTypes
<1>4. PICK C \in Nat, T \in Nat : C = info.calcDone /\ T = Term
  BY <1>1, HeightTypes
<1>5. CASE calc.quit
  <2>1. info' = info
    BY <1>2, <1>5
  <2> QED
    BY <1>2, <1>3, <2>1, SamePReps DEF PRepInv
<1>6. CASE ~calc.quit
  <2>1. info'.calcDone = C + T /\ info'.prevCalcDone = C
    <3>1. calc.height = C + T
      BY <1>1, <1>2, <1>4 DEF Schedule
    <3>2. info' = [info EXCEPT !.prevCalcDone = info.calcDone, !.calcDone = calc.height]
      BY <1>2, <1>6
    <3> QED
      BY <1>1, <1>4, <3>1, <3>2 DEF Types
  <2>2. NotNewer(prep, prepDB, C + T)
    BY <1>4 DEF PRepInv
  <2>3. NotNewer(prep, prepDB, C + T + T)
    <3>1. C + T \in Nat /\ C + T + T \in Nat /\ C + T <= C + T + T
      BY <1>4
    <3> QED
      BY <1>1, <2>2, <3>1, NotNewerLater DEF Types
  <2>4. ListsOfChain'
    BY <1>2 DEF PRepInv, ListsOfChain
  <2> QED
    BY <1>2, <1>3, <1>4, <2>1, <2>2, <2>3, <2>4 DEF PRepInv
<1> QED
  BY <1>5, <1>6

LEMMA PRepDecideRollback ==
    ASSUME ManagementInv, PRepInv, NEW to \in Height, DecideRollback(to) PROVE PRepInv'
<1>1. Types /\ Schedule
  BY DEF ManagementInv
<1>2. /\ to < tip /\ tip' = to
      /\ to > info.calcDone \/ calc = Idle
      /\ chain' = [h \in Height |-> IF h > to THEN [gv |-> None, prep |-> None] ELSE chain[h]]
      /\ UNCHANGED <<prep, prepDB, info, calc>>
  BY DEF DecideRollback, memory, dbs
<1>3. Height \subseteq Nat /\ to \in Nat /\ tip \in Nat /\ info.calcDone \in Height
  BY <1>1, HeightTypes
<1>4. \A h \in Height : h <= to => chain'[h] = chain[h] /\ h <= tip
  BY <1>2, <1>3
<1>5. ListsOfChain'
  BY <1>2, <1>4 DEF PRepInv, ListsOfChain
<1>6. /\ NotNewer(prep, prepDB, info.calcDone + Term)'
      /\ (info.prevCalcDone < info.calcDone => NotNewer(prep, prepDB, info.calcDone))'
  BY <1>2 DEF PRepInv, NotNewer, Keys
<1>7. (calc.phase \in {"gv", "prep"} => OnlyAt(calc.preps, info.calcDone))'
  BY <1>2 DEF PRepInv, OnlyAt
<1>8. (calc.phase \in {"candidate", "rewards"} /\ ~calc.quit =>
          EndsWith(prep, Entry(info.calcDone, chain[info.calcDone].prep)))'
  <2>1. SUFFICES ASSUME calc.phase \in {"candidate", "rewards"}, ~calc.quit
                 PROVE  EndsWith(prep, Entry(info.calcDone, chain[info.calcDone].prep))'
    BY <1>2
  <2>2. info.calcDone <= to
    <3>1. calc # Idle
      BY <2>1, CalcTypes
    <3>2. PICK c \in Nat : c = info.calcDone
      BY <1>3
    <3>3. to > c
      BY <1>2, <3>1, <3>2
    <3> QED
      BY <1>3, <3>2, <3>3
  <2>3. chain'[info.calcDone] = chain[info.calcDone]
    BY <1>3, <1>4, <2>2
  <2>4. EndsWith(prep, Entry(info.calcDone, chain[info.calcDone].prep))
    BY <2>1 DEF PRepInv
  <2> QED
    BY <1>2, <2>3, <2>4 DEF EndsWith, Entry
<1> QED
  BY <1>5, <1>6, <1>7, <1>8 DEF PRepInv

LEMMA PRepRollbackAccountDB ==
    ASSUME ManagementInv, PRepInv, RollbackAccountDB PROVE PRepInv'
<1>1. Types /\ Schedule
  BY DEF ManagementInv
<1>2. /\ calc.phase \notin UpdatePhases
      /\ calc' = IF calc = Idle THEN calc ELSE [calc EXCEPT !.quit = TRUE]
      /\ info' = IF tip > info.calcDone THEN info
                 ELSE [info EXCEPT !.calcDone = info.prevCalcDone,
                                   !.calculating = info.prevCalcDone]
      /\ UNCHANGED <<prep, prepDB, chain, tip>>
  BY DEF RollbackAccountDB, memory, dbs, isVars
<1>3. calc'.phase \notin {"gv", "prep", "candidate"} /\ (calc'.phase = "rewards" => calc'.quit)
  <2>1. calc \in CalcType
    BY <1>1 DEF Types
  <2>2. CASE calc = Idle
    BY <1>2, <2>2, CalcTypes
  <2>3. CASE calc # Idle
    <3>1. calc' = [calc EXCEPT !.quit = TRUE]
      BY <1>2, <2>3
    <3>2. calc'.phase = calc.phase /\ calc'.quit
      BY <2>1, <3>1 DEF CalcType
    <3> QED
      BY <1>2, <3>2 DEF UpdatePhases
  <2> QED
    BY <2>2, <2>3
<1>4. ListsOfChain'
  BY <1>2 DEF PRepInv, ListsOfChain
<1>5. CASE tip > info.calcDone
  <2>1. info' = info
    BY <1>2, <1>5
  <2> QED
    BY <1>2, <1>3, <1>4, <2>1, SamePReps DEF PRepInv
<1>6. CASE ~(tip > info.calcDone)
  <2>1. PICK C \in Nat, P \in Nat, T \in Nat :
           C = info.calcDone /\ P = info.prevCalcDone /\ T = Term /\ T > 0 /\ (C = P \/ C = P + T)
    <3>1. /\ info.calcDone \in Nat /\ info.prevCalcDone \in Nat /\ Term \in Nat /\ Term > 0
      BY <1>1, HeightTypes
    <3> QED
      BY <1>1, <3>1 DEF Schedule
  <2>2. info'.calcDone = P /\ info'.prevCalcDone = P
    <3>1. info' = [info EXCEPT !.calcDone = info.prevCalcDone,
                               !.calculating = info.prevCalcDone]
      BY <1>2, <1>6
    <3> QED
      BY <1>1, <2>1, <3>1 DEF Types
  <2>3. NotNewer(prep, prepDB, P + T)
    <3>1. CASE C = P
      BY <2>1, <3>1 DEF PRepInv
    <3>2. CASE C = P + T
      <4>1. P < C
        BY <2>1, <3>2
      <4> QED
        BY <2>1, <3>2, <4>1 DEF PRepInv
    <3> QED
      BY <2>1, <3>1, <3>2
  <2>4. ~(P < P)
    BY <2>1
  <2> QED
    BY <1>2, <1>3, <1>4, <2>1, <2>2, <2>3, <2>4 DEF PRepInv
<1> QED
  BY <1>5, <1>6

LEMMA PRepRolledBack ==
    ASSUME ManagementInv, PRepInv, RollbackPRep PROVE PRepInv'
<1>1. Types /\ Schedule
  BY DEF ManagementInv
<1>2. /\ rollback = "prep"
      /\ prep' = WithoutNewer(prep)
      /\ prepDB' = Written(prepDB, DeleteNewer(prep), Len(DeleteNewer(prep)))
      /\ UNCHANGED <<chain, tip, info, calc>>
  BY DEF RollbackPRep, isVars
<1>3. calc.phase = "idle" \/ (calc.quit /\ calc.phase = "rewards")
  <2>1. /\ calc.quit => calc.phase = "rewards"
        /\ rollback \in {"gv", "prep"} => calc.phase = "idle" \/ calc.quit
    BY <1>1 DEF Schedule
  <2> QED
    BY <1>2, <2>1, Zenon
<1>4. PICK l, d : l = prep' /\ d = prepDB'
  OBVIOUS
<1>5. \A i \in DOMAIN l : \E j \in DOMAIN prep : l[i] = prep[j]
  <2>1. info.prevCalcDone \in Int /\ tip \in Int /\ prep \in Seq(EntryOf(PRepValue))
    BY <1>1, HeightTypes DEF Types
  <2>2. \A i \in DOMAIN WithoutNewer(prep) : \E j \in DOMAIN prep : WithoutNewer(prep)[i] = prep[j]
    BY <2>1, CutLists
  <2> QED
    BY <1>2, <1>4, <2>2
<1>6. \A h \in Keys(d) : h \in Keys(prepDB)
  <2>1. Len(DeleteNewer(prep)) \in 0 .. Len(DeleteNewer(prep))
    <3>1. DeleteNewer(prep) \in Seq(Writes(PRepValue))
      BY <1>1, DeleteTypes DEF Types
    <3>2. Len(DeleteNewer(prep)) \in Nat
      BY <3>1
    <3> QED
      BY <3>2
  <2>2. d = Written(prepDB, DeleteNewer(prep), Len(DeleteNewer(prep)))
    BY <1>2, <1>4
  <2> QED
    BY <1>1, <2>1, <2>2, PRepRollback
<1>7. ASSUME NEW x, NotNewer(prep, prepDB, x) PROVE NotNewer(l, d, x)
  BY <1>5, <1>6, <1>7 DEF NotNewer
<1>8. ListsOfChain'
  BY <1>2 DEF PRepInv, ListsOfChain
<1> QED
  BY <1>2, <1>3, <1>4, <1>7, <1>8 DEF PRepInv

LEMMA PRepAddBlock ==
    ASSUME OneListATerm, ManagementInv, PRepInv,
           NEW g \in GVValue \cup {None}, NEW p \in PRepValue, AddBlock(g, p)
    PROVE  PRepInv'
<1>1. Types /\ Schedule
  BY DEF ManagementInv
<1>2. /\ tip < MaxHeight /\ tip' = tip + 1
      /\ chain' = [chain EXCEPT ![tip + 1] =
                      [gv |-> IF tip + 1 \in GVBlocks THEN g ELSE None,
                       prep |-> IF tip + 1 \in PRepBlocks THEN p ELSE None]]
      /\ UNCHANGED <<prep, prepDB, info, calc>>
  BY DEF AddBlock, memory, dbs
<1>3. /\ Height \subseteq Nat /\ tip \in Nat /\ info.calcDone \in Height /\ info.calcDone \in Nat
      /\ MaxHeight \in Nat /\ \A h \in Nat : h \in Height <=> h <= MaxHeight
  BY <1>1, HeightTypes
<1>4. tip + 1 \in Height
  BY <1>2, <1>3
<1>5. /\ chain'[tip + 1].prep # None <=> (tip + 1) % Term = 0
      /\ \A h \in Height : h # tip + 1 => chain'[h] = chain[h]
  <2>1. DOMAIN chain = Height
    BY <1>1 DEF Types
  <2>2. /\ chain'[tip + 1].prep = IF tip + 1 \in PRepBlocks THEN p ELSE None
        /\ \A h \in Height : h # tip + 1 => chain'[h] = chain[h]
    BY <1>2, <1>4, <2>1
  <2>3. tip + 1 \in PRepBlocks <=> (tip + 1) % Term = 0
    BY <1>4 DEF OneListATerm
  <2> QED
    BY <2>2, <2>3, CalcTypes
<1>6. ListsOfChain'
  <2>1. ASSUME NEW h \in Height, h <= tip + 1
        PROVE  chain'[h].prep # None <=> h % Term = 0
    <3>1. CASE h = tip + 1
      BY <1>5, <3>1
    <3>2. CASE h # tip + 1
      <4>1. h <= tip
        BY <1>3, <2>1, <3>2
      <4> QED
        BY <1>5, <3>2, <4>1 DEF PRepInv, ListsOfChain
    <3> QED
      BY <3>1, <3>2
  <2> QED
    BY <1>2, <2>1 DEF ListsOfChain
<1>7. /\ NotNewer(prep, prepDB, info.calcDone + Term)'
      /\ (info.prevCalcDone < info.calcDone => NotNewer(prep, prepDB, info.calcDone))'
  BY <1>2 DEF PRepInv, NotNewer, Keys
<1>8. (calc.phase \in {"gv", "prep"} => OnlyAt(calc.preps, info.calcDone))'
  BY <1>2 DEF PRepInv, OnlyAt
<1>9. (calc.phase \in {"candidate", "rewards"} /\ ~calc.quit =>
          EndsWith(prep, Entry(info.calcDone, chain[info.calcDone].prep)))'
  <2>1. SUFFICES ASSUME calc.phase \in {"candidate", "rewards"}, ~calc.quit
                 PROVE  EndsWith(prep, Entry(info.calcDone, chain[info.calcDone].prep))'
    BY <1>2
  <2>2. info.calcDone < tip
    BY <1>1, <2>1 DEF Schedule
  <2>3. info.calcDone # tip + 1
    BY <1>3, <2>2
  <2>4. chain'[info.calcDone] = chain[info.calcDone]
    BY <1>3, <1>5, <2>3
  <2>5. EndsWith(prep, Entry(info.calcDone, chain[info.calcDone].prep))
    BY <2>1 DEF PRepInv
  <2> QED
    BY <1>2, <2>4, <2>5 DEF EndsWith, Entry
<1> QED
  BY <1>6, <1>7, <1>8, <1>9 DEF PRepInv

LEMMA PRepRestart ==
    ASSUME ManagementInv, PRepInv, Restart PROVE PRepInv'
<1>1. Types /\ Schedule /\ Data /\ ListsOfChain
  BY DEF ManagementInv, PRepInv
<1>2. /\ \E d \in Interrupted(prepDB, calc.phase = "prep", PRepWrites) :
            prepDB' \in Interrupted(d, rollback = "prep", DeleteNewer(prep))
      /\ prep' = Load(prepDB')
      /\ IF info.calculating # info.calcDone /\ info.calculating <= tip
         THEN calc' = Loaded(info.calculating) /\ info' = info
         ELSE calc' = Idle /\ info' = [info EXCEPT !.calculating = info.calcDone]
      /\ UNCHANGED <<chain, tip>>
  BY DEF Restart, isVars, LoadPRep
<1>3. info'.calcDone = info.calcDone /\ info'.prevCalcDone = info.prevCalcDone
  BY <1>1, <1>2 DEF Types
<1>4. PICK d : d = prepDB'
  OBVIOUS
<1>5. /\ d \in [Height -> PRepValue \cup {None}]
      /\ \A h \in Keys(d) : h \in Keys(prepDB) \/ h = info.calcDone
  <2>1. PICK e \in Interrupted(prepDB, calc.phase = "prep", PRepWrites) :
           d \in Interrupted(e, rollback = "prep", DeleteNewer(prep))
    BY <1>2, <1>4
  <2>2. /\ d \in [Height -> PRepValue \cup {None}]
        /\ \A h \in Keys(d) : \/ h \in Keys(prepDB)
                              \/ calc.phase = "prep" /\ h \in Keys(calc.preps)
    BY <1>1, <2>1, PRepAfterCrash
  <2>3. ASSUME calc.phase = "prep", NEW h \in Keys(calc.preps) PROVE h = info.calcDone
    BY <2>3 DEF PRepInv, OnlyAt, Keys
  <2> QED
    BY <2>2, <2>3
<1>6. PICK l : l = prep'
  OBVIOUS
<1>7. Listed(l, d, PRepValue)
  <2>1. Height \in SUBSET Height
    OBVIOUS
  <2>2. Listed(Load(d), d, PRepValue)
    BY <1>5, <2>1, LoadListed
  <2> QED
    BY <1>2, <1>4, <1>6, <2>2
<1>8. \A i \in DOMAIN l : l[i].blockHeight \in Keys(d)
  BY <1>7 DEF Listed, Entry
<1>9. ASSUME NEW x \in Nat, info.calcDone <= x, NotNewer(prep, prepDB, x)
      PROVE  NotNewer(l, d, x)
  <2>1. \A h \in Keys(d) : h <= x
    BY <1>5, <1>9 DEF NotNewer
  <2> QED
    BY <1>8, <2>1 DEF NotNewer
<1>10. PICK C \in Nat, P \in Nat, T \in Nat :
          C = info.calcDone /\ P = info.prevCalcDone /\ T = Term
  BY <1>1, HeightTypes
<1>11. NotNewer(l, d, C + T)
  <2>1. C + T \in Nat /\ C <= C + T
    BY <1>10
  <2>2. NotNewer(prep, prepDB, C + T)
    BY <1>10 DEF PRepInv
  <2> QED
    BY <1>9, <1>10, <2>1, <2>2
<1>12. P < C => NotNewer(l, d, C)
  BY <1>9, <1>10 DEF PRepInv
<1>13. /\ calc'.phase \in {"idle", "gv"}
       /\ calc'.phase = "gv" => OnlyAt(calc'.preps, C)
  <2>1. CASE info.calculating # info.calcDone /\ info.calculating <= tip
    <3>1. PICK h : h = info.calculating
      OBVIOUS
    <3>2. h = info.calcDone + Term /\ h <= tip /\ h \in Height /\ h >= Term
      <4>1. h = info.calcDone + Term /\ h <= tip
        BY <1>1, <2>1, <3>1 DEF Schedule
      <4>2. h \in Height
        BY <1>1, <3>1, HeightTypes
      <4>3. h >= Term
        BY <1>10, <4>1
      <4> QED
        BY <4>1, <4>2, <4>3
    <3>3. PICK c : c = Loaded(h)
      OBVIOUS
    <3>4. Begins(c, h)
      <4>1. Begins(Loaded(h), h)
        BY <1>1, <3>2, LoadedTypes
      <4> QED
        BY <3>3, <4>1
    <3>5. OnlyAt(c.preps, info.calcDone)
      BY <1>1, <3>2, <3>4, BeginsWithList
    <3>6. calc' = c
      BY <1>2, <2>1, <3>1, <3>3
    <3>7. c.phase = "gv"
      BY <3>4 DEF Begins
    <3> QED
      BY <1>10, <3>5, <3>6, <3>7
  <2>2. CASE ~(info.calculating # info.calcDone /\ info.calculating <= tip)
    BY <1>2, <2>2, CalcTypes
  <2> QED
    BY <2>1, <2>2
<1>14. ListsOfChain'
  BY <1>2 DEF PRepInv, ListsOfChain
<1> QED
  BY <1>3, <1>4, <1>6, <1>10, <1>11, <1>12, <1>13, <1>14 DEF PRepInv

(* Every step preserves what is known of the P-Rep lists. *)
LEMMA PRepStep ==
    OneListATerm /\ ManagementInv /\ PRepInv /\ [Next]_vars => PRepInv'
<1> SUFFICES ASSUME OneListATerm, ManagementInv, PRepInv, [Next]_vars
             PROVE  PRepInv'
  OBVIOUS
<1>1. CASE \/ UpdateGovernanceVariable \/ UpdatePRepCandidate \/ EndPRepCandidate
           \/ RollbackGV \/ UNCHANGED vars
  BY <1>1, PRepFrame
<1>2. CASE Calculate
  BY <1>2, PRepCalculate
<1>3. CASE UpdatePRep
  BY <1>3, PRepUpdated
<1>4. CASE EndCalculation
  BY <1>4, PRepEndCalculation
<1>5. CASE \E to \in Height : DecideRollback(to)
  BY <1>5, PRepDecideRollback
<1>6. CASE RollbackAccountDB
  BY <1>6, PRepRollbackAccountDB
<1>7. CASE RollbackPRep
  BY <1>7, PRepRolledBack
<1>8. CASE \E g \in GVValue \cup {None}, p \in PRepValue : AddBlock(g, p)
  BY <1>8, PRepAddBlock
<1>9. CASE Restart
  BY <1>9, PRepRestart
<1> QED
  BY <1>1, <1>2, <1>3, <1>4, <1>5, <1>6, <1>7, <1>8, <1>9 DEF Next

(* P-Rep rewards are paid once for every block, from the list in force,      *)
(* whatever is deleted as old, rolled back, half written before a crash or   *)
(* appended again (UpdatePRep, RollbackManagementDB), when the chain records *)
(* one list a term.                                                          *)
THEOREM PRepRewardedOnce ==
    ASSUME OneListATerm PROVE Spec => []PRepRewardOnce
<1>1. ManagementInv /\ PRepInv => PRepRewardOnce
  <2> SUFFICES ASSUME ManagementInv, PRepInv, Rewarding, NEW b \in TermBlocks
               PROVE  \E i \in DOMAIN prep : Paying(prep, b) = {i} /\ prep[i] = InForce("prep", b)
    BY DEF PRepRewardOnce
  <2>1. Types /\ Schedule /\ ListsOfChain
    BY DEF ManagementInv, PRepInv
  <2>2. calc.phase = "rewards" /\ ~calc.quit /\ rollback = "idle"
    BY DEF Rewarding
  <2>3. PICK C \in Nat, T \in Nat, H \in Nat :
           /\ C = info.calcDone /\ T = Term /\ T > 0 /\ H = calc.height /\ H = C + T
           /\ C % T = 0 /\ C \in Height /\ Height \subseteq Nat /\ tip \in Nat
           /\ C < tip /\ H <= tip
    <3>1. /\ info.calcDone \in Nat /\ calc.height \in Nat /\ Term \in Nat /\ Term > 0
          /\ info.calcDone \in Height /\ Height \subseteq Nat /\ tip \in Nat
      BY <2>1, HeightTypes
    <3>2. /\ calc.height = info.calcDone + Term /\ info.calcDone % Term = 0
          /\ info.calcDone < tip /\ calc.height <= tip
      BY <2>1, <2>2 DEF Schedule
    <3> QED
      BY <3>1, <3>2
  <2>4. b \in Nat /\ C < b /\ b <= H
    BY <2>3 DEF TermBlocks
  <2>5. PICK e : e = Entry(C, chain[C].prep)
    OBVIOUS
  <2>6. EndsWith(prep, e)
    BY <2>2, <2>3, <2>5 DEF PRepInv
  <2>7. e.blockHeight = C
    BY <2>5 DEF Entry
  <2>8. prep \in Seq(EntryOf(PRepValue))
    BY <2>1 DEF Types
  <2>9. PICK n \in Nat : n = Len(prep) /\ DOMAIN prep = 1 .. n /\ n > 0
    <3>1. Len(prep) \in Nat /\ DOMAIN prep = 1 .. Len(prep) /\ prep # <<>>
      BY <2>6, <2>8 DEF EndsWith
    <3>2. Len(prep) > 0
      BY <2>8, <3>1
    <3> QED
      BY <3>1, <3>2
  <2>10. /\ prep[n] = e /\ \A i \in 1 .. n : prep[i].blockHeight <= C
         /\ \A i \in 1 .. n : prep[i].blockHeight \in Int
    <3>1. \A i \in DOMAIN prep : prep[i].blockHeight \in Int
      BY <2>8, ListEntries
    <3> QED
      BY <2>6, <2>7, <2>9, <3>1 DEF EndsWith
  <2>11. \A i \in 1 .. n : b \in Period(prep, i, C, H) <=> i = n
    <3> SUFFICES ASSUME NEW i \in 1 .. n PROVE b \in Period(prep, i, C, H) <=> i = n
      OBVIOUS
    <3>1. b \in Period(prep, i, C, H) <=>
             /\ C < b /\ prep[i].blockHeight < b /\ b <= H
             /\ i < Len(prep) => b <= prep[i + 1].blockHeight
      <4>1. i \in DOMAIN prep /\ C \in Int /\ H \in Int /\ b \in Int
        BY <2>3, <2>4, <2>9
      <4> QED
        BY <2>8, <4>1, PeriodIs
    <3>2. prep[i].blockHeight < b
      <4>1. prep[i].blockHeight <= C /\ prep[i].blockHeight \in Int
        BY <2>10
      <4> QED
        BY <2>3, <2>4, <4>1
    <3>3. ASSUME i < n PROVE ~(b <= prep[i + 1].blockHeight)
      <4>1. i + 1 \in 1 .. n
        BY <3>3
      <4>2. PICK x \in Int : x = prep[i + 1].blockHeight /\ x <= C
        BY <2>10, <4>1
      <4> QED
        BY <2>3, <2>4, <4>2
    <3>4. i < n \/ i = n
      BY <2>9
    <3>5. ~(n < n)
      BY <2>9
    <3> QED
      BY <2>4, <2>9, <3>1, <3>2, <3>3, <3>4, <3>5
  <2>12. n \in 1 .. n
    BY <2>9
  <2>13. Paying(prep, b) = {n}
    BY <2>3, <2>9, <2>11, <2>12 DEF Paying
  <2>14. InForce("prep", b) = e
    <3>1. \A h \in Height : chain[h]["prep"] = chain[h].prep
      BY <2>1 DEF Types
    <3>2. \A h : h \in Recorded("prep") <=> h \in Height /\ chain[h].prep # None
      BY <3>1 DEF Recorded
    <3>3. C \in Recorded("prep")
      <4>1. C <= tip
        BY <2>3
      <4> QED
        BY <2>1, <2>3, <3>2, <4>1 DEF ListsOfChain
    <3>4. ASSUME NEW h \in Recorded("prep"), h < b PROVE h <= C
      <4>1. h \in Height /\ h \in Nat /\ chain[h].prep # None
        BY <2>3, <3>2
      <4>2. h <= tip /\ h < C + T
        BY <2>3, <2>4, <3>4, <4>1
      <4>3. h % T = 0
        BY <2>1, <2>3, <4>1, <4>2 DEF ListsOfChain
      <4>4. ~(C < h)
        <5> SUFFICES ASSUME C < h PROVE FALSE
          OBVIOUS
        <5>1. C + T <= h
          BY <2>3, <4>1, <4>3, TermsApart
        <5> QED
          BY <2>3, <4>1, <4>2, <5>1
      <4> QED
        BY <2>3, <4>1, <4>4
    <3>5. InForce("prep", b) = Entry(C, chain[C]["prep"])
      BY <2>1, <2>4, <3>3, <3>4, InForceIs
    <3> QED
      BY <2>3, <2>5, <3>1, <3>5
  <2> QED
    BY <2>9, <2>10, <2>12, <2>13, <2>14
<1>2. Init => PRepInv
  BY PRepInit
<1>3. ManagementInv /\ PRepInv /\ [Next]_vars => PRepInv'
  BY PRepStep
<1> QED
  BY <1>1, <1>2, <1>3, ManagementInvariance, PTL DEF Spec
=============================================================================
