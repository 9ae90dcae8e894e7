------------------------- MODULE TermRewardsProofs -------------------------
(***************************************************************************)
(* What TermRewards promises for every term, chain and set of accounts:    *)
(* after a calculation all accounts stand at its end, the statistics are   *)
(* what the accounts got, no more is issued than the governance variables  *)
(* allow, the delegations earned what they earn block by block, and the    *)
(* debug result adds up to the I-Scores.                                   *)
(***************************************************************************)
EXTENDS TermRewards, SumTheorems

StatsType == [accounts : Int, beta1 : Int, beta2 : Int, beta3 : Int, total : Int]

Passes == {"idle", "accounts", "tx", "blocks", "preps", "done"}

\* the state as the code types it
RewardsTypes ==
    /\ gvs \in GVLists /\ preps \in PRepLists /\ txs \in TXLists /\ blocks \in BlockLists
    /\ revision \in Nat
    /\ read \in [Account -> {NoAccount} \cup IScoreAccount]
    /\ write \in [Account -> {NoAccount} \cup IScoreAccount]
    /\ pass \in Passes /\ next \in Nat
    /\ bpMap \in [Account -> Int]
    /\ stats \in StatsType

-----------------------------------------------------------------------------
(* Statistics. *)

(* Increase changes one of the rewards, the total and the number of accounts. *)
LEMMA IncreaseIs ==
    ASSUME stats \in StatsType, NEW n \in Int, NEW r \in Int,
           NEW beta \in {"beta1", "beta2", "beta3"}, Increase(beta, n, r)
    PROVE  /\ stats' \in StatsType
           /\ stats'.total = stats.total + r
           /\ stats'.accounts = stats.accounts + n
           /\ stats'.beta1 = stats.beta1 + (IF beta = "beta1" THEN r ELSE 0)
           /\ stats'.beta2 = stats.beta2 + (IF beta = "beta2" THEN r ELSE 0)
           /\ stats'.beta3 = stats.beta3 + (IF beta = "beta3" THEN r ELSE 0)
<1>0. /\ stats.total + r \in Int /\ stats.accounts + n \in Int
      /\ stats.beta1 + r \in Int /\ stats.beta2 + r \in Int /\ stats.beta3 + r \in Int
      /\ stats.beta1 + 0 = stats.beta1 /\ stats.beta2 + 0 = stats.beta2
      /\ stats.beta3 + 0 = stats.beta3
  BY DEF StatsType
<1> PICK t \in Int, c \in Int : t = stats.total + r /\ c = stats.accounts + n
  BY <1>0
<1>1. CASE beta = "beta1"
  <2> PICK b \in Int : b = stats.beta1 + r
    BY <1>0
  <2>1. stats' = [stats EXCEPT !.beta1 = b, !.total = t, !.accounts = c]
    BY <1>1 DEF Increase
  <2>2. /\ stats' \in StatsType
        /\ stats'.total = t /\ stats'.accounts = c /\ stats'.beta1 = b
        /\ stats'.beta2 = stats.beta2 /\ stats'.beta3 = stats.beta3
    BY <2>1 DEF StatsType
  <2> QED
    BY <1>0, <1>1, <2>2
<1>2. CASE beta = "beta2"
  <2> PICK b \in Int : b = stats.beta2 + r
    BY <1>0
  <2>1. stats' = [stats EXCEPT !.beta2 = b, !.total = t, !.accounts = c]
    BY <1>2 DEF Increase
  <2>2. /\ stats' \in StatsType
        /\ stats'.total = t /\ stats'.accounts = c /\ stats'.beta2 = b
        /\ stats'.beta1 = stats.beta1 /\ stats'.beta3 = stats.beta3
    BY <2>1 DEF StatsType
  <2> QED
    BY <1>0, <1>2, <2>2
<1>3. CASE beta = "beta3"
  <2> PICK b \in Int : b = stats.beta3 + r
    BY <1>0
  <2>1. stats' = [stats EXCEPT !.beta3 = b, !.total = t, !.accounts = c]
    BY <1>3 DEF Increase
  <2>2. /\ stats' \in StatsType
        /\ stats'.total = t /\ stats'.accounts = c /\ stats'.beta3 = b
        /\ stats'.beta1 = stats.beta1 /\ stats'.beta2 = stats.beta2
    BY <2>1 DEF StatsType
  <2> QED
    BY <1>0, <1>3, <2>2
<1> QED
  BY <1>1, <1>2, <1>3

-----------------------------------------------------------------------------
(* Periods and the rewards made of them are numbers. *)

(* The larger of two heights is one of them. *)
LEMMA MaxOfTwo ==
    ASSUME NEW m \in Int, NEW n \in Int
    PROVE  /\ Max({m, n}) \in {m, n}
           /\ Max({m, n}) >= m /\ Max({m, n}) >= n
<1>1. \E x \in {m, n} : \A y \in {m, n} : x >= y
  <2>1. CASE m >= n
    BY <2>1
  <2>2. CASE n >= m
    BY <2>2
  <2> QED
    BY <2>1, <2>2
<1> QED
  BY <1>1 DEF Max

(* A list of governance variables or of P-Reps has heights. *)
LEMMA ListEntries ==
    /\ \A l \in GVLists : /\ DOMAIN l = 1 .. Len(l) /\ Len(l) \in Nat
                          /\ \A i \in DOMAIN l : l[i] \in GovernanceVariable
    /\ \A l \in PRepLists : /\ DOMAIN l = 1 .. Len(l) /\ Len(l) \in Nat
                            /\ \A i \in DOMAIN l : l[i] \in PRepList
    /\ \A l \in TXLists : /\ DOMAIN l = 1 .. Len(l) /\ Len(l) \in Nat
                          /\ \A i \in DOMAIN l : l[i] \in DelegateTX
    /\ \A l \in BlockLists : /\ DOMAIN l = 1 .. Len(l) /\ Len(l) \in Nat
                             /\ \A i \in DOMAIN l : l[i] \in BlockProduce
BY TermRewardsAssumption

\* a list of which only the heights matter
HasHeights(list) ==
    /\ DOMAIN list = 1 .. Len(list) /\ Len(list) \in Nat
    /\ \A i \in DOMAIN list : list[i].blockHeight \in Nat

(* The lists of governance variables and of P-Reps are such lists. *)
LEMMA ListHeights == \A l \in GVLists \cup PRepLists : HasHeights(l)
BY ListEntries DEF HasHeights, GovernanceVariable, PRepList

(* A period is an interval of blocks. *)
LEMMA PeriodFinite ==
    ASSUME NEW list, HasHeights(list), NEW i \in DOMAIN list, NEW m \in Int, NEW n \in Int
    PROVE  /\ IsFiniteSet(Period(list, i, m, n))
           /\ Cardinality(Period(list, i, m, n)) \in Nat
           /\ Period(list, i, m, n) \subseteq m + 1 .. n
<1> DEFINE s == Max({m, list[i].blockHeight})
           e == IF i < Len(list) /\ list[i + 1].blockHeight < n
                THEN list[i + 1].blockHeight ELSE n
<1>1. s \in Int /\ s >= m
  <2>1. list[i].blockHeight \in Int
    BY DEF HasHeights
  <2> QED
    BY <2>1, MaxOfTwo
<1>2. e \in Int /\ e <= n
  BY DEF HasHeights
<1>3. Period(list, i, m, n) = (s + 1) .. e
  BY DEF Period
<1>4. s + 1 \in Int
  BY <1>1
<1> HIDE DEF s, e
<1>5. IsFiniteSet((s + 1) .. e)
  BY <1>2, <1>4, FS_Interval
<1> QED
  BY <1>1, <1>2, <1>3, <1>5, FS_CardinalityType

(* A period that is not empty has a first and a last block. *)
LEMMA PeriodEnds ==
    ASSUME NEW list, HasHeights(list), NEW i \in DOMAIN list, NEW m \in Int, NEW n \in Int,
           Period(list, i, m, n) # {}
    PROVE  /\ Min(Period(list, i, m, n)) \in Int /\ Max(Period(list, i, m, n)) \in Int
           /\ m < Min(Period(list, i, m, n)) /\ Max(Period(list, i, m, n)) <= n
           /\ Period(list, i, m, n) = Min(Period(list, i, m, n)) .. Max(Period(list, i, m, n))
<1> DEFINE s == Max({m, list[i].blockHeight}) + 1
           e == IF i < Len(list) /\ list[i + 1].blockHeight < n
                THEN list[i + 1].blockHeight ELSE n
           p == Period(list, i, m, n)
<1>1. s \in Int /\ s > m
  <2>1. list[i].blockHeight \in Int
    BY DEF HasHeights
  <2> DEFINE k == Max({m, list[i].blockHeight})
  <2>2. k \in {m, list[i].blockHeight} /\ k >= m
    BY <2>1, MaxOfTwo
  <2> HIDE DEF k
  <2>3. k + 1 \in Int /\ k + 1 > m
    BY <2>1, <2>2
  <2> QED
    BY <2>3 DEF k
<1>2. e \in Int /\ e <= n
  BY DEF HasHeights
<1>3. p = s .. e
  BY DEF Period
<1>4. p # {}
  OBVIOUS
<1> HIDE DEF s, e, p
<1>5. s \in p /\ e \in p /\ \A x \in p : x \in Int /\ s <= x /\ x <= e
  BY <1>1, <1>2, <1>3, <1>4
<1>6. Min(p) = s
  <2>1. Min(p) \in p /\ \A y \in p : Min(p) <= y
    BY <1>5, Zenon DEF Min
  <2>2. Min(p) \in Int /\ Min(p) <= s /\ s <= Min(p)
    BY <1>5, <2>1
  <2> QED
    BY <1>1, <2>2
<1>7. Max(p) = e
  <2>1. Max(p) \in p /\ \A y \in p : Max(p) >= y
    <3>1. \A x \in p : e >= x
      BY <1>2, <1>5
    <3> QED
      BY <1>5, <3>1, Zenon DEF Max
  <2>2. Max(p) \in Int /\ Max(p) >= e /\ Max(p) <= e
    BY <1>5, <2>1
  <2> QED
    BY <1>2, <2>2
<1> QED
  BY <1>1, <1>2, <1>3, <1>6, <1>7 DEF p

(* The sum of numbers by the index of a list is a number. *)
LEMMA SumOfFunctionInt ==
    ASSUME NEW f, IsFiniteSet(DOMAIN f), \A x \in DOMAIN f : f[x] \in Int
    PROVE  SumFunction(f) \in Int
BY SumInt DEF SumFunction

(* Division of integers. *)
LEMMA DivInt ==
    ASSUME NEW m \in Int, NEW n \in Nat, n > 0
    PROVE  m \div n \in Int
OBVIOUS

(* The blocks of a term that are a candidate's. *)
LEMMA CandidateEnds ==
    ASSUME NEW c \in [start : Nat, end : Nat], NEW m \in Int, NEW n \in Int
    PROVE  From(c, m) \in Int /\ To(c, n) \in Int
<1>1. c.start \in Int /\ c.end \in Int
  OBVIOUS
<1>2. From(c, m) \in Int
  <2>1. Max({m, c.start}) \in {m, c.start}
    BY <1>1, MaxOfTwo
  <2> QED
    BY <1>1, <2>1 DEF From
<1>3. To(c, n) \in Int
  BY <1>1 DEF To
<1> QED
  BY <1>2, <1>3

(* The indices of a list are finite in number. *)
LEMMA IndicesFinite ==
    ASSUME NEW list, HasHeights(list)
    PROVE  IsFiniteSet(DOMAIN list)
BY FS_Interval DEF HasHeights

(* What a delegation earns is a number. *)
LEMMA DelegationRewardInt ==
    ASSUME NEW amount \in Nat, NEW l \in GVLists, NEW c \in [start : Nat, end : Nat],
           NEW m \in Int, NEW n \in Int
    PROVE  DelegationReward(amount, l, c, m, n, RewardDivider) \in Int
<1> DEFINE f == [i \in DOMAIN l |->
                   (amount * DelegationPeriod(l, i, c, m, n) * l[i].rewardRep) \div RewardDivider]
<1>1. HasHeights(l)
  BY ListHeights
<1>2. IsFiniteSet(DOMAIN f)
  BY <1>1, IndicesFinite
<1>3. ASSUME NEW i \in DOMAIN l PROVE f[i] \in Int
  <2>1. DelegationPeriod(l, i, c, m, n) \in Nat
    BY <1>1, CandidateEnds, PeriodFinite DEF DelegationPeriod
  <2>2. l[i].rewardRep \in Nat
    BY ListEntries DEF GovernanceVariable
  <2>3. amount * DelegationPeriod(l, i, c, m, n) * l[i].rewardRep \in Int
    BY <2>1, <2>2
  <2>4. RewardDivider \in Nat /\ RewardDivider > 0
    BY TermRewardsAssumption
  <2> DEFINE k == amount * DelegationPeriod(l, i, c, m, n) * l[i].rewardRep
  <2> HIDE DEF k
  <2>5. k \div RewardDivider \in Int
    BY <2>3, <2>4, DivInt DEF k
  <2> QED
    BY <2>5 DEF k
<1>4. SumFunction(f) \in Int
  <2> HIDE DEF f
  <2>1. DOMAIN f = DOMAIN l
    BY DEF f
  <2> QED
    BY <1>2, <1>3, <2>1, SumOfFunctionInt
<1> QED
  BY <1>4 DEF DelegationReward

(* What a P-Rep of a list earns is a number. *)
LEMMA PRepShareInt ==
    ASSUME NEW d \in Nat, NEW total \in Nat, total > 0, NEW l \in GVLists,
           NEW m \in Int, NEW n \in Int
    PROVE  PRepShare(d, total, l, m, n) \in Int
<1> DEFINE f == [i \in DOMAIN l |->
                   (Cardinality(Period(l, i, m, n)) * PRepReward(l[i]) * d) \div total]
<1>1. HasHeights(l)
  BY ListHeights
<1>2. IsFiniteSet(DOMAIN f)
  BY <1>1, IndicesFinite
<1>3. ASSUME NEW i \in DOMAIN l PROVE f[i] \in Int
  <2>1. Cardinality(Period(l, i, m, n)) \in Nat
    BY <1>1, PeriodFinite
  <2>2. PRepReward(l[i]) \in Nat
    BY ListEntries DEF GovernanceVariable, PRepReward
  <2> DEFINE k == Cardinality(Period(l, i, m, n)) * PRepReward(l[i]) * d
  <2>3. k \in Int
    BY <2>1, <2>2
  <2> HIDE DEF k
  <2>4. k \div total \in Int
    BY <2>3, DivInt
  <2> QED
    BY <2>4 DEF k
<1>4. SumFunction(f) \in Int
  <2> HIDE DEF f
  <2>1. DOMAIN f = DOMAIN l
    BY DEF f
  <2> QED
    BY <1>2, <1>3, <2>1, SumOfFunctionInt
<1> QED
  BY <1>4 DEF PRepShare

(* What an account earns from its delegations is a number. *)
LEMMA DelegationsRewardInt ==
    ASSUME RewardsTypes, NEW ia \in IScoreAccount
    PROVE  DelegationsReward(ia, End) \in Int
<1> DEFINE f == [p \in Valid(ia) |-> DelegationReward(ia.delegation[p], gvs, Candidate[p],
                                                      ia.blockHeight, End, RewardDivider)]
<1>1. Valid(ia) \subseteq DOMAIN ia.delegation \cap DOMAIN Candidate
  BY DEF Valid
<1>2. IsFiniteSet(Valid(ia))
  <2>1. Valid(ia) \subseteq Account
    BY <1>1, TermRewardsAssumption
  <2> QED
    BY <2>1, TermRewardsAssumption, FS_Subset
<1>3. ASSUME NEW p \in Valid(ia) PROVE f[p] \in Int
  <2>1. Candidate[p] \in [start : Nat, end : Nat]
    BY <1>1, TermRewardsAssumption
  <2>2. ia.delegation \in Amounts /\ ia.blockHeight \in Int
    BY DEF IScoreAccount
  <2>3. ia.delegation[p] \in Nat
    BY <1>1, <2>2, TermRewardsAssumption
  <2>4. End \in Int /\ gvs \in GVLists
    BY TermRewardsAssumption DEF RewardsTypes
  <2>5. DelegationReward(ia.delegation[p], gvs, Candidate[p], ia.blockHeight, End, RewardDivider)
          \in Int
    BY <2>1, <2>2, <2>3, <2>4, DelegationRewardInt
  <2> QED
    BY <2>5
<1>4. SumFunction(f) \in Int
  <2> HIDE DEF f
  <2>1. DOMAIN f = Valid(ia)
    BY DEF f
  <2> QED
    BY <1>2, <1>3, <2>1, SumOfFunctionInt
<1> QED
  BY <1>4 DEF DelegationsReward

-----------------------------------------------------------------------------
(* The inductive invariant.                                                 *)

\* the accounts of the calculate DB, and what each of them got in the term
Known == {a \in Account : write[a] # NoAccount}
Gain(a) == IF write[a] = NoAccount THEN 0 ELSE write[a].iScore - Initial(a)
Gains == [a \in Account |-> Gain(a)]

\* at every step the statistics are what the accounts got until then
Counted ==
    /\ stats.total = SumFunctionOnSet(Gains, Account)
    /\ stats.total = stats.beta1 + stats.beta2 + stats.beta3
    /\ stats.accounts = Cardinality(Known)

\* an account that is new after the first pass had no I-Score in the query DB
ReadFirst ==
    pass \notin {"idle", "accounts"} =>
        \A a \in Account : read[a] # NoAccount => write[a] # NoAccount

\* only producers and validators wait for block produce rewards
BlockAddrs == UNION {{blocks[i].generator} \cup blocks[i].validators : i \in DOMAIN blocks}
Produced == \A a \in Account : bpMap[a] # 0 => a \in BlockAddrs

\* from Revision 8 on no pass moves an account away from the end
AtEnd ==
    revision >= Revision8 =>
        \A a \in Account : write[a] # NoAccount => write[a].blockHeight = End

RewardsInv == RewardsTypes /\ Counted /\ ReadFirst /\ Produced /\ AtEnd

(* What an account of the calculate DB got is a number. *)
LEMMA GainInt ==
    ASSUME RewardsTypes
    PROVE  /\ \A a \in Account : Gain(a) \in Int /\ Initial(a) \in Int
           /\ \A a \in Account : Gains[a] = Gain(a)
           /\ Known \in SUBSET Account /\ IsFiniteSet(Known) /\ IsFiniteSet(Account)
<1>1. ASSUME NEW a \in Account PROVE Initial(a) \in Int
  <2>1. read[a] # NoAccount => read[a].iScore \in Int
    BY DEF RewardsTypes, IScoreAccount
  <2> QED
    BY <2>1 DEF Initial
<1>2. ASSUME NEW a \in Account PROVE Gain(a) \in Int
  <2>1. write[a] # NoAccount => write[a].iScore \in Int
    BY DEF RewardsTypes, IScoreAccount
  <2> QED
    BY <1>1, <2>1 DEF Gain
<1>3. Known \in SUBSET Account /\ IsFiniteSet(Account)
  BY TermRewardsAssumption DEF Known
<1> QED
  BY <1>1, <1>2, <1>3, FS_Subset DEF Gains

(* The sum of one payment. *)
LEMMA SumSingle ==
    ASSUME NEW S, IsFiniteSet(S), NEW a \in S, NEW r \in Int
    PROVE  SumFunctionOnSet([x \in S |-> IF x = a THEN r ELSE 0], S) = r
<1> DEFINE g == [x \in S |-> IF x = a THEN r ELSE 0]
           f == [x \in {a} |-> r]
<1>1. {a} \in SUBSET S /\ \A x \in {a} : f[x] \in Int /\ g[x] = f[x]
  OBVIOUS
<1>2. \A x \in S \ {a} : g[x] = 0
  OBVIOUS
<1>3. SumFunctionOnSet(g, S) = SumFunctionOnSet(f, {a})
  <2> HIDE DEF f, g
  <2> QED
    BY <1>1, <1>2, SumOfPart
<1>4. SumFunctionOnSet(f, {a}) = r
  <2>1. {a} = {} \cup {a} /\ IsFiniteSet({}) /\ a \notin {}
    BY FS_EmptySet
  <2>2. f[a] = r /\ \A x \in {} \cup {a} : f[x] \in Int
    OBVIOUS
  <2> HIDE DEF f
  <2>3. SumFunctionOnSet(f, {} \cup {a}) = f[a] + SumFunctionOnSet(f, {})
    BY <2>1, <2>2, SumAdd
  <2>4. SumFunctionOnSet(f, {}) = 0
    BY SumEmpty
  <2> QED
    BY <2>1, <2>2, <2>3, <2>4
<1> QED
  BY <1>3, <1>4

(* The rule of every pass: what the accounts get more is added to the       *)
(* statistics, and the accounts that are new are counted.                   *)
LEMMA PaidCounted ==
    ASSUME RewardsTypes, RewardsTypes', Counted, NEW pay, NEW new \in SUBSET Account,
           \A a \in Account : pay[a] \in Int /\ Gain(a)' = Gain(a) + pay[a],
           Known' = Known \cup new, Known \cap new = {},
           NEW beta \in {"beta1", "beta2", "beta3"},
           Increase(beta, Cardinality(new), SumFunctionOnSet(pay, Account))
    PROVE  Counted'
<1> DEFINE f == Gains
           g == Gains'
           n == Cardinality(new)
           r == SumFunctionOnSet(pay, Account)
<1>1. /\ \A a \in Account : f[a] \in Int /\ g[a] \in Int /\ g[a] = f[a] + pay[a]
      /\ IsFiniteSet(Account) /\ IsFiniteSet(Known)
  <2>1. \A a \in Account : Gain(a) \in Int /\ Gains[a] = Gain(a)
    BY GainInt
  <2>2. \A a \in Account : Gains'[a] = Gain(a)'
    BY DEF Gains
  <2> QED
    BY <2>1, <2>2, GainInt
<1>2. IsFiniteSet(new) /\ n \in Int /\ r \in Int
  <2>1. IsFiniteSet(new)
    BY <1>1, FS_Subset
  <2>2. r \in Int
    BY <1>1, SumInt
  <2> QED
    BY <2>1, <2>2, FS_CardinalityType
<1>3. SumFunctionOnSet(g, Account) = SumFunctionOnSet(f, Account) + r
  <2> HIDE DEF f, g
  <2> QED
    BY <1>1, SumPlus
<1>4. Cardinality(Known') = Cardinality(Known) + n
  <2>1. Cardinality(Known \cup new)
          = Cardinality(Known) + Cardinality(new) - Cardinality(Known \cap new)
    BY <1>1, <1>2, FS_Union
  <2>2. Cardinality(Known \cap new) = 0
    BY FS_EmptySet
  <2>3. Cardinality(Known) \in Int
    BY <1>1, FS_CardinalityType
  <2> QED
    BY <1>2, <2>1, <2>2, <2>3
<1>5. /\ stats'.total = stats.total + r
      /\ stats'.accounts = stats.accounts + n
      /\ stats'.beta1 = stats.beta1 + (IF beta = "beta1" THEN r ELSE 0)
      /\ stats'.beta2 = stats.beta2 + (IF beta = "beta2" THEN r ELSE 0)
      /\ stats'.beta3 = stats.beta3 + (IF beta = "beta3" THEN r ELSE 0)
  <2>1. stats \in StatsType /\ Increase(beta, n, r)
    BY DEF RewardsTypes
  <2> HIDE DEF n, r
  <2> QED
    BY <1>2, <2>1, IncreaseIs
<1>6. stats.beta1 \in Int /\ stats.beta2 \in Int /\ stats.beta3 \in Int /\ stats.total \in Int
  BY DEF RewardsTypes, StatsType
<1>7. stats'.total = stats'.beta1 + stats'.beta2 + stats'.beta3
  <2>1. stats.total = stats.beta1 + stats.beta2 + stats.beta3
    BY DEF Counted
  <2> HIDE DEF n, r
  <2>2. CASE beta = "beta1"
    BY <1>2, <1>5, <1>6, <2>1, <2>2
  <2>3. CASE beta = "beta2"
    BY <1>2, <1>5, <1>6, <2>1, <2>3
  <2>4. CASE beta = "beta3"
    BY <1>2, <1>5, <1>6, <2>1, <2>4
  <2> QED
    BY <2>2, <2>3, <2>4
<1>8. stats'.total = SumFunctionOnSet(Gains', Account)
  BY <1>3, <1>5 DEF Counted
<1>9. stats'.accounts = Cardinality(Known')
  BY <1>4, <1>5 DEF Counted
<1> QED
  BY <1>7, <1>8, <1>9 DEF Counted

(* What leaves the accounts and the statistics alone leaves the rest. *)
LEMMA CountedStays ==
    ASSUME Counted, UNCHANGED <<read, write, stats>>
    PROVE  Counted'
<1>1. \A a \in Account : Gain(a)' = Gain(a)
  BY DEF Gain, Initial
<1>2. Gains' = Gains /\ Known' = Known
  BY <1>1 DEF Gains, Known
<1> QED
  BY <1>2 DEF Counted

-----------------------------------------------------------------------------
(* The actions keep the invariant. *)

(* What is an account is not the missing one. *)
LEMMA AccountIsThere ==
    ASSUME NEW ia \in IScoreAccount
    PROVE  ia # NoAccount
BY TermRewardsAssumption

(* One account written, with the gain it makes. *)
LEMMA OneWritten ==
    ASSUME RewardsTypes, Counted, NEW a \in Account, NEW ia \in IScoreAccount, NEW r \in Int,
           write' = [write EXCEPT ![a] = ia], read' = read, gvs' = gvs, preps' = preps,
           txs' = txs, blocks' = blocks, revision' = revision, bpMap' = bpMap,
           pass' \in Passes, next' \in Nat,
           ia.iScore = (IF write[a] = NoAccount THEN Initial(a) ELSE write[a].iScore) + r,
           Increase("beta3", IF write[a] = NoAccount THEN 1 ELSE 0, r)
    PROVE  RewardsTypes' /\ Counted'
<1> DEFINE pay == [x \in Account |-> IF x = a THEN r ELSE 0]
           new == IF write[a] = NoAccount THEN {a} ELSE {}
<1>1. /\ write' \in [Account -> {NoAccount} \cup IScoreAccount]
      /\ write'[a] = ia /\ ia # NoAccount /\ \A x \in Account \ {a} : write'[x] = write[x]
  BY AccountIsThere DEF RewardsTypes
<1>2. stats' \in StatsType
  <2>1. (IF write[a] = NoAccount THEN 1 ELSE 0) \in Int
    OBVIOUS
  <2> DEFINE n == IF write[a] = NoAccount THEN 1 ELSE 0
  <2>2. stats \in StatsType
    BY DEF RewardsTypes
  <2>3. Increase("beta3", n, r)
    OBVIOUS
  <2> HIDE DEF n
  <2> QED
    BY <2>1, <2>2, <2>3, IncreaseIs DEF n
<1>3. RewardsTypes'
  BY <1>1, <1>2 DEF RewardsTypes
<1>4. SumFunctionOnSet(pay, Account) = r
  BY SumSingle, TermRewardsAssumption
<1>5. Cardinality(new) = IF write[a] = NoAccount THEN 1 ELSE 0
  BY FS_EmptySet, FS_Singleton
<1>6. ASSUME NEW x \in Account PROVE pay[x] \in Int /\ Gain(x)' = Gain(x) + pay[x]
  <2>1. pay[x] = IF x = a THEN r ELSE 0
    OBVIOUS
  <2> HIDE DEF pay
  <2>2. Initial(x)' = Initial(x) /\ Initial(x) \in Int /\ Gain(x) \in Int
    BY GainInt DEF Initial
  <2>3. CASE x # a
    BY <1>1, <2>1, <2>2, <2>3 DEF Gain
  <2>4. CASE x = a
    <3>1. Gain(x)' = ia.iScore - Initial(a)
      BY <1>1, <2>2, <2>4 DEF Gain
    <3>2. CASE write[a] = NoAccount
      <4>1. Gain(x) = 0 /\ ia.iScore = Initial(a) + r
        BY <2>4, <3>2 DEF Gain
      <4> QED
        BY <2>1, <2>2, <2>4, <3>1, <4>1
    <3>3. CASE write[a] # NoAccount
      <4>1. Gain(x) = write[a].iScore - Initial(a) /\ ia.iScore = write[a].iScore + r
        BY <2>4, <3>3 DEF Gain
      <4>2. write[a].iScore \in Int
        BY <3>3 DEF RewardsTypes, IScoreAccount
      <4> QED
        BY <2>1, <2>2, <2>4, <3>1, <4>1, <4>2
    <3> QED
      BY <3>2, <3>3
  <2> QED
    BY <2>3, <2>4
<1>7. Known' = Known \cup new /\ Known \cap new = {} /\ new \in SUBSET Account
  BY <1>1 DEF Known
<1>8. Increase("beta3", Cardinality(new), SumFunctionOnSet(pay, Account))
  <2> HIDE DEF pay, new
  <2> QED
    BY <1>4, <1>5
<1>9. Counted'
  <2> HIDE DEF pay, new
  <2> QED
    BY <1>3, <1>6, <1>7, <1>8, PaidCounted
<1> QED
  BY <1>3, <1>9

(* calculateDB keeps the invariant. *)
LEMMA CalculateDBKeeps ==
    ASSUME RewardsInv, NEW a \in Account, CalculateDB(a)
    PROVE  RewardsInv'
<1> DEFINE reward == DelegationsReward(read[a], End)
           k == read[a].iScore + reward
           ia == [read[a] EXCEPT !.iScore = k, !.blockHeight = End]
<1>1. RewardsTypes /\ Counted
  BY DEF RewardsInv
<1>2. read[a] \in IScoreAccount /\ write[a] = NoAccount /\ pass = "accounts"
  BY <1>1 DEF RewardsTypes, CalculateDB
<1>3. reward \in Int
  BY <1>1, <1>2, DelegationsRewardInt
<1>4. k \in Int /\ End \in Nat
  BY <1>2, <1>3, TermRewardsAssumption DEF IScoreAccount
<1>5. ia \in IScoreAccount /\ ia.iScore = k /\ ia.blockHeight = End
  <2> HIDE DEF k
  <2>1. PICK x \in IScoreAccount, m \in Int, h \in Nat : x = read[a] /\ m = k /\ h = End
    BY <1>2, <1>4
  <2>2. /\ [x EXCEPT !.iScore = m, !.blockHeight = h] \in IScoreAccount
        /\ [x EXCEPT !.iScore = m, !.blockHeight = h].iScore = m
        /\ [x EXCEPT !.iScore = m, !.blockHeight = h].blockHeight = h
    BY DEF IScoreAccount
  <2> QED
    BY <2>1, <2>2
<1>6. write' = [write EXCEPT ![a] = ia]
  BY DEF CalculateDB
<1>7. /\ read' = read /\ gvs' = gvs /\ preps' = preps /\ txs' = txs /\ blocks' = blocks
      /\ revision' = revision /\ bpMap' = bpMap /\ pass' = pass /\ next' = next
  BY DEF CalculateDB, given
<1>8. Increase("beta3", 1, reward)
  BY DEF CalculateDB
<1>9. Initial(a) = read[a].iScore
  BY <1>2, AccountIsThere DEF Initial
<1> HIDE DEF reward
<1>10. RewardsTypes' /\ Counted'
  <2>1. /\ ia.iScore = (IF write[a] = NoAccount THEN Initial(a) ELSE write[a].iScore) + reward
        /\ Increase("beta3", IF write[a] = NoAccount THEN 1 ELSE 0, reward)
    BY <1>2, <1>5, <1>8, <1>9
  <2>2. pass' \in Passes /\ next' \in Nat
    BY <1>1, <1>7 DEF RewardsTypes
  <2> HIDE DEF ia
  <2> QED
    BY <1>1, <1>3, <1>5, <1>6, <1>7, <2>1, <2>2, OneWritten
<1>11. ReadFirst'
  BY <1>2, <1>7 DEF ReadFirst
<1>12. Produced'
  BY <1>7 DEF RewardsInv, Produced, BlockAddrs
<1>13. AtEnd'
  <2>1. \A x \in Account : write'[x] = IF x = a THEN ia ELSE write[x]
    BY <1>1, <1>6 DEF RewardsTypes
  <2> HIDE DEF ia
  <2> QED
    BY <1>5, <1>7, <2>1 DEF RewardsInv, AtEnd
<1> QED
  BY <1>10, <1>11, <1>12, <1>13 DEF RewardsInv

(* The end of a pass that changes no account and no statistics. *)
LEMMA PassEnds ==
    ASSUME RewardsInv, UNCHANGED <<given, write, bpMap, stats>>,
           pass' \in Passes, next' \in Nat, ReadFirst'
    PROVE  RewardsInv'
<1>1. UNCHANGED <<gvs, preps, txs, blocks, revision, read, write, bpMap, stats>>
  BY DEF given
<1>2. RewardsTypes'
  BY <1>1 DEF RewardsInv, RewardsTypes
<1>3. Counted'
  BY <1>1, CountedStays DEF RewardsInv
<1>4. Produced'
  BY <1>1 DEF RewardsInv, Produced, BlockAddrs
<1>5. AtEnd'
  BY <1>1 DEF RewardsInv, AtEnd
<1> QED
  BY <1>2, <1>3, <1>4, <1>5 DEF RewardsInv

(* calculateIISSTX keeps the invariant: what is taken back of an account is *)
(* taken back of the statistics.                                            *)
LEMMA CalculateIISSTXKeeps ==
    ASSUME RewardsInv, CalculateIISSTX
    PROVE  RewardsInv'
<1> DEFINE tx == txs[next]
           a == tx.addr
           known == write[a] # NoAccount
           new == [NewIScoreAccountFromIISS(tx) EXCEPT
                      !.iScore = IF known THEN write[a].iScore ELSE 0]
           old == IF known THEN [write[a] EXCEPT !.blockHeight = tx.blockHeight] ELSE new
           sub == IF known THEN DelegationsReward(old, End) ELSE 0
           add == DelegationsReward(new, End)
           k == new.iScore - sub + add
           ia == [new EXCEPT !.iScore = k, !.blockHeight = End]
           was == IF known THEN write[a].iScore ELSE 0
<1>1. RewardsTypes /\ Counted
  BY DEF RewardsInv
<1>2. pass = "tx" /\ next \in DOMAIN txs /\ tx \in DelegateTX
  BY <1>1, ListEntries DEF RewardsTypes, CalculateIISSTX
<1>3. /\ a \in Account /\ tx.blockHeight \in Nat /\ tx.delegation \in Amounts
      /\ known => write[a] \in IScoreAccount
  <2> HIDE DEF tx
  <2>1. a \in Account /\ tx.blockHeight \in Start + 1 .. End /\ tx.delegation \in Amounts
    BY <1>2 DEF DelegateTX
  <2>2. tx.blockHeight \in Nat
    BY <2>1, TermRewardsAssumption
  <2>3. known => write[a] \in IScoreAccount
    BY <1>1, <2>1 DEF RewardsTypes
  <2> QED
    BY <2>1, <2>2, <2>3
<1>4. was \in Int
  BY <1>3 DEF IScoreAccount
<1>5. new \in IScoreAccount /\ new.iScore = was
  <2>1. new = [delegation |-> tx.delegation, blockHeight |-> tx.blockHeight, iScore |-> was]
    BY DEF NewIScoreAccountFromIISS
  <2> HIDE DEF was, new, a, tx
  <2> QED
    BY <1>3, <1>4, <2>1 DEF IScoreAccount
<1> HIDE DEF new
<1>6. old \in IScoreAccount
  <2>1. CASE known
    <3>1. PICK x \in IScoreAccount, h \in Nat : x = write[a] /\ h = tx.blockHeight
      BY <1>3, <2>1
    <3>2. [x EXCEPT !.blockHeight = h] \in IScoreAccount
      BY DEF IScoreAccount
    <3> QED
      BY <2>1, <3>1, <3>2
  <2>2. CASE ~known
    BY <1>5, <2>2
  <2> QED
    BY <2>1, <2>2
<1> HIDE DEF old
<1>7. sub \in Int /\ add \in Int /\ (~known => sub = 0)
  BY <1>1, <1>5, <1>6, DelegationsRewardInt
<1> HIDE DEF sub, add
<1>8. k \in Int /\ k = was + (add - sub) /\ add - sub \in Int
  BY <1>4, <1>5, <1>7
<1>9. ia \in IScoreAccount /\ ia.iScore = k /\ ia.blockHeight = End
  <2> HIDE DEF k
  <2>1. PICK x \in IScoreAccount, m \in Int, h \in Nat : x = new /\ m = k /\ h = End
    BY <1>5, <1>8, TermRewardsAssumption
  <2>2. /\ [x EXCEPT !.iScore = m, !.blockHeight = h] \in IScoreAccount
        /\ [x EXCEPT !.iScore = m, !.blockHeight = h].iScore = m
        /\ [x EXCEPT !.iScore = m, !.blockHeight = h].blockHeight = h
    BY DEF IScoreAccount
  <2> QED
    BY <2>1, <2>2
<1>10. /\ write' = [write EXCEPT ![a] = ia]
       /\ Increase("beta3", IF known THEN 0 ELSE 1, add - sub)
  BY DEF CalculateIISSTX, StatsOfTX, new, old, sub, add
<1>11. /\ read' = read /\ gvs' = gvs /\ preps' = preps /\ txs' = txs /\ blocks' = blocks
       /\ revision' = revision /\ bpMap' = bpMap /\ pass' = pass /\ next' = next + 1
  BY DEF CalculateIISSTX, given
<1>12. ~known => Initial(a) = 0
  BY <1>2, <1>3 DEF RewardsInv, ReadFirst, Initial
<1> HIDE DEF ia, a, tx, k
<1>13. RewardsTypes' /\ Counted'
  <2> DEFINE r == add - sub
  <2>1. /\ ia.iScore = (IF write[a] = NoAccount THEN Initial(a) ELSE write[a].iScore) + r
        /\ Increase("beta3", IF write[a] = NoAccount THEN 1 ELSE 0, r)
    <3>1. CASE known
      BY <1>8, <1>9, <1>10, <3>1
    <3>2. CASE ~known
      BY <1>8, <1>9, <1>10, <1>12, <3>2
    <3> QED
      BY <3>1, <3>2
  <2>2. pass' \in Passes /\ next' \in Nat
    BY <1>1, <1>11 DEF RewardsTypes
  <2>3. r \in Int
    BY <1>8
  <2> HIDE DEF r
  <2> QED
    BY <1>1, <1>3, <1>9, <1>10, <1>11, <2>1, <2>2, <2>3, OneWritten
<1>14. \A x \in Account : write'[x] = IF x = a THEN ia ELSE write[x]
  BY <1>1, <1>10 DEF RewardsTypes
<1>15. ReadFirst'
  BY <1>2, <1>9, <1>11, <1>14, AccountIsThere DEF RewardsInv, ReadFirst
<1>16. Produced'
  BY <1>11 DEF RewardsInv, Produced, BlockAddrs
<1>17. AtEnd'
  BY <1>9, <1>11, <1>14 DEF RewardsInv, AtEnd
<1> QED
  BY <1>13, <1>15, <1>16, <1>17 DEF RewardsInv

(* Where the producers of a block are accounts. *)
LEMMA BlocksTyped ==
    ASSUME RewardsTypes
    PROVE  /\ BlockAddrs \subseteq Account
           /\ \A i \in DOMAIN blocks : /\ blocks[i].generator \in BlockAddrs
                                       /\ blocks[i].validators \subseteq BlockAddrs
<1>1. \A i \in DOMAIN blocks : blocks[i] \in BlockProduce
  BY ListEntries DEF RewardsTypes
<1>2. \A i \in DOMAIN blocks :
         blocks[i].generator \in Account /\ blocks[i].validators \subseteq Account
  BY <1>1 DEF BlockProduce
<1> QED
  BY <1>2 DEF BlockAddrs

(* A block of the term has a governance variable. *)
LEMMA GVFound ==
    ASSUME NEW l \in GVLists, NEW b \in Start + 1 .. End
    PROVE  /\ Max(Before(l, b)) \in Before(l, b) /\ Before(l, b) \subseteq DOMAIN l
           /\ \A j \in Before(l, b) : j <= Max(Before(l, b))
           /\ GVByBlockHeight(l, b) \in GovernanceVariable
<1> DEFINE B == Before(l, b)
<1>1. l # <<>> /\ l[1].blockHeight <= Start /\ DOMAIN l = 1 .. Len(l) /\ Len(l) \in Nat
  BY ListEntries, TermRewardsAssumption
<1>2. 1 \in DOMAIN l
  BY <1>1, TermRewardsAssumption
<1>3. l[1].blockHeight \in Nat
  BY <1>2, ListHeights DEF HasHeights
<1>4. 1 \in B /\ B \subseteq DOMAIN l
  BY <1>1, <1>2, <1>3, TermRewardsAssumption DEF Before
<1>5. \E i \in B : \A j \in B : i >= j
  <2>1. IsFiniteSet(B) /\ B \subseteq Int
    <3>1. IsFiniteSet(1 .. Len(l))
      BY <1>1, FS_Interval
    <3> QED
      BY <1>1, <1>4, <3>1, FS_Subset
  <2> HIDE DEF B
  <2> QED
    BY <1>4, <2>1, FiniteMax
<1>6. Max(B) \in B /\ \A j \in B : Max(B) >= j
  <2> HIDE DEF B
  <2> QED
    BY <1>5, Zenon DEF Max
<1>7. \A j \in B : j <= Max(B)
  BY <1>1, <1>4, <1>6
<1>8. l[Max(B)] \in GovernanceVariable
  BY <1>4, <1>6, ListEntries
<1> QED
  BY <1>4, <1>6, <1>7, <1>8 DEF GVByBlockHeight

(* What a block pays is a number. *)
LEMMA BlockRewardInt ==
    ASSUME RewardsTypes, NEW i \in DOMAIN blocks
    PROVE  /\ BlockProduceReward(GVByBlockHeight(gvs, blocks[i].blockHeight)) \in Nat
           /\ IsFiniteSet(blocks[i].validators)
           /\ blocks[i].validators # {} =>
                ValidatorReward(blocks[i],
                    BlockProduceReward(GVByBlockHeight(gvs, blocks[i].blockHeight))) \in Nat
<1> DEFINE gv == GVByBlockHeight(gvs, blocks[i].blockHeight)
           r == BlockProduceReward(gv)
           c == Cardinality(blocks[i].validators)
<1>1. gv \in GovernanceVariable
  <2>1. blocks[i] \in BlockProduce /\ gvs \in GVLists
    BY ListEntries DEF RewardsTypes
  <2>2. blocks[i].blockHeight \in Start + 1 .. End
    BY <2>1 DEF BlockProduce
  <2> QED
    BY <2>1, <2>2, GVFound
<1>2. r \in Nat
  <2> HIDE DEF gv
  <2>1. gv.incentive \in Nat /\ gv.mainPReps \in Nat
    BY <1>1 DEF GovernanceVariable
  <2> DEFINE n == gv.incentive * gv.mainPReps * 1000
  <2>2. n \in Nat
    BY <2>1
  <2> HIDE DEF n
  <2>3. n \div 2 \in Nat
    BY <2>2
  <2> QED
    BY <2>3 DEF n, BlockProduceReward
<1>3. blocks[i].validators \subseteq Account /\ IsFiniteSet(Account)
  BY BlocksTyped, TermRewardsAssumption
<1>4. IsFiniteSet(blocks[i].validators)
  BY <1>3, FS_Subset
<1>5. blocks[i].validators # {} => c \in Nat /\ c > 0
  BY <1>4, FS_CardinalityType, FS_EmptySet
<1> HIDE DEF r, c
<1>6. c \in Nat /\ c > 0 => r \div c \in Nat
  BY <1>2
<1> QED
  BY <1>2, <1>4, <1>5, <1>6 DEF r, c, ValidatorReward

(* calculateIISSBlockProduce keeps the invariant. *)
LEMMA CalculateIISSBlockProduceKeeps ==
    ASSUME RewardsInv, CalculateIISSBlockProduce
    PROVE  RewardsInv'
<1> DEFINE bp == blocks[next]
           reward == BlockProduceReward(GVByBlockHeight(gvs, bp.blockHeight))
           share == ValidatorReward(bp, reward)
<1>1. RewardsTypes
  BY DEF RewardsInv
<1>2. /\ next \in DOMAIN blocks /\ pass = "blocks"
      /\ bpMap' = [a \in Account |->
                      bpMap[a] + (IF a = bp.generator THEN reward ELSE 0)
                               + (IF a \in bp.validators THEN share ELSE 0)]
      /\ next' = next + 1 /\ UNCHANGED <<given, write, pass, stats>>
  BY DEF CalculateIISSBlockProduce
<1>3. /\ reward \in Nat /\ (bp.validators # {} => share \in Nat)
      /\ bp.generator \in BlockAddrs /\ bp.validators \subseteq BlockAddrs
  BY <1>1, <1>2, BlockRewardInt, BlocksTyped
<1> HIDE DEF bp, reward, share
<1>4. UNCHANGED <<gvs, preps, txs, blocks, revision, read, write, stats>>
  BY <1>2 DEF given
<1>5. ASSUME NEW a \in Account
      PROVE  bpMap'[a] \in Int /\ (bpMap'[a] # 0 => a \in BlockAddrs)
  <2>1. bpMap'[a] = bpMap[a] + (IF a = bp.generator THEN reward ELSE 0)
                             + (IF a \in bp.validators THEN share ELSE 0)
    BY <1>2
  <2>2. bpMap[a] \in Int /\ (bpMap[a] # 0 => a \in BlockAddrs)
    BY <1>1 DEF RewardsTypes, RewardsInv, Produced
  <2>3. a \in bp.validators => share \in Nat
    BY <1>3
  <2> QED
    BY <1>3, <2>1, <2>2, <2>3
<1>6. bpMap' \in [Account -> Int]
  <2>1. bpMap' = [a \in Account |-> bpMap'[a]]
    BY <1>2
  <2> QED
    BY <1>5, <2>1
<1>7. RewardsTypes'
  BY <1>1, <1>2, <1>4, <1>6 DEF RewardsTypes
<1>8. Counted'
  BY <1>4, CountedStays DEF RewardsInv
<1>9. Produced'
  <2>1. BlockAddrs' = BlockAddrs
    BY <1>4 DEF BlockAddrs
  <2> QED
    BY <1>5, <2>1 DEF Produced
<1>10. ReadFirst' /\ AtEnd'
  BY <1>2, <1>4 DEF RewardsInv, ReadFirst, AtEnd
<1> QED
  BY <1>7, <1>8, <1>9, <1>10 DEF RewardsInv

(* Some accounts written, with the gains they make. *)
LEMMA ManyWritten ==
    ASSUME RewardsTypes, Counted, ReadFirst, pass \notin {"idle", "accounts"},
           NEW S \in SUBSET Account, NEW pay, \A a \in Account : pay[a] \in Int,
           \A a \in Account \ S : pay[a] = 0 /\ write'[a] = write[a],
           \A a \in S : /\ write'[a] \in IScoreAccount
                        /\ write'[a].iScore = pay[a] +
                             IF write[a] = NoAccount THEN 0 ELSE write[a].iScore,
           write' = [a \in Account |-> write'[a]],
           UNCHANGED given, bpMap' = bpMap, pass' \in Passes, next' \in Nat,
           NEW beta \in {"beta1", "beta2", "beta3"},
           Increase(beta, NewAccounts(S), SumFunctionOnSet(pay, Account))
    PROVE  RewardsTypes' /\ Counted'
<1> DEFINE new == {a \in S : write[a] = NoAccount}
<1>1. UNCHANGED <<gvs, preps, txs, blocks, revision, read>>
  BY DEF given
<1>2. write' \in [Account -> {NoAccount} \cup IScoreAccount]
  <2>1. \A a \in Account : write'[a] \in {NoAccount} \cup IScoreAccount
    BY DEF RewardsTypes
  <2> QED
    BY <2>1
<1>3. stats' \in StatsType
  <2>1. IsFiniteSet(new)
    BY FS_Subset, TermRewardsAssumption
  <2>2. NewAccounts(S) \in Int
    <3>1. Cardinality(new) \in Nat
      BY <2>1, FS_CardinalityType
    <3> QED
      BY <3>1 DEF NewAccounts
  <2>3. SumFunctionOnSet(pay, Account) \in Int /\ stats \in StatsType
    BY SumInt, TermRewardsAssumption DEF RewardsTypes
  <2> QED
    BY <2>2, <2>3, IncreaseIs
<1>4. RewardsTypes'
  BY <1>1, <1>2, <1>3 DEF RewardsTypes
<1>5. ASSUME NEW a \in Account PROVE Gain(a)' = Gain(a) + pay[a]
  <2>1. Initial(a)' = Initial(a) /\ Initial(a) \in Int /\ Gain(a) \in Int
    BY <1>1, GainInt DEF Initial
  <2>2. CASE a \notin S
    BY <2>1, <2>2 DEF Gain
  <2>3. CASE a \in S
    <3>1. write'[a] # NoAccount
      BY <2>3, AccountIsThere
    <3>2. CASE write[a] = NoAccount
      <4>1. Initial(a) = 0 /\ Gain(a) = 0
        BY <3>2 DEF ReadFirst, Initial, Gain
      <4>2. write'[a].iScore = pay[a] + 0
        BY <2>3, <3>2
      <4>3. Gain(a)' = write'[a].iScore - 0
        BY <2>1, <3>1, <4>1 DEF Gain
      <4> QED
        BY <4>1, <4>2, <4>3
    <3>3. CASE write[a] # NoAccount
      <4>1. Gain(a) = write[a].iScore - Initial(a)
        BY <3>3 DEF Gain
      <4>2. write'[a].iScore = pay[a] + write[a].iScore /\ write[a].iScore \in Int
        BY <2>3, <3>3 DEF RewardsTypes, IScoreAccount
      <4>3. Gain(a)' = write'[a].iScore - Initial(a)
        BY <2>1, <3>1 DEF Gain
      <4> QED
        BY <2>1, <4>1, <4>2, <4>3
    <3> QED
      BY <3>2, <3>3
  <2> QED
    BY <2>2, <2>3
<1>6. Known' = Known \cup new /\ Known \cap new = {} /\ new \in SUBSET Account
  <2>1. \A a \in S : write'[a] # NoAccount
    BY AccountIsThere
  <2> QED
    BY <2>1 DEF Known
<1>7. Increase(beta, Cardinality(new), SumFunctionOnSet(pay, Account))
  BY DEF NewAccounts
<1>8. Counted'
  <2> HIDE DEF new
  <2> QED
    BY <1>4, <1>5, <1>6, <1>7, PaidCounted
<1> QED
  BY <1>4, <1>8

(* An account with one more reward. *)
LEMMA AddedIs ==
    ASSUME RewardsTypes, NEW a \in Account, NEW r \in Int
    PROVE  /\ Added(a, r) \in IScoreAccount
           /\ Added(a, r).iScore = r + IF write[a] = NoAccount THEN 0 ELSE write[a].iScore
           /\ Added(a, r).blockHeight = IF write[a] = NoAccount THEN End
                                        ELSE write[a].blockHeight
<1>1. CASE write[a] = NoAccount
  <2>1. PICK x : x = [iScore |-> r, blockHeight |-> End, delegation |-> NoResult]
    OBVIOUS
  <2>2. End \in Nat /\ NoResult \in Amounts
    BY TermRewardsAssumption DEF Amounts
  <2>3. x \in IScoreAccount /\ x.iScore = r /\ x.blockHeight = End
    BY <2>1, <2>2 DEF IScoreAccount
  <2>4. Added(a, r) = x /\ r + 0 = r
    BY <1>1, <2>1 DEF Added
  <2> QED
    BY <1>1, <2>3, <2>4
<1>2. CASE write[a] # NoAccount
  <2>1. write[a] \in IScoreAccount
    BY <1>2 DEF RewardsTypes
  <2>2. write[a].iScore + r \in Int /\ write[a].iScore + r = r + write[a].iScore
    BY <2>1 DEF IScoreAccount
  <2>3. PICK x \in IScoreAccount, m \in Int : x = write[a] /\ m = write[a].iScore + r
    BY <2>1, <2>2
  <2>4. /\ [x EXCEPT !.iScore = m] \in IScoreAccount
        /\ [x EXCEPT !.iScore = m].iScore = m
        /\ [x EXCEPT !.iScore = m].blockHeight = x.blockHeight
    BY DEF IScoreAccount
  <2>5. Added(a, r) = [x EXCEPT !.iScore = m]
    BY <1>2, <2>3 DEF Added
  <2> QED
    BY <1>2, <2>2, <2>3, <2>4, <2>5
<1> QED
  BY <1>1, <1>2

(* Writing the block produce rewards keeps the invariant. *)
LEMMA EndBlockProduceKeeps ==
    ASSUME RewardsInv, EndBlockProduce
    PROVE  RewardsInv'
<1>1. RewardsTypes /\ Counted /\ ReadFirst /\ bpMap \in [Account -> Int]
  BY DEF RewardsInv, RewardsTypes
<1>2. /\ pass = "blocks" /\ pass' = "preps" /\ next' = 1 /\ bpMap' = bpMap /\ UNCHANGED given
      /\ write' = [a \in Account |-> IF a \in BlockAddrs THEN Added(a, bpMap[a]) ELSE write[a]]
      /\ Increase("beta1", NewAccounts(BlockAddrs), SumFunction(bpMap))
  BY DEF EndBlockProduce, BlockAddrs
<1>3. BlockAddrs \in SUBSET Account
  BY <1>1, BlocksTyped
<1>4. \A a \in Account : bpMap[a] \in Int
  BY <1>1
<1>5. \A a \in Account : write'[a] = IF a \in BlockAddrs THEN Added(a, bpMap[a]) ELSE write[a]
  BY <1>2
<1>6. \A a \in Account \ BlockAddrs : bpMap[a] = 0 /\ write'[a] = write[a]
  BY <1>5 DEF RewardsInv, Produced
<1>7. \A a \in BlockAddrs :
         /\ write'[a] \in IScoreAccount
         /\ write'[a].iScore = bpMap[a] + IF write[a] = NoAccount THEN 0 ELSE write[a].iScore
         /\ write'[a].blockHeight = IF write[a] = NoAccount THEN End ELSE write[a].blockHeight
  BY <1>1, <1>3, <1>4, <1>5, AddedIs
<1>8. write' = [a \in Account |-> write'[a]]
  BY <1>2, <1>5
<1>9. Increase("beta1", NewAccounts(BlockAddrs), SumFunctionOnSet(bpMap, Account))
  <2>1. DOMAIN bpMap = Account
    BY <1>1
  <2>2. SumFunction(bpMap) = SumFunctionOnSet(bpMap, Account)
    BY <2>1 DEF SumFunction
  <2> QED
    BY <1>2, <2>2
<1>10. RewardsTypes' /\ Counted'
  <2>1. pass' \in Passes /\ next' \in Nat /\ pass \notin {"idle", "accounts"}
    BY <1>2 DEF Passes
  <2>2. \A a \in BlockAddrs :
         /\ write'[a] \in IScoreAccount
         /\ write'[a].iScore = bpMap[a] + IF write[a] = NoAccount THEN 0 ELSE write[a].iScore
    BY <1>7
  <2> QED
    BY <1>1, <1>2, <1>3, <1>4, <1>6, <1>8, <1>9, <2>1, <2>2, ManyWritten
<1>11. UNCHANGED <<gvs, preps, txs, blocks, revision, read>>
  BY <1>2 DEF given
<1>12. ReadFirst'
  <2>1. \A a \in Account : write[a] # NoAccount => write'[a] # NoAccount
    BY <1>6, <1>7, AccountIsThere
  <2> QED
    BY <1>1, <1>2, <1>11, <2>1 DEF ReadFirst
<1>13. Produced'
  BY <1>2, <1>11 DEF RewardsInv, Produced, BlockAddrs
<1>14. AtEnd'
  <2> SUFFICES ASSUME revision >= Revision8, NEW a \in Account, write'[a] # NoAccount
               PROVE  write'[a].blockHeight = End
    BY <1>11 DEF AtEnd
  <2>1. write[a] # NoAccount => write[a].blockHeight = End
    BY DEF RewardsInv, AtEnd
  <2> QED
    BY <1>6, <1>7, <2>1
<1> QED
  BY <1>10, <1>12, <1>13, <1>14 DEF RewardsInv

\* the blocks of the P-Rep list that is paid next, and what it pays
Used == Period(preps, next, Start, End)
Paid ==
    IF Used = {} \/ preps[next].total = 0 THEN NoResult
    ELSE [a \in DOMAIN preps[next].delegated |->
            PRepShare(preps[next].delegated[a], preps[next].total, gvs, Min(Used) - 1, Max(Used))]

(* A P-Rep list pays numbers to accounts. *)
LEMMA PaidTyped ==
    ASSUME RewardsTypes, next \in DOMAIN preps
    PROVE  /\ DOMAIN Paid \in SUBSET Account
           /\ \A a \in DOMAIN Paid : Paid[a] \in Int
           /\ DOMAIN Paid # {} => Max(Used) \in Nat
<1> DEFINE prep == preps[next]
<1>1. prep \in PRepList /\ HasHeights(preps)
  BY ListEntries, ListHeights DEF RewardsTypes
<1>2. /\ DOMAIN prep.delegated \subseteq Account /\ prep.total \in Nat
      /\ \A a \in DOMAIN prep.delegated : prep.delegated[a] \in Nat
  <2>1. prep.delegated \in Amounts /\ prep.total \in Nat
    BY <1>1 DEF PRepList
  <2> QED
    BY <2>1, TermRewardsAssumption
<1>3. CASE Used = {} \/ prep.total = 0
  BY <1>3 DEF Paid, NoResult
<1>4. CASE ~(Used = {} \/ prep.total = 0)
  <2>1. Min(Used) \in Int /\ Max(Used) \in Int /\ Start < Min(Used)
        /\ Used = Min(Used) .. Max(Used) /\ Start \in Int /\ End \in Int
    BY <1>1, <1>4, PeriodEnds, TermRewardsAssumption DEF Used
  <2>2. Max(Used) \in Nat
    BY <1>4, <2>1, TermRewardsAssumption
  <2>3. prep.total \in Nat /\ prep.total > 0 /\ Min(Used) - 1 \in Int
    BY <1>2, <1>4, <2>1
  <2>4. \A a \in DOMAIN prep.delegated :
           PRepShare(prep.delegated[a], prep.total, gvs, Min(Used) - 1, Max(Used)) \in Int
    BY <1>2, <2>1, <2>3, PRepShareInt DEF RewardsTypes
  <2>5. Paid = [a \in DOMAIN prep.delegated |->
           PRepShare(prep.delegated[a], prep.total, gvs, Min(Used) - 1, Max(Used))]
    BY <1>4 DEF Paid
  <2> QED
    BY <1>2, <2>2, <2>4, <2>5
<1> QED
  BY <1>3, <1>4

(* The P-Rep rewards of a list keep the invariant. *)
LEMMA CalculatePRepRewardKeeps ==
    ASSUME RewardsInv, CalculatePRepReward
    PROVE  RewardsInv'
<1> DEFINE S == DOMAIN Paid
           pay == [a \in Account |-> IF a \in S THEN Paid[a] ELSE 0]
<1>1. RewardsTypes /\ Counted /\ ReadFirst
  BY DEF RewardsInv
<1>2. /\ pass = "preps" /\ next \in DOMAIN preps /\ pass' = pass /\ next' = next + 1
      /\ bpMap' = bpMap /\ UNCHANGED given
      /\ write' = [a \in Account |-> IF a \notin S THEN write[a]
                      ELSE [Added(a, Paid[a]) EXCEPT !.blockHeight = PRepHeight(a, Max(Used))]]
      /\ Increase("beta2", NewAccounts(S), SumFunction(Paid))
  BY DEF CalculatePRepReward, Paid, Used
<1>3. S \in SUBSET Account /\ (\A a \in S : Paid[a] \in Int) /\ (S # {} => Max(Used) \in Nat)
  BY <1>1, <1>2, PaidTyped
<1>4. \A a \in Account : pay[a] = (IF a \in S THEN Paid[a] ELSE 0) /\ pay[a] \in Int
  BY <1>3
<1>5. SumFunction(Paid) = SumFunctionOnSet(pay, Account)
  <2>1. \A x \in S : Paid[x] \in Int /\ pay[x] = Paid[x]
    BY <1>3, <1>4
  <2>2. \A x \in Account \ S : pay[x] = 0
    BY <1>4
  <2>3. SumFunction(Paid) = SumFunctionOnSet(Paid, S)
    BY DEF SumFunction
  <2>4. IsFiniteSet(Account) /\ S \in SUBSET Account
    BY <1>3, TermRewardsAssumption
  <2> HIDE DEF S, pay
  <2>5. SumFunctionOnSet(pay, Account) = SumFunctionOnSet(Paid, S)
    BY <2>1, <2>2, <2>4, SumOfPart
  <2> QED
    BY <2>3, <2>5
<1> HIDE DEF S, pay
<1>6. ASSUME NEW a \in S
      PROVE  /\ write'[a] \in IScoreAccount
             /\ write'[a].iScore = pay[a] + IF write[a] = NoAccount THEN 0 ELSE write[a].iScore
             /\ write'[a].blockHeight = PRepHeight(a, Max(Used))
  <2>1. PICK x : x = Added(a, Paid[a])
    OBVIOUS
  <2>2. a \in Account /\ Paid[a] \in Int /\ pay[a] = Paid[a] /\ Max(Used) \in Nat
    BY <1>3, <1>4
  <2>3. /\ x \in IScoreAccount
        /\ x.iScore = pay[a] + IF write[a] = NoAccount THEN 0 ELSE write[a].iScore
    BY <1>1, <2>1, <2>2, AddedIs
  <2>4. PRepHeight(a, Max(Used)) \in Nat
    BY <1>1, <2>2, TermRewardsAssumption DEF PRepHeight, RewardsTypes, IScoreAccount
  <2>5. PICK h \in Nat : h = PRepHeight(a, Max(Used))
    BY <2>4
  <2>6. write'[a] = [x EXCEPT !.blockHeight = h]
    BY <1>2, <2>1, <2>2, <2>5
  <2>7. /\ [x EXCEPT !.blockHeight = h] \in IScoreAccount
        /\ [x EXCEPT !.blockHeight = h].iScore = x.iScore
        /\ [x EXCEPT !.blockHeight = h].blockHeight = h
    BY <2>3 DEF IScoreAccount
  <2> QED
    BY <2>3, <2>5, <2>6, <2>7
<1>7. \A a \in Account \ S : pay[a] = 0 /\ write'[a] = write[a]
  BY <1>2, <1>4
<1>8. write' = [a \in Account |-> write'[a]]
  BY <1>2
<1>9. Increase("beta2", NewAccounts(S), SumFunctionOnSet(pay, Account))
  BY <1>2, <1>5
<1>10. RewardsTypes' /\ Counted'
  <2>1. pass' \in Passes /\ next' \in Nat /\ pass \notin {"idle", "accounts"}
    BY <1>1, <1>2 DEF Passes, RewardsTypes
  <2> QED
    BY <1>1, <1>2, <1>3, <1>4, <1>6, <1>7, <1>8, <1>9, <2>1, ManyWritten
<1>11. UNCHANGED <<gvs, preps, txs, blocks, revision, read>>
  BY <1>2 DEF given
<1>12. ReadFirst'
  <2>1. \A a \in Account : write[a] # NoAccount => write'[a] # NoAccount
    BY <1>6, <1>7, AccountIsThere
  <2> QED
    BY <1>1, <1>2, <1>11, <2>1 DEF ReadFirst
<1>13. Produced'
  BY <1>2, <1>11 DEF RewardsInv, Produced, BlockAddrs
<1>14. AtEnd'
  <2> SUFFICES ASSUME revision >= Revision8, NEW a \in Account, write'[a] # NoAccount
               PROVE  write'[a].blockHeight = End
    BY <1>11 DEF AtEnd
  <2>1. write[a] # NoAccount => write[a].blockHeight = End
    BY DEF RewardsInv, AtEnd
  <2>2. PRepHeight(a, Max(Used)) = IF write[a] = NoAccount THEN End ELSE write[a].blockHeight
    BY <1>1 DEF PRepHeight, RewardsTypes, Revision8
  <2> QED
    BY <1>6, <1>7, <2>1, <2>2
<1> QED
  BY <1>10, <1>12, <1>13, <1>14 DEF RewardsInv

-----------------------------------------------------------------------------
(* The theorems. *)

(* The invariant holds when the calculator is idle. *)
LEMMA RewardsInit ==
    ASSUME Init
    PROVE  RewardsInv
<1>1. /\ gvs \in GVLists /\ preps \in PRepLists /\ txs \in TXLists /\ blocks \in BlockLists
      /\ revision \in Nat /\ pass = "idle" /\ next = 0
      /\ write = [a \in Account |-> NoAccount] /\ bpMap = [a \in Account |-> 0]
  BY TermRewardsAssumption DEF Init
<1>2. read \in [Account -> {NoAccount} \cup IScoreAccount]
  <2>1. [iScore : IScores, blockHeight : {Start}, delegation : Delegations] \subseteq IScoreAccount
    <3>1. IScores \subseteq Int /\ {Start} \subseteq Nat /\ Delegations \subseteq Amounts
      BY TermRewardsAssumption DEF Amounts
    <3> QED
      BY <3>1 DEF IScoreAccount
  <2> QED
    BY <2>1 DEF Init
<1>3. /\ stats \in StatsType /\ stats.total = 0 /\ stats.accounts = 0
      /\ stats.beta1 = 0 /\ stats.beta2 = 0 /\ stats.beta3 = 0
  BY DEF Init, NoStats, StatsType
<1>4. RewardsTypes
  BY <1>1, <1>2, <1>3 DEF RewardsTypes, Passes
<1>5. Known = {}
  BY <1>1 DEF Known
<1>6. SumFunctionOnSet(Gains, Account) = 0
  <2>1. \A a \in Account : Gains[a] = 0
    BY <1>1 DEF Gains, Gain
  <2> DEFINE g == Gains
             f == [x \in {} |-> 0]
  <2>2. {} \in SUBSET Account /\ \A x \in {} : f[x] \in Int /\ g[x] = f[x]
    OBVIOUS
  <2>3. \A x \in Account \ {} : g[x] = 0
    BY <2>1
  <2> HIDE DEF g, f
  <2>4. SumFunctionOnSet(g, Account) = SumFunctionOnSet(f, {})
    <3>1. IsFiniteSet(Account)
      BY TermRewardsAssumption
    <3> QED
      BY <2>2, <2>3, <3>1, SumOfPart
  <2> QED
    BY <2>4, SumEmpty DEF g
<1>7. Counted
  <2>1. Cardinality(Known) = 0
    BY <1>5, FS_EmptySet
  <2> QED
    BY <1>3, <1>6, <2>1 DEF Counted
<1>8. ReadFirst /\ Produced /\ AtEnd
  BY <1>1 DEF ReadFirst, Produced, AtEnd
<1> QED
  BY <1>4, <1>7, <1>8 DEF RewardsInv

(* Every step keeps the invariant. *)
LEMMA RewardsNext ==
    ASSUME RewardsInv, [Next]_vars
    PROVE  RewardsInv'
<1>0. pass \in Passes /\ next \in Nat /\ RewardsTypes
  BY DEF RewardsInv, RewardsTypes
<1>1. CASE UNCHANGED vars
  <2>1. /\ UNCHANGED <<given, write, bpMap, stats>> /\ pass' = pass /\ next' = next
    BY <1>1 DEF vars
  <2>2. ReadFirst'
    BY <2>1 DEF RewardsInv, ReadFirst, given
  <2> QED
    BY <1>0, <2>1, <2>2, PassEnds
<1>2. CASE Debug
  <2>1. UNCHANGED <<given, write, bpMap, stats>> /\ pass' = pass /\ next' = next
    BY <1>2 DEF Debug, FlagOn, FlagOff, AddDebuggingAddress, DeleteDebuggingAddress
  <2>2. ReadFirst'
    BY <2>1 DEF RewardsInv, ReadFirst, given
  <2> QED
    BY <1>0, <2>1, <2>2, PassEnds
<1>3. CASE StartCalculation
  <2>1. UNCHANGED <<given, write, bpMap, stats>> /\ pass' = "accounts" /\ next' = next
    BY <1>3 DEF StartCalculation
  <2>2. ReadFirst' /\ pass' \in Passes
    BY <2>1 DEF ReadFirst, Passes
  <2> QED
    BY <1>0, <2>1, <2>2, PassEnds
<1>4. CASE \E a \in Account : CalculateDB(a)
  BY <1>4, CalculateDBKeeps
<1>5. CASE EndAccounts
  <2>1. /\ UNCHANGED <<given, write, bpMap, stats>> /\ pass' = "tx" /\ next' = 1
        /\ \A a \in Account : read[a] # NoAccount => write[a] # NoAccount
    BY <1>5 DEF EndAccounts
  <2>2. ReadFirst' /\ pass' \in Passes /\ next' \in Nat
    BY <2>1 DEF ReadFirst, Passes, given
  <2> QED
    BY <2>1, <2>2, PassEnds
<1>6. CASE CalculateIISSTX
  BY <1>6, CalculateIISSTXKeeps
<1>7. CASE EndTX
  <2>1. UNCHANGED <<given, write, bpMap, stats>> /\ pass = "tx" /\ pass' = "blocks" /\ next' = 1
    BY <1>7 DEF EndTX
  <2>2. ReadFirst' /\ pass' \in Passes /\ next' \in Nat
    BY <2>1 DEF RewardsInv, ReadFirst, Passes, given
  <2> QED
    BY <2>1, <2>2, PassEnds
<1>8. CASE CalculateIISSBlockProduce
  BY <1>8, CalculateIISSBlockProduceKeeps
<1>9. CASE EndBlockProduce
  BY <1>9, EndBlockProduceKeeps
<1>10. CASE CalculatePRepReward
  BY <1>10, CalculatePRepRewardKeeps
<1>11. CASE EndPRep
  <2>1. /\ UNCHANGED <<given, write, bpMap, stats>> /\ pass = "preps" /\ pass' = "done"
        /\ next' = next
    BY <1>11 DEF EndPRep
  <2>2. ReadFirst' /\ pass' \in Passes
    BY <2>1 DEF RewardsInv, ReadFirst, Passes, given
  <2> QED
    BY <1>0, <2>1, <2>2, PassEnds
<1> QED
  BY <1>1, <1>2, <1>3, <1>4, <1>5, <1>6, <1>7, <1>8, <1>9, <1>10, <1>11 DEF Next

(* The passes of DoCalculate keep the statistics equal to the gains of the  *)
(* accounts, for every term, chain and set of accounts.                     *)
THEOREM RewardsInvariance == Spec => []RewardsInv
<1>1. Init => RewardsInv
  BY RewardsInit
<1>2. RewardsInv /\ [Next]_vars => RewardsInv'
  BY RewardsNext
<1> QED
  BY <1>1, <1>2, PTL DEF Spec

(* The statistics of CALCULATE_DONE are the sum of what the accounts got,   *)
(* are the sum of the three kinds of rewards and count every account of the *)
(* calculate DB once (Statistics, DoCalculate).                             *)
THEOREM StatisticsAreAccounts == Spec => []StatsAreAccounts
<1>1. RewardsInv => StatsAreAccounts
  <2> SUFFICES ASSUME RewardsInv, pass = "done"
               PROVE  /\ stats.total = SumFunction([a \in Known |-> write[a].iScore - Initial(a)])
                      /\ stats.total = stats.beta1 + stats.beta2 + stats.beta3
                      /\ stats.accounts = Cardinality(Known)
    BY DEF StatsAreAccounts, Known
  <2> DEFINE f == [a \in Known |-> write[a].iScore - Initial(a)]
             g == Gains
  <2>1. RewardsTypes
    BY DEF RewardsInv
  <2>2. \A x \in Known : f[x] \in Int /\ g[x] = f[x]
    <3>1. \A x \in Known : Gain(x) = write[x].iScore - Initial(x)
      BY DEF Known, Gain
    <3> QED
      BY <2>1, <3>1, GainInt
  <2>3. \A x \in Account \ Known : g[x] = 0
    BY <2>1, GainInt DEF Known, Gain
  <2>4. SumFunction(f) = SumFunctionOnSet(f, Known)
    BY DEF SumFunction
  <2>5. SumFunctionOnSet(g, Account) = SumFunctionOnSet(f, Known)
    <3> HIDE DEF f, g
    <3> QED
      BY <2>1, <2>2, <2>3, GainInt, SumOfPart
  <2> QED
    BY <2>4, <2>5 DEF RewardsInv, Counted
<1> QED
  BY <1>1, RewardsInvariance, PTL

(* From Revision 8 on the next calculation goes on where this one ended for *)
(* every account, also for P-Reps whose list was replaced within the term   *)
(* (setPRepReward).                                                         *)
THEOREM NobodyStaysBehind == Spec => []AccountsAtTermEnd
<1>1. RewardsInv => AccountsAtTermEnd
  BY DEF RewardsInv, AtEnd, AccountsAtTermEnd
<1> QED
  BY <1>1, RewardsInvariance, PTL

-----------------------------------------------------------------------------
(* What is issued to producers and P-Reps. *)

\* what may be issued for a block: to its producers, and to all P-Reps
BlockRewards ==
    [i \in DOMAIN blocks |->
        2 * BlockProduceReward(GVByBlockHeight(gvs, blocks[i].blockHeight))]
PRepRewards == [b \in Start + 1 .. End |-> PRepReward(GVByBlockHeight(gvs, b))]

\* the blocks of the IISS data, and the blocks of P-Rep lists, that are paid for
SeenBlocks == {i \in DOMAIN blocks : i < next}
PaidBlocks == UNION {Period(preps, j, Start, End) : j \in {i \in DOMAIN preps : i < next}}

IssuedToProducers ==
    /\ pass \in {"idle", "accounts", "tx"} => \A a \in Account : bpMap[a] = 0
    /\ pass \in {"idle", "accounts", "tx", "blocks"} => stats.beta1 = 0
    /\ pass = "blocks" => SumFunctionOnSet(bpMap, Account)
                            <= SumFunctionOnSet(BlockRewards, SeenBlocks)
    /\ pass \in {"preps", "done"} => stats.beta1 <= SumFunctionOnSet(BlockRewards, DOMAIN blocks)

IssuedToPReps ==
    /\ pass \in {"idle", "accounts", "tx", "blocks"} => stats.beta2 = 0
    /\ pass = "preps" => stats.beta2 <= SumFunctionOnSet(PRepRewards, PaidBlocks)
    /\ pass = "done" => stats.beta2 <= SumFunctionOnSet(PRepRewards, Start + 1 .. End)

\* the lists are in the order of their block heights
InOrder(list) ==
    \A i \in DOMAIN list, j \in DOMAIN list : i < j => list[i].blockHeight <= list[j].blockHeight

(* The lists of governance variables and of P-Reps are in order. *)
LEMMA ListsInOrder == \A l \in GVLists \cup PRepLists : InOrder(l)
BY TermRewardsAssumption DEF InOrder

(* A block is in the period of an entry when it comes after the entry and   *)
(* not after the next one.                                                  *)
LEMMA PeriodMembers ==
    ASSUME NEW list, HasHeights(list), NEW i \in DOMAIN list, NEW m \in Int, NEW n \in Int,
           NEW b \in Period(list, i, m, n)
    PROVE  /\ b \in Int /\ m < b /\ b <= n /\ list[i].blockHeight < b
           /\ i < Len(list) => b <= list[i + 1].blockHeight
<1> DEFINE s == Max({m, list[i].blockHeight})
           e == IF i < Len(list) /\ list[i + 1].blockHeight < n
                THEN list[i + 1].blockHeight ELSE n
<1>0. /\ list[i].blockHeight \in Int /\ i \in Int /\ Len(list) \in Int
      /\ i < Len(list) => list[i + 1].blockHeight \in Int
  BY DEF HasHeights
<1>1. s \in Int /\ s >= m /\ s >= list[i].blockHeight
  BY <1>0, MaxOfTwo
<1>2. e \in Int /\ e <= n /\ (i < Len(list) => e <= list[i + 1].blockHeight)
  BY <1>0
<1>3. b \in (s + 1) .. e
  BY DEF Period
<1> HIDE DEF s, e
<1>4. b \in Int /\ b > s /\ b <= e
  BY <1>1, <1>2, <1>3
<1> QED
  BY <1>0, <1>1, <1>2, <1>4

(* No block is in the periods of two entries. *)
LEMMA PeriodsDisjoint ==
    ASSUME NEW list, HasHeights(list), InOrder(list), NEW i \in DOMAIN list, NEW j \in DOMAIN list,
           i # j, NEW m \in Int, NEW n \in Int
    PROVE  Period(list, i, m, n) \cap Period(list, j, m, n) = {}
<1>1. ASSUME NEW x \in DOMAIN list, NEW y \in DOMAIN list, x < y,
             NEW b \in Period(list, x, m, n), b \in Period(list, y, m, n)
      PROVE  FALSE
  <2>1. x \in Int /\ y \in Int /\ x + 1 \in DOMAIN list /\ x < Len(list) /\ x + 1 <= y
    BY <1>1 DEF HasHeights
  <2>2. b \in Int /\ b <= list[x + 1].blockHeight /\ list[y].blockHeight < b
    BY <1>1, <2>1, PeriodMembers
  <2>3. list[x + 1].blockHeight <= list[y].blockHeight
    <3>1. list[x + 1].blockHeight \in Nat /\ list[y].blockHeight \in Nat
      BY <2>1 DEF HasHeights
    <3>2. CASE x + 1 = y
      BY <3>1, <3>2
    <3>3. CASE x + 1 # y
      BY <2>1, <3>3 DEF InOrder
    <3> QED
      BY <3>2, <3>3
  <2>4. list[x + 1].blockHeight \in Int /\ list[y].blockHeight \in Int
    BY <2>1 DEF HasHeights
  <2> QED
    BY <2>2, <2>3, <2>4
<1>2. i < j \/ j < i
  BY DEF HasHeights
<1> QED
  BY <1>1, <1>2

(* In the period of a governance variable it is the last one before a block. *)
LEMMA PeriodIndex ==
    ASSUME NEW l \in GVLists, NEW i \in DOMAIN l, NEW m \in Int, NEW n \in Int,
           NEW b \in Period(l, i, m, n), b \in Start + 1 .. End
    PROVE  Max(Before(l, b)) = i
<1> DEFINE B == Before(l, b)
           k == Max(B)
<1>1. HasHeights(l) /\ InOrder(l)
  BY ListHeights, ListsInOrder
<1>2. /\ b \in Int /\ l[i].blockHeight < b /\ (i < Len(l) => b <= l[i + 1].blockHeight)
      /\ i \in Int
  <2>1. i \in Int
    BY <1>1 DEF HasHeights
  <2> QED
    BY <1>1, <2>1, PeriodMembers
<1>3. i \in B
  BY <1>2 DEF Before
<1>4. k \in B /\ i <= k /\ k \in DOMAIN l
  BY <1>3, GVFound
<1>5. ~(k > i)
  <2> SUFFICES ASSUME k > i PROVE FALSE
    OBVIOUS
  <2> HIDE DEF k
  <2>1. k \in Int /\ i + 1 <= k /\ i + 1 \in DOMAIN l /\ i < Len(l)
    BY <1>1, <1>2, <1>4 DEF HasHeights
  <2>2. /\ l[k].blockHeight \in Int /\ l[i + 1].blockHeight \in Int
    BY <1>1, <1>4, <2>1 DEF HasHeights
  <2>3. l[i + 1].blockHeight <= l[k].blockHeight
    <3>1. CASE i + 1 = k
      BY <2>2, <3>1
    <3>2. CASE i + 1 # k
      BY <1>1, <1>4, <2>1, <3>2 DEF InOrder
    <3> QED
      BY <3>1, <3>2
  <2>4. l[k].blockHeight < b
    BY <1>4 DEF Before
  <2> QED
    BY <1>2, <2>1, <2>2, <2>3, <2>4
<1>6. k = i
  <2> HIDE DEF k
  <2>1. k \in Int
    BY <1>1, <1>4 DEF HasHeights
  <2> QED
    BY <1>2, <1>4, <1>5, <2>1
<1> QED
  BY <1>6

(* In the period of a governance variable it is the one in force. *)
LEMMA PeriodGV ==
    ASSUME NEW l \in GVLists, NEW i \in DOMAIN l, NEW m \in Int, NEW n \in Int,
           NEW b \in Period(l, i, m, n), b \in Start + 1 .. End
    PROVE  GVByBlockHeight(l, b) = l[i]
BY PeriodIndex DEF GVByBlockHeight

(* What may be issued for a block is a natural number. *)
LEMMA IssueNat ==
    ASSUME RewardsTypes
    PROVE  /\ \A b \in Start + 1 .. End : PRepRewards[b] \in Nat
           /\ \A i \in DOMAIN blocks : BlockRewards[i] \in Nat
           /\ IsFiniteSet(Start + 1 .. End) /\ IsFiniteSet(DOMAIN blocks)
<1>1. ASSUME NEW b \in Start + 1 .. End PROVE PRepRewards[b] \in Nat
  <2> DEFINE gv == GVByBlockHeight(gvs, b)
  <2>1. gv \in GovernanceVariable
    BY GVFound DEF RewardsTypes
  <2> HIDE DEF gv
  <2>2. PRepReward(gv) \in Nat
    BY <2>1 DEF GovernanceVariable, PRepReward
  <2> QED
    BY <2>2 DEF PRepRewards, gv
<1>2. ASSUME NEW i \in DOMAIN blocks PROVE BlockRewards[i] \in Nat
  <2> DEFINE r == BlockProduceReward(GVByBlockHeight(gvs, blocks[i].blockHeight))
  <2>1. r \in Nat
    BY BlockRewardInt
  <2>2. BlockRewards[i] = 2 * r
    BY DEF BlockRewards
  <2> HIDE DEF r
  <2> QED
    BY <2>1, <2>2
<1>3. IsFiniteSet(Start + 1 .. End)
  <2>1. Start + 1 \in Int /\ End \in Int
    BY TermRewardsAssumption
  <2> QED
    BY <2>1, FS_Interval
<1>4. IsFiniteSet(DOMAIN blocks)
  <2>1. DOMAIN blocks = 1 .. Len(blocks) /\ 1 \in Int /\ Len(blocks) \in Int
    BY ListEntries DEF RewardsTypes
  <2> QED
    BY <2>1, FS_Interval
<1> QED
  BY <1>1, <1>2, <1>3, <1>4

(* What a P-Rep list pays is at most what its blocks provide: the shares of *)
(* one governance variable are together no more than its P-Rep rewards, and *)
(* its periods divide the blocks.                                           *)
LEMMA SharesOfPeriod ==
    ASSUME RewardsTypes, NEW S, IsFiniteSet(S), NEW d, \A x \in S : d[x] \in Nat,
           NEW total \in Nat, total > 0, total = SumFunctionOnSet(d, S),
           NEW m \in Int, NEW n \in Int, m + 1 .. n \subseteq Start + 1 .. End
    PROVE  SumFunctionOnSet([a \in S |-> PRepShare(d[a], total, gvs, m, n)], S)
             <= SumFunctionOnSet(PRepRewards, m + 1 .. n)
<1> DEFINE I == DOMAIN gvs
           P == [i \in I |-> Period(gvs, i, m, n)]
           k(i) == Cardinality(Period(gvs, i, m, n)) * PRepReward(gvs[i])
           c == [i \in I |-> k(i)]
           t == [i \in I |-> [a \in S |-> (k(i) * d[a]) \div total]]
           u == [a \in S |-> [i \in I |-> (k(i) * d[a]) \div total]]
           r == [a \in S |-> PRepShare(d[a], total, gvs, m, n)]
           e == [i \in I |-> SumFunctionOnSet(t[i], S)]
           g == PRepRewards
           B == m + 1 .. n
<1>1. gvs \in GVLists /\ HasHeights(gvs) /\ InOrder(gvs) /\ IsFiniteSet(I)
  BY ListHeights, ListsInOrder, IndicesFinite DEF RewardsTypes
<1>2. ASSUME NEW i \in I PROVE k(i) \in Nat /\ PRepReward(gvs[i]) \in Nat
  <2>1. Cardinality(Period(gvs, i, m, n)) \in Nat
    BY <1>1, PeriodFinite
  <2>2. gvs[i] \in GovernanceVariable
    BY <1>1, ListEntries
  <2>3. PRepReward(gvs[i]) \in Nat
    BY <2>2 DEF GovernanceVariable, PRepReward
  <2> QED
    BY <2>1, <2>3
<1>3. \A a \in S : r[a] = SumFunctionOnSet(u[a], I)
  <2> SUFFICES ASSUME NEW a \in S PROVE r[a] = SumFunctionOnSet(u[a], I)
    OBVIOUS
  <2>1. u[a] = [i \in I |-> (k(i) * d[a]) \div total]
    OBVIOUS
  <2>2. r[a] = SumFunction(u[a])
    BY <2>1 DEF PRepShare
  <2>3. DOMAIN u[a] = I
    BY <2>1
  <2> HIDE DEF u, r
  <2> QED
    BY <2>2, <2>3 DEF SumFunction
<1>4. \A i \in I, a \in S : t[i][a] \in Int /\ u[a][i] = t[i][a] /\ t[i][a] = (k(i) * d[a]) \div total
  <2> SUFFICES ASSUME NEW i \in I, NEW a \in S
               PROVE  t[i][a] \in Int /\ u[a][i] = t[i][a] /\ t[i][a] = (k(i) * d[a]) \div total
    OBVIOUS
  <2>1. t[i][a] = (k(i) * d[a]) \div total /\ u[a][i] = (k(i) * d[a]) \div total
    OBVIOUS
  <2> DEFINE x == k(i) * d[a]
  <2>2. x \in Int
    BY <1>2
  <2> HIDE DEF x
  <2>3. x \div total \in Int
    BY <2>2, DivInt
  <2> QED
    BY <2>1, <2>3 DEF x
<1>5. \A i \in I : e[i] = SumFunctionOnSet(t[i], S)
  OBVIOUS
<1>6. SumFunctionOnSet(r, S) = SumFunctionOnSet(e, I)
  <2> HIDE DEF r, e, t, u, I, k
  <2>1. \A i \in I, a \in S : t[i][a] \in Int /\ u[a][i] = t[i][a]
    BY <1>4
  <2>2. IsTable(I, S, t, u, e, r)
    BY <1>3, <1>5, <2>1 DEF IsTable
  <2> QED
    BY <1>1, <2>2, SumSwap
<1>7. \A i \in I : e[i] \in Int /\ c[i] \in Int /\ e[i] <= c[i]
  <2> SUFFICES ASSUME NEW i \in I PROVE e[i] \in Int /\ c[i] \in Int /\ e[i] <= c[i]
    OBVIOUS
  <2> DEFINE q == t[i]
             h == k(i)
  <2>1. \A x \in S : q[x] = (h * d[x]) \div total /\ q[x] \in Int
    BY <1>4
  <2>2. h \in Nat /\ c[i] = h /\ e[i] = SumFunctionOnSet(q, S)
    BY <1>2
  <2> HIDE DEF q, h, e, c
  <2>3. SumFunctionOnSet(q, S) <= h
    BY <2>1, <2>2, SharesBounded
  <2>4. SumFunctionOnSet(q, S) \in Int
    BY <2>1, SumInt
  <2> QED
    BY <2>2, <2>3, <2>4
<1>8. SumFunctionOnSet(e, I) <= SumFunctionOnSet(c, I)
  <2> HIDE DEF e, c, I
  <2> QED
    BY <1>1, <1>7, SumLeq
<1>9. \A b \in B : g[b] \in Nat
  BY IssueNat
<1>10. IsFiniteSet(B)
  <2>1. m + 1 \in Int
    OBVIOUS
  <2> QED
    BY <2>1, FS_Interval
<1>11. \A i \in I : P[i] \in SUBSET B /\ c[i] = SumFunctionOnSet(g, P[i])
  <2> SUFFICES ASSUME NEW i \in I PROVE P[i] \in SUBSET B /\ c[i] = SumFunctionOnSet(g, P[i])
    OBVIOUS
  <2>1. P[i] = Period(gvs, i, m, n) /\ c[i] = Cardinality(P[i]) * PRepReward(gvs[i])
    OBVIOUS
  <2>2. P[i] \in SUBSET B /\ IsFiniteSet(P[i])
    BY <1>1, <2>1, PeriodFinite
  <2>3. \A b \in P[i] : g[b] = PRepReward(gvs[i])
    <3> SUFFICES ASSUME NEW b \in P[i] PROVE g[b] = PRepReward(gvs[i])
      OBVIOUS
    <3>1. b \in Start + 1 .. End
      BY <2>2
    <3>2. GVByBlockHeight(gvs, b) = gvs[i]
      BY <1>1, <2>1, <3>1, PeriodGV
    <3> QED
      BY <3>1, <3>2 DEF PRepRewards
  <2>4. PRepReward(gvs[i]) \in Int
    BY <1>2
  <2> HIDE DEF g, P, c
  <2>5. SumFunctionOnSet(g, P[i]) = Cardinality(P[i]) * PRepReward(gvs[i])
    BY <2>2, <2>3, <2>4, SumConstant
  <2> QED
    BY <2>1, <2>2, <2>5
<1>12. \A i \in I, j \in I : i # j => P[i] \cap P[j] = {}
  BY <1>1, PeriodsDisjoint
<1>13. SumFunctionOnSet(c, I) = SumFunctionOnSet(g, UNION {P[i] : i \in I})
  <2>1. \A b \in B : g[b] \in Int
    BY <1>9
  <2> HIDE DEF c, g, P, I, B
  <2> QED
    BY <1>1, <1>10, <1>11, <1>12, <2>1, SumParts
<1>14. SumFunctionOnSet(g, UNION {P[i] : i \in I}) <= SumFunctionOnSet(g, B)
  <2> DEFINE all == UNION {P[i] : i \in I}
  <2>1. all \in SUBSET B
    BY <1>11
  <2> HIDE DEF g, B, all
  <2>2. SumFunctionOnSet(g, all) <= SumFunctionOnSet(g, B)
    BY <1>9, <1>10, <2>1, SumSubset
  <2> QED
    BY <2>2 DEF all
<1>15. /\ SumFunctionOnSet(c, I) \in Int /\ SumFunctionOnSet(e, I) \in Int
       /\ SumFunctionOnSet(g, B) \in Int
  <2>1. \A b \in B : g[b] \in Int
    BY <1>9
  <2> HIDE DEF c, e, g, I, B
  <2> QED
    BY <1>1, <1>7, <1>10, <2>1, SumInt
<1>16. SumFunctionOnSet(r, S) <= SumFunctionOnSet(g, B)
  <2> HIDE DEF c, e, g, I, B, r, P
  <2> QED
    BY <1>6, <1>8, <1>13, <1>14, <1>15
<1> QED
  BY <1>16

(* Delegation rewards are no other rewards. *)
LEMMA Beta3Only ==
    ASSUME stats \in StatsType, NEW n, NEW r, Increase("beta3", n, r)
    PROVE  stats'.beta1 = stats.beta1 /\ stats'.beta2 = stats.beta2
<1>1. stats' = [stats EXCEPT !.beta3 = @ + r, !.total = @ + r, !.accounts = @ + n]
  BY DEF Increase
<1>2. PICK b, t, c : b = stats.beta3 + r /\ t = stats.total + r /\ c = stats.accounts + n
  OBVIOUS
<1>3. stats' = [stats EXCEPT !.beta3 = b, !.total = t, !.accounts = c]
  BY <1>1, <1>2
<1>4. "beta1" \in DOMAIN stats /\ "beta2" \in DOMAIN stats
  BY DEF StatsType
<1> QED
  BY <1>3, <1>4

(* What a P-Rep list pays is at most what its blocks provide. *)
LEMMA PaidBounded ==
    ASSUME RewardsTypes, next \in DOMAIN preps
    PROVE  /\ SumFunction(Paid) \in Int
           /\ SumFunction(Paid) <= SumFunctionOnSet(PRepRewards, Used)
           /\ SumFunctionOnSet(PRepRewards, Used) \in Nat
           /\ Used \in SUBSET (Start + 1 .. End)
<1> DEFINE prep == preps[next]
           d == prep.delegated
           total == prep.total
           S == DOMAIN d
<1>1. prep \in PRepList /\ HasHeights(preps) /\ Start \in Int /\ End \in Int
  BY ListEntries, ListHeights, TermRewardsAssumption DEF RewardsTypes
<1>2. IsFiniteSet(Used) /\ Used \in SUBSET (Start + 1 .. End)
  BY <1>1, PeriodFinite DEF Used
<1>3. SumFunctionOnSet(PRepRewards, Used) \in Nat
  <2> DEFINE g == PRepRewards
  <2>1. \A b \in Used : g[b] \in Nat
    BY <1>2, IssueNat
  <2> HIDE DEF g
  <2>2. SumFunctionOnSet(g, Used) \in Nat
    BY <1>2, <2>1, SumNat
  <2> QED
    BY <2>2 DEF g
<1>4. SumFunction(Paid) = SumFunctionOnSet(Paid, DOMAIN Paid)
  BY DEF SumFunction
<1>5. SumFunction(Paid) \in Int
  <2>1. IsFiniteSet(DOMAIN Paid) /\ \A a \in DOMAIN Paid : Paid[a] \in Int
    <3>1. DOMAIN Paid \in SUBSET Account /\ IsFiniteSet(Account)
      BY PaidTyped, TermRewardsAssumption
    <3> QED
      BY <3>1, PaidTyped, FS_Subset
  <2> QED
    BY <2>1, SumOfFunctionInt
<1>6. CASE Used = {} \/ total = 0
  <2>1. DOMAIN Paid = {}
    BY <1>6 DEF Paid, NoResult
  <2>2. SumFunction(Paid) = 0
    BY <1>4, <2>1, SumEmpty
  <2> QED
    BY <1>2, <1>3, <1>5, <2>2
<1>7. CASE ~(Used = {} \/ total = 0)
  <2> DEFINE m == Min(Used) - 1
             n == Max(Used)
  <2>1. /\ Min(Used) \in Int /\ Max(Used) \in Int /\ Used = Min(Used) .. Max(Used)
    BY <1>1, <1>7, PeriodEnds DEF Used
  <2>2. m \in Int /\ n \in Int /\ m + 1 .. n = Used
    <3>1. Min(Used) - 1 + 1 = Min(Used)
      BY <2>1
    <3> QED
      BY <2>1, <3>1
  <2>3. d \in Amounts /\ total \in Nat /\ total > 0
    BY <1>1, <1>7 DEF PRepList
  <2>4. IsFiniteSet(S) /\ \A x \in S : d[x] \in Nat
    <3>1. S \subseteq Account /\ (\A x \in S : d[x] \in Nat) /\ IsFiniteSet(Account)
      BY <2>3, TermRewardsAssumption
    <3> QED
      BY <3>1, FS_Subset
  <2>5. total = SumFunctionOnSet(d, S)
    <3>1. total = SumFunction(d)
      BY TermRewardsAssumption DEF RewardsTypes
    <3> QED
      BY <3>1 DEF SumFunction
  <2>6. Paid = [a \in S |-> PRepShare(d[a], total, gvs, m, n)] /\ DOMAIN Paid = S
    BY <1>7 DEF Paid
  <2> HIDE DEF m, n, d, total, S
  <2>7. SumFunctionOnSet([a \in S |-> PRepShare(d[a], total, gvs, m, n)], S)
          <= SumFunctionOnSet(PRepRewards, m + 1 .. n)
    BY <1>2, <2>2, <2>3, <2>4, <2>5, SharesOfPeriod
  <2>8. SumFunction(Paid) <= SumFunctionOnSet(PRepRewards, Used)
    BY <1>4, <2>2, <2>6, <2>7
  <2> QED
    BY <1>2, <1>3, <1>5, <2>8
<1> QED
  BY <1>6, <1>7

(* The rewards of one block: the generator gets one, the validators share   *)
(* another.                                                                 *)
LEMMA BlockBounded ==
    ASSUME RewardsTypes, NEW i \in DOMAIN blocks, NEW f,
           \A a \in Account : f[a] =
             bpMap[a] + (IF a = blocks[i].generator
                         THEN BlockProduceReward(GVByBlockHeight(gvs, blocks[i].blockHeight))
                         ELSE 0)
                      + (IF a \in blocks[i].validators
                         THEN ValidatorReward(blocks[i],
                                BlockProduceReward(GVByBlockHeight(gvs, blocks[i].blockHeight)))
                         ELSE 0)
    PROVE  SumFunctionOnSet(f, Account) <= SumFunctionOnSet(bpMap, Account) + BlockRewards[i]
<1> DEFINE V == blocks[i].validators
           r == BlockProduceReward(GVByBlockHeight(gvs, blocks[i].blockHeight))
           share == ValidatorReward(blocks[i], r)
           c == Cardinality(V)
           gen == [a \in Account |-> IF a = blocks[i].generator THEN r ELSE 0]
           val == [a \in Account |-> IF a \in V THEN share ELSE 0]
           both == [a \in Account |-> gen[a] + val[a]]
<1>1. /\ r \in Nat /\ IsFiniteSet(V) /\ (V # {} => share \in Nat) /\ IsFiniteSet(Account)
      /\ V \in SUBSET Account /\ blocks[i].generator \in Account /\ BlockRewards[i] = 2 * r
  BY BlockRewardInt, BlocksTyped, TermRewardsAssumption DEF BlockRewards
<1>2. SumFunctionOnSet(gen, Account) = r
  BY <1>1, SumSingle
<1>3. SumFunctionOnSet(val, Account) \in Int /\ SumFunctionOnSet(val, Account) <= r
  <2> DEFINE w == [a \in V |-> share]
  <2>0. share = r \div c
    BY DEF ValidatorReward
  <2>1. (\A x \in V : w[x] \in Int /\ val[x] = w[x]) /\ \A x \in Account \ V : val[x] = 0
    BY <1>1
  <2>2. \A x \in V : w[x] = share
    OBVIOUS
  <2> HIDE DEF w, val, V, r, share
  <2>3. SumFunctionOnSet(val, Account) = SumFunctionOnSet(w, V)
    BY <1>1, <2>1, SumOfPart
  <2>4. CASE V = {}
    <3>1. SumFunctionOnSet(w, V) = 0
      BY <2>4, SumEmpty
    <3> QED
      BY <1>1, <2>3, <3>1
  <2>5. CASE V # {}
    <3>1. c \in Nat /\ c > 0 /\ share \in Nat
      BY <1>1, <2>5, FS_CardinalityType, FS_EmptySet
    <3>2. SumFunctionOnSet(w, V) = c * share
      BY <1>1, <2>2, <3>1, SumConstant
    <3> HIDE DEF c
    <3>3. c * (r \div c) <= r
      BY <1>1, <3>1, Z3T(30)
    <3>4. c * share \in Int
      BY <3>1
    <3> QED
      BY <2>0, <2>3, <3>2, <3>3, <3>4
  <2> QED
    BY <2>4, <2>5
<1>4. \A a \in Account :
         /\ gen[a] \in Int /\ val[a] \in Int /\ both[a] = gen[a] + val[a]
         /\ bpMap[a] \in Int /\ both[a] \in Int /\ f[a] = bpMap[a] + both[a]
  <2> SUFFICES ASSUME NEW a \in Account
               PROVE  /\ gen[a] \in Int /\ val[a] \in Int /\ both[a] = gen[a] + val[a]
                      /\ bpMap[a] \in Int /\ both[a] \in Int /\ f[a] = bpMap[a] + both[a]
    OBVIOUS
  <2>1. /\ gen[a] = (IF a = blocks[i].generator THEN r ELSE 0)
        /\ val[a] = (IF a \in V THEN share ELSE 0)
        /\ both[a] = gen[a] + val[a] /\ bpMap[a] \in Int
    BY DEF RewardsTypes
  <2>2. f[a] = bpMap[a] + gen[a] + val[a]
    BY <2>1
  <2> HIDE DEF gen, val, both, V, r, share
  <2>3. gen[a] \in Int /\ val[a] \in Int
    BY <1>1, <2>1
  <2> QED
    BY <2>1, <2>2, <2>3
<1> HIDE DEF gen, val, both, r
<1>5. /\ SumFunctionOnSet(both, Account)
           = SumFunctionOnSet(gen, Account) + SumFunctionOnSet(val, Account)
      /\ SumFunctionOnSet(f, Account)
           = SumFunctionOnSet(bpMap, Account) + SumFunctionOnSet(both, Account)
  BY <1>1, <1>4, SumPlus
<1>6. SumFunctionOnSet(bpMap, Account) \in Int
  BY <1>1, <1>4, SumInt
<1> QED
  BY <1>1, <1>2, <1>3, <1>5, <1>6

Issued == IssuedToProducers /\ IssuedToPReps

(* What may be issued is fixed by what the calculation is given. *)
LEMMA IssueFixed ==
    ASSUME UNCHANGED given
    PROVE  /\ BlockRewards' = BlockRewards /\ PRepRewards' = PRepRewards /\ blocks' = blocks
           /\ next' = next => SeenBlocks' = SeenBlocks /\ PaidBlocks' = PaidBlocks
BY DEF given, BlockRewards, PRepRewards, SeenBlocks, PaidBlocks

(* Sums over the blocks that are paid for. *)
LEMMA IssueSums ==
    ASSUME RewardsTypes
    PROVE  /\ IsFiniteSet(SeenBlocks) /\ IsFiniteSet(PaidBlocks)
           /\ PaidBlocks \in SUBSET (Start + 1 .. End)
           /\ SumFunctionOnSet(BlockRewards, SeenBlocks) \in Nat
           /\ SumFunctionOnSet(PRepRewards, PaidBlocks) \in Nat
           /\ SumFunctionOnSet(BlockRewards, SeenBlocks)
                <= SumFunctionOnSet(BlockRewards, DOMAIN blocks)
           /\ SumFunctionOnSet(PRepRewards, PaidBlocks)
                <= SumFunctionOnSet(PRepRewards, Start + 1 .. End)
           /\ SumFunctionOnSet(BlockRewards, DOMAIN blocks) \in Nat
           /\ SumFunctionOnSet(PRepRewards, Start + 1 .. End) \in Nat
<1>1. /\ \A b \in Start + 1 .. End : PRepRewards[b] \in Nat
      /\ \A i \in DOMAIN blocks : BlockRewards[i] \in Nat
      /\ IsFiniteSet(Start + 1 .. End) /\ IsFiniteSet(DOMAIN blocks)
  BY IssueNat
<1>2. SeenBlocks \in SUBSET DOMAIN blocks
  BY DEF SeenBlocks
<1>3. PaidBlocks \in SUBSET (Start + 1 .. End)
  <2>1. HasHeights(preps) /\ Start \in Int /\ End \in Int
    BY ListHeights, TermRewardsAssumption DEF RewardsTypes
  <2>2. \A j \in DOMAIN preps : Period(preps, j, Start, End) \subseteq Start + 1 .. End
    BY <2>1, PeriodFinite
  <2> QED
    BY <2>2 DEF PaidBlocks
<1>4. IsFiniteSet(SeenBlocks) /\ IsFiniteSet(PaidBlocks)
  BY <1>1, <1>2, <1>3, FS_Subset
<1> DEFINE T == Start + 1 .. End
           D == DOMAIN blocks
<1>5. /\ SumFunctionOnSet(BlockRewards, SeenBlocks) \in Nat
      /\ SumFunctionOnSet(BlockRewards, D) \in Nat
      /\ SumFunctionOnSet(BlockRewards, SeenBlocks) <= SumFunctionOnSet(BlockRewards, D)
  <2>1. \A i \in SeenBlocks : BlockRewards[i] \in Nat
    BY <1>1, <1>2
  <2> HIDE DEF D
  <2> QED
    BY <1>1, <1>2, <1>4, <2>1, SumNat, SumSubset DEF D
<1>6. /\ SumFunctionOnSet(PRepRewards, PaidBlocks) \in Nat
      /\ SumFunctionOnSet(PRepRewards, T) \in Nat
      /\ SumFunctionOnSet(PRepRewards, PaidBlocks) <= SumFunctionOnSet(PRepRewards, T)
  <2>1. \A b \in PaidBlocks : PRepRewards[b] \in Nat
    BY <1>1, <1>3
  <2>2. (\A b \in T : PRepRewards[b] \in Nat) /\ IsFiniteSet(T) /\ PaidBlocks \in SUBSET T
    BY <1>1, <1>3
  <2> HIDE DEF T
  <2> QED
    BY <1>4, <2>1, <2>2, SumNat, SumSubset
<1> QED
  BY <1>3, <1>4, <1>5, <1>6

(* What may be issued for some of the blocks. *)
LEMMA IssueSomeNat ==
    ASSUME RewardsTypes, NEW S \in SUBSET DOMAIN blocks, NEW B \in SUBSET (Start + 1 .. End)
    PROVE  SumFunctionOnSet(BlockRewards, S) \in Nat /\ SumFunctionOnSet(PRepRewards, B) \in Nat
<1>1. /\ \A b \in B : PRepRewards[b] \in Nat
      /\ \A i \in S : BlockRewards[i] \in Nat
      /\ IsFiniteSet(S) /\ IsFiniteSet(B)
  BY IssueNat, FS_Subset
<1> QED
  BY <1>1, SumNat

(* Up to the block produce rewards nothing is issued to producers or P-Reps. *)
LEMMA IssueEarly ==
    ASSUME RewardsTypes, RewardsTypes', Issued, UNCHANGED given, bpMap' = bpMap,
           stats'.beta1 = stats.beta1, stats'.beta2 = stats.beta2,
           pass \in {"idle", "accounts", "tx"}, pass' \in {"idle", "accounts", "tx", "blocks"}
    PROVE  Issued'
<1>1. (\A a \in Account : bpMap[a] = 0) /\ stats.beta1 = 0 /\ stats.beta2 = 0
  BY DEF Issued, IssuedToProducers, IssuedToPReps
<1>2. SumFunctionOnSet(bpMap, Account) = 0
  BY <1>1, SumZero, TermRewardsAssumption
<1>3. SumFunctionOnSet(BlockRewards', SeenBlocks') \in Nat
  <2> DEFINE S == SeenBlocks'
  <2>1. BlockRewards' = BlockRewards /\ S \in SUBSET DOMAIN blocks
    BY IssueFixed DEF SeenBlocks
  <2>2. {} \in SUBSET (Start + 1 .. End)
    OBVIOUS
  <2> HIDE DEF S
  <2>3. SumFunctionOnSet(BlockRewards, S) \in Nat
    BY <2>1, <2>2, IssueSomeNat
  <2> QED
    BY <2>1, <2>3 DEF S
<1>4. SumFunctionOnSet(bpMap', Account) <= SumFunctionOnSet(BlockRewards', SeenBlocks')
  BY <1>2, <1>3
<1>5. IssuedToProducers'
  BY <1>1, <1>4 DEF IssuedToProducers
<1>6. IssuedToPReps'
  BY <1>1 DEF IssuedToPReps
<1> QED
  BY <1>5, <1>6 DEF Issued

(* A step that changes neither pass nor what is issued. *)
LEMMA IssueStays ==
    ASSUME Issued, UNCHANGED given, bpMap' = bpMap, pass' = pass, next' = next,
           stats'.beta1 = stats.beta1, stats'.beta2 = stats.beta2
    PROVE  Issued'
<1>1. /\ BlockRewards' = BlockRewards /\ PRepRewards' = PRepRewards /\ blocks' = blocks
      /\ SeenBlocks' = SeenBlocks /\ PaidBlocks' = PaidBlocks
  BY IssueFixed
<1>2. IssuedToProducers'
  BY <1>1 DEF Issued, IssuedToProducers
<1>3. IssuedToPReps'
  BY <1>1 DEF Issued, IssuedToPReps
<1> QED
  BY <1>2, <1>3 DEF Issued

(* Producing a block issues at most twice its reward. *)
LEMMA BlockIssued ==
    ASSUME RewardsInv, Issued, CalculateIISSBlockProduce
    PROVE  Issued'
<1>1. RewardsTypes
  BY DEF RewardsInv
<1>2. /\ next \in DOMAIN blocks /\ pass = "blocks" /\ pass' = "blocks"
      /\ bpMap' = [a \in Account |->
            bpMap[a] + (IF a = blocks[next].generator
                        THEN BlockProduceReward(GVByBlockHeight(gvs, blocks[next].blockHeight))
                        ELSE 0)
                     + (IF a \in blocks[next].validators
                        THEN ValidatorReward(blocks[next],
                               BlockProduceReward(GVByBlockHeight(gvs, blocks[next].blockHeight)))
                        ELSE 0)]
      /\ next' = next + 1 /\ UNCHANGED <<given, write, pass, stats>>
  BY DEF CalculateIISSBlockProduce
<1>3. /\ BlockRewards' = BlockRewards /\ blocks' = blocks /\ stats' = stats
  BY <1>2, IssueFixed
<1>4. SumFunctionOnSet(bpMap', Account) <= SumFunctionOnSet(bpMap, Account) + BlockRewards[next]
  <2> DEFINE f == bpMap'
  <2>1. \A a \in Account : f[a] =
            bpMap[a] + (IF a = blocks[next].generator
                        THEN BlockProduceReward(GVByBlockHeight(gvs, blocks[next].blockHeight))
                        ELSE 0)
                     + (IF a \in blocks[next].validators
                        THEN ValidatorReward(blocks[next],
                               BlockProduceReward(GVByBlockHeight(gvs, blocks[next].blockHeight)))
                        ELSE 0)
    BY <1>2
  <2> HIDE DEF f
  <2>2. SumFunctionOnSet(f, Account) <= SumFunctionOnSet(bpMap, Account) + BlockRewards[next]
    BY <1>1, <1>2, <2>1, BlockBounded
  <2> QED
    BY <2>2 DEF f
<1>5. SumFunctionOnSet(BlockRewards, SeenBlocks')
        = BlockRewards[next] + SumFunctionOnSet(BlockRewards, SeenBlocks)
  <2>1. SeenBlocks' = SeenBlocks \cup {next} /\ next \notin SeenBlocks
    <3>1. next \in Nat /\ DOMAIN blocks \subseteq Nat
      BY <1>1, ListEntries DEF RewardsTypes
    <3> QED
      BY <1>2, <1>3, <3>1 DEF SeenBlocks
  <2>2. \A x \in SeenBlocks \cup {next} : BlockRewards[x] \in Int
    BY <1>1, <1>2, IssueNat DEF SeenBlocks
  <2>3. IsFiniteSet(SeenBlocks)
    BY <1>1, IssueSums
  <2> QED
    BY <2>1, <2>2, <2>3, SumAdd
<1>6. /\ SumFunctionOnSet(bpMap, Account) <= SumFunctionOnSet(BlockRewards, SeenBlocks)
      /\ stats.beta1 = 0 /\ stats.beta2 = 0
  BY <1>2 DEF Issued, IssuedToProducers, IssuedToPReps
<1>7. /\ SumFunctionOnSet(bpMap, Account) \in Int /\ SumFunctionOnSet(bpMap', Account) \in Int
      /\ SumFunctionOnSet(BlockRewards, SeenBlocks) \in Int /\ BlockRewards[next] \in Int
  <2>1. \A a \in Account : bpMap[a] \in Int
    BY <1>1 DEF RewardsTypes
  <2>2. \A a \in Account : bpMap'[a] \in Int
    <3>1. RewardsInv'
      BY CalculateIISSBlockProduceKeeps
    <3> QED
      BY <3>1 DEF RewardsInv, RewardsTypes
  <2>3. IsFiniteSet(Account)
    BY TermRewardsAssumption
  <2> QED
    BY <1>1, <1>2, <2>1, <2>2, <2>3, SumInt, IssueSums, IssueNat
<1>8. SumFunctionOnSet(bpMap', Account) <= SumFunctionOnSet(BlockRewards, SeenBlocks')
  BY <1>4, <1>5, <1>6, <1>7
<1>9. IssuedToProducers'
  BY <1>2, <1>3, <1>6, <1>8 DEF IssuedToProducers
<1>10. IssuedToPReps'
  BY <1>2, <1>3, <1>6 DEF IssuedToPReps
<1> QED
  BY <1>9, <1>10 DEF Issued

(* Writing the block produce rewards issues what was produced. *)
LEMMA ProducersIssued ==
    ASSUME RewardsInv, Issued, EndBlockProduce
    PROVE  Issued'
<1>1. RewardsTypes /\ bpMap \in [Account -> Int] /\ stats \in StatsType
  BY DEF RewardsInv, RewardsTypes
<1>2. /\ pass = "blocks" /\ pass' = "preps" /\ bpMap' = bpMap /\ UNCHANGED given
      /\ Increase("beta1", NewAccounts(BlockAddrs), SumFunction(bpMap))
  BY DEF EndBlockProduce, BlockAddrs
<1>3. SumFunction(bpMap) = SumFunctionOnSet(bpMap, Account)
  <2>1. DOMAIN bpMap = Account
    BY <1>1
  <2> QED
    BY <2>1 DEF SumFunction
<1>4. /\ SumFunctionOnSet(bpMap, Account) \in Int /\ NewAccounts(BlockAddrs) \in Int
  <2>1. IsFiniteSet(Account) /\ {a \in BlockAddrs : write[a] = NoAccount} \in SUBSET Account
    BY <1>1, BlocksTyped, TermRewardsAssumption
  <2>2. NewAccounts(BlockAddrs) \in Nat
    BY <2>1, FS_Subset, FS_CardinalityType DEF NewAccounts
  <2>3. \A a \in Account : bpMap[a] \in Int
    BY <1>1
  <2> QED
    BY <2>1, <2>2, <2>3, SumInt
<1>5. /\ stats'.beta1 = stats.beta1 + SumFunctionOnSet(bpMap, Account)
      /\ stats'.beta2 = stats.beta2 + 0
  <2>1. Increase("beta1", NewAccounts(BlockAddrs), SumFunctionOnSet(bpMap, Account))
    BY <1>2, <1>3
  <2> QED
    BY <1>1, <1>4, <2>1, IncreaseIs
<1>6. /\ SumFunctionOnSet(bpMap, Account) <= SumFunctionOnSet(BlockRewards, SeenBlocks)
      /\ stats.beta1 = 0 /\ stats.beta2 = 0
  BY <1>2 DEF Issued, IssuedToProducers, IssuedToPReps
<1>7. stats'.beta1 <= SumFunctionOnSet(BlockRewards, DOMAIN blocks) /\ stats'.beta2 = 0
  <2>1. /\ SumFunctionOnSet(BlockRewards, SeenBlocks) \in Nat
        /\ SumFunctionOnSet(BlockRewards, DOMAIN blocks) \in Nat
        /\ SumFunctionOnSet(BlockRewards, SeenBlocks)
             <= SumFunctionOnSet(BlockRewards, DOMAIN blocks)
    BY <1>1, IssueSums
  <2> QED
    BY <1>4, <1>5, <1>6, <2>1
<1>8. BlockRewards' = BlockRewards /\ blocks' = blocks
  BY <1>2, IssueFixed
<1>9. IssuedToProducers'
  BY <1>2, <1>7, <1>8 DEF IssuedToProducers
<1>10. SumFunctionOnSet(PRepRewards', PaidBlocks') \in Nat
  <2> DEFINE B == PaidBlocks'
  <2>1. preps' = preps /\ PRepRewards' = PRepRewards /\ HasHeights(preps)
        /\ Start \in Int /\ End \in Int
    BY <1>1, <1>2, IssueFixed, ListHeights, TermRewardsAssumption DEF given, RewardsTypes
  <2>2. \A j \in DOMAIN preps : Period(preps, j, Start, End) \subseteq Start + 1 .. End
    BY <2>1, PeriodFinite
  <2>3. B \in SUBSET (Start + 1 .. End) /\ {} \in SUBSET DOMAIN blocks
    BY <2>1, <2>2 DEF PaidBlocks
  <2> HIDE DEF B
  <2>4. SumFunctionOnSet(PRepRewards, B) \in Nat
    BY <1>1, <2>3, IssueSomeNat
  <2> QED
    BY <2>1, <2>4 DEF B
<1>11. IssuedToPReps'
  BY <1>2, <1>7, <1>10 DEF IssuedToPReps
<1> QED
  BY <1>9, <1>11 DEF Issued

(* A P-Rep list issues at most what its blocks provide, and no block twice. *)
LEMMA PRepsIssued ==
    ASSUME RewardsInv, Issued, CalculatePRepReward
    PROVE  Issued'
<1>1. RewardsTypes /\ stats \in StatsType /\ next \in Nat
  BY DEF RewardsInv, RewardsTypes
<1>2. /\ pass = "preps" /\ pass' = "preps" /\ next \in DOMAIN preps /\ next' = next + 1
      /\ bpMap' = bpMap /\ UNCHANGED given
      /\ Increase("beta2", NewAccounts(DOMAIN Paid), SumFunction(Paid))
  BY DEF CalculatePRepReward, Paid, Used
<1>3. /\ SumFunction(Paid) \in Int
      /\ SumFunction(Paid) <= SumFunctionOnSet(PRepRewards, Used)
      /\ SumFunctionOnSet(PRepRewards, Used) \in Nat
      /\ Used \in SUBSET (Start + 1 .. End)
  BY <1>1, <1>2, PaidBounded
<1>4. NewAccounts(DOMAIN Paid) \in Int
  <2>1. IsFiniteSet(Account) /\ {a \in DOMAIN Paid : write[a] = NoAccount} \in SUBSET Account
    BY <1>1, <1>2, PaidTyped, TermRewardsAssumption
  <2>2. NewAccounts(DOMAIN Paid) \in Nat
    BY <2>1, FS_Subset, FS_CardinalityType DEF NewAccounts
  <2> QED
    BY <2>2
<1>5. stats'.beta1 = stats.beta1 + 0 /\ stats'.beta2 = stats.beta2 + SumFunction(Paid)
  BY <1>1, <1>2, <1>3, <1>4, IncreaseIs
<1>6. /\ stats.beta1 <= SumFunctionOnSet(BlockRewards, DOMAIN blocks)
      /\ stats.beta2 <= SumFunctionOnSet(PRepRewards, PaidBlocks)
      /\ stats.beta1 \in Int /\ stats.beta2 \in Int
  BY <1>1, <1>2 DEF Issued, IssuedToProducers, IssuedToPReps, StatsType
<1>7. /\ BlockRewards' = BlockRewards /\ PRepRewards' = PRepRewards /\ blocks' = blocks
      /\ preps' = preps
  BY <1>2, IssueFixed DEF given
<1>8. HasHeights(preps) /\ InOrder(preps) /\ Start \in Int /\ End \in Int
  BY <1>1, ListHeights, ListsInOrder, TermRewardsAssumption DEF RewardsTypes
<1>9. PaidBlocks' = PaidBlocks \cup Used
  <2>1. {i \in DOMAIN preps : i < next + 1} = {i \in DOMAIN preps : i < next} \cup {next}
    BY <1>1, <1>2, <1>8 DEF HasHeights
  <2> DEFINE p(j) == Period(preps, j, Start, End)
             J == {i \in DOMAIN preps : i < next}
             K == {i \in DOMAIN preps : i < next + 1}
  <2>2. PaidBlocks' = UNION {p(j) : j \in K}
    BY <1>2, <1>7 DEF PaidBlocks
  <2>3. PaidBlocks = UNION {p(j) : j \in J} /\ Used = p(next) /\ K = J \cup {next}
    BY <2>1 DEF PaidBlocks, Used
  <2> HIDE DEF p, J, K
  <2> QED
    BY <2>2, <2>3
<1>10. PaidBlocks \cap Used = {}
  <2>1. \A j \in DOMAIN preps :
           j < next => Period(preps, j, Start, End) \cap Period(preps, next, Start, End) = {}
    <3> SUFFICES ASSUME NEW j \in DOMAIN preps, j < next
                 PROVE  Period(preps, j, Start, End) \cap Period(preps, next, Start, End) = {}
      OBVIOUS
    <3>1. j # next
      BY <1>1, <1>8 DEF HasHeights
    <3> QED
      BY <1>2, <1>8, <3>1, PeriodsDisjoint
  <2> QED
    BY <2>1 DEF PaidBlocks, Used
<1>11. SumFunctionOnSet(PRepRewards, PaidBlocks \cup Used)
         = SumFunctionOnSet(PRepRewards, PaidBlocks) + SumFunctionOnSet(PRepRewards, Used)
  <2>1. PaidBlocks \in SUBSET (Start + 1 .. End) /\ IsFiniteSet(PaidBlocks)
    BY <1>1, IssueSums
  <2>2. IsFiniteSet(Used)
    BY <1>1, <1>3, IssueNat, FS_Subset
  <2>3. \A b \in PaidBlocks \cup Used : PRepRewards[b] \in Int
    BY <1>1, <1>3, <2>1, IssueNat
  <2> QED
    BY <1>10, <2>1, <2>2, <2>3, SumUnion
<1>12. SumFunctionOnSet(PRepRewards, PaidBlocks) \in Nat
  BY <1>1, IssueSums
<1>13. stats'.beta2 <= SumFunctionOnSet(PRepRewards', PaidBlocks')
  <2>1. stats.beta2 + SumFunction(Paid)
          <= SumFunctionOnSet(PRepRewards, PaidBlocks) + SumFunctionOnSet(PRepRewards, Used)
    BY <1>3, <1>6, <1>12
  <2> QED
    BY <1>5, <1>7, <1>9, <1>11, <2>1
<1>14. IssuedToProducers'
  <2>1. stats'.beta1 = stats.beta1
    BY <1>5, <1>6
  <2> QED
    BY <1>2, <1>6, <1>7, <2>1 DEF IssuedToProducers
<1>15. IssuedToPReps'
  BY <1>2, <1>13 DEF IssuedToPReps
<1> QED
  BY <1>14, <1>15 DEF Issued

(* The end of the last pass: the blocks that were paid for are of the term. *)
LEMMA IssueDone ==
    ASSUME RewardsInv, Issued, EndPRep
    PROVE  Issued'
<1>1. RewardsTypes /\ stats \in StatsType
  BY DEF RewardsInv, RewardsTypes
<1>2. pass = "preps" /\ pass' = "done" /\ stats' = stats /\ UNCHANGED given
  BY DEF EndPRep
<1>3. BlockRewards' = BlockRewards /\ PRepRewards' = PRepRewards /\ blocks' = blocks
  BY <1>2, IssueFixed
<1>4. /\ stats.beta1 <= SumFunctionOnSet(BlockRewards, DOMAIN blocks)
      /\ stats.beta2 <= SumFunctionOnSet(PRepRewards, PaidBlocks) /\ stats.beta2 \in Int
  BY <1>1, <1>2 DEF Issued, IssuedToProducers, IssuedToPReps, StatsType
<1>5. stats.beta2 <= SumFunctionOnSet(PRepRewards, Start + 1 .. End)
  <2>1. /\ SumFunctionOnSet(PRepRewards, PaidBlocks) \in Nat
        /\ SumFunctionOnSet(PRepRewards, Start + 1 .. End) \in Nat
        /\ SumFunctionOnSet(PRepRewards, PaidBlocks)
             <= SumFunctionOnSet(PRepRewards, Start + 1 .. End)
    BY <1>1, IssueSums
  <2> QED
    BY <1>4, <2>1
<1>6. IssuedToProducers'
  BY <1>2, <1>3, <1>4 DEF IssuedToProducers
<1>7. IssuedToPReps'
  BY <1>2, <1>3, <1>5 DEF IssuedToPReps
<1> QED
  BY <1>6, <1>7 DEF Issued

(* Every step keeps the bounds. *)
LEMMA IssueNext ==
    ASSUME RewardsInv, RewardsInv', Issued, [Next]_vars
    PROVE  Issued'
<1>0. RewardsTypes /\ RewardsTypes' /\ stats \in StatsType
  BY DEF RewardsInv, RewardsTypes
<1>1. CASE UNCHANGED vars
  <2>1. UNCHANGED given /\ bpMap' = bpMap /\ pass' = pass /\ next' = next /\ stats' = stats
    BY <1>1 DEF vars
  <2> QED
    BY <2>1, IssueStays
<1>2. CASE Debug
  <2>1. UNCHANGED given /\ bpMap' = bpMap /\ pass' = pass /\ next' = next /\ stats' = stats
    BY <1>2 DEF Debug, FlagOn, FlagOff, AddDebuggingAddress, DeleteDebuggingAddress
  <2> QED
    BY <2>1, IssueStays
<1>3. CASE StartCalculation
  <2>1. /\ UNCHANGED given /\ bpMap' = bpMap /\ pass = "idle" /\ pass' = "accounts"
        /\ stats' = stats
    BY <1>3 DEF StartCalculation
  <2> QED
    BY <1>0, <2>1, IssueEarly
<1>4. CASE \E a \in Account : CalculateDB(a)
  <2>1. PICK a \in Account : CalculateDB(a)
    BY <1>4
  <2>2. /\ UNCHANGED given /\ bpMap' = bpMap /\ pass = "accounts" /\ pass' = "accounts"
        /\ Increase("beta3", 1, DelegationsReward(read[a], End))
    BY <2>1 DEF CalculateDB
  <2>3. stats'.beta1 = stats.beta1 /\ stats'.beta2 = stats.beta2
    BY <1>0, <2>2, Beta3Only
  <2> QED
    BY <1>0, <2>2, <2>3, IssueEarly
<1>5. CASE EndAccounts
  <2>1. UNCHANGED given /\ bpMap' = bpMap /\ pass = "accounts" /\ pass' = "tx" /\ stats' = stats
    BY <1>5 DEF EndAccounts
  <2> QED
    BY <1>0, <2>1, IssueEarly
<1>6. CASE CalculateIISSTX
  <2>1. /\ UNCHANGED given /\ bpMap' = bpMap /\ pass = "tx" /\ pass' = "tx"
        /\ \E n, r : Increase("beta3", n, r)
    BY <1>6 DEF CalculateIISSTX
  <2>2. stats'.beta1 = stats.beta1 /\ stats'.beta2 = stats.beta2
    BY <1>0, <2>1, Beta3Only
  <2> QED
    BY <1>0, <2>1, <2>2, IssueEarly
<1>7. CASE EndTX
  <2>1. UNCHANGED given /\ bpMap' = bpMap /\ pass = "tx" /\ pass' = "blocks" /\ stats' = stats
    BY <1>7 DEF EndTX
  <2> QED
    BY <1>0, <2>1, IssueEarly
<1>8. CASE CalculateIISSBlockProduce
  BY <1>8, BlockIssued
<1>9. CASE EndBlockProduce
  BY <1>9, ProducersIssued
<1>10. CASE CalculatePRepReward
  BY <1>10, PRepsIssued
<1>11. CASE EndPRep
  BY <1>11, IssueDone
<1> QED
  BY <1>1, <1>2, <1>3, <1>4, <1>5, <1>6, <1>7, <1>8, <1>9, <1>10, <1>11 DEF Next

(* Nothing is issued before the calculation. *)
LEMMA IssueInit == Init => Issued
<1> SUFFICES ASSUME Init PROVE Issued
  OBVIOUS
<1>1. /\ pass = "idle" /\ bpMap = [a \in Account |-> 0]
      /\ stats.beta1 = 0 /\ stats.beta2 = 0
  BY DEF Init, NoStats
<1> QED
  BY <1>1 DEF Issued, IssuedToProducers, IssuedToPReps

(* No more is issued than the governance variable in force provides: at most *)
(* twice the block produce reward for a block's producers and at most one   *)
(* P-Rep reward for a block's P-Reps, whatever the lists, the delegations   *)
(* and the roundings (calculateIISSBlockProduce, setPRepReward).            *)
THEOREM IssueIsBounded == Spec => []IssueBounded
<1>1. Init => Issued
  BY IssueInit
<1>2. RewardsInv /\ RewardsInv' /\ Issued /\ [Next]_vars => Issued'
  BY IssueNext
<1>3. Issued => IssueBounded
  <2> SUFFICES ASSUME Issued, pass = "done"
               PROVE  /\ stats.beta1 <= SumFunction(BlockRewards)
                      /\ stats.beta2 <= SumFunction(PRepRewards)
    BY DEF IssueBounded, BlockRewards, PRepRewards
  <2>1. DOMAIN BlockRewards = DOMAIN blocks /\ DOMAIN PRepRewards = Start + 1 .. End
    BY DEF BlockRewards, PRepRewards
  <2>2. /\ SumFunction(BlockRewards) = SumFunctionOnSet(BlockRewards, DOMAIN blocks)
        /\ SumFunction(PRepRewards) = SumFunctionOnSet(PRepRewards, Start + 1 .. End)
    BY <2>1 DEF SumFunction
  <2> QED
    BY <2>2 DEF Issued, IssuedToProducers, IssuedToPReps
<1> QED
  BY <1>1, <1>2, <1>3, RewardsInvariance, PTL DEF Spec

-----------------------------------------------------------------------------
(* Delegation rewards, against the sum over blocks.                          *)

(* A quotient is rounded down, by less than the divisor. *)
LEMMA DivBounds ==
    ASSUME NEW x \in Nat, NEW D \in Nat, D > 0
    PROVE  x \div D \in Nat /\ D * (x \div D) <= x /\ x <= D * (x \div D) + D
<1>1. x \div D \in Int
  BY DivInt
<1>2. D * (x \div D) <= x /\ x < D * (x \div D) + D
  BY Z3T(30)
<1>3. PICK q \in Int : q = x \div D
  BY <1>1
<1>4. D * q <= x /\ x < D * q + D
  BY <1>2, <1>3
<1>5. ~(q < 0)
  <2> SUFFICES ASSUME q < 0 PROVE FALSE
    OBVIOUS
  <2>1. D * q <= D * (-1)
    BY Z3T(30)
  <2>2. D * (-1) = -D /\ D * q \in Int
    BY Z3T(30)
  <2> QED
    BY <1>4, <2>1, <2>2
<1>6. q \in Nat /\ D * q \in Int
  BY <1>5
<1> QED
  BY <1>3, <1>4, <1>6

(* What is near in every part is near in the sum. *)
LEMMA NearSum ==
    ASSUME NEW S, IsFiniteSet(S), NEW D \in Nat, NEW E \in Nat, NEW f, NEW x,
           \A s \in S : f[s] \in Int /\ x[s] \in Int /\ D * f[s] <= x[s] /\ x[s] <= D * f[s] + E
    PROVE  /\ SumFunctionOnSet(f, S) \in Int /\ SumFunctionOnSet(x, S) \in Int
           /\ D * SumFunctionOnSet(f, S) <= SumFunctionOnSet(x, S)
           /\ SumFunctionOnSet(x, S) <= D * SumFunctionOnSet(f, S) + Cardinality(S) * E
<1> DEFINE low == [s \in S |-> D * f[s]]
           err == [s \in S |-> E]
           high == [s \in S |-> D * f[s] + E]
<1>1. \A s \in S : /\ low[s] = D * f[s] /\ low[s] \in Int /\ err[s] = E
                   /\ high[s] = low[s] + err[s] /\ high[s] \in Int /\ err[s] \in Int
                   /\ low[s] <= x[s] /\ x[s] <= high[s] /\ f[s] \in Int /\ x[s] \in Int
  OBVIOUS
<1> HIDE DEF low, err, high
<1>2. SumFunctionOnSet(low, S) = D * SumFunctionOnSet(f, S)
  BY <1>1, SumScale
<1>3. SumFunctionOnSet(err, S) = Cardinality(S) * E
  BY <1>1, SumConstant
<1>4. SumFunctionOnSet(high, S) = SumFunctionOnSet(low, S) + SumFunctionOnSet(err, S)
  BY <1>1, SumPlus
<1>5. SumFunctionOnSet(low, S) <= SumFunctionOnSet(x, S)
  BY <1>1, SumLeq
<1>6. SumFunctionOnSet(x, S) <= SumFunctionOnSet(high, S)
  BY <1>1, SumLeq
<1>7. SumFunctionOnSet(f, S) \in Int /\ SumFunctionOnSet(x, S) \in Int
  BY <1>1, SumInt
<1> QED
  BY <1>2, <1>3, <1>4, <1>5, <1>6, <1>7

(* The periods of the governance variables are the blocks of the term. *)
LEMMA PeriodsCover ==
    ASSUME NEW l \in GVLists, NEW m \in Int, NEW n \in Int, Start <= m, n <= End
    PROVE  UNION {Period(l, i, m, n) : i \in DOMAIN l} = m + 1 .. n
<1>1. HasHeights(l) /\ Start \in Int /\ End \in Int
  BY ListHeights, TermRewardsAssumption
<1>2. \A i \in DOMAIN l : Period(l, i, m, n) \subseteq m + 1 .. n
  BY <1>1, PeriodFinite
<1>3. ASSUME NEW b \in m + 1 .. n PROVE \E i \in DOMAIN l : b \in Period(l, i, m, n)
  <2>1. b \in Start + 1 .. End /\ b \in Int
    BY <1>1
  <2> DEFINE k == Max(Before(l, b))
  <2>2. /\ k \in Before(l, b) /\ k \in DOMAIN l
        /\ \A j \in Before(l, b) : j <= k
    BY <2>1, GVFound
  <2> HIDE DEF k
  <2>3. /\ k \in Int /\ l[k].blockHeight \in Int /\ l[k].blockHeight < b /\ Len(l) \in Int
        /\ k < Len(l) => k + 1 \in DOMAIN l /\ l[k + 1].blockHeight \in Int
    BY <1>1, <2>2 DEF HasHeights, Before
  <2>4. k < Len(l) => b <= l[k + 1].blockHeight
    <3> SUFFICES ASSUME k < Len(l), ~(b <= l[k + 1].blockHeight) PROVE FALSE
      OBVIOUS
    <3>1. k + 1 \in DOMAIN l /\ l[k + 1].blockHeight < b
      BY <2>1, <2>3
    <3>2. k + 1 \in Before(l, b)
      BY <3>1 DEF Before
    <3>3. k + 1 <= k
      BY <2>2, <3>2
    <3> QED
      BY <2>3, <3>3
  <2> DEFINE s == Max({m, l[k].blockHeight})
             e == IF k < Len(l) /\ l[k + 1].blockHeight < n THEN l[k + 1].blockHeight ELSE n
  <2>5. s \in Int /\ s \in {m, l[k].blockHeight}
    BY <2>3, MaxOfTwo
  <2>6. s < b
    BY <2>1, <2>3, <2>5
  <2>7. e \in Int /\ b <= e
    BY <2>3, <2>4
  <2> HIDE DEF s, e
  <2>8. b \in (s + 1) .. e
    BY <2>1, <2>5, <2>6, <2>7
  <2>9. b \in Period(l, k, m, n)
    BY <2>8 DEF Period, s, e
  <2> QED
    BY <2>2, <2>9
<1> QED
  BY <1>2, <1>3

\* a weight w of every governance variable, g of every block and c of every period
Weighs(l, m, n, w, g, c) ==
    /\ \A i \in DOMAIN l : w[i] \in Nat /\ c[i] = Cardinality(Period(l, i, m, n)) * w[i]
    /\ \A b \in m + 1 .. n : g[b] = w[Max(Before(l, b))]

(* A weight per governance variable, summed by periods or by blocks. *)
LEMMA PeriodSum ==
    ASSUME NEW l \in GVLists, NEW m \in Int, NEW n \in Int, Start <= m, n <= End,
           NEW w, NEW g, NEW c, Weighs(l, m, n, w, g, c)
    PROVE  /\ SumFunctionOnSet(c, DOMAIN l) = SumFunctionOnSet(g, m + 1 .. n)
           /\ \A b \in m + 1 .. n : g[b] \in Nat
<1> USE DEF Weighs
<1> DEFINE I == DOMAIN l
           B == m + 1 .. n
           P == [i \in I |-> Period(l, i, m, n)]
<1>1. HasHeights(l) /\ InOrder(l) /\ IsFiniteSet(I) /\ Start \in Int /\ End \in Int
  BY ListHeights, ListsInOrder, IndicesFinite, TermRewardsAssumption
<1>2. IsFiniteSet(B)
  <2>1. m + 1 \in Int
    OBVIOUS
  <2> QED
    BY <2>1, FS_Interval
<1>3. \A b \in B : b \in Start + 1 .. End
  BY <1>1
<1>4. \A b \in B : Max(Before(l, b)) \in I /\ g[b] \in Nat
  <2> SUFFICES ASSUME NEW b \in B PROVE Max(Before(l, b)) \in I /\ g[b] \in Nat
    OBVIOUS
  <2>1. Max(Before(l, b)) \in I
    BY <1>3, GVFound
  <2> QED
    BY <2>1
<1>5. ASSUME NEW i \in I PROVE P[i] \in SUBSET B /\ c[i] = SumFunctionOnSet(g, P[i])
  <2>1. P[i] = Period(l, i, m, n) /\ c[i] = Cardinality(P[i]) * w[i]
    OBVIOUS
  <2>2. P[i] \in SUBSET B /\ IsFiniteSet(P[i])
    BY <1>1, <2>1, PeriodFinite
  <2>3. ASSUME NEW b \in P[i] PROVE g[b] = w[i]
    <3>1. b \in B /\ b \in Start + 1 .. End
      BY <1>3, <2>2
    <3>2. Max(Before(l, b)) = i
      <4>1. b \in Period(l, i, m, n)
        BY <2>1
      <4> QED
        BY <3>1, <4>1, PeriodIndex
    <3> QED
      BY <3>1, <3>2
  <2>4. w[i] \in Int
    OBVIOUS
  <2> HIDE DEF P
  <2>5. SumFunctionOnSet(g, P[i]) = Cardinality(P[i]) * w[i]
    BY <2>2, <2>3, <2>4, SumConstant
  <2> QED
    BY <2>1, <2>2, <2>5
<1>6. \A i \in I, j \in I : i # j => P[i] \cap P[j] = {}
  BY <1>1, PeriodsDisjoint
<1>7. UNION {P[i] : i \in I} = B
  <2>1. {P[i] : i \in I} = {Period(l, i, m, n) : i \in I}
    OBVIOUS
  <2>2. UNION {Period(l, i, m, n) : i \in I} = B
    BY PeriodsCover
  <2> QED
    BY <2>1, <2>2
<1>8. \A b \in B : g[b] \in Int
  BY <1>4
<1>9. SumFunctionOnSet(c, I) = SumFunctionOnSet(g, UNION {P[i] : i \in I})
  <2> HIDE DEF I, B, P
  <2> QED
    BY <1>1, <1>2, <1>5, <1>6, <1>8, SumParts
<1> QED
  BY <1>4, <1>7, <1>9

(* Division respects the order. *)
LEMMA DivMono ==
    ASSUME NEW x \in Nat, NEW y \in Nat, x <= y, NEW D \in Nat, D > 0
    PROVE  x \div D <= y \div D
<1>1. PICK q \in Int : q = x \div D
  BY DivBounds
<1>2. PICK r \in Int : r = y \div D
  BY DivBounds
<1>3. D * q <= x /\ D * q \in Int
  BY <1>1, DivBounds
<1>4. y < D * r + D /\ D * r \in Int
  <2>1. y < D * (y \div D) + D
    BY Z3T(30)
  <2> QED
    BY <1>2, <2>1
<1>5. ~(q > r)
  <2> SUFFICES ASSUME q > r PROVE FALSE
    OBVIOUS
  <2>1. PICK z \in Nat : q = (r + 1) + z
    <3>1. q - (r + 1) \in Nat /\ q = (r + 1) + (q - (r + 1))
      OBVIOUS
    <3> QED
      BY <3>1
  <2>2. D * q = D * r + D + D * z /\ D * z \in Nat
    BY <2>1, Z3T(30)
  <2> QED
    BY <1>3, <1>4, <2>2
<1> QED
  BY <1>1, <1>2, <1>5

(* A larger factor makes a larger product. *)
LEMMA ProductMono ==
    ASSUME NEW x \in Nat, NEW y \in Nat, x <= y, NEW k \in Nat
    PROVE  k * x \in Nat /\ k * x <= k * y
<1>1. PICK z \in Nat : y = x + z
  <2>1. y - x \in Nat /\ y = x + (y - x)
    OBVIOUS
  <2> QED
    BY <2>1
<1>2. k * y = k * x + k * z /\ k * z \in Nat /\ k * x \in Nat
  BY <1>1, Z3T(30)
<1> QED
  BY <1>2

\* what amount earns in block b, before any division
RateOf(l, amount, b) == amount * GVByBlockHeight(l, b).rewardRep

(* The blocks that are a candidate's from a height on. *)
LEMMA CandidateFrom ==
    ASSUME NEW c \in [start : Nat, end : Nat], NEW m \in Start .. End
    PROVE  /\ From(c, m) \in Int /\ To(c, End) \in Int
           /\ m <= From(c, m) /\ Start <= From(c, m) /\ To(c, End) <= End
           /\ CandidateBlocks(c, m, End) \in SUBSET (m + 1 .. End)
           /\ \A b \in m + 1 .. End :
                 b \in CandidateBlocks(c, m, End) <=> b \in CandidateBlocks(c, Start, End)
           /\ \A k \in m .. End : From(c, m) <= From(c, k)
<1>1. c.start \in Int /\ c.end \in Int /\ Start \in Int /\ End \in Int /\ m \in Int /\ Start <= m
  BY TermRewardsAssumption
<1>2. ASSUME NEW k \in Int PROVE /\ From(c, k) \in Int /\ From(c, k) \in {k, c.start}
                                 /\ k <= From(c, k) /\ c.start <= From(c, k)
  BY <1>1, MaxOfTwo DEF From
<1>3. To(c, End) \in Int /\ To(c, End) <= End
  BY <1>1 DEF To
<1>4. m <= From(c, m) /\ Start <= From(c, m) /\ From(c, m) \in Int
  BY <1>1, <1>2
<1>5. CandidateBlocks(c, m, End) \in SUBSET (m + 1 .. End)
  BY <1>1, <1>3, <1>4 DEF CandidateBlocks
<1>6. ASSUME NEW b \in m + 1 .. End
      PROVE  b \in CandidateBlocks(c, m, End) <=> b \in CandidateBlocks(c, Start, End)
  <2>1. /\ From(c, m) \in {m, c.start} /\ From(c, Start) \in {Start, c.start}
        /\ c.start <= From(c, m) /\ c.start <= From(c, Start)
    BY <1>1, <1>2
  <2>2. b \in Int /\ m < b
    BY <1>1
  <2>3. From(c, m) < b <=> From(c, Start) < b
    BY <1>1, <2>1, <2>2
  <2>4. From(c, Start) \in Int
    BY <1>1, <1>2
  <2> QED
    BY <1>3, <1>4, <2>2, <2>3, <2>4 DEF CandidateBlocks
<1>7. ASSUME NEW k \in m .. End PROVE From(c, m) <= From(c, k)
  <2>1. k \in Int /\ m <= k
    BY <1>1
  <2>2. k <= From(c, k) /\ c.start <= From(c, k) /\ From(c, k) \in Int
    BY <1>2, <2>1
  <2>3. From(c, m) \in {m, c.start}
    BY <1>1, <1>2
  <2> QED
    BY <1>1, <2>1, <2>2, <2>3
<1> QED
  BY <1>3, <1>4, <1>5, <1>6, <1>7

\* what a delegation of amount to the candidate c earns after the block height m
Earning(l, amount, c, m) == DelegationReward(amount, l, c, m, End, RewardDivider)

(* What a delegation earns from a height on is the sum of its blocks, to within *)
(* one division per governance variable.                                        *)
LEMMA EarningNear ==
    ASSUME NEW l \in GVLists, NEW amount \in Nat, NEW c \in [start : Nat, end : Nat],
           NEW m \in Start .. End, NEW x,
           \A b \in CandidateBlocks(c, m, End) : x[b] = RateOf(l, amount, b)
    PROVE  LET R == Earning(l, amount, c, m)
               X == SumFunctionOnSet(x, CandidateBlocks(c, m, End))
           IN  /\ R \in Nat /\ X \in Nat /\ RewardDivider * R <= X
               /\ X <= RewardDivider * R + Len(l) * RewardDivider
               /\ \A b \in CandidateBlocks(c, m, End) : x[b] \in Nat
<1> DEFINE I == DOMAIN l
           D == RewardDivider
           s == From(c, m)
           e == To(c, End)
           B == CandidateBlocks(c, m, End)
           w == [i \in I |-> amount * l[i].rewardRep]
           v == [i \in I |-> Cardinality(Period(l, i, s, e)) * w[i]]
           f == [i \in I |-> v[i] \div D]
<1>1. HasHeights(l) /\ IsFiniteSet(I) /\ D \in Nat /\ D > 0 /\ I = 1 .. Len(l) /\ Len(l) \in Nat
  BY ListHeights, IndicesFinite, ListEntries, TermRewardsAssumption
<1>2. /\ s \in Int /\ e \in Int /\ Start <= s /\ e <= End /\ B = s + 1 .. e
      /\ B \in SUBSET (m + 1 .. End)
  BY CandidateFrom DEF CandidateBlocks
<1>3. \A i \in I : l[i].rewardRep \in Nat /\ w[i] \in Nat
  <2> SUFFICES ASSUME NEW i \in I PROVE l[i].rewardRep \in Nat /\ w[i] \in Nat
    OBVIOUS
  <2>1. l[i].rewardRep \in Nat
    BY ListEntries DEF GovernanceVariable
  <2> QED
    BY <2>1
<1>4. \A i \in I : Cardinality(Period(l, i, s, e)) \in Nat
  <2> HIDE DEF s, e
  <2> QED
    BY <1>1, <1>2, PeriodFinite
<1>5. \A i \in I : v[i] \in Nat /\ v[i] = Cardinality(Period(l, i, s, e)) * w[i]
  <2> SUFFICES ASSUME NEW i \in I
               PROVE  v[i] \in Nat /\ v[i] = Cardinality(Period(l, i, s, e)) * w[i]
    OBVIOUS
  <2>1. w[i] \in Nat /\ Cardinality(Period(l, i, s, e)) \in Nat
    BY <1>3, <1>4
  <2>2. v[i] = Cardinality(Period(l, i, s, e)) * w[i]
    OBVIOUS
  <2> HIDE DEF w, v, s, e
  <2> QED
    BY <2>1, <2>2
<1>6. ASSUME NEW i \in I
      PROVE  /\ f[i] \in Nat /\ v[i] \in Int /\ D * f[i] <= v[i] /\ v[i] <= D * f[i] + D
             /\ f[i] = (amount * DelegationPeriod(l, i, c, m, End) * l[i].rewardRep) \div D
  <2>1. f[i] = v[i] \div D /\ v[i] \in Nat
    BY <1>5
  <2>2. amount * DelegationPeriod(l, i, c, m, End) * l[i].rewardRep = v[i]
    <3>1. PICK n \in Nat : n = Cardinality(Period(l, i, s, e))
      BY <1>4
    <3>2. PICK r \in Nat : r = l[i].rewardRep
      BY <1>3
    <3>3. DelegationPeriod(l, i, c, m, End) = n
      BY <3>1 DEF DelegationPeriod
    <3>4. v[i] = n * (amount * r)
      BY <3>1, <3>2
    <3>5. amount * n * r = n * (amount * r)
      BY Z3T(30)
    <3> QED
      BY <3>2, <3>3, <3>4, <3>5
  <2> HIDE DEF v, f, D
  <2>3. v[i] \div D \in Nat /\ D * (v[i] \div D) <= v[i] /\ v[i] <= D * (v[i] \div D) + D
    BY <1>1, <2>1, DivBounds
  <2> QED
    BY <2>1, <2>2, <2>3
<1>7. Earning(l, amount, c, m) = SumFunctionOnSet(f, I)
  <2> DEFINE h == [i \in I |-> (amount * DelegationPeriod(l, i, c, m, End) * l[i].rewardRep) \div D]
  <2>1. Earning(l, amount, c, m) = SumFunction(h)
    BY DEF Earning, DelegationReward
  <2>2. DOMAIN h = I
    OBVIOUS
  <2>3. \A i \in I : f[i] \in Int /\ h[i] = f[i]
    BY <1>6
  <2> HIDE DEF f, h, I
  <2>4. SumFunctionOnSet(h, I) = SumFunctionOnSet(f, I)
    BY <1>1, <2>3, SumEqual
  <2> QED
    BY <2>1, <2>2, <2>4 DEF SumFunction
<1>8. \A b \in B : x[b] = w[Max(Before(l, b))]
  <2> SUFFICES ASSUME NEW b \in B PROVE x[b] = w[Max(Before(l, b))]
    OBVIOUS
  <2>1. b \in Start + 1 .. End
    BY <1>2, TermRewardsAssumption
  <2>2. Max(Before(l, b)) \in I
    BY <2>1, GVFound
  <2>3. x[b] = amount * l[Max(Before(l, b))].rewardRep
    BY DEF RateOf, GVByBlockHeight
  <2> QED
    BY <2>2, <2>3
<1>9. /\ SumFunctionOnSet(v, I) = SumFunctionOnSet(x, B)
      /\ \A b \in B : x[b] \in Nat
  <2>1. \A b \in s + 1 .. e : x[b] = w[Max(Before(l, b))]
    BY <1>2, <1>8
  <2>2. \A i \in DOMAIN l : w[i] \in Nat
    BY <1>3
  <2>3. \A i \in DOMAIN l : v[i] = Cardinality(Period(l, i, s, e)) * w[i]
    BY <1>5
  <2> HIDE DEF w, v, s, e, B, I, D, f
  <2>4. /\ SumFunctionOnSet(v, DOMAIN l) = SumFunctionOnSet(x, s + 1 .. e)
        /\ \A b \in s + 1 .. e : x[b] \in Nat
    <3>1. s \in Int /\ e \in Int /\ Start <= s /\ e <= End
      BY <1>2
    <3>2. Weighs(l, s, e, w, x, v)
      BY <2>1, <2>2, <2>3 DEF Weighs
    <3> QED
      BY <3>1, <3>2, PeriodSum
  <2>5. B = s + 1 .. e
    BY <1>2
  <2> QED
    BY <2>4, <2>5 DEF I
<1>10. /\ SumFunctionOnSet(f, I) \in Nat /\ SumFunctionOnSet(v, I) \in Nat
       /\ D * SumFunctionOnSet(f, I) <= SumFunctionOnSet(v, I)
       /\ SumFunctionOnSet(v, I) <= D * SumFunctionOnSet(f, I) + Cardinality(I) * D
  <2>1. \A i \in I : f[i] \in Nat /\ v[i] \in Nat
    BY <1>5, <1>6
  <2>2. \A i \in I : f[i] \in Int /\ v[i] \in Int /\ D * f[i] <= v[i] /\ v[i] <= D * f[i] + D
    BY <1>6
  <2> HIDE DEF f, v, I, D
  <2>3. SumFunctionOnSet(f, I) \in Nat /\ SumFunctionOnSet(v, I) \in Nat
    BY <1>1, <2>1, SumNat
  <2>4. /\ D * SumFunctionOnSet(f, I) <= SumFunctionOnSet(v, I)
        /\ SumFunctionOnSet(v, I) <= D * SumFunctionOnSet(f, I) + Cardinality(I) * D
    BY <1>1, <2>2, NearSum
  <2> QED
    BY <2>3, <2>4
<1>11. Cardinality(I) = Len(l)
  <2>1. PICK n \in Nat : n = Len(l) /\ I = 1 .. n
    BY <1>1
  <2>2. Cardinality(1 .. n) = n
    BY FS_Interval
  <2> QED
    BY <2>1, <2>2
<1> HIDE DEF I, s, e, B, w, v, f
<1>12. /\ Earning(l, amount, c, m) \in Nat /\ SumFunctionOnSet(x, B) \in Nat
       /\ D * Earning(l, amount, c, m) <= SumFunctionOnSet(x, B)
       /\ SumFunctionOnSet(x, B) <= D * Earning(l, amount, c, m) + Len(l) * D
  BY <1>7, <1>9, <1>10, <1>11
<1> QED
  BY <1>9, <1>12 DEF B

(* A later start earns no more. *)
LEMMA EarningMono ==
    ASSUME NEW l \in GVLists, NEW amount \in Nat, NEW c \in [start : Nat, end : Nat],
           NEW m \in Start .. End, NEW k \in m .. End
    PROVE  Earning(l, amount, c, k) <= Earning(l, amount, c, m)
<1> DEFINE I == DOMAIN l
           D == RewardDivider
           n(i, h) == amount * DelegationPeriod(l, i, c, h, End) * l[i].rewardRep
           f(h) == [i \in I |-> n(i, h) \div D]
<1>1. /\ HasHeights(l) /\ IsFiniteSet(I) /\ D \in Nat /\ D > 0
      /\ Start \in Int /\ End \in Int /\ k \in Start .. End
  BY ListHeights, IndicesFinite, TermRewardsAssumption
<1>2. /\ From(c, m) \in Int /\ To(c, End) \in Int /\ From(c, k) \in Int
      /\ From(c, m) <= From(c, k)
  <2>1. From(c, m) \in Int /\ To(c, End) \in Int /\ From(c, m) <= From(c, k)
    BY CandidateFrom
  <2>2. From(c, k) \in Int
    BY <1>1, CandidateFrom
  <2> QED
    BY <2>1, <2>2
<1>3. ASSUME NEW i \in I
      PROVE  /\ n(i, k) \div D \in Int /\ n(i, m) \div D \in Int
             /\ n(i, k) \div D <= n(i, m) \div D
  <2>1. PICK h \in Int : h = l[i].blockHeight
    BY <1>1 DEF HasHeights
  <2>2. PICK r \in Nat : r = l[i].rewardRep
    BY ListEntries DEF GovernanceVariable
  <2> DEFINE Pk == Period(l, i, From(c, k), To(c, End))
             Pm == Period(l, i, From(c, m), To(c, End))
  <2>3. /\ IsFiniteSet(Pm) /\ Cardinality(Pm) \in Nat /\ Cardinality(Pk) \in Nat
    BY <1>1, <1>2, PeriodFinite
  <2>4. Pk \in SUBSET Pm
    <3> DEFINE sk == Max({From(c, k), l[i].blockHeight})
               sm == Max({From(c, m), l[i].blockHeight})
               e == IF i < Len(l) /\ l[i + 1].blockHeight < To(c, End)
                    THEN l[i + 1].blockHeight ELSE To(c, End)
    <3>1. /\ sk >= From(c, k) /\ sk >= h /\ sk \in Int
          /\ sm \in {From(c, m), h} /\ sm \in Int
      BY <1>2, <2>1, MaxOfTwo
    <3>2. sm <= sk
      BY <1>2, <2>1, <3>1
    <3>3. e \in Int
      BY <1>1, <1>2 DEF HasHeights
    <3>4. Pk = (sk + 1) .. e /\ Pm = (sm + 1) .. e
      BY DEF Period
    <3> HIDE DEF sk, sm, e, Pk, Pm
    <3> QED
      BY <3>1, <3>2, <3>3, <3>4
  <2>5. Cardinality(Pk) <= Cardinality(Pm)
    <3> HIDE DEF Pk, Pm
    <3> QED
      BY <2>3, <2>4, FS_Subset
  <2>6. n(i, k) = amount * Cardinality(Pk) * r /\ n(i, m) = amount * Cardinality(Pm) * r
    BY <2>2 DEF DelegationPeriod
  <2>7. PICK x \in Nat : x = Cardinality(Pk)
    BY <2>3
  <2>8. PICK y \in Nat : y = Cardinality(Pm)
    BY <2>3
  <2>9. n(i, k) = (amount * r) * x /\ n(i, m) = (amount * r) * y /\ amount * r \in Nat
    <3>1. amount * x * r = (amount * r) * x /\ amount * y * r = (amount * r) * y
      BY Z3T(30)
    <3>2. n(i, k) = amount * x * r /\ n(i, m) = amount * y * r
      BY <2>6, <2>7, <2>8
    <3> QED
      BY <3>1, <3>2
  <2>10. x <= y
    BY <2>5, <2>7, <2>8
  <2> HIDE DEF n, D
  <2>11. n(i, k) \in Nat /\ n(i, m) \in Nat /\ n(i, k) <= n(i, m)
    <3>1. PICK u \in Nat : u = amount * r
      BY <2>9
    <3>2. u * x \in Nat /\ u * x <= u * y
      BY <2>10, ProductMono
    <3>3. u * y \in Nat
      OBVIOUS
    <3> QED
      BY <2>9, <3>1, <3>2, <3>3
  <2>12. n(i, k) \div D <= n(i, m) \div D
    BY <1>1, <2>11, DivMono
  <2>13. n(i, k) \div D \in Int /\ n(i, m) \div D \in Int
    BY <1>1, <2>11, DivInt
  <2> QED
    BY <2>12, <2>13
<1>4. Earning(l, amount, c, k) = SumFunctionOnSet(f(k), I)
  <2>1. Earning(l, amount, c, k) = SumFunction(f(k)) /\ DOMAIN f(k) = I
    BY DEF Earning, DelegationReward
  <2> QED
    BY <2>1 DEF SumFunction
<1>5. Earning(l, amount, c, m) = SumFunctionOnSet(f(m), I)
  <2>1. Earning(l, amount, c, m) = SumFunction(f(m)) /\ DOMAIN f(m) = I
    BY DEF Earning, DelegationReward
  <2> QED
    BY <2>1 DEF SumFunction
<1> DEFINE fk == f(k)
           fm == f(m)
<1>6. \A i \in I : fk[i] \in Int /\ fm[i] \in Int /\ fk[i] <= fm[i]
  <2> HIDE DEF n, D
  <2> QED
    BY <1>3
<1>7. Earning(l, amount, c, k) = SumFunctionOnSet(fk, I) /\ Earning(l, amount, c, m) = SumFunctionOnSet(fm, I)
  BY <1>4, <1>5
<1> HIDE DEF fk, fm, I, f
<1>8. SumFunctionOnSet(fk, I) <= SumFunctionOnSet(fm, I)
  BY <1>1, <1>6, SumLeq
<1> QED
  BY <1>7, <1>8

-----------------------------------------------------------------------------
(* What an account earns with a delegation d from a block height on, and what *)
(* it is owed block by block.                                               *)

ValidIn(d) == {p \in DOMAIN d \cap DOMAIN Candidate : d[p] >= MinDelegation}
RateIn(l, d, b) ==
    SumFunction([p \in {p \in ValidIn(d) : b \in CandidateBlocks(Candidate[p], Start, End)} |->
                   RateOf(l, d[p], b)])
Rates(l, d) == [b \in Start + 1 .. End |-> RateIn(l, d, b)]
Earns(l, d, m) == SumFunction([p \in ValidIn(d) |-> Earning(l, d[p], Candidate[p], m)])
Owed(l, d, m) == SumFunctionOnSet(Rates(l, d), m + 1 .. End)
Rounding(l) == RewardDivider * (Len(l) * Cardinality(DOMAIN Candidate))

(* The delegations that are rewarded go to candidates. *)
LEMMA ValidInIs ==
    ASSUME NEW d \in Amounts
    PROVE  /\ IsFiniteSet(ValidIn(d)) /\ IsFiniteSet(DOMAIN Candidate)
           /\ Cardinality(ValidIn(d)) \in Nat /\ Cardinality(DOMAIN Candidate) \in Nat
           /\ Cardinality(ValidIn(d)) <= Cardinality(DOMAIN Candidate)
           /\ \A p \in ValidIn(d) : d[p] \in Nat /\ Candidate[p] \in [start : Nat, end : Nat]
<1>1. ValidIn(d) \in SUBSET DOMAIN Candidate /\ ValidIn(d) \in SUBSET DOMAIN d
  BY DEF ValidIn
<1>2. IsFiniteSet(DOMAIN Candidate)
  BY TermRewardsAssumption, FS_Subset
<1>3. /\ IsFiniteSet(ValidIn(d)) /\ Cardinality(ValidIn(d)) <= Cardinality(DOMAIN Candidate)
  BY <1>1, <1>2, FS_Subset
<1>4. Cardinality(ValidIn(d)) \in Nat /\ Cardinality(DOMAIN Candidate) \in Nat
  BY <1>2, <1>3, FS_CardinalityType
<1>5. \A p \in ValidIn(d) : d[p] \in Nat /\ Candidate[p] \in [start : Nat, end : Nat]
  BY <1>1, TermRewardsAssumption
<1> QED
  BY <1>2, <1>3, <1>4, <1>5

(* What an account is owed in a block. *)
LEMMA RateOfNat ==
    ASSUME NEW l \in GVLists, NEW amount \in Nat, NEW b \in Start + 1 .. End
    PROVE  RateOf(l, amount, b) \in Nat
<1>1. GVByBlockHeight(l, b) \in GovernanceVariable
  BY GVFound
<1>2. PICK r \in Nat : r = GVByBlockHeight(l, b).rewardRep
  BY <1>1 DEF GovernanceVariable
<1> QED
  BY <1>2 DEF RateOf

LEMMA RateInIs ==
    ASSUME NEW l \in GVLists, NEW d \in Amounts, NEW b \in Start + 1 .. End, NEW f,
           \A p \in ValidIn(d) : f[p] = IF b \in CandidateBlocks(Candidate[p], Start, End)
                                        THEN RateOf(l, d[p], b) ELSE 0
    PROVE  RateIn(l, d, b) = SumFunctionOnSet(f, ValidIn(d)) /\ RateIn(l, d, b) \in Nat
<1> DEFINE S == ValidIn(d)
           T == {p \in S : b \in CandidateBlocks(Candidate[p], Start, End)}
           g == [p \in T |-> RateOf(l, d[p], b)]
<1>1. IsFiniteSet(S) /\ T \in SUBSET S /\ \A p \in S : d[p] \in Nat
  BY ValidInIs
<1>2. \A p \in T : g[p] \in Nat /\ g[p] \in Int /\ f[p] = g[p]
  BY <1>1, RateOfNat
<1>3. \A p \in S \ T : f[p] = 0
  OBVIOUS
<1>4. RateIn(l, d, b) = SumFunction(g) /\ DOMAIN g = T
  BY DEF RateIn
<1> HIDE DEF S, T, g
<1>5. SumFunctionOnSet(f, S) = SumFunctionOnSet(g, T)
  BY <1>1, <1>2, <1>3, SumOfPart
<1>6. IsFiniteSet(T)
  BY <1>1, FS_Subset
<1>7. SumFunctionOnSet(g, T) \in Nat
  BY <1>2, <1>6, SumNat
<1> QED
  BY <1>4, <1>5, <1>7 DEF SumFunction, S

LEMMA RateInNat ==
    ASSUME NEW l \in GVLists, NEW d \in Amounts
    PROVE  \A b \in Start + 1 .. End : RateIn(l, d, b) \in Nat
<1> SUFFICES ASSUME NEW b \in Start + 1 .. End PROVE RateIn(l, d, b) \in Nat
  OBVIOUS
<1> DEFINE f == [p \in ValidIn(d) |-> IF b \in CandidateBlocks(Candidate[p], Start, End)
                                      THEN RateOf(l, d[p], b) ELSE 0]
<1>1. \A p \in ValidIn(d) : f[p] = IF b \in CandidateBlocks(Candidate[p], Start, End)
                                   THEN RateOf(l, d[p], b) ELSE 0
  OBVIOUS
<1> HIDE DEF f
<1> QED
  BY <1>1, RateInIs

(* What an account earns after a height is what it is owed after it, to within *)
(* one division per governance variable and candidate.                         *)
LEMMA EarnsNear ==
    ASSUME NEW l \in GVLists, NEW d \in Amounts, NEW m \in Start .. End
    PROVE  /\ Earns(l, d, m) \in Nat /\ Owed(l, d, m) \in Nat /\ Rounding(l) \in Nat
           /\ RewardDivider * Earns(l, d, m) <= Owed(l, d, m)
           /\ Owed(l, d, m) <= RewardDivider * Earns(l, d, m) + Rounding(l)
<1> DEFINE S == ValidIn(d)
           I == m + 1 .. End
           D == RewardDivider
           cell(b, p) == IF b \in CandidateBlocks(Candidate[p], Start, End)
                         THEN RateOf(l, d[p], b) ELSE 0
           t == [b \in I |-> [p \in S |-> cell(b, p)]]
           u == [p \in S |-> [b \in I |-> cell(b, p)]]
           c == Rates(l, d)
           r == [p \in S |-> SumFunctionOnSet(u[p], I)]
           f == [p \in S |-> Earning(l, d[p], Candidate[p], m)]
           E == Len(l) * D
<1>1. /\ IsFiniteSet(S) /\ \A p \in S : d[p] \in Nat /\ Candidate[p] \in [start : Nat, end : Nat]
      /\ Start \in Int /\ End \in Int /\ m \in Int /\ D \in Nat /\ D > 0 /\ Len(l) \in Nat
  BY ValidInIs, TermRewardsAssumption, ListEntries
<1>2. IsFiniteSet(I) /\ \A b \in I : b \in Start + 1 .. End
  <2>1. m + 1 \in Int /\ End \in Int /\ Start \in Int
    BY <1>1
  <2> QED
    BY <2>1, FS_Interval
<1>3. \A b \in I, p \in S : cell(b, p) \in Nat
  BY <1>1, <1>2, RateOfNat
<1>4. \A b \in I, p \in S : t[b][p] = cell(b, p) /\ u[p][b] = cell(b, p)
  OBVIOUS
<1>5. ASSUME NEW b \in I PROVE c[b] = SumFunctionOnSet(t[b], S) /\ c[b] \in Nat
  <2> DEFINE g == t[b]
  <2>1. \A p \in S : g[p] = cell(b, p)
    OBVIOUS
  <2>2. c[b] = RateIn(l, d, b)
    BY <1>2 DEF Rates
  <2> HIDE DEF g, t, c
  <2>3. RateIn(l, d, b) = SumFunctionOnSet(g, ValidIn(d)) /\ RateIn(l, d, b) \in Nat
    BY <1>2, <2>1, RateInIs
  <2> QED
    BY <2>2, <2>3 DEF g
<1>6. \A p \in S : r[p] = SumFunctionOnSet(u[p], I)
  OBVIOUS
<1>7. SumFunctionOnSet(r, S) = SumFunctionOnSet(c, I)
  <2>1. \A b \in I, p \in S : t[b][p] \in Int /\ u[p][b] = t[b][p]
    BY <1>3, <1>4
  <2> HIDE DEF r, c, t, u, I, S, cell
  <2>2. IsTable(I, S, t, u, c, r)
    BY <1>5, <1>6, <2>1 DEF IsTable
  <2> QED
    BY <1>1, <1>2, <2>2, SumSwap
<1>8. ASSUME NEW p \in S
      PROVE  /\ f[p] \in Nat /\ r[p] \in Nat /\ D * f[p] <= r[p] /\ r[p] <= D * f[p] + E
  <2> DEFINE B == CandidateBlocks(Candidate[p], m, End)
             x == [b \in B |-> RateOf(l, d[p], b)]
             g == u[p]
  <2>1. d[p] \in Nat /\ Candidate[p] \in [start : Nat, end : Nat]
    BY <1>1
  <2>2. B \in SUBSET I /\ \A b \in I : b \in B <=> b \in CandidateBlocks(Candidate[p], Start, End)
    BY <2>1, CandidateFrom
  <2>3. \A b \in B : x[b] = RateOf(l, d[p], b)
    OBVIOUS
  <2>4. /\ f[p] \in Nat /\ SumFunctionOnSet(x, B) \in Nat
        /\ D * f[p] <= SumFunctionOnSet(x, B)
        /\ SumFunctionOnSet(x, B) <= D * f[p] + E
        /\ \A b \in B : x[b] \in Nat
    <3>1. f[p] = Earning(l, d[p], Candidate[p], m)
      OBVIOUS
    <3> HIDE DEF x, f, u, r
    <3> QED
      BY <2>1, <2>3, <3>1, EarningNear
  <2>5. \A b \in B : g[b] = x[b] /\ x[b] \in Int
    BY <2>2, <2>4
  <2>6. \A b \in I \ B : g[b] = 0
    BY <2>2
  <2>7. r[p] = SumFunctionOnSet(g, I)
    OBVIOUS
  <2> HIDE DEF g, x, B, I, f, u, r
  <2>8. SumFunctionOnSet(g, I) = SumFunctionOnSet(x, B)
    BY <1>2, <2>2, <2>5, <2>6, SumOfPart
  <2> QED
    BY <2>4, <2>7, <2>8
<1>9. E \in Nat
  BY <1>1
<1>10. Earns(l, d, m) = SumFunctionOnSet(f, S)
  <2>1. Earns(l, d, m) = SumFunction(f) /\ DOMAIN f = S
    BY DEF Earns
  <2> HIDE DEF f, S
  <2> QED
    BY <2>1 DEF SumFunction
<1>11. Owed(l, d, m) = SumFunctionOnSet(c, I)
  BY DEF Owed
<1> HIDE DEF S, I, D, c, r, f, E, t, u, cell
<1>12. SumFunctionOnSet(f, S) \in Nat /\ SumFunctionOnSet(c, I) \in Nat
  BY <1>1, <1>2, <1>5, <1>8, SumNat
<1>13. /\ D * SumFunctionOnSet(f, S) <= SumFunctionOnSet(r, S)
       /\ SumFunctionOnSet(r, S) <= D * SumFunctionOnSet(f, S) + Cardinality(S) * E
  <2>1. \A p \in S : f[p] \in Int /\ r[p] \in Int /\ D * f[p] <= r[p] /\ r[p] <= D * f[p] + E
    BY <1>8
  <2>2. D \in Nat /\ IsFiniteSet(S)
    BY <1>1
  <2> QED
    BY <1>9, <2>1, <2>2, NearSum
<1>14. Cardinality(S) * E <= Rounding(l) /\ Rounding(l) \in Nat /\ Cardinality(S) * E \in Nat
  <2>1. PICK n \in Nat : n = Cardinality(S)
    BY ValidInIs DEF S
  <2>2. PICK k \in Nat : k = Cardinality(DOMAIN Candidate)
    BY ValidInIs
  <2>3. n <= k
    BY <2>1, <2>2, ValidInIs DEF S
  <2>4. PICK h \in Nat : h = Len(l)
    BY <1>1
  <2>5. PICK q \in Nat : q = D
    BY <1>1
  <2>6. (h * q) * n <= (h * q) * k /\ (h * q) * n \in Nat
    <3>1. h * q \in Nat
      OBVIOUS
    <3> QED
      BY <2>3, <3>1, ProductMono
  <2>7. Rounding(l) = q * (h * k) /\ Cardinality(S) * E = n * (h * q)
    BY <2>1, <2>2, <2>4, <2>5 DEF Rounding, E, D
  <2>8. q * (h * k) = (h * q) * k /\ n * (h * q) = (h * q) * n /\ q * (h * k) \in Nat
    BY Z3T(30)
  <2> QED
    BY <2>6, <2>7, <2>8
<1>15. D * SumFunctionOnSet(f, S) \in Nat
  BY <1>1, <1>12
<1>16. /\ Earns(l, d, m) \in Nat /\ Owed(l, d, m) \in Nat /\ Rounding(l) \in Nat
       /\ D * Earns(l, d, m) <= Owed(l, d, m)
       /\ Owed(l, d, m) <= D * Earns(l, d, m) + Rounding(l)
  BY <1>7, <1>10, <1>11, <1>12, <1>13, <1>14, <1>15
<1> QED
  BY <1>16 DEF D

LEMMA EarnsMono ==
    ASSUME NEW l \in GVLists, NEW d \in Amounts, NEW m \in Start .. End, NEW k \in m .. End
    PROVE  Earns(l, d, k) <= Earns(l, d, m)
<1> DEFINE S == ValidIn(d)
           f == [p \in S |-> Earning(l, d[p], Candidate[p], m)]
           g == [p \in S |-> Earning(l, d[p], Candidate[p], k)]
<1>1. IsFiniteSet(S) /\ \A p \in S : d[p] \in Nat /\ Candidate[p] \in [start : Nat, end : Nat]
  BY ValidInIs
<1>2. k \in Start .. End /\ End \in Int
  BY TermRewardsAssumption
<1>3. \A p \in S : f[p] \in Int /\ g[p] \in Int /\ g[p] <= f[p]
  <2> SUFFICES ASSUME NEW p \in S PROVE f[p] \in Int /\ g[p] \in Int /\ g[p] <= f[p]
    OBVIOUS
  <2>1. /\ f[p] = Earning(l, d[p], Candidate[p], m)
        /\ g[p] = Earning(l, d[p], Candidate[p], k)
    OBVIOUS
  <2>2. Earning(l, d[p], Candidate[p], k) <= Earning(l, d[p], Candidate[p], m)
    BY <1>1, EarningMono
  <2>3. Earning(l, d[p], Candidate[p], k) \in Int /\ Earning(l, d[p], Candidate[p], m) \in Int
    BY <1>1, <1>2, DelegationRewardInt DEF Earning
  <2> HIDE DEF f, g
  <2> QED
    BY <2>1, <2>2, <2>3
<1>4. Earns(l, d, m) = SumFunction(f) /\ DOMAIN f = S
  BY DEF Earns
<1>5. Earns(l, d, k) = SumFunction(g) /\ DOMAIN g = S
  BY DEF Earns
<1> HIDE DEF f, g, S
<1>6. SumFunctionOnSet(g, S) <= SumFunctionOnSet(f, S)
  BY <1>1, <1>3, SumLeq
<1> QED
  BY <1>4, <1>5, <1>6 DEF SumFunction

(* Without delegations nothing is earned and nothing is owed. *)
LEMMA NothingEarned ==
    ASSUME NEW l \in GVLists, NEW m \in Start .. End
    PROVE  /\ Earns(l, NoResult, m) = 0 /\ Owed(l, NoResult, m) = 0
           /\ \A b \in Start + 1 .. End : RateIn(l, NoResult, b) = 0
<1>1. ValidIn(NoResult) = {}
  BY DEF ValidIn, NoResult
<1>2. \A h : DOMAIN h = {} => SumFunction(h) = 0
  BY SumEmpty DEF SumFunction
<1>3. Earns(l, NoResult, m) = 0
  <2> DEFINE h == [p \in ValidIn(NoResult) |-> Earning(l, NoResult[p], Candidate[p], m)]
  <2>1. Earns(l, NoResult, m) = SumFunction(h)
    BY DEF Earns
  <2>2. DOMAIN h = {}
    BY <1>1
  <2> HIDE DEF h
  <2> QED
    BY <1>2, <2>1, <2>2
<1>4. ASSUME NEW b \in Start + 1 .. End PROVE RateIn(l, NoResult, b) = 0
  <2> DEFINE T == {p \in ValidIn(NoResult) : b \in CandidateBlocks(Candidate[p], Start, End)}
             h == [p \in T |-> RateOf(l, NoResult[p], b)]
  <2>1. RateIn(l, NoResult, b) = SumFunction(h)
    BY DEF RateIn
  <2>2. DOMAIN h = {}
    BY <1>1
  <2> HIDE DEF h
  <2> QED
    BY <1>2, <2>1, <2>2
<1>5. Owed(l, NoResult, m) = 0
  <2>1. IsFiniteSet(m + 1 .. End) /\ \A b \in m + 1 .. End : b \in Start + 1 .. End
    <3>1. m + 1 \in Int /\ End \in Int /\ Start \in Int
      BY TermRewardsAssumption
    <3> QED
      BY <3>1, FS_Interval
  <2> DEFINE f == Rates(l, NoResult)
  <2>2. \A b \in m + 1 .. End : f[b] = 0
    BY <1>4, <2>1 DEF Rates
  <2> HIDE DEF f
  <2>3. SumFunctionOnSet(f, m + 1 .. End) = 0
    BY <2>1, <2>2, SumZero
  <2> QED
    BY <2>3 DEF Owed, f
<1> QED
  BY <1>3, <1>4, <1>5

-----------------------------------------------------------------------------
(* What an account a has, as the transactions T of the list x left it: rd is *)
(* its entry in the query DB, held the delegation of its entry in the        *)
(* calculate DB and gain what it got in the term.                            *)

Earlier(x, n) == {i \in DOMAIN x : i < n}
IsNext(x, a, n, T) == x[n].addr = a /\ T = Earlier(x, n)
TXsIn(x, a, T) == {i \in T : x[i].addr = a}
SetBefore(x, a, b, T) == {i \in T : x[i].addr = a /\ x[i].blockHeight < b}
DelegationIn(x, rd, a, b, T) ==
    IF SetBefore(x, a, b, T) # {} THEN x[Max(SetBefore(x, a, b, T))].delegation
    ELSE IF rd = NoAccount THEN NoResult ELSE rd.delegation
RatesIn(l, x, rd, a, T) ==
    [b \in Start + 1 .. End |-> RateIn(l, DelegationIn(x, rd, a, b, T), b)]
ExactIn(l, x, rd, a, T) == SumFunctionOnSet(RatesIn(l, x, rd, a, T), Start + 1 .. End)

\* the gain is right to within the divisions, and what the delegation held earns after
\* the last transaction is part of it
Right(l, x, rd, held, gain, a, T) ==
    /\ held = DelegationIn(x, rd, a, End + 1, T)
    /\ RewardDivider * gain - ExactIn(l, x, rd, a, T)
         <= Rounding(l) * Cardinality(TXsIn(x, a, T))
    /\ -(Rounding(l) * (1 + Cardinality(TXsIn(x, a, T))))
         <= RewardDivider * gain - ExactIn(l, x, rd, a, T)
    /\ \A m \in Start .. End : (\A i \in TXsIn(x, a, T) : x[i].blockHeight <= m) =>
          Earns(l, held, m) <= gain

LEMMA NoResultIsAmount == NoResult \in Amounts
BY DEF Amounts

(* The list of transactions is in order, and within the term. *)
LEMMA TXIs ==
    ASSUME NEW x \in TXLists
    PROVE  /\ DOMAIN x = 1 .. Len(x) /\ Len(x) \in Nat /\ IsFiniteSet(DOMAIN x)
           /\ \A i \in DOMAIN x : /\ x[i].addr \in Account /\ x[i].delegation \in Amounts
                                  /\ x[i].blockHeight \in Int /\ Start < x[i].blockHeight
                                  /\ x[i].blockHeight <= End
           /\ \A i \in DOMAIN x, j \in DOMAIN x : i < j => x[i].blockHeight <= x[j].blockHeight
<1>1. /\ DOMAIN x = 1 .. Len(x) /\ Len(x) \in Nat
      /\ \A i \in DOMAIN x : x[i] \in DelegateTX
  BY ListEntries
<1>2. IsFiniteSet(DOMAIN x)
  BY <1>1, FS_Interval
<1>3. ASSUME NEW i \in DOMAIN x
      PROVE  /\ x[i].addr \in Account /\ x[i].delegation \in Amounts
             /\ x[i].blockHeight \in Int /\ Start < x[i].blockHeight /\ x[i].blockHeight <= End
  <2>1. x[i].addr \in Account /\ x[i].delegation \in Amounts /\ x[i].blockHeight \in Start + 1 .. End
    BY <1>1 DEF DelegateTX
  <2> QED
    BY <2>1, TermRewardsAssumption
<1>4. \A i \in DOMAIN x, j \in DOMAIN x : i < j => x[i].blockHeight <= x[j].blockHeight
  BY TermRewardsAssumption
<1> QED
  BY <1>1, <1>2, <1>3, <1>4

(* A delegation is one of the data. *)
LEMMA DelegationInIs ==
    ASSUME NEW x \in TXLists, NEW rd \in {NoAccount} \cup IScoreAccount, NEW a,
           NEW b \in Int, NEW T \in SUBSET DOMAIN x
    PROVE  DelegationIn(x, rd, a, b, T) \in Amounts
<1> DEFINE S == SetBefore(x, a, b, T)
<1>1. S \in SUBSET DOMAIN x
  BY DEF SetBefore
<1>2. CASE S = {}
  <2>1. rd # NoAccount => rd.delegation \in Amounts
    BY DEF IScoreAccount
  <2> QED
    BY <1>2, <2>1, NoResultIsAmount DEF DelegationIn
<1>3. CASE S # {}
  <2>1. IsFiniteSet(S) /\ S \subseteq Int
    <3>1. IsFiniteSet(DOMAIN x) /\ DOMAIN x \subseteq Int
      BY TXIs
    <3> QED
      BY <1>1, <3>1, FS_Subset
  <2> HIDE DEF S
  <2>2. Max(S) \in S
    BY <1>3, <2>1, MaxOfFinite
  <2>3. x[Max(S)].delegation \in Amounts
    BY <1>1, <2>2, TXIs
  <2> QED
    BY <1>3, <2>3 DEF DelegationIn, S
<1> QED
  BY <1>2, <1>3

LEMMA RatesInNat ==
    ASSUME NEW l \in GVLists, NEW x \in TXLists, NEW rd \in {NoAccount} \cup IScoreAccount, NEW a,
           NEW T \in SUBSET DOMAIN x
    PROVE  /\ \A b \in Start + 1 .. End : RatesIn(l, x, rd, a, T)[b] \in Nat
           /\ IsFiniteSet(Start + 1 .. End)
           /\ ExactIn(l, x, rd, a, T) \in Int
<1>1. IsFiniteSet(Start + 1 .. End) /\ Start + 1 .. End \subseteq Int
  <2>1. Start + 1 \in Int /\ End \in Int
    BY TermRewardsAssumption
  <2> QED
    BY <2>1, FS_Interval
<1> DEFINE f == RatesIn(l, x, rd, a, T)
<1>2. ASSUME NEW b \in Start + 1 .. End PROVE f[b] \in Nat
  <2>1. DelegationIn(x, rd, a, b, T) \in Amounts
    BY <1>1, DelegationInIs
  <2>2. RateIn(l, DelegationIn(x, rd, a, b, T), b) \in Nat
    BY <2>1, RateInNat
  <2> QED
    BY <2>2 DEF RatesIn
<1> HIDE DEF f
<1>3. SumFunctionOnSet(f, Start + 1 .. End) \in Int
  <2>1. \A b \in Start + 1 .. End : f[b] \in Int
    BY <1>2
  <2> QED
    BY <1>1, <2>1, SumInt
<1> QED
  BY <1>1, <1>2, <1>3 DEF f, ExactIn

(* Before the transactions an account has what it held all term. *)
LEMMA RightFirst ==
    ASSUME NEW l \in GVLists, NEW x \in TXLists, NEW rd \in {NoAccount} \cup IScoreAccount, NEW a,
           NEW held, held = IF rd = NoAccount THEN NoResult ELSE rd.delegation
    PROVE  /\ held \in Amounts
           /\ Right(l, x, rd, held, Earns(l, held, Start), a, {})
<1>1. held \in Amounts
  BY NoResultIsAmount DEF IScoreAccount
<1>2. \A b : DelegationIn(x, rd, a, b, {}) = held
  BY DEF DelegationIn, SetBefore
<1>3. Start \in Start .. End /\ Start \in Int /\ End \in Int
  BY TermRewardsAssumption
<1>4. ExactIn(l, x, rd, a, {}) = Owed(l, held, Start)
  <2>1. RatesIn(l, x, rd, a, {}) = Rates(l, held)
    BY <1>2 DEF RatesIn, Rates
  <2> QED
    BY <2>1 DEF ExactIn, Owed
<1>5. TXsIn(x, a, {}) = {} /\ Cardinality(TXsIn(x, a, {})) = 0
  <2>1. TXsIn(x, a, {}) = {}
    BY DEF TXsIn
  <2> QED
    BY <2>1, FS_EmptySet
<1>6. /\ Earns(l, held, Start) \in Nat /\ Owed(l, held, Start) \in Nat /\ Rounding(l) \in Nat
      /\ RewardDivider * Earns(l, held, Start) <= Owed(l, held, Start)
      /\ Owed(l, held, Start) <= RewardDivider * Earns(l, held, Start) + Rounding(l)
  BY <1>1, <1>3, EarnsNear
<1>7. \A m \in Start .. End : Earns(l, held, m) <= Earns(l, held, Start)
  BY <1>1, <1>3, EarnsMono
<1>8. PICK R \in Nat : R = Rounding(l)
  BY <1>6
<1>9. PICK E \in Int : E = RewardDivider * Earns(l, held, Start)
  BY <1>6, TermRewardsAssumption
<1>10. PICK O \in Int : O = Owed(l, held, Start)
  BY <1>6
<1>11. E - O <= R * 0 /\ -(R * (1 + 0)) <= E - O
  <2>1. E <= O /\ O <= E + R
    BY <1>6, <1>8, <1>9, <1>10
  <2>2. R * 0 = 0 /\ R * (1 + 0) = R
    OBVIOUS
  <2> QED
    BY <2>1, <2>2
<1>12. held = DelegationIn(x, rd, a, End + 1, {})
  BY <1>2
<1>13. /\ RewardDivider * Earns(l, held, Start) - ExactIn(l, x, rd, a, {})
            <= Rounding(l) * Cardinality(TXsIn(x, a, {}))
       /\ -(Rounding(l) * (1 + Cardinality(TXsIn(x, a, {}))))
            <= RewardDivider * Earns(l, held, Start) - ExactIn(l, x, rd, a, {})
  BY <1>4, <1>5, <1>8, <1>9, <1>10, <1>11
<1> QED
  BY <1>1, <1>7, <1>12, <1>13 DEF Right

(* A transaction of another account changes nothing. *)
LEMMA RightOther ==
    ASSUME NEW l, NEW x, NEW rd, NEW held, NEW gain, NEW a, NEW T,
           NEW n, x[n].addr # a, Right(l, x, rd, held, gain, a, T)
    PROVE  Right(l, x, rd, held, gain, a, T \cup {n})
<1>1. TXsIn(x, a, T \cup {n}) = TXsIn(x, a, T)
  BY DEF TXsIn
<1>2. \A b : SetBefore(x, a, b, T \cup {n}) = SetBefore(x, a, b, T)
  BY DEF SetBefore
<1>3. \A b : DelegationIn(x, rd, a, b, T \cup {n}) = DelegationIn(x, rd, a, b, T)
  BY <1>2 DEF DelegationIn
<1>4. ExactIn(l, x, rd, a, T \cup {n}) = ExactIn(l, x, rd, a, T)
  <2>1. RatesIn(l, x, rd, a, T \cup {n}) = RatesIn(l, x, rd, a, T)
    BY <1>3 DEF RatesIn
  <2> QED
    BY <2>1 DEF ExactIn
<1>5. DelegationIn(x, rd, a, End + 1, T \cup {n}) = DelegationIn(x, rd, a, End + 1, T)
  BY <1>3
<1> QED
  BY <1>1, <1>4, <1>5, Zenon DEF Right

(* The delegations before and after the next transaction of an account. *)
LEMMA DelegationPast ==
    ASSUME NEW x \in TXLists, NEW rd \in {NoAccount} \cup IScoreAccount, NEW a,
           NEW n \in DOMAIN x, NEW T, IsNext(x, a, n, T),
           NEW b \in Int, b > x[n].blockHeight
    PROVE  /\ DelegationIn(x, rd, a, b, T \cup {n}) = x[n].delegation
           /\ DelegationIn(x, rd, a, b, T) = DelegationIn(x, rd, a, End + 1, T)
<1> USE DEF IsNext
<1> DEFINE e == x[n].blockHeight
           N == TXsIn(x, a, T)
<1>1. /\ e \in Int /\ e <= End /\ Start \in Int /\ End \in Int /\ DOMAIN x \subseteq Int
      /\ n \in Int
  BY TXIs, TermRewardsAssumption
<1>2. \A i \in T : i \in DOMAIN x /\ i < n /\ x[i].blockHeight \in Int /\ x[i].blockHeight <= e
  BY TXIs DEF Earlier
<1>3. SetBefore(x, a, b, T) = N
  <2>1. \A i \in T : x[i].blockHeight < b
    BY <1>1, <1>2
  <2> QED
    BY <2>1 DEF SetBefore, TXsIn
<1>4. SetBefore(x, a, End + 1, T) = N
  <2>1. \A i \in T : x[i].blockHeight < End + 1
    BY <1>1, <1>2
  <2> QED
    BY <2>1 DEF SetBefore, TXsIn
<1>5. SetBefore(x, a, b, T \cup {n}) = N \cup {n}
  <2>1. x[n].blockHeight < b /\ n \in T \cup {n}
    BY <1>1
  <2>2. SetBefore(x, a, b, T \cup {n}) = SetBefore(x, a, b, T) \cup {n}
    BY <2>1 DEF SetBefore
  <2> QED
    BY <1>3, <2>2
<1>6. Max(N \cup {n}) = n
  <2>1. \A j \in N : j \in Int /\ j < n
    BY <1>1, <1>2 DEF TXsIn
  <2> DEFINE S == N \cup {n}
  <2>2. S \subseteq Int /\ n \in S /\ \A j \in S : n >= j
    BY <1>1, <2>1
  <2> HIDE DEF S
  <2>3. Max(S) = n
    BY <2>2, MaxIs
  <2> QED
    BY <2>3 DEF S
<1>7. DelegationIn(x, rd, a, b, T) = DelegationIn(x, rd, a, End + 1, T)
  BY <1>3, <1>4 DEF DelegationIn
<1>8. DelegationIn(x, rd, a, b, T \cup {n}) = x[n].delegation
  <2> HIDE DEF N
  <2>1. SetBefore(x, a, b, T \cup {n}) # {} /\ Max(SetBefore(x, a, b, T \cup {n})) = n
    BY <1>5, <1>6
  <2> QED
    BY <2>1 DEF DelegationIn
<1> QED
  BY <1>7, <1>8

LEMMA DelegationUpTo ==
    ASSUME NEW x \in TXLists, NEW rd, NEW a, NEW n \in DOMAIN x, NEW T,
           NEW b \in Int, b <= x[n].blockHeight
    PROVE  DelegationIn(x, rd, a, b, T \cup {n}) = DelegationIn(x, rd, a, b, T)
<1>1. x[n].blockHeight \in Int
  BY TXIs
<1>2. ~(x[n].blockHeight < b)
  BY <1>1
<1>3. SetBefore(x, a, b, T \cup {n}) = SetBefore(x, a, b, T)
  BY <1>2 DEF SetBefore
<1> QED
  BY <1>3 DEF DelegationIn

(* How a transaction changes the sum of the blocks. *)
LEMMA ExactAfter ==
    ASSUME NEW l \in GVLists, NEW x \in TXLists, NEW rd \in {NoAccount} \cup IScoreAccount, NEW a,
           NEW n \in DOMAIN x, NEW T, IsNext(x, a, n, T),
           NEW held, held = DelegationIn(x, rd, a, End + 1, T)
    PROVE  ExactIn(l, x, rd, a, T \cup {n}) =
             ExactIn(l, x, rd, a, T) - Owed(l, held, x[n].blockHeight)
               + Owed(l, x[n].delegation, x[n].blockHeight)
<1> DEFINE e == x[n].blockHeight
           f == RatesIn(l, x, rd, a, T)
           g == RatesIn(l, x, rd, a, T \cup {n})
           p == Rates(l, held)
           q == Rates(l, x[n].delegation)
           L == Start + 1 .. e
           H == e + 1 .. End
           B == Start + 1 .. End
<1>1. e \in Int /\ Start < e /\ e <= End /\ Start \in Int /\ End \in Int
  BY TXIs, TermRewardsAssumption
<1>2. T \in SUBSET DOMAIN x /\ T \cup {n} \in SUBSET DOMAIN x
  BY DEF Earlier, IsNext
<1>3. \A b \in B : f[b] \in Nat /\ g[b] \in Nat
  BY <1>2, RatesInNat
<1>4. \A b \in L : g[b] = f[b]
  <2> SUFFICES ASSUME NEW b \in L PROVE g[b] = f[b]
    OBVIOUS
  <2>1. b \in B /\ b \in Start + 1 .. End + 1 /\ b <= x[n].blockHeight
    BY <1>1
  <2>2. DelegationIn(x, rd, a, b, T \cup {n}) = DelegationIn(x, rd, a, b, T)
    <3> HIDE DEF e, f, g, p, q, L, H, B
    <3>1. b \in Int /\ b <= x[n].blockHeight
      BY <1>1, <2>1
    <3> QED
      BY <3>1, DelegationUpTo
  <2> QED
    BY <2>1, <2>2 DEF RatesIn
<1>5. \A b \in H : f[b] = p[b] /\ g[b] = q[b]
  <2> SUFFICES ASSUME NEW b \in H PROVE f[b] = p[b] /\ g[b] = q[b]
    OBVIOUS
  <2>1. b \in B /\ b \in Start + 1 .. End + 1 /\ b > x[n].blockHeight
    BY <1>1
  <2>2. /\ DelegationIn(x, rd, a, b, T \cup {n}) = x[n].delegation
        /\ DelegationIn(x, rd, a, b, T) = held
    <3> HIDE DEF e, f, g, p, q, L, H, B
    <3>1. b \in Int /\ b > x[n].blockHeight
      BY <1>1, <2>1
    <3> QED
      BY <3>1, DelegationPast
  <2> QED
    BY <2>1, <2>2 DEF RatesIn, Rates
<1>6. B = L \cup H /\ L \cap H = {} /\ IsFiniteSet(L) /\ IsFiniteSet(H)
  <2>1. IsFiniteSet(L) /\ IsFiniteSet(H)
    <3>1. Start + 1 \in Int /\ e + 1 \in Int
      BY <1>1
    <3> HIDE DEF e
    <3> QED
      BY <1>1, <3>1, FS_Interval
  <2>2. B = L \cup H /\ L \cap H = {}
    BY <1>1
  <2> QED
    BY <2>1, <2>2
<1>7. \A b \in L \cup H : f[b] \in Int /\ g[b] \in Int
  <2> HIDE DEF f, g, L, H, B
  <2> QED
    BY <1>3, <1>6
<1>8. /\ ExactIn(l, x, rd, a, T) = SumFunctionOnSet(f, B)
      /\ ExactIn(l, x, rd, a, T \cup {n}) = SumFunctionOnSet(g, B)
      /\ Owed(l, held, e) = SumFunctionOnSet(p, H)
      /\ Owed(l, x[n].delegation, e) = SumFunctionOnSet(q, H)
  BY DEF ExactIn, Owed
<1> HIDE DEF e, f, g, p, q, L, H, B
<1>9. SumFunctionOnSet(f, L \cup H) = SumFunctionOnSet(f, L) + SumFunctionOnSet(f, H)
  BY <1>6, <1>7, SumUnion
<1>10. SumFunctionOnSet(g, L \cup H) = SumFunctionOnSet(g, L) + SumFunctionOnSet(g, H)
  BY <1>6, <1>7, SumUnion
<1>11. SumFunctionOnSet(g, L) = SumFunctionOnSet(f, L)
  BY <1>4, <1>6, <1>7, SumEqual
<1>12. SumFunctionOnSet(p, H) = SumFunctionOnSet(f, H)
  BY <1>5, <1>6, <1>7, SumEqual
<1>13. SumFunctionOnSet(q, H) = SumFunctionOnSet(g, H)
  BY <1>5, <1>6, <1>7, SumEqual
<1>14. /\ SumFunctionOnSet(f, L) \in Int /\ SumFunctionOnSet(f, H) \in Int
       /\ SumFunctionOnSet(g, H) \in Int
  BY <1>6, <1>7, SumInt
<1>15. ExactIn(l, x, rd, a, T \cup {n}) =
         ExactIn(l, x, rd, a, T) - Owed(l, held, e) + Owed(l, x[n].delegation, e)
  BY <1>6, <1>8, <1>9, <1>10, <1>11, <1>12, <1>13, <1>14
<1> QED
  BY <1>15 DEF e

LEMMA TheNextTX ==
    ASSUME NEW x \in TXLists, NEW rd \in {NoAccount} \cup IScoreAccount, NEW a,
           NEW n \in DOMAIN x, NEW T, IsNext(x, a, n, T)
    PROVE  DelegationIn(x, rd, a, End + 1, T \cup {n}) = x[n].delegation
<1>1. PICK b \in Int : b = End + 1 /\ b > x[n].blockHeight
  <2>1. End + 1 \in Int /\ End + 1 > x[n].blockHeight
    BY TXIs, TermRewardsAssumption
  <2> QED
    BY <2>1
<1>2. DelegationIn(x, rd, a, b, T \cup {n}) = x[n].delegation
  BY <1>1, DelegationPast
<1> QED
  BY <1>1, <1>2

(* A transaction takes back what the delegation held would have earned after it, *)
(* and adds what the new one earns: each rounded down once more.                 *)
LEMMA RightStep ==
    ASSUME NEW l \in GVLists, NEW x \in TXLists, NEW rd \in {NoAccount} \cup IScoreAccount, NEW a,
           NEW n \in DOMAIN x, NEW T, IsNext(x, a, n, T),
           NEW gain \in Int, NEW held, Right(l, x, rd, held, gain, a, T),
           NEW gain2, gain2 = gain - Earns(l, held, x[n].blockHeight)
                                + Earns(l, x[n].delegation, x[n].blockHeight)
    PROVE  gain2 \in Int /\ Right(l, x, rd, x[n].delegation, gain2, a, T \cup {n})
<1> DEFINE e == x[n].blockHeight
           new == x[n].delegation
           N == TXsIn(x, a, T)
           N2 == TXsIn(x, a, T \cup {n})
           X == ExactIn(l, x, rd, a, T)
           X2 == ExactIn(l, x, rd, a, T \cup {n})
<1>1. /\ e \in Start .. End /\ e \in Int /\ new \in Amounts /\ n \in Int /\ IsFiniteSet(DOMAIN x)
      /\ Start \in Int /\ End \in Int
  BY TXIs, TermRewardsAssumption
<1>2. /\ T \in SUBSET DOMAIN x
      /\ \A i \in T : i # n /\ x[i].blockHeight \in Int /\ x[i].blockHeight <= e
  <2>1. \A i \in DOMAIN x : i \in Int
    BY TXIs
  <2> QED
    BY <1>1, <2>1, TXIs DEF Earlier, IsNext
<1>3. held \in Amounts
  <2>1. End + 1 \in Int
    BY <1>1
  <2>2. held = DelegationIn(x, rd, a, End + 1, T)
    BY DEF Right
  <2> QED
    BY <1>2, <2>1, <2>2, DelegationInIs
<1>4. PICK p \in Nat : p = Earns(l, held, e)
  <2> HIDE DEF e
  <2> QED
    BY <1>1, <1>3, EarnsNear
<1>5. PICK q \in Nat : q = Earns(l, new, e)
  <2> HIDE DEF e, new
  <2> QED
    BY <1>1, EarnsNear
<1>6. PICK D \in Nat : D = RewardDivider
  BY TermRewardsAssumption
<1>7. PICK R \in Nat : R = Rounding(l)
  <2> HIDE DEF e, new
  <2> QED
    BY <1>1, EarnsNear
<1>8. PICK P \in Nat : P = Owed(l, held, e) /\ D * p <= P /\ P <= D * p + R
  <2> HIDE DEF e
  <2> QED
    BY <1>1, <1>3, <1>4, <1>6, <1>7, EarnsNear
<1>9. PICK Q \in Nat : Q = Owed(l, new, e) /\ D * q <= Q /\ Q <= D * q + R
  <2> HIDE DEF e, new
  <2> QED
    BY <1>1, <1>5, <1>6, <1>7, EarnsNear
<1>10. X \in Int
  BY <1>2, RatesInNat
<1>11. X2 = X - P + Q
  <2>1. held = DelegationIn(x, rd, a, End + 1, T)
    BY DEF Right
  <2>2. ExactIn(l, x, rd, a, T \cup {n}) =
           ExactIn(l, x, rd, a, T) - Owed(l, held, x[n].blockHeight)
             + Owed(l, x[n].delegation, x[n].blockHeight)
    BY <2>1, ExactAfter
  <2> QED
    BY <1>8, <1>9, <2>2
<1>12. IsFiniteSet(N) /\ N2 = N \cup {n} /\ n \notin N
  <2>1. N \in SUBSET DOMAIN x
    BY <1>2 DEF TXsIn
  <2>2. IsFiniteSet(N)
    <3> HIDE DEF N
    <3> QED
      BY <1>1, <2>1, FS_Subset
  <2> QED
    BY <1>2, <2>2 DEF TXsIn, IsNext
<1>13. PICK k \in Nat : k = Cardinality(N)
  BY <1>12, FS_CardinalityType
<1>14. Cardinality(N2) = k + 1
  <2> HIDE DEF N, N2
  <2> QED
    BY <1>12, <1>13, FS_AddElement
<1>15. D * gain - X <= R * k /\ -(R * (1 + k)) <= D * gain - X
  BY <1>6, <1>7, <1>13 DEF Right
<1>16. gain2 = (gain - p) + q /\ gain2 \in Int
  BY <1>4, <1>5
<1>17. D * gain2 = ((D * gain) - (D * p)) + (D * q)
  BY <1>16, Z3T(30)
<1>18. R * (k + 1) = R * k + R /\ R * (1 + (k + 1)) = R * (1 + k) + R
  BY Z3T(30)
<1>19. /\ D * gain \in Int /\ D * p \in Int /\ D * q \in Int /\ R * k \in Int
       /\ R * (1 + k) \in Int
  OBVIOUS
<1>20. D * gain2 - X2 <= R * (k + 1) /\ -(R * (1 + (k + 1))) <= D * gain2 - X2
  <2> DEFINE u == D * gain
             v == D * p
             w == D * q
             y == R * k
             z == R * (1 + k)
  <2>1. u \in Int /\ v \in Int /\ w \in Int /\ y \in Int /\ z \in Int
    BY <1>19
  <2>2. u - X <= y /\ -z <= u - X
    BY <1>15
  <2>3. v <= P /\ P <= v + R /\ w <= Q /\ Q <= w + R
    BY <1>8, <1>9
  <2>4. D * gain2 = (u - v) + w /\ R * (k + 1) = y + R /\ R * (1 + (k + 1)) = z + R
    BY <1>17, <1>18
  <2> HIDE DEF u, v, w, y, z, X, X2
  <2>5. /\ ((u - v) + w) - ((X - P) + Q) <= y + R
        /\ -(z + R) <= ((u - v) + w) - ((X - P) + Q)
    BY <1>10, <2>1, <2>2, <2>3
  <2> QED
    BY <1>11, <2>4, <2>5
<1>21. ASSUME NEW m \in Start .. End, \A i \in N2 : x[i].blockHeight <= m
       PROVE  Earns(l, new, m) <= gain2
  <2>1. m \in e .. End
    <3>1. n \in N2
      BY <1>12
    <3>2. e <= m
      BY <1>21, <3>1
    <3>3. m \in Int /\ m <= End
      BY <1>1
    <3> HIDE DEF e
    <3> QED
      BY <1>1, <3>2, <3>3
  <2>2. \A i \in N : x[i].blockHeight <= e
    BY <1>2 DEF TXsIn
  <2>3. p <= gain
    BY <1>1, <1>4, <2>2 DEF Right
  <2>4. Earns(l, new, m) <= q /\ Earns(l, new, m) \in Nat
    <3> HIDE DEF new, e
    <3> QED
      BY <1>1, <1>5, <2>1, EarnsMono, EarnsNear
  <2> QED
    BY <1>16, <2>3, <2>4
<1>22. new = DelegationIn(x, rd, a, End + 1, T \cup {n})
  BY TheNextTX
<1>23. /\ RewardDivider * gain2 - X2 <= Rounding(l) * Cardinality(N2)
       /\ -(Rounding(l) * (1 + Cardinality(N2))) <= RewardDivider * gain2 - X2
  <2> HIDE DEF X2, N2
  <2> QED
    BY <1>6, <1>7, <1>14, <1>20
<1>24. \A m \in Start .. End : (\A i \in N2 : x[i].blockHeight <= m) => Earns(l, new, m) <= gain2
  BY <1>21
<1>25. Right(l, x, rd, new, gain2, a, T \cup {n})
  BY <1>22, <1>23, <1>24 DEF Right
<1> QED
  BY <1>16, <1>25

-----------------------------------------------------------------------------
(* The passes. *)

Held(a) == IF write[a] = NoAccount THEN NoResult ELSE write[a].delegation
RightNow(a, T) == Right(gvs, txs, read[a], Held(a), Gain(a), a, T)

\* accounts are right as they are written, then all of them up to the transactions
\* that were processed
DelegationsInv ==
    /\ \A a \in Account : read[a] # NoAccount => read[a].blockHeight = Start
    /\ pass = "idle" => \A a \in Account : write[a] = NoAccount
    /\ pass = "accounts" => \A a \in Account : write[a] # NoAccount => RightNow(a, {})
    /\ pass = "tx" => next > 0 /\ \A a \in Account : RightNow(a, Earlier(txs, next))
    /\ pass = "blocks" => \A a \in Account : RightNow(a, DOMAIN txs)

(* calculateIScore in the terms of the delegation. *)
LEMMA DelegationsRewardIs ==
    ASSUME NEW ia
    PROVE  DelegationsReward(ia, End) = Earns(gvs, ia.delegation, ia.blockHeight)
BY DEF DelegationsReward, Earns, Earning, Valid, ValidIn

(* An account that is not written stays as it is. *)
LEMMA RightStays ==
    ASSUME NEW a, NEW T, UNCHANGED given, write'[a] = write[a]
    PROVE  RightNow(a, T)' <=> RightNow(a, T)
<1>1. gvs' = gvs /\ txs' = txs /\ read' = read
  BY DEF given
<1>2. Gain(a)' = Gain(a) /\ Held(a)' = Held(a)
  BY <1>1 DEF Gain, Held, Initial
<1> QED
  BY <1>1, <1>2 DEF RightNow

LEMMA DelegationsStay ==
    ASSUME DelegationsInv, UNCHANGED <<given, write>>,
           \/ pass' = pass /\ next' = next
           \/ pass' \in {"preps", "done"}
           \/ pass = "blocks" /\ pass' = "blocks"
    PROVE  DelegationsInv'
<1>1. txs' = txs /\ read' = read /\ write' = write /\ UNCHANGED given
  BY DEF given
<1>2. \A a \in Account : \A T : RightNow(a, T)' <=> RightNow(a, T)
  BY <1>1, RightStays
<1> QED
  BY <1>1, <1>2 DEF DelegationsInv

(* calculateDB pays an account its delegations for the whole term. *)
LEMMA CalculateDBRight ==
    ASSUME RewardsInv, DelegationsInv, NEW a \in Account, CalculateDB(a)
    PROVE  DelegationsInv'
<1> DEFINE reward == DelegationsReward(read[a], End)
           k == read[a].iScore + reward
           ia == [read[a] EXCEPT !.iScore = k, !.blockHeight = End]
<1>1. RewardsTypes
  BY DEF RewardsInv
<1>2. /\ read[a] \in IScoreAccount /\ write[a] = NoAccount /\ pass = "accounts"
      /\ read[a] # NoAccount
  BY <1>1 DEF RewardsTypes, CalculateDB
<1>3. reward \in Int
  BY <1>1, <1>2, DelegationsRewardInt
<1>4. k \in Int /\ End \in Nat
  BY <1>2, <1>3, TermRewardsAssumption DEF IScoreAccount
<1>5. ia \in IScoreAccount /\ ia.iScore = k /\ ia.delegation = read[a].delegation
  <2> HIDE DEF k
  <2>1. PICK x \in IScoreAccount, m \in Int, h \in Nat : x = read[a] /\ m = k /\ h = End
    BY <1>2, <1>4
  <2>2. /\ [x EXCEPT !.iScore = m, !.blockHeight = h] \in IScoreAccount
        /\ [x EXCEPT !.iScore = m, !.blockHeight = h].iScore = m
        /\ [x EXCEPT !.iScore = m, !.blockHeight = h].delegation = x.delegation
    BY DEF IScoreAccount
  <2> QED
    BY <2>1, <2>2
<1>6. write' = [write EXCEPT ![a] = ia]
  BY DEF CalculateDB
<1>7. UNCHANGED given /\ read' = read /\ gvs' = gvs /\ txs' = txs /\ pass' = pass
  BY DEF CalculateDB, given
<1>8. reward = Earns(gvs, read[a].delegation, Start)
  <2>1. read[a].blockHeight = Start
    BY <1>2 DEF DelegationsInv
  <2> QED
    BY <2>1, DelegationsRewardIs
<1>9. Initial(a) = read[a].iScore /\ read[a].iScore \in Int
  BY <1>2 DEF Initial, IScoreAccount
<1> HIDE DEF reward, ia
<1>10. \A x \in Account : write'[x] = IF x = a THEN ia ELSE write[x]
  BY <1>1, <1>6 DEF RewardsTypes
<1>11. RightNow(a, {})'
  <2>1. ia # NoAccount /\ write'[a] = ia
    BY <1>5, <1>10, AccountIsThere
  <2>2. Initial(a)' = read[a].iScore
    BY <1>7, <1>9 DEF Initial
  <2>3. Gain(a)' = write'[a].iScore - Initial(a)'
    BY <2>1 DEF Gain
  <2>4. Gain(a)' = reward
    BY <1>3, <1>5, <1>9, <2>1, <2>2, <2>3
  <2>5. Held(a)' = read[a].delegation
    BY <1>5, <2>1 DEF Held
  <2>6. Right(gvs, txs, read[a], read[a].delegation, Earns(gvs, read[a].delegation, Start), a, {})
    <3>1. gvs \in GVLists /\ txs \in TXLists /\ read[a] \in {NoAccount} \cup IScoreAccount
      BY <1>1 DEF RewardsTypes
    <3> QED
      BY <1>2, <3>1, RightFirst
  <2> QED
    BY <1>7, <1>8, <2>4, <2>5, <2>6 DEF RightNow
<1>12. ASSUME NEW x \in Account, write'[x] # NoAccount PROVE RightNow(x, {})'
  <2>1. CASE x = a
    BY <1>11, <2>1
  <2>2. CASE x # a
    <3>1. write'[x] = write[x] /\ RightNow(x, {})
      BY <1>2, <1>10, <1>12, <2>2 DEF DelegationsInv
    <3> QED
      BY <1>7, <3>1, RightStays
  <2> QED
    BY <2>1, <2>2
<1> QED
  BY <1>2, <1>7, <1>12 DEF DelegationsInv

LEMMA EndAccountsRight ==
    ASSUME RewardsInv, DelegationsInv, EndAccounts
    PROVE  DelegationsInv'
<1>1. RewardsTypes
  BY DEF RewardsInv
<1>2. /\ UNCHANGED given /\ write' = write /\ read' = read /\ txs' = txs /\ gvs' = gvs
      /\ pass = "accounts" /\ pass' = "tx" /\ next' = 1
      /\ \A a \in Account : read[a] # NoAccount => write[a] # NoAccount
  BY DEF EndAccounts, given
<1>3. Earlier(txs, next)' = {}
  <2>1. \A i \in DOMAIN txs : i \in Nat /\ ~(i < 1)
    BY <1>1, TXIs DEF RewardsTypes
  <2> QED
    BY <1>2, <2>1 DEF Earlier
<1>4. ASSUME NEW a \in Account PROVE RightNow(a, {})
  <2>1. CASE write[a] # NoAccount
    BY <1>2, <2>1 DEF DelegationsInv
  <2>2. CASE write[a] = NoAccount
    <3>1. read[a] = NoAccount /\ Held(a) = NoResult /\ Gain(a) = 0
      BY <1>2, <2>2 DEF Held, Gain
    <3>2. gvs \in GVLists /\ txs \in TXLists /\ read[a] \in {NoAccount} \cup IScoreAccount
      BY <1>1 DEF RewardsTypes
    <3>3. Right(gvs, txs, read[a], NoResult, Earns(gvs, NoResult, Start), a, {})
      BY <3>1, <3>2, RightFirst
    <3>4. Earns(gvs, NoResult, Start) = 0
      <4>1. Start \in Start .. End
        BY TermRewardsAssumption
      <4> QED
        BY <3>2, <4>1, NothingEarned
    <3> QED
      BY <3>1, <3>3, <3>4 DEF RightNow
  <2> QED
    BY <2>1, <2>2
<1>5. ASSUME NEW a \in Account PROVE RightNow(a, Earlier(txs, next))'
  <2>1. RightNow(a, {})'
    <3>1. write'[a] = write[a]
      BY <1>2
    <3> QED
      BY <1>2, <1>4, <3>1, RightStays
  <2> QED
    BY <1>3, <2>1 DEF RightNow
<1> QED
  BY <1>2, <1>5 DEF DelegationsInv

LEMMA EndTXRight ==
    ASSUME RewardsInv, DelegationsInv, EndTX
    PROVE  DelegationsInv'
<1>1. /\ UNCHANGED given /\ write' = write /\ read' = read /\ txs' = txs
      /\ pass = "tx" /\ pass' = "blocks" /\ next \notin DOMAIN txs
  BY DEF EndTX, given
<1>2. txs \in TXLists /\ next \in Nat
  BY DEF RewardsInv, RewardsTypes
<1>3. next > 0 /\ \A a \in Account : RightNow(a, Earlier(txs, next))
  BY <1>1 DEF DelegationsInv
<1>4. Earlier(txs, next) = DOMAIN txs
  <2>1. \A i \in DOMAIN txs : i \in Nat /\ i < next
    BY <1>1, <1>2, <1>3, TXIs
  <2> QED
    BY <2>1 DEF Earlier
<1>5. ASSUME NEW a \in Account PROVE RightNow(a, DOMAIN txs)'
  <2>1. RightNow(a, DOMAIN txs) /\ write'[a] = write[a]
    BY <1>1, <1>3, <1>4
  <2> DEFINE T == DOMAIN txs
  <2>2. Right(gvs, txs, read[a], Held(a), Gain(a), a, T)
    BY <2>1 DEF RightNow
  <2>3. gvs' = gvs /\ Held(a)' = Held(a) /\ Gain(a)' = Gain(a)
    BY <1>1 DEF given, Held, Gain, Initial
  <2> QED
    BY <1>1, <2>2, <2>3 DEF RightNow
<1> QED
  BY <1>1, <1>5 DEF DelegationsInv

(* calculateIISSTX takes back and adds, whether the account was known or not. *)
LEMMA CalculateIISSTXRight ==
    ASSUME RewardsInv, DelegationsInv, CalculateIISSTX
    PROVE  DelegationsInv'
<1> DEFINE tx == txs[next]
           a == tx.addr
           known == write[a] # NoAccount
           new == [NewIScoreAccountFromIISS(tx) EXCEPT
                      !.iScore = IF known THEN write[a].iScore ELSE 0]
           old == IF known THEN [write[a] EXCEPT !.blockHeight = tx.blockHeight] ELSE new
           sub == IF known THEN DelegationsReward(old, End) ELSE 0
           add == DelegationsReward(new, End)
           k == new.iScore - sub + add
           ia == [new EXCEPT !.iScore = k, !.blockHeight = End]
           was == IF known THEN write[a].iScore ELSE 0
           T == Earlier(txs, next)
<1>1. /\ RewardsTypes /\ gvs \in GVLists /\ txs \in TXLists
      /\ \A x \in Account : read[x] \in {NoAccount} \cup IScoreAccount
  BY DEF RewardsInv, RewardsTypes
<1>2. pass = "tx" /\ next \in DOMAIN txs /\ next \in Nat /\ next > 0
  BY <1>1, TXIs DEF RewardsTypes, CalculateIISSTX
<1>3. /\ a \in Account /\ tx.delegation \in Amounts /\ tx.blockHeight \in Start .. End
      /\ tx.blockHeight \in Nat /\ (known => write[a] \in IScoreAccount)
  <2>1. /\ a \in Account /\ tx.delegation \in Amounts
        /\ tx.blockHeight \in Int /\ Start < tx.blockHeight /\ tx.blockHeight <= End
    BY <1>1, <1>2, TXIs
  <2> HIDE DEF tx
  <2>2. tx.blockHeight \in Start .. End /\ tx.blockHeight \in Nat
    BY <2>1, TermRewardsAssumption
  <2>3. known => write[a] \in IScoreAccount
    BY <1>1, <2>1 DEF RewardsTypes
  <2> QED
    BY <2>1, <2>2, <2>3
<1>4. was \in Int
  BY <1>3 DEF IScoreAccount
<1>5. /\ new \in IScoreAccount /\ new.iScore = was /\ new.delegation = tx.delegation
      /\ new.blockHeight = tx.blockHeight
  <2>1. new = [delegation |-> tx.delegation, blockHeight |-> tx.blockHeight, iScore |-> was]
    BY DEF NewIScoreAccountFromIISS
  <2> HIDE DEF was, new, a, tx
  <2> QED
    BY <1>3, <1>4, <2>1 DEF IScoreAccount
<1> HIDE DEF new
<1>6. known => old.delegation = write[a].delegation /\ old.blockHeight = tx.blockHeight
  <2> SUFFICES ASSUME known
               PROVE  old.delegation = write[a].delegation /\ old.blockHeight = tx.blockHeight
    OBVIOUS
  <2>1. PICK x \in IScoreAccount, h \in Nat : x = write[a] /\ h = tx.blockHeight
    BY <1>3
  <2>2. /\ [x EXCEPT !.blockHeight = h].delegation = x.delegation
        /\ [x EXCEPT !.blockHeight = h].blockHeight = h
    BY DEF IScoreAccount
  <2> QED
    BY <2>1, <2>2
<1> HIDE DEF old
<1>7. sub = Earns(gvs, Held(a), tx.blockHeight) /\ add = Earns(gvs, tx.delegation, tx.blockHeight)
  <2>1. add = Earns(gvs, tx.delegation, tx.blockHeight)
    BY <1>5, DelegationsRewardIs
  <2>2. CASE known
    BY <1>6, <2>1, <2>2, DelegationsRewardIs DEF Held
  <2>3. CASE ~known
    <3>1. sub = 0 /\ Held(a) = NoResult
      BY <2>3 DEF Held
    <3>2. Earns(gvs, NoResult, tx.blockHeight) = 0
      <4> HIDE DEF tx
      <4> QED
        BY <1>1, <1>3, NothingEarned
    <3> QED
      BY <2>1, <3>1, <3>2
  <2> QED
    BY <2>2, <2>3
<1>8. RightNow(a, T)
  BY <1>2, <1>3 DEF DelegationsInv
<1>9. /\ write' = [write EXCEPT ![a] = ia]
      /\ UNCHANGED given /\ read' = read /\ gvs' = gvs /\ txs' = txs
      /\ pass' = pass /\ next' = next + 1
  BY DEF CalculateIISSTX, StatsOfTX, new, old, sub, add, given
<1>10. Gain(a) \in Int /\ Initial(a) \in Int /\ Gain(a) = was - Initial(a)
  <2>1. Gain(a) \in Int /\ Initial(a) \in Int
    BY <1>1, <1>3, GainInt
  <2>2. CASE known
    BY <2>1, <2>2 DEF Gain
  <2>3. CASE ~known
    <3>1. Initial(a) = 0 /\ Gain(a) = 0
      BY <1>2, <1>3, <2>3 DEF RewardsInv, ReadFirst, Initial, Gain
    <3> QED
      BY <2>3, <3>1
  <2> QED
    BY <2>1, <2>2, <2>3
<1> DEFINE gain2 == Gain(a) - Earns(gvs, Held(a), tx.blockHeight)
                              + Earns(gvs, tx.delegation, tx.blockHeight)
<1>11. gain2 \in Int /\ Right(gvs, txs, read[a], tx.delegation, gain2, a, T \cup {next})
  <2>1. Right(gvs, txs, read[a], Held(a), Gain(a), a, T)
    BY <1>8 DEF RightNow
  <2>2. IsNext(txs, a, next, T)
    BY DEF IsNext
  <2>3. read[a] \in {NoAccount} \cup IScoreAccount
    BY <1>1, <1>3
  <2>4. PICK g2 : g2 = gain2
    OBVIOUS
  <2>5. g2 = Gain(a) - Earns(gvs, Held(a), txs[next].blockHeight)
                     + Earns(gvs, txs[next].delegation, txs[next].blockHeight)
    BY <2>4
  <2> HIDE DEF T, a, gain2, tx, sub, add, k, ia, was
  <2>6. g2 \in Int /\ Right(gvs, txs, read[a], txs[next].delegation, g2, a, T \cup {next})
    BY <1>1, <1>2, <1>10, <2>1, <2>2, <2>3, <2>5, RightStep
  <2> QED
    BY <2>4, <2>6 DEF tx
<1>12. sub \in Int /\ add \in Int
  <2> HIDE DEF tx, a, sub, add
  <2>1. Held(a) \in Amounts
    BY <1>3, NoResultIsAmount DEF Held, IScoreAccount
  <2>2. /\ Earns(gvs, Held(a), tx.blockHeight) \in Nat
        /\ Earns(gvs, tx.delegation, tx.blockHeight) \in Nat
    BY <1>1, <1>3, <2>1, EarnsNear
  <2> QED
    BY <1>7, <2>2
<1> HIDE DEF sub, add
<1>13. ia # NoAccount /\ ia.iScore = was - sub + add /\ ia.delegation = tx.delegation
  <2>1. k \in Int /\ k = was - sub + add
    BY <1>4, <1>5, <1>12
  <2> HIDE DEF k
  <2>2. PICK x \in IScoreAccount, m \in Int, h \in Nat : x = new /\ m = k /\ h = End
    BY <1>5, <2>1, TermRewardsAssumption
  <2>3. /\ [x EXCEPT !.iScore = m, !.blockHeight = h] \in IScoreAccount
        /\ [x EXCEPT !.iScore = m, !.blockHeight = h].iScore = m
        /\ [x EXCEPT !.iScore = m, !.blockHeight = h].delegation = x.delegation
    BY DEF IScoreAccount
  <2> QED
    BY <1>5, <2>1, <2>2, <2>3, AccountIsThere
<1> HIDE DEF ia, k
<1>14. \A x \in Account : write'[x] = IF x = a THEN ia ELSE write[x]
  BY <1>1, <1>9 DEF RewardsTypes
<1>15. Earlier(txs, next)' = T \cup {next}
  <2>1. Earlier(txs, next)' = {i \in DOMAIN txs : i < next + 1}
    BY <1>9 DEF Earlier
  <2>2. \A i \in DOMAIN txs : i \in Int
    BY <1>1, TXIs
  <2>3. \A i \in DOMAIN txs : i < next + 1 <=> i < next \/ i = next
    BY <1>2, <2>2
  <2> QED
    BY <1>2, <2>1, <2>3 DEF Earlier
<1>16. PICK c \in Account : c = a
  BY <1>3
<1>17. PICK S : S = T \cup {next}
  OBVIOUS
<1>18. RightNow(c, S)'
  <2>1. write'[c] = ia /\ Initial(c)' = Initial(c)
    BY <1>9, <1>14, <1>16 DEF Initial
  <2>2. Held(c)' = tx.delegation
    BY <1>13, <2>1 DEF Held
  <2>3. Gain(c)' = (was - sub + add) - Initial(a)
    <3>1. Gain(c)' = write'[c].iScore - Initial(c)'
      BY <1>13, <2>1 DEF Gain
    <3> QED
      BY <1>13, <1>16, <2>1, <3>1
  <2>4. Gain(c)' = gain2
    <3>1. gain2 = (Gain(a) - sub) + add
      BY <1>7
    <3> HIDE DEF gain2, was
    <3> QED
      BY <1>4, <1>10, <1>12, <2>3, <3>1
  <2> HIDE DEF T, gain2, a, tx
  <2>5. Right(gvs', txs', read'[c], Held(c)', Gain(c)', c, S)
    BY <1>9, <1>11, <1>16, <1>17, <2>2, <2>4
  <2> QED
    BY <2>5 DEF RightNow
<1>19. ASSUME NEW x \in Account, x # c PROVE RightNow(x, S)'
  <2>1. RightNow(x, T)
    BY <1>2 DEF DelegationsInv
  <2>2. Right(gvs, txs, read[x], Held(x), Gain(x), x, T \cup {next})
    <3>1. Right(gvs, txs, read[x], Held(x), Gain(x), x, T) /\ txs[next].addr # x
      BY <1>16, <1>19, <2>1 DEF RightNow
    <3> HIDE DEF T
    <3> QED
      BY <3>1, RightOther
  <2>3. RightNow(x, S)
    BY <1>17, <2>2 DEF RightNow
  <2>4. write'[x] = write[x]
    BY <1>14, <1>16, <1>19
  <2> QED
    BY <1>9, <2>3, <2>4, RightStays
<1>20. ASSUME NEW x \in Account PROVE RightNow(x, Earlier(txs, next))'
  <2>1. RightNow(x, S)'
    BY <1>18, <1>19
  <2> QED
    BY <1>15, <1>17, <2>1 DEF RightNow
<1>21. next' > 0
  BY <1>2, <1>9
<1> QED
  BY <1>2, <1>9, <1>20, <1>21 DEF DelegationsInv

LEMMA DelegationsNext ==
    ASSUME RewardsInv, DelegationsInv, [Next]_vars
    PROVE  DelegationsInv'
<1>1. CASE UNCHANGED vars
  <2>1. UNCHANGED <<given, write>> /\ pass' = pass /\ next' = next
    BY <1>1 DEF vars
  <2> QED
    BY <2>1, DelegationsStay
<1>2. CASE Debug
  <2>1. UNCHANGED <<given, write>> /\ pass' = pass /\ next' = next
    BY <1>2 DEF Debug, FlagOn, FlagOff, AddDebuggingAddress, DeleteDebuggingAddress
  <2> QED
    BY <2>1, DelegationsStay
<1>3. CASE StartCalculation
  <2>1. read' = read /\ write' = write /\ pass = "idle" /\ pass' = "accounts"
    BY <1>3 DEF StartCalculation, given
  <2> QED
    BY <2>1 DEF DelegationsInv
<1>4. CASE \E a \in Account : CalculateDB(a)
  BY <1>4, CalculateDBRight
<1>5. CASE EndAccounts
  BY <1>5, EndAccountsRight
<1>6. CASE CalculateIISSTX
  BY <1>6, CalculateIISSTXRight
<1>7. CASE EndTX
  BY <1>7, EndTXRight
<1>8. CASE CalculateIISSBlockProduce
  <2>1. UNCHANGED <<given, write>> /\ pass = "blocks" /\ pass' = "blocks"
    BY <1>8 DEF CalculateIISSBlockProduce
  <2> QED
    BY <2>1, DelegationsStay
<1>9. CASE EndBlockProduce \/ CalculatePRepReward \/ EndPRep
  <2>1. read' = read /\ pass' \in {"preps", "done"}
    BY <1>9 DEF EndBlockProduce, CalculatePRepReward, EndPRep, given
  <2> QED
    BY <2>1 DEF DelegationsInv
<1> QED
  BY <1>1, <1>2, <1>3, <1>4, <1>5, <1>6, <1>7, <1>8, <1>9 DEF Next

(* The reference of DelegationRewardExact in the terms of the invariant. *)
LEMMA ExactIs ==
    ASSUME RewardsTypes, NEW a \in Account
    PROVE  Exact(a) = ExactIn(gvs, txs, read[a], a, DOMAIN txs)
<1> DEFINE f == [b \in Start + 1 .. End |-> ExactInBlock(a, b)]
           g == RatesIn(gvs, txs, read[a], a, DOMAIN txs)
<1>1. \A b : DelegationAt(a, b) = DelegationIn(txs, read[a], a, b, DOMAIN txs)
  BY DEF DelegationAt, DelegationIn, SetBefore
<1>2. ASSUME NEW b PROVE ExactInBlock(a, b) = RateIn(gvs, DelegationAt(a, b), b)
  BY DEF ExactInBlock, RateIn, RateOf, Valid, ValidIn
<1>3. f = g
  BY <1>1, <1>2 DEF RatesIn
<1>4. Exact(a) = SumFunction(f) /\ DOMAIN f = Start + 1 .. End
  BY DEF Exact
<1> HIDE DEF f, g
<1> QED
  BY <1>3, <1>4 DEF SumFunction, ExactIn, g

LEMMA DelegationsInit == Init => DelegationsInv
<1> SUFFICES ASSUME Init PROVE DelegationsInv
  OBVIOUS
<1>1. pass = "idle" /\ \A a \in Account : write[a] = NoAccount
  BY DEF Init
<1>2. \A a \in Account : read[a] # NoAccount => read[a].blockHeight = Start
  BY DEF Init
<1> QED
  BY <1>1, <1>2 DEF DelegationsInv

(* Every account earns what its delegations earned block by block, to within *)
(* one division per governance variable and candidate for every time its     *)
(* reward was calculated, and never a negative amount: whatever the term, the *)
(* governance variables, the candidates that register and leave within it,   *)
(* the delegations and the transactions that replace them (calculateIScore,  *)
(* calculateDelegationReward, calculateIISSTX).                              *)
THEOREM DelegationsAreExact == Spec => []DelegationRewardExact
<1>1. Init => DelegationsInv
  BY DelegationsInit
<1>2. RewardsInv /\ DelegationsInv /\ [Next]_vars => DelegationsInv'
  BY DelegationsNext
<1>3. RewardsInv /\ DelegationsInv => DelegationRewardExact
  <2> SUFFICES ASSUME RewardsInv, DelegationsInv, pass = "blocks",
                      NEW a \in Account, write[a] # NoAccount
               PROVE  LET earned == write[a].iScore - Initial(a)
                          error == RewardDivider * earned - Exact(a)
                          divisions == Len(gvs) * Cardinality(DOMAIN Candidate)
                          corrections == Cardinality(TXsOf(a))
                      IN  /\ earned >= 0
                          /\ -RewardDivider * divisions * (1 + corrections) <= error
                          /\ error <= RewardDivider * divisions * corrections
    BY DEF DelegationRewardExact
  <2> DEFINE earned == write[a].iScore - Initial(a)
  <2>1. RewardsTypes /\ gvs \in GVLists /\ txs \in TXLists /\ write[a] \in IScoreAccount
    BY DEF RewardsInv, RewardsTypes
  <2>2. Gain(a) = earned /\ Gain(a) \in Int /\ Held(a) = write[a].delegation
    BY <2>1, GainInt DEF Gain, Held
  <2>3. TXsOf(a) = TXsIn(txs, a, DOMAIN txs)
    BY DEF TXsOf, TXsIn
  <2>4. Right(gvs, txs, read[a], Held(a), Gain(a), a, DOMAIN txs)
    BY DEF DelegationsInv, RightNow
  <2>5. Exact(a) = ExactIn(gvs, txs, read[a], a, DOMAIN txs)
    BY <2>1, ExactIs
  <2>6. Rounding(gvs) = RewardDivider * (Len(gvs) * Cardinality(DOMAIN Candidate))
    BY DEF Rounding
  <2>7. /\ RewardDivider * earned - Exact(a) <= Rounding(gvs) * Cardinality(TXsOf(a))
        /\ -(Rounding(gvs) * (1 + Cardinality(TXsOf(a)))) <= RewardDivider * earned - Exact(a)
    BY <2>2, <2>3, <2>4, <2>5 DEF Right
  <2>8. earned >= 0
    <3>1. End \in Start .. End /\ \A i \in TXsIn(txs, a, DOMAIN txs) : txs[i].blockHeight <= End
      BY <2>1, TXIs, TermRewardsAssumption DEF TXsIn
    <3>2. Earns(gvs, Held(a), End) <= Gain(a)
      BY <2>4, <3>1 DEF Right
    <3>3. Earns(gvs, Held(a), End) \in Nat
      <4>1. Held(a) \in Amounts
        BY <2>1, <2>2 DEF IScoreAccount
      <4> QED
        BY <2>1, <3>1, <4>1, EarnsNear
    <3> QED
      BY <2>2, <3>2, <3>3
  <2>9. PICK d \in Nat, u \in Nat, v \in Nat : /\ d = RewardDivider
                                             /\ u = Len(gvs) * Cardinality(DOMAIN Candidate)
                                             /\ v = Cardinality(TXsOf(a))
    <3>1. RewardDivider \in Nat /\ Len(gvs) \in Nat
      BY <2>1, ListEntries, TermRewardsAssumption
    <3>2. Cardinality(DOMAIN Candidate) \in Nat
      BY NoResultIsAmount, ValidInIs
    <3>3. Cardinality(TXsOf(a)) \in Nat
      <4>1. TXsOf(a) \in SUBSET DOMAIN txs /\ IsFiniteSet(DOMAIN txs)
        BY <2>1, TXIs DEF TXsOf
      <4> QED
        BY <4>1, FS_Subset, FS_CardinalityType
    <3>4. Len(gvs) * Cardinality(DOMAIN Candidate) \in Nat
      BY <3>1, <3>2
    <3> QED
      BY <3>1, <3>3, <3>4
  <2>10. /\ RewardDivider * earned - Exact(a) <= (d * u) * v
         /\ -((d * u) * (1 + v)) <= RewardDivider * earned - Exact(a)
    BY <2>6, <2>7, <2>9
  <2>11. -d * u * (1 + v) = -((d * u) * (1 + v)) /\ d * u * v = (d * u) * v
    BY Z3T(30)
  <2> HIDE DEF earned
  <2>12. /\ -RewardDivider * (Len(gvs) * Cardinality(DOMAIN Candidate)) * (1 + Cardinality(TXsOf(a)))
              <= RewardDivider * earned - Exact(a)
         /\ RewardDivider * earned - Exact(a)
              <= RewardDivider * (Len(gvs) * Cardinality(DOMAIN Candidate)) * Cardinality(TXsOf(a))
    BY <2>9, <2>10, <2>11
  <2> QED
    BY <2>8, <2>12 DEF earned
<1> QED
  BY <1>1, <1>2, <1>3, RewardsInvariance, PTL DEF Spec

-----------------------------------------------------------------------------
(* The debug result.                                                         *)

(* A number that fits into a machine word is itself. *)
LEMMA ModSmall ==
    ASSUME NEW x \in Nat, NEW W \in Nat, x < W
    PROVE  x % W = x
BY Z3T(30)

(* A factor of a product that is not zero is at most the product. *)
LEMMA FactorFits ==
    ASSUME NEW x \in Nat, NEW y \in Nat, y > 0
    PROVE  x <= x * y /\ x * y \in Nat
<1>1. PICK z \in Nat : y = z + 1
  <2>1. y - 1 \in Nat /\ y = (y - 1) + 1
    OBVIOUS
  <2> QED
    BY <2>1
<1>2. x * y = x * z + x /\ x * z \in Nat
  BY <1>1, Z3T(30)
<1> QED
  BY <1>2

InWord(x, y, n, z, W) == n > 0 /\ z <= n /\ x * y * n < W

(* The products of machine words that fit are products. *)
LEMMA WordsFit ==
    ASSUME NEW x \in Nat, NEW y \in Nat, NEW n \in Nat, NEW z \in Nat, NEW W \in Nat,
           InWord(x, y, n, z, W)
    PROVE  /\ ((x % W) * (y % W) * z) % W = x * y * z
           /\ ((x % W) * z * (y % W)) % W = x * y * z
<1> USE DEF InWord
<1>1. W > 0 /\ x * y \in Nat /\ x * y * z \in Nat /\ x * y * n \in Nat
  <2>1. x * y \in Nat
    OBVIOUS
  <2>2. (x * y) * n \in Nat /\ (x * y) * z \in Nat
    BY <2>1
  <2> QED
    BY <2>1, <2>2
<1>2. x * y * z <= x * y * n
  <2>1. PICK u \in Nat : u = x * y
    BY <1>1
  <2>2. u * z <= u * n
    BY ProductMono
  <2> QED
    BY <2>1, <2>2
<1>3. (x * y * z) % W = x * y * z
  <2>1. PICK u \in Nat : u = x * y * z
    BY <1>1
  <2>2. u < W
    BY <1>1, <1>2, <2>1
  <2> QED
    BY <2>1, <2>2, ModSmall
<1>4. 0 % W = 0
  BY <1>1, ModSmall
<1>5. CASE x = 0
  <2>1. x % W = 0 /\ y % W \in Nat
    BY <1>1, <1>4, <1>5
  <2>2. PICK v \in Nat : v = y % W
    BY <2>1
  <2>3. 0 * v * z = 0 /\ 0 * z * v = 0 /\ x * y * z = 0
    BY <1>5
  <2> QED
    BY <1>4, <2>1, <2>2, <2>3
<1>6. CASE y = 0
  <2>1. y % W = 0 /\ x % W \in Nat
    BY <1>1, <1>4, <1>6
  <2>2. PICK v \in Nat : v = x % W
    BY <2>1
  <2>3. v * 0 * z = 0 /\ v * z * 0 = 0 /\ x * y * z = 0
    BY <1>6, Z3T(30)
  <2> QED
    BY <1>4, <2>1, <2>2, <2>3
<1>7. CASE x > 0 /\ y > 0
  <2>1. x <= x * y /\ y <= y * x
    BY <1>7, FactorFits
  <2>2. y * x = x * y
    BY Z3T(30)
  <2>3. PICK u \in Nat : u = x * y
    BY <1>1
  <2>4. u <= u * n
    BY FactorFits
  <2>5. x < W /\ y < W
    BY <1>1, <2>1, <2>2, <2>3, <2>4
  <2>6. x % W = x /\ y % W = y
    BY <2>5, ModSmall
  <2>7. x * z * y = x * y * z
    BY Z3T(30)
  <2> QED
    BY <1>3, <2>6, <2>7
<1> QED
  BY <1>5, <1>6, <1>7

(* The number of blocks of a period within the term. *)
LEMMA PeriodInTerm ==
    ASSUME NEW list, HasHeights(list), NEW i \in DOMAIN list, NEW m \in Int, NEW n \in Int,
           Start <= m, n <= End
    PROVE  /\ Cardinality(Period(list, i, m, n)) \in Nat
           /\ Cardinality(Period(list, i, m, n)) <= End - Start
           /\ End - Start \in Nat /\ End - Start > 0
<1>1. Start \in Int /\ End \in Int /\ Start < End
  BY TermRewardsAssumption
<1>2. /\ IsFiniteSet(Period(list, i, m, n)) /\ Cardinality(Period(list, i, m, n)) \in Nat
      /\ Period(list, i, m, n) \subseteq m + 1 .. n
  BY PeriodFinite
<1>3. Period(list, i, m, n) \in SUBSET (Start + 1 .. End)
  BY <1>1, <1>2
<1>4. IsFiniteSet(Start + 1 .. End) /\ Cardinality(Start + 1 .. End) = End - Start
  <2>1. PICK s \in Int, e \in Int : s = Start + 1 /\ e = End /\ s <= e
    BY <1>1
  <2>2. IsFiniteSet(s .. e) /\ Cardinality(s .. e) = e - s + 1
    BY <2>1, FS_Interval
  <2>3. e - s + 1 = End - Start
    BY <1>1, <2>1
  <2> QED
    BY <2>1, <2>2, <2>3
<1>5. Cardinality(Period(list, i, m, n)) <= Cardinality(Start + 1 .. End)
  BY <1>3, <1>4, FS_Subset
<1> QED
  BY <1>1, <1>2, <1>4, <1>5

(* writeBeta3Info records what calculateDelegationReward pays. *)
LEMMA DebugRewardIs ==
    ASSUME RewardsTypes, Fits, NEW a \in Account, read[a] # NoAccount, read[a].blockHeight = Start
    PROVE  DebugReward(read[a], End) = DelegationsReward(read[a], End)
<1> DEFINE ia == read[a]
           n(p, i) == DelegationPeriod(gvs, i, Candidate[p], ia.blockHeight, End)
           f(p) == [i \in DOMAIN gvs |-> Beta3Info(ia.delegation[p], gvs[i], n(p, i))]
           g(p) == [i \in DOMAIN gvs |->
                      (ia.delegation[p] * n(p, i) * gvs[i].rewardRep) \div RewardDivider]
<1>1. ia \in IScoreAccount /\ ia.delegation \in Amounts /\ gvs \in GVLists /\ HasHeights(gvs)
  BY ListHeights DEF RewardsTypes, IScoreAccount
<1>2. Valid(ia) = ValidIn(ia.delegation)
  BY DEF Valid, ValidIn
<1>3. ASSUME NEW p \in Valid(ia), NEW i \in DOMAIN gvs
      PROVE  Beta3Info(ia.delegation[p], gvs[i], n(p, i)) =
               (ia.delegation[p] * n(p, i) * gvs[i].rewardRep) \div RewardDivider
  <2>1. Candidate[p] \in [start : Nat, end : Nat] /\ ia.delegation[p] \in Nat
    <3> HIDE DEF ia
    <3> QED
      BY <1>1, <1>2, ValidInIs
  <2>2. PICK y \in Nat : y = ia.delegation[p]
    BY <2>1
  <2>3. PICK x \in Nat : x = gvs[i].rewardRep
    <3>1. gvs[i].rewardRep \in Nat
      BY <1>1, ListEntries DEF GovernanceVariable
    <3> QED
      BY <3>1
  <2>4. PICK m \in Nat : m = End - Start /\ m > 0
    BY TermRewardsAssumption
  <2>5. PICK z \in Nat : z = n(p, i) /\ z <= m
    <3>1. Start \in Start .. End
      BY TermRewardsAssumption
    <3>2. /\ From(Candidate[p], Start) \in Int /\ To(Candidate[p], End) \in Int
          /\ Start <= From(Candidate[p], Start) /\ To(Candidate[p], End) <= End
      BY <2>1, <3>1, CandidateFrom
    <3> DEFINE k == Cardinality(Period(gvs, i, From(Candidate[p], Start), To(Candidate[p], End)))
    <3>3. k \in Nat /\ k <= End - Start
      BY <1>1, <3>2, PeriodInTerm
    <3>4. n(p, i) = k
      BY DEF DelegationPeriod
    <3> HIDE DEF k, n
    <3> QED
      BY <2>4, <3>3, <3>4
  <2>6. PICK W \in Nat : W = Word
    BY TermRewardsAssumption
  <2>7. x * y * m < W
    <3>1. p \in DOMAIN read[a].delegation
      BY DEF Valid
    <3>2. gvs[i].rewardRep * read[a].delegation[p] * (End - Start) < Word
      BY <3>1 DEF Fits
    <3> QED
      BY <2>2, <2>3, <2>4, <2>6, <3>2
  <2>8. ((x % W) * z * (y % W)) % W = x * y * z
    <3>1. InWord(x, y, m, z, W)
      BY <2>4, <2>5, <2>7 DEF InWord
    <3> QED
      BY <3>1, WordsFit
  <2>9. x * y * z = y * z * x
    BY Z3T(30)
  <2>10. Beta3Info(ia.delegation[p], gvs[i], n(p, i)) =
           (((x % W) * z * (y % W)) % W) \div RewardDivider
    BY <2>2, <2>3, <2>5, <2>6 DEF Beta3Info
  <2>11. (ia.delegation[p] * n(p, i) * gvs[i].rewardRep) \div RewardDivider =
            (y * z * x) \div RewardDivider
    BY <2>2, <2>3, <2>5
  <2> QED
    BY <2>8, <2>9, <2>10, <2>11
<1>4. ASSUME NEW p \in Valid(ia) PROVE f(p) = g(p)
  <2> HIDE DEF n
  <2> QED
    BY <1>3
<1>5. \A p \in Valid(ia) :
         DelegationReward(ia.delegation[p], gvs, Candidate[p], ia.blockHeight, End, RewardDivider)
           = SumFunction(g(p))
  BY DEF DelegationReward
<1>6. DelegationsReward(ia, End) = SumFunction([p \in Valid(ia) |-> SumFunction(g(p))])
  BY <1>5 DEF DelegationsReward
<1>7. DebugReward(ia, End) = SumFunction([p \in Valid(ia) |-> SumFunction(f(p))])
  BY DEF DebugReward
<1>8. [p \in Valid(ia) |-> SumFunction(f(p))] = [p \in Valid(ia) |-> SumFunction(g(p))]
  <2> HIDE DEF f, g
  <2> QED
    BY <1>4
<1> HIDE DEF f, g
<1> QED
  BY <1>6, <1>7, <1>8

\* what is recorded for the P-Reps of the list next
PaidDebug ==
    [a \in DOMAIN Paid |->
        SumFunction([i \in DOMAIN gvs |->
            Beta2Info(preps[next].delegated[a], preps[next].total, gvs[i],
                      Cardinality(Period(gvs, i, Min(Used) - 1, Max(Used))))])]

(* writeBeta2Info records what setPRepReward pays. *)
LEMMA PaidDebugIs ==
    ASSUME RewardsTypes, Fits, next \in DOMAIN preps, NEW a \in DOMAIN Paid
    PROVE  PaidDebug[a] = Paid[a] /\ Paid[a] \in Int
<1> DEFINE d == preps[next].delegated
           total == preps[next].total
           m == Min(Used) - 1
           e == Max(Used)
           n(i) == Cardinality(Period(gvs, i, m, e))
           f == [i \in DOMAIN gvs |-> Beta2Info(d[a], total, gvs[i], n(i))]
           g == [i \in DOMAIN gvs |-> (n(i) * PRepReward(gvs[i]) * d[a]) \div total]
<1>1. preps \in PRepLists /\ gvs \in GVLists /\ HasHeights(gvs) /\ HasHeights(preps)
  BY ListHeights DEF RewardsTypes
<1>2. ~(Used = {} \/ total = 0) /\ a \in DOMAIN d
  BY DEF Paid, NoResult
<1>3. preps[next] \in PRepList /\ d \in Amounts /\ total \in Nat /\ total > 0 /\ d[a] \in Nat
  <2>1. preps[next] \in PRepList
    BY <1>1, ListEntries
  <2>2. d \in Amounts /\ total \in Nat
    BY <2>1 DEF PRepList
  <2>3. d[a] \in Nat
    BY <1>2, <2>2, TermRewardsAssumption
  <2> QED
    BY <1>2, <2>1, <2>2, <2>3
<1>4. m \in Int /\ e \in Int /\ Start <= m /\ e <= End
  <2>1. Start \in Int /\ End \in Int
    BY TermRewardsAssumption
  <2>2. Period(preps, next, Start, End) # {}
    BY <1>2 DEF Used
  <2>3. /\ Min(Period(preps, next, Start, End)) \in Int /\ Max(Period(preps, next, Start, End)) \in Int
        /\ Start < Min(Period(preps, next, Start, End)) /\ Max(Period(preps, next, Start, End)) <= End
    BY <1>1, <2>1, <2>2, PeriodEnds
  <2>4. Min(Used) \in Int /\ Max(Used) \in Int /\ Start < Min(Used) /\ Max(Used) <= End
    BY <2>3 DEF Used
  <2> QED
    BY <2>1, <2>4
<1> HIDE DEF m, e
<1>5. ASSUME NEW i \in DOMAIN gvs PROVE f[i] = g[i]
  <2>1. PICK x \in Nat : x = PRepReward(gvs[i])
    <3>1. gvs[i] \in GovernanceVariable
      BY <1>1, ListEntries
    <3>2. PRepReward(gvs[i]) \in Nat
      BY <3>1 DEF GovernanceVariable, PRepReward
    <3> QED
      BY <3>2
  <2>2. PICK y \in Nat : y = d[a]
    BY <1>3
  <2>3. PICK k \in Nat : k = End - Start /\ k > 0
    BY TermRewardsAssumption
  <2>4. PICK z \in Nat : z = n(i) /\ z <= k
    <3>1. n(i) \in Nat /\ n(i) <= End - Start
      BY <1>1, <1>4, PeriodInTerm
    <3> QED
      BY <2>3, <3>1
  <2>5. PICK W \in Nat : W = Word
    BY TermRewardsAssumption
  <2>6. PICK t \in Nat : t = total /\ t < W
    <3>1. total < Word
      BY DEF Fits
    <3> QED
      BY <1>3, <2>5, <3>1
  <2>7. x * y * k < W
    <3>1. a \in Account
      BY <1>2, <1>3, TermRewardsAssumption
    <3>2. PRepReward(gvs[i]) * preps[next].delegated[a] * (End - Start) < Word
      BY <1>2, <3>1 DEF Fits
    <3> QED
      BY <2>1, <2>2, <2>3, <2>5, <3>2
  <2>8. ((x % W) * (y % W) * z) % W = x * y * z
    <3>1. InWord(x, y, k, z, W)
      BY <2>3, <2>4, <2>7 DEF InWord
    <3> QED
      BY <3>1, WordsFit
  <2>9. t % W = t
    BY <2>6, ModSmall
  <2>10. z * x * y = x * y * z
    BY Z3T(30)
  <2>11. f[i] = (((x % W) * (y % W) * z) % W) \div (t % W)
    BY <2>1, <2>2, <2>4, <2>5, <2>6 DEF Beta2Info
  <2>12. g[i] = (z * x * y) \div t
    BY <2>1, <2>2, <2>4, <2>6
  <2> QED
    BY <2>8, <2>9, <2>10, <2>11, <2>12
<1>6. f = g
  BY <1>5
<1>7. PaidDebug[a] = SumFunction(f)
  BY DEF PaidDebug, m, e
<1>8. Paid[a] = SumFunction(g)
  <2>1. Paid[a] = PRepShare(d[a], total, gvs, m, e)
    BY <1>2 DEF Paid, m, e
  <2> QED
    BY <2>1 DEF PRepShare
<1>9. Paid[a] \in Int
  BY PaidTyped
<1> HIDE DEF f, g
<1> QED
  BY <1>6, <1>7, <1>8, <1>9

(* writeBeta1Info records what calculateIISSBlockProduce adds, for an address that *)
(* is not generator and validator of the block.                                   *)
LEMMA BlockDebugIs ==
    ASSUME RewardsTypes, Fits, NEW i \in DOMAIN blocks, NEW a \in Account,
           blocks[i].validators # {},
           blocks[i].generator = a => a \notin blocks[i].validators,
           NEW reward, reward = BlockProduceReward(GVByBlockHeight(gvs, blocks[i].blockHeight))
    PROVE  /\ a \in {blocks[i].generator} \cup blocks[i].validators =>
                Beta1Info(blocks[i], reward)[a] =
                  (IF a = blocks[i].generator THEN reward ELSE 0)
                    + (IF a \in blocks[i].validators THEN ValidatorReward(blocks[i], reward) ELSE 0)
           /\ reward \in Nat /\ ValidatorReward(blocks[i], reward) \in Nat
<1> DEFINE bp == blocks[i]
<1>1. reward \in Nat /\ ValidatorReward(bp, reward) \in Nat
  BY BlockRewardInt
<1>2. reward % Word = reward
  <2>1. blocks[i] \in BlockProduce /\ gvs \in GVLists
    BY ListEntries DEF RewardsTypes
  <2>2. blocks[i].blockHeight \in Start + 1 .. End
    BY <2>1 DEF BlockProduce
  <2> DEFINE k == Max(Before(gvs, blocks[i].blockHeight))
  <2>3. k \in DOMAIN gvs
    BY <2>1, <2>2, GVFound
  <2>4. reward = BlockProduceReward(gvs[k])
    BY DEF GVByBlockHeight
  <2>5. BlockProduceReward(gvs[k]) < Word
    <3> HIDE DEF k
    <3> QED
      BY <2>3 DEF Fits
  <2>6. PICK W \in Nat : W = Word
    BY TermRewardsAssumption
  <2>7. reward < W
    BY <2>4, <2>5, <2>6
  <2> QED
    BY <1>1, <2>6, <2>7, ModSmall
<1>3. ASSUME a \in {bp.generator} \cup bp.validators
      PROVE  Beta1Info(bp, reward)[a] =
               (IF a = bp.generator THEN reward ELSE 0)
                 + (IF a \in bp.validators THEN ValidatorReward(bp, reward) ELSE 0)
  <2>1. Beta1Info(bp, reward)[a] = IF a = bp.generator THEN reward
                                   ELSE reward \div Cardinality(bp.validators)
    BY <1>2, <1>3 DEF Beta1Info
  <2>2. CASE a = bp.generator
    BY <1>1, <2>1, <2>2
  <2>3. CASE a # bp.generator
    <3>1. a \in bp.validators
      BY <1>3, <2>3
    <3>2. Beta1Info(bp, reward)[a] = ValidatorReward(bp, reward)
      BY <2>1, <2>3 DEF ValidatorReward
    <3> QED
      BY <1>1, <2>3, <3>1, <3>2
  <2> QED
    BY <2>2, <2>3
<1> QED
  BY <1>1, <1>3

ResultFields == {"total", "beta1", "beta2", "beta3"}

(* GetCalcResult, getReward: a reward is added to the total of its address. *)
LEMMA RecordAdds ==
    ASSUME NEW beta \in {"beta1", "beta2", "beta3"}, NEW amount, Record(beta, amount),
           \A a \in DOMAIN result : DOMAIN result[a] = ResultFields
    PROVE  /\ DOMAIN result' = DOMAIN result
           /\ \A a \in DOMAIN result :
                 /\ DOMAIN result'[a] = ResultFields
                 /\ (NeedToUpdateCalcDebugResult /\ a \in DOMAIN amount) =>
                       result'[a].total = result[a].total + amount[a]
                 /\ a \notin DOMAIN amount => result'[a].total = result[a].total
<1>1. CASE ~NeedToUpdateCalcDebugResult
  BY <1>1 DEF Record
<1>2. CASE NeedToUpdateCalcDebugResult
  <2>1. result' = [a \in DOMAIN result |->
                      IF a \notin DOMAIN amount THEN result[a]
                      ELSE [result[a] EXCEPT !.total = @ + amount[a], ![beta] = @ + amount[a]]]
    BY <1>2 DEF Record
  <2>2. DOMAIN result' = DOMAIN result
    BY <2>1
  <2>3. ASSUME NEW a \in DOMAIN result, a \notin DOMAIN amount
        PROVE  result'[a] = result[a]
    BY <2>1, <2>3
  <2>4. ASSUME NEW a \in DOMAIN result, a \in DOMAIN amount
        PROVE  /\ DOMAIN result'[a] = ResultFields
               /\ result'[a].total = result[a].total + amount[a]
    <3>1. PICK r : r = result[a] /\ DOMAIN r = ResultFields
      OBVIOUS
    <3>2. PICK x : x = amount[a]
      OBVIOUS
    <3>3. result'[a] = [r EXCEPT !.total = r.total + x, ![beta] = r[beta] + x]
      <4>1. result'[a] = [result[a] EXCEPT !.total = @ + amount[a], ![beta] = @ + amount[a]]
        BY <2>1, <2>4
      <4>2. beta # "total"
        OBVIOUS
      <4> QED
        BY <3>1, <3>2, <4>1, <4>2
    <3>4. "total" \in DOMAIN r /\ beta # "total"
      BY <3>1 DEF ResultFields
    <3> QED
      BY <3>1, <3>2, <3>3, <3>4
  <2> QED
    BY <1>2, <2>2, <2>3, <2>4
<1> QED
  BY <1>1, <1>2

\* the addresses that are explained, and what their totals are while they are
Explained(a) == Fits /\ TXsOf(a) = {} /\ RecordsBlocksOf(a)
Score(a) == IF write[a] = NoAccount THEN 0 ELSE write[a].iScore
Due(a) ==
    IF pass = "accounts" /\ write[a] = NoAccount THEN Initial(a)
    ELSE IF pass = "blocks" THEN Score(a) + bpMap[a] ELSE Score(a)

Calculating == {"accounts", "tx", "blocks", "preps"}

DebugInv ==
    /\ conf \in CalcDebugConfig
    /\ DOMAIN result # {} => NeedToUpdateCalcDebugResult /\ pass \in Calculating
    /\ \A a \in DOMAIN result : a \in Account /\ DOMAIN result[a] = ResultFields
    /\ \A a \in DOMAIN result : Explained(a) => result[a].total = Due(a)
    /\ pass # "done" => DOMAIN stored = {}
    /\ pass = "done" => \A a \in DOMAIN stored : Explained(a) => stored[a].total = Score(a)

LEMMA ExplainedStays ==
    ASSUME UNCHANGED given, NEW a
    PROVE  (Explained(a)' <=> Explained(a)) /\ (Fits' <=> Fits) /\ Initial(a)' = Initial(a)
<1>1. gvs' = gvs /\ preps' = preps /\ txs' = txs /\ blocks' = blocks /\ read' = read
  BY DEF given
<1>2. Fits' <=> Fits
  BY <1>1 DEF Fits
<1>3. RecordsBlocksOf(a)' <=> RecordsBlocksOf(a)
  BY <1>1 DEF RecordsBlocksOf
<1>4. TXsOf(a)' = TXsOf(a) /\ Initial(a)' = Initial(a)
  BY <1>1 DEF TXsOf, Initial
<1> QED
  BY <1>2, <1>3, <1>4 DEF Explained

(* A step of the calculation: it is enough that the totals follow. *)
LEMMA DebugStep ==
    ASSUME DebugInv, UNCHANGED <<given, conf, stored>>, DOMAIN result' = DOMAIN result,
           pass \in Calculating, pass' \in Calculating,
           \A a \in DOMAIN result : DOMAIN result'[a] = ResultFields,
           \A a \in DOMAIN result : Explained(a) /\ result[a].total = Due(a) =>
              result'[a].total = Due(a)'
    PROVE  DebugInv'
<1>1. UNCHANGED given /\ conf' = conf /\ stored' = stored
  OBVIOUS
<1>2. \A a \in DOMAIN result' : a \in Account /\ DOMAIN result'[a] = ResultFields
  BY DEF DebugInv
<1>3. ASSUME NEW a \in DOMAIN result', Explained(a)' PROVE result'[a].total = Due(a)'
  <2>1. Explained(a) /\ a \in DOMAIN result
    BY <1>1, <1>3, ExplainedStays
  <2>2. result[a].total = Due(a)
    BY <2>1 DEF DebugInv
  <2> QED
    BY <2>1, <2>2
<1>4. pass # "done" /\ pass' # "done"
  BY DEF Calculating
<1>5. DOMAIN result' # {} => NeedToUpdateCalcDebugResult'
  BY <1>1 DEF DebugInv, NeedToUpdateCalcDebugResult
<1> QED
  BY <1>1, <1>2, <1>3, <1>4, <1>5 DEF DebugInv

LEMMA ScoreInt ==
    ASSUME RewardsTypes, NEW a \in Account
    PROVE  Score(a) \in Int /\ bpMap[a] \in Int
BY DEF RewardsTypes, Score, IScoreAccount

LEMMA DebugStart ==
    ASSUME RewardsInv, DelegationsInv, DebugInv, StartCalculation
    PROVE  DebugInv'
<1>1. /\ UNCHANGED given /\ conf' = conf /\ stored' = stored /\ write' = write
      /\ pass = "idle" /\ pass' = "accounts" /\ InitCalcDebugResult
  BY DEF StartCalculation
<1>2. \A a \in Account : write[a] = NoAccount
  BY <1>1 DEF DelegationsInv
<1>3. CASE ~NeedToUpdateCalcDebugResult
  <2>1. result' = result /\ DOMAIN result = {}
    BY <1>1, <1>3 DEF InitCalcDebugResult, DebugInv
  <2> QED
    BY <1>1, <2>1 DEF DebugInv
<1>4. CASE NeedToUpdateCalcDebugResult
  <2>1. result' = [a \in conf.addresses |-> InitCalcResult(a)]
    BY <1>1, <1>4 DEF InitCalcDebugResult
  <2>2. DOMAIN result' = conf.addresses /\ conf.addresses \subseteq Account
    BY <2>1 DEF DebugInv, CalcDebugConfig
  <2>3. NeedToUpdateCalcDebugResult' /\ pass' \in Calculating
    BY <1>1, <1>4 DEF NeedToUpdateCalcDebugResult, Calculating
  <2>4. ASSUME NEW a \in DOMAIN result'
        PROVE  a \in Account /\ DOMAIN result'[a] = ResultFields /\ result'[a].total = Due(a)'
    <3>1. a \in Account /\ result'[a] = InitCalcResult(a)
      BY <2>1, <2>2
    <3>2. Due(a)' = Initial(a)
      BY <1>1, <1>2, <3>1, ExplainedStays DEF Due
    <3>3. InitCalcResult(a).total = Initial(a) /\ DOMAIN InitCalcResult(a) = ResultFields
      BY DEF InitCalcResult, Initial, ResultFields
    <3> QED
      BY <3>1, <3>2, <3>3
  <2>5. conf' = conf /\ DOMAIN stored' = {} /\ pass' # "done"
    BY <1>1 DEF DebugInv
  <2> QED
    BY <2>2, <2>3, <2>4, <2>5 DEF DebugInv
<1> QED
  BY <1>3, <1>4

LEMMA DebugAccounts ==
    ASSUME RewardsInv, DelegationsInv, DebugInv, NEW b \in Account, CalculateDB(b)
    PROVE  DebugInv'
<1> DEFINE amount == [x \in {b} |-> DebugReward(read[b], End)]
           reward == DelegationsReward(read[b], End)
           k == read[b].iScore + reward
           ia == [read[b] EXCEPT !.iScore = k, !.blockHeight = End]
<1>1. RewardsTypes /\ \A a \in DOMAIN result : a \in Account /\ DOMAIN result[a] = ResultFields
  BY DEF RewardsInv, DebugInv
<1>2. /\ UNCHANGED <<given, conf, stored>> /\ UNCHANGED given /\ pass = "accounts" /\ pass' = pass
      /\ read[b] # NoAccount /\ write[b] = NoAccount /\ Record("beta3", amount)
      /\ write' = [write EXCEPT ![b] = ia]
  BY DEF CalculateDB
<1>3. /\ DOMAIN result' = DOMAIN result
      /\ \A a \in DOMAIN result :
            /\ DOMAIN result'[a] = ResultFields
            /\ (NeedToUpdateCalcDebugResult /\ a = b) =>
                  result'[a].total = result[a].total + DebugReward(read[b], End)
            /\ a # b => result'[a].total = result[a].total
  <2>1. DOMAIN amount = {b} /\ amount[b] = DebugReward(read[b], End)
    OBVIOUS
  <2> HIDE DEF amount
  <2> QED
    BY <1>1, <1>2, <2>1, RecordAdds
<1>4. ia # NoAccount /\ ia.iScore = k
  <2>1. read[b] \in IScoreAccount /\ reward \in Int
    BY <1>1, <1>2, DelegationsRewardInt DEF RewardsTypes
  <2>2. k \in Int
    BY <2>1 DEF IScoreAccount
  <2> HIDE DEF k
  <2>3. PICK x \in IScoreAccount, m \in Int, h \in Nat : x = read[b] /\ m = k /\ h = End
    BY <2>1, <2>2, TermRewardsAssumption
  <2>4. /\ [x EXCEPT !.iScore = m, !.blockHeight = h] \in IScoreAccount
        /\ [x EXCEPT !.iScore = m, !.blockHeight = h].iScore = m
    BY DEF IScoreAccount
  <2> QED
    BY <2>3, <2>4, AccountIsThere
<1> HIDE DEF ia, amount
<1>5. \A x \in Account : write'[x] = IF x = b THEN ia ELSE write[x]
  BY <1>1, <1>2 DEF RewardsTypes
<1>6. ASSUME NEW a \in DOMAIN result, Explained(a), result[a].total = Due(a)
      PROVE  result'[a].total = Due(a)'
  <2>1. a \in Account /\ NeedToUpdateCalcDebugResult
    BY <1>1 DEF DebugInv
  <2>2. CASE a = b
    <3>1. result[a].total = read[b].iScore
      BY <1>2, <1>6, <2>2 DEF Due, Initial
    <3>2. DebugReward(read[b], End) = reward
      BY <1>1, <1>2, <1>6, DebugRewardIs DEF DelegationsInv, Explained
    <3>3. Due(a)' = k
      BY <1>2, <1>4, <1>5, <2>1, <2>2 DEF Due, Score
    <3> QED
      BY <1>3, <2>1, <2>2, <3>1, <3>2, <3>3
  <2>3. CASE a # b
    <3>1. write'[a] = write[a] /\ Initial(a)' = Initial(a)
      BY <1>2, <1>5, <2>1, <2>3, ExplainedStays
    <3>2. Due(a)' = Due(a)
      BY <1>2, <3>1 DEF Due, Score
    <3> QED
      BY <1>3, <1>6, <2>3, <3>2
  <2> QED
    BY <2>2, <2>3
<1>7. pass \in Calculating /\ pass' \in Calculating
  BY <1>2 DEF Calculating
<1> QED
  BY <1>2, <1>3, <1>6, <1>7, DebugStep

LEMMA DebugEndAccounts ==
    ASSUME RewardsInv, DebugInv, EndAccounts
    PROVE  DebugInv'
<1>1. /\ UNCHANGED <<given, conf, stored>> /\ UNCHANGED given /\ result' = result /\ write' = write
      /\ pass = "accounts" /\ pass' = "tx"
      /\ \A a \in Account : read[a] # NoAccount => write[a] # NoAccount
  BY DEF EndAccounts
<1>2. \A a \in DOMAIN result : a \in Account /\ DOMAIN result[a] = ResultFields
  BY DEF DebugInv
<1>3. ASSUME NEW a \in DOMAIN result PROVE Due(a)' = Due(a)
  BY <1>1, <1>2 DEF Due, Score, Initial
<1>4. pass \in Calculating /\ pass' \in Calculating
  BY <1>1 DEF Calculating
<1> QED
  BY <1>1, <1>2, <1>3, <1>4, DebugStep

LEMMA DebugTX ==
    ASSUME RewardsInv, DebugInv, CalculateIISSTX
    PROVE  DebugInv'
<1>1. /\ UNCHANGED <<given, conf, stored>> /\ UNCHANGED given /\ pass = "tx" /\ pass' = pass
      /\ next \in DOMAIN txs
      /\ \E ia : write' = [write EXCEPT ![txs[next].addr] = ia]
      /\ \E r : Record("beta3", [x \in {txs[next].addr} |-> r])
  BY DEF CalculateIISSTX
<1>2. PICK r : Record("beta3", [x \in {txs[next].addr} |-> r])
  BY <1>1
<1>3. /\ \A a \in DOMAIN result : a \in Account /\ DOMAIN result[a] = ResultFields
      /\ DOMAIN write = Account
  BY DEF RewardsInv, RewardsTypes, DebugInv
<1>4. /\ DOMAIN result' = DOMAIN result
      /\ \A a \in DOMAIN result :
            /\ DOMAIN result'[a] = ResultFields
            /\ a # txs[next].addr => result'[a].total = result[a].total
  <2> DEFINE amount == [x \in {txs[next].addr} |-> r]
  <2>1. DOMAIN amount = {txs[next].addr} /\ Record("beta3", amount)
    BY <1>2
  <2> HIDE DEF amount
  <2> QED
    BY <1>3, <2>1, RecordAdds
<1>5. ASSUME NEW a \in DOMAIN result, Explained(a), result[a].total = Due(a)
      PROVE  result'[a].total = Due(a)'
  <2>1. a # txs[next].addr /\ a \in Account
    BY <1>1, <1>3, <1>5 DEF Explained, TXsOf
  <2>2. write'[a] = write[a]
    BY <1>1, <1>3, <2>1
  <2>3. Due(a)' = Due(a)
    BY <1>1, <2>2 DEF Due, Score
  <2> QED
    BY <1>4, <1>5, <2>1, <2>3
<1>6. pass \in Calculating /\ pass' \in Calculating
  BY <1>1 DEF Calculating
<1> QED
  BY <1>1, <1>4, <1>5, <1>6, DebugStep

LEMMA DebugEndTX ==
    ASSUME RewardsInv, Issued, DebugInv, EndTX
    PROVE  DebugInv'
<1>1. /\ UNCHANGED <<given, conf, stored>> /\ result' = result /\ write' = write /\ bpMap' = bpMap
      /\ pass = "tx" /\ pass' = "blocks"
  BY DEF EndTX
<1>2. RewardsTypes /\ \A a \in DOMAIN result : a \in Account /\ DOMAIN result[a] = ResultFields
  BY DEF RewardsInv, DebugInv
<1>3. ASSUME NEW a \in DOMAIN result PROVE Due(a)' = Due(a)
  <2>1. bpMap[a] = 0 /\ Score(a) \in Int /\ Score(a)' = Score(a)
    BY <1>1, <1>2, ScoreInt DEF Issued, IssuedToProducers, Score
  <2>2. Due(a) = Score(a) /\ Due(a)' = Score(a) + bpMap[a]
    BY <1>1, <2>1 DEF Due
  <2> QED
    BY <2>1, <2>2
<1>4. pass \in Calculating /\ pass' \in Calculating
  BY <1>1 DEF Calculating
<1> QED
  BY <1>1, <1>2, <1>3, <1>4, DebugStep

LEMMA DebugBlock ==
    ASSUME RewardsInv, DebugInv, CalculateIISSBlockProduce
    PROVE  DebugInv'
<1> DEFINE bp == blocks[next]
           reward == BlockProduceReward(GVByBlockHeight(gvs, bp.blockHeight))
           share == ValidatorReward(bp, reward)
           amount == Beta1Info(bp, reward)
<1>1. RewardsTypes /\ \A a \in DOMAIN result : a \in Account /\ DOMAIN result[a] = ResultFields
  BY DEF RewardsInv, DebugInv
<1>2. /\ next \in DOMAIN blocks /\ pass = "blocks" /\ pass' = pass /\ write' = write
      /\ UNCHANGED <<given, conf, stored>> /\ UNCHANGED given
      /\ bpMap' = [a \in Account |->
                      bpMap[a] + (IF a = bp.generator THEN reward ELSE 0)
                               + (IF a \in bp.validators THEN share ELSE 0)]
      /\ bp.validators = {} => result' = result
      /\ bp.validators # {} => Record("beta1", amount)
  BY DEF CalculateIISSBlockProduce
<1>3. DOMAIN amount = {bp.generator} \cup bp.validators
  BY DEF Beta1Info
<1>4. /\ DOMAIN result' = DOMAIN result
      /\ \A a \in DOMAIN result :
            /\ DOMAIN result'[a] = ResultFields
            /\ (NeedToUpdateCalcDebugResult /\ bp.validators # {} /\ a \in DOMAIN amount) =>
                  result'[a].total = result[a].total + amount[a]
            /\ (bp.validators = {} \/ a \notin DOMAIN amount) => result'[a].total = result[a].total
  <2> HIDE DEF amount, bp
  <2>1. CASE bp.validators = {}
    BY <1>1, <1>2, <2>1
  <2>2. CASE bp.validators # {}
    <3>1. /\ DOMAIN result' = DOMAIN result
          /\ \A a \in DOMAIN result :
                 /\ DOMAIN result'[a] = ResultFields
                 /\ (NeedToUpdateCalcDebugResult /\ a \in DOMAIN amount) =>
                       result'[a].total = result[a].total + amount[a]
                 /\ a \notin DOMAIN amount => result'[a].total = result[a].total
      BY <1>1, <1>2, <2>2, RecordAdds
    <3> QED
      BY <2>2, <3>1
  <2> QED
    BY <2>1, <2>2
<1>5. ASSUME NEW a \in DOMAIN result, Explained(a), result[a].total = Due(a)
      PROVE  result'[a].total = Due(a)'
  <2>1. a \in Account /\ NeedToUpdateCalcDebugResult
    BY <1>1 DEF DebugInv
  <2>2. Score(a) \in Int /\ bpMap[a] \in Int /\ Score(a)' = Score(a)
    BY <1>1, <1>2, <2>1, ScoreInt DEF Score
  <2>3. result[a].total = Score(a) + bpMap[a] /\ Due(a)' = Score(a) + bpMap'[a]
    BY <1>2, <1>5, <2>2 DEF Due
  <2>4. bpMap'[a] = bpMap[a] + (IF a = bp.generator THEN reward ELSE 0)
                             + (IF a \in bp.validators THEN share ELSE 0)
    BY <1>2, <2>1
  <2>5. bp.generator = a => bp.validators # {} /\ a \notin bp.validators
    BY <1>2, <1>5 DEF Explained, RecordsBlocksOf
  <2>6. CASE a \notin DOMAIN amount
    <3>1. bpMap'[a] = bpMap[a]
      <4> HIDE DEF bp, reward, share, amount
      <4> QED
        BY <1>3, <2>2, <2>4, <2>6
    <3> QED
      BY <1>4, <2>3, <2>6, <3>1
  <2>7. CASE a \in DOMAIN amount
    <3>1. bp.validators # {}
      BY <1>3, <2>5, <2>7
    <3>2. /\ amount[a] = (IF a = bp.generator THEN reward ELSE 0)
                           + (IF a \in bp.validators THEN share ELSE 0)
          /\ reward \in Nat /\ share \in Nat
      <4>1. a \in {blocks[next].generator} \cup blocks[next].validators
        BY <1>3, <2>7
      <4>2. Fits
        BY <1>5 DEF Explained
      <4>3. blocks[next].generator = a => a \notin blocks[next].validators
        BY <2>5
      <4>4. PICK r : r = BlockProduceReward(GVByBlockHeight(gvs, blocks[next].blockHeight))
        OBVIOUS
      <4>5. /\ Beta1Info(blocks[next], r)[a] =
                 (IF a = blocks[next].generator THEN r ELSE 0)
                   + (IF a \in blocks[next].validators THEN ValidatorReward(blocks[next], r) ELSE 0)
            /\ r \in Nat /\ ValidatorReward(blocks[next], r) \in Nat
        BY <1>1, <1>2, <2>1, <3>1, <4>1, <4>2, <4>3, <4>4, BlockDebugIs
      <4> QED
        BY <4>4, <4>5
    <3>3. result'[a].total = result[a].total + amount[a]
      BY <1>4, <2>1, <2>7, <3>1
    <3>4. bpMap'[a] = bpMap[a] + amount[a] /\ amount[a] \in Int
      <4> HIDE DEF bp, reward, share, amount
      <4> QED
        BY <2>2, <2>4, <3>2
    <3> HIDE DEF amount
    <3> QED
      BY <2>2, <2>3, <3>3, <3>4
  <2> QED
    BY <2>6, <2>7
<1>6. pass \in Calculating /\ pass' \in Calculating
  BY <1>2 DEF Calculating
<1> QED
  BY <1>2, <1>4, <1>5, <1>6, DebugStep

LEMMA DebugEndBlocks ==
    ASSUME RewardsInv, DebugInv, EndBlockProduce
    PROVE  DebugInv'
<1>1. /\ UNCHANGED <<given, conf, stored>> /\ result' = result
      /\ pass = "blocks" /\ pass' = "preps"
      /\ write' = [a \in Account |-> IF a \in BlockAddrs THEN Added(a, bpMap[a]) ELSE write[a]]
  BY DEF EndBlockProduce, BlockAddrs
<1>2. RewardsTypes /\ \A a \in DOMAIN result : a \in Account /\ DOMAIN result[a] = ResultFields
  BY DEF RewardsInv, DebugInv
<1>3. ASSUME NEW a \in DOMAIN result PROVE Due(a)' = Due(a)
  <2>1. a \in Account /\ Score(a) \in Int /\ bpMap[a] \in Int
    BY <1>2, ScoreInt
  <2>2. Due(a)' = Score(a)' /\ Due(a) = Score(a) + bpMap[a]
    BY <1>1 DEF Due
  <2>3. CASE a \in BlockAddrs
    <3>1. /\ write'[a] = Added(a, bpMap[a]) /\ Added(a, bpMap[a]) # NoAccount
          /\ Added(a, bpMap[a]).iScore = bpMap[a] + Score(a)
      BY <1>1, <1>2, <2>1, <2>3, AddedIs, AccountIsThere DEF Score
    <3>2. Score(a)' = bpMap[a] + Score(a)
      BY <3>1 DEF Score
    <3> QED
      BY <2>1, <2>2, <3>2
  <2>4. CASE a \notin BlockAddrs
    <3>1. bpMap[a] = 0 /\ write'[a] = write[a]
      BY <1>1, <2>1, <2>4 DEF RewardsInv, Produced
    <3>2. Score(a)' = Score(a)
      BY <3>1 DEF Score
    <3> QED
      BY <2>1, <2>2, <3>1, <3>2
  <2> QED
    BY <2>3, <2>4
<1>4. pass \in Calculating /\ pass' \in Calculating
  BY <1>1 DEF Calculating
<1> QED
  BY <1>1, <1>2, <1>3, <1>4, DebugStep

LEMMA DebugPReps ==
    ASSUME RewardsInv, DebugInv, CalculatePRepReward
    PROVE  DebugInv'
<1>1. /\ UNCHANGED <<given, conf, stored>> /\ pass = "preps" /\ pass' = pass
      /\ next \in DOMAIN preps
      /\ write' = [a \in Account |-> IF a \notin DOMAIN Paid THEN write[a]
                      ELSE [Added(a, Paid[a]) EXCEPT !.blockHeight = PRepHeight(a, Max(Used))]]
      /\ Record("beta2", PaidDebug)
  BY DEF CalculatePRepReward, PaidDebug, Paid, Used
<1>2. RewardsTypes /\ \A a \in DOMAIN result : a \in Account /\ DOMAIN result[a] = ResultFields
  BY DEF RewardsInv, DebugInv
<1>3. DOMAIN PaidDebug = DOMAIN Paid
  BY DEF PaidDebug
<1>4. /\ DOMAIN result' = DOMAIN result
      /\ \A a \in DOMAIN result :
            /\ DOMAIN result'[a] = ResultFields
            /\ (NeedToUpdateCalcDebugResult /\ a \in DOMAIN Paid) =>
                  result'[a].total = result[a].total + PaidDebug[a]
            /\ a \notin DOMAIN Paid => result'[a].total = result[a].total
  BY <1>1, <1>2, <1>3, RecordAdds
<1>5. ASSUME NEW a \in DOMAIN result, Explained(a), result[a].total = Due(a)
      PROVE  result'[a].total = Due(a)'
  <2>1. a \in Account /\ NeedToUpdateCalcDebugResult /\ Score(a) \in Int
    BY <1>2, ScoreInt DEF DebugInv
  <2>2. result[a].total = Score(a) /\ Due(a)' = Score(a)'
    BY <1>1, <1>5 DEF Due
  <2>3. CASE a \notin DOMAIN Paid
    <3>1. write'[a] = write[a]
      BY <1>1, <2>1, <2>3
    <3>2. Score(a)' = Score(a)
      BY <3>1 DEF Score
    <3> QED
      BY <1>4, <2>2, <2>3, <3>2
  <2>4. CASE a \in DOMAIN Paid
    <3>1. PaidDebug[a] = Paid[a] /\ Paid[a] \in Int
      BY <1>1, <1>2, <1>5, <2>4, PaidDebugIs DEF Explained
    <3>2. PICK x \in IScoreAccount : x = Added(a, Paid[a]) /\ x.iScore = Paid[a] + Score(a)
      BY <1>2, <2>1, <3>1, AddedIs DEF Score
    <3>3. PICK h : h = PRepHeight(a, Max(Used))
      OBVIOUS
    <3>4. write'[a] = [x EXCEPT !.blockHeight = h]
      BY <1>1, <2>1, <2>4, <3>2, <3>3
    <3>5. PICK m \in Nat : m = h
      <4>1. Max(Used) \in Nat
        BY <1>1, <1>2, <2>4, PaidTyped
      <4>2. PRepHeight(a, Max(Used)) \in Nat
        BY <1>2, <2>1, <4>1, TermRewardsAssumption DEF PRepHeight, RewardsTypes, IScoreAccount
      <4> QED
        BY <3>3, <4>2
    <3>6. /\ [x EXCEPT !.blockHeight = m] \in IScoreAccount
          /\ [x EXCEPT !.blockHeight = m].iScore = x.iScore
      BY DEF IScoreAccount
    <3>7. Score(a)' = Paid[a] + Score(a)
      <4>1. write'[a] # NoAccount /\ write'[a].iScore = Paid[a] + Score(a)
        BY <3>2, <3>4, <3>5, <3>6, AccountIsThere
      <4> QED
        BY <4>1 DEF Score
    <3> QED
      BY <1>4, <2>1, <2>2, <2>4, <3>1, <3>7
  <2> QED
    BY <2>3, <2>4
<1>6. pass \in Calculating /\ pass' \in Calculating
  BY <1>1 DEF Calculating
<1> QED
  BY <1>1, <1>4, <1>5, <1>6, DebugStep

LEMMA DebugDone ==
    ASSUME DebugInv, EndPRep
    PROVE  DebugInv'
<1>1. /\ UNCHANGED given /\ conf' = conf /\ write' = write /\ pass = "preps" /\ pass' = "done"
      /\ stored' = IF NeedToUpdateCalcDebugResult THEN result ELSE stored
      /\ result' = IF NeedToUpdateCalcDebugResult THEN NoResult ELSE result
  BY DEF EndPRep
<1>2. DOMAIN result' = {}
  BY <1>1 DEF NoResult, DebugInv
<1>3. ASSUME NEW a \in DOMAIN stored', Explained(a)' PROVE stored'[a].total = Score(a)'
  <2>1. a \in DOMAIN result /\ stored'[a] = result[a]
    BY <1>1 DEF DebugInv
  <2>2. Explained(a)
    BY <1>1, <1>3, ExplainedStays
  <2>3. result[a].total = Score(a) /\ Score(a)' = Score(a)
    BY <1>1, <2>1, <2>2 DEF DebugInv, Due, Score
  <2> QED
    BY <2>1, <2>3
<1> QED
  BY <1>1, <1>2, <1>3 DEF DebugInv

(* The messages before a calculation change no result. *)
LEMMA DebugMessages ==
    ASSUME DebugInv, Debug
    PROVE  DebugInv'
<1>1. pass = "idle" /\ pass' = pass /\ stored' = stored /\ DOMAIN result = {} /\ DOMAIN stored = {}
  BY DEF Debug, FlagOn, FlagOff, AddDebuggingAddress, DeleteDebuggingAddress, DebugInv, Calculating
<1>2. DOMAIN result' = {}
  <2>1. CASE FlagOn \/ FlagOff
    BY <1>1, <2>1 DEF FlagOn, FlagOff
  <2>2. CASE \E a \in Account : AddDebuggingAddress(a) \/ DeleteDebuggingAddress(a)
    BY <1>1, <2>2 DEF AddDebuggingAddress, DeleteDebuggingAddress
  <2> QED
    BY <2>1, <2>2 DEF Debug
<1>3. conf' \in CalcDebugConfig
  <2>1. PICK c \in CalcDebugConfig : c = conf
    BY DEF DebugInv
  <2>2. /\ \A v \in BOOLEAN : [c EXCEPT !.flag = v] \in CalcDebugConfig
        /\ \A S \in SUBSET Account : [c EXCEPT !.addresses = S] \in CalcDebugConfig
    BY DEF CalcDebugConfig
  <2>3. c.addresses \in SUBSET Account
    BY DEF CalcDebugConfig
  <2>4. CASE FlagOn
    <3>1. PICK v \in BOOLEAN : v = TRUE
      OBVIOUS
    <3>2. conf' = [c EXCEPT !.flag = v]
      BY <2>1, <2>4, <3>1 DEF FlagOn
    <3> QED
      BY <2>2, <3>2
  <2>5. CASE FlagOff
    <3>1. PICK v \in BOOLEAN : v = FALSE
      OBVIOUS
    <3>2. conf' = [c EXCEPT !.flag = v]
      BY <2>1, <2>5, <3>1 DEF FlagOff
    <3> QED
      BY <2>2, <3>2
  <2>6. ASSUME NEW a \in Account, AddDebuggingAddress(a) PROVE conf' \in CalcDebugConfig
    <3>1. PICK S \in SUBSET Account : S = c.addresses \cup {a}
      BY <2>3
    <3>2. conf' = [c EXCEPT !.addresses = S]
      BY <2>1, <2>6, <3>1 DEF AddDebuggingAddress
    <3> QED
      BY <2>2, <3>2
  <2>7. ASSUME NEW a \in Account, DeleteDebuggingAddress(a) PROVE conf' \in CalcDebugConfig
    <3>1. PICK S \in SUBSET Account : S = c.addresses \ {a}
      BY <2>3
    <3>2. conf' = [c EXCEPT !.addresses = S]
      BY <2>1, <2>7, <3>1 DEF DeleteDebuggingAddress
    <3> QED
      BY <2>2, <3>2
  <2> QED
    BY <2>4, <2>5, <2>6, <2>7 DEF Debug
<1> QED
  BY <1>1, <1>2, <1>3 DEF DebugInv

LEMMA DebugNext ==
    ASSUME RewardsInv, DelegationsInv, Issued, DebugInv, [Next]_vars
    PROVE  DebugInv'
<1>1. CASE UNCHANGED vars
  <2>1. /\ UNCHANGED given /\ conf' = conf /\ stored' = stored /\ result' = result
        /\ pass' = pass /\ write' = write /\ bpMap' = bpMap
    BY <1>1 DEF vars
  <2>2. \A a : /\ Explained(a)' <=> Explained(a)
               /\ Score(a)' = Score(a) /\ Due(a)' = Due(a)
    BY <2>1, ExplainedStays DEF Score, Due
  <2>3. NeedToUpdateCalcDebugResult' <=> NeedToUpdateCalcDebugResult
    BY <2>1 DEF NeedToUpdateCalcDebugResult
  <2> QED
    BY <2>1, <2>2, <2>3 DEF DebugInv
<1>2. CASE Debug
  BY <1>2, DebugMessages
<1>3. CASE StartCalculation
  BY <1>3, DebugStart
<1>4. CASE \E a \in Account : CalculateDB(a)
  BY <1>4, DebugAccounts
<1>5. CASE EndAccounts
  BY <1>5, DebugEndAccounts
<1>6. CASE CalculateIISSTX
  BY <1>6, DebugTX
<1>7. CASE EndTX
  BY <1>7, DebugEndTX
<1>8. CASE CalculateIISSBlockProduce
  BY <1>8, DebugBlock
<1>9. CASE EndBlockProduce
  BY <1>9, DebugEndBlocks
<1>10. CASE CalculatePRepReward
  BY <1>10, DebugPReps
<1>11. CASE EndPRep
  BY <1>11, DebugDone
<1> QED
  BY <1>1, <1>2, <1>3, <1>4, <1>5, <1>6, <1>7, <1>8, <1>9, <1>10, <1>11 DEF Next

(* The debug result explains the I-Score of every debugged address to the   *)
(* unit, in every term and whatever DEBUG messages came before it: for      *)
(* addresses without a delegation transaction, whose blocks had other       *)
(* validators, and as long as the products fit into 64 bits                 *)
(* (calculation_debug.go computes all of it a second time).                 *)
THEOREM DebugResultExplains == Spec => []DebugExplainsIScore
<1>1. Init => DebugInv
  <2> SUFFICES ASSUME Init PROVE DebugInv
    OBVIOUS
  <2>1. /\ pass = "idle" /\ conf \in CalcDebugConfig
        /\ DOMAIN result = {} /\ DOMAIN stored = {}
    BY DEF Init, NoResult
  <2> QED
    BY <2>1 DEF DebugInv
<1>2. DebugInv => DebugExplainsIScore
  BY DEF DebugInv, DebugExplainsIScore, Explained, Score
<1>3. RewardsInv /\ DelegationsInv /\ [Next]_vars => DelegationsInv'
  BY DelegationsNext
<1>4. RewardsInv /\ RewardsInv' /\ Issued /\ [Next]_vars => Issued'
  BY IssueNext
<1>5. RewardsInv /\ DelegationsInv /\ Issued /\ DebugInv /\ [Next]_vars => DebugInv'
  BY DebugNext
<1> QED
  BY <1>1, <1>2, <1>3, <1>4, <1>5, IssueInit, DelegationsInit, RewardsInvariance, PTL DEF Spec
=============================================================================
