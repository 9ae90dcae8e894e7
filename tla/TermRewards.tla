---------------------------- MODULE TermRewards ----------------------------
(***************************************************************************)
(* What one calculation pays, with the amounts.                            *)
(*                                                                         *)
(* The passes of DoCalculate over the accounts of one term: delegation     *)
(* rewards from the accounts of the query DB, the correction of each       *)
(* delegation transaction, block produce rewards and P-Rep rewards; the    *)
(* statistics they sum up, and the debug result that explains them account *)
(* by account.  Divisions round down and are taken per governance          *)
(* variable, the correction subtracts a rounded amount and adds another,   *)
(* and the debug result repeats the arithmetic in 64 bits.  Calculate has  *)
(* the crashes and rollbacks.                                              *)
(***************************************************************************)
EXTENDS Reward

CONSTANTS
    Account,            \* addresses, P-Reps among them
    Candidate,          \* ctx.PRepCandidates: address -> registration
    Start, End,         \* the term is Start+1 .. End
    GVLists,            \* ctx.GV: lists that begin at or before Start
    PRepLists,          \* ctx.PRep: lists that begin at or before Start
    IScores,            \* I-Scores of the query DB
    Delegations,        \* what an account may delegate: candidate -> amount
    TXLists,            \* delegation transactions of the IISS data
    BlockLists,         \* block produce infos of the IISS data
    Revisions,          \* revisions of ICON Service
    MinDelegation,
    RewardDivider,
    Word,               \* 2^64: the debug result is kept in machine words
    NoAccount           \* no entry in an account DB

NoResult == [a \in {} |-> 0]

\* the amounts by address of the data: delegations of accounts and of P-Rep lists
Amounts ==
    {NoResult} \cup Delegations
    \cup UNION {{l[i].delegation : i \in DOMAIN l} : l \in TXLists}
    \cup UNION {{l[i].delegated : i \in DOMAIN l} : l \in PRepLists}
IScoreAccount == [iScore : Int, blockHeight : Nat, delegation : Amounts]
GovernanceVariable == [blockHeight : Nat, rewardRep : Nat, incentive : Nat, mainPReps : Nat]
PRepList == [blockHeight : Nat, delegated : Amounts, total : Nat]
DelegateTX == [addr : Account, blockHeight : Start + 1 .. End, delegation : Amounts]
BlockProduce == [blockHeight : Start + 1 .. End, generator : Account, validators : SUBSET Account]

ASSUME TermRewardsAssumption ==
    /\ Start \in Nat /\ End \in Nat /\ Start < End
    /\ IsFiniteSet(Account)
    /\ Candidate \in [DOMAIN Candidate -> [start : Nat, end : Nat]]
    /\ DOMAIN Candidate \subseteq Account
    /\ RewardDivider \in Nat \ {0} /\ Word \in Nat \ {0} /\ MinDelegation \in Nat
    /\ IScores \subseteq Int /\ Revisions \subseteq Nat /\ NoAccount \notin IScoreAccount
    /\ \A d \in Amounts : DOMAIN d \subseteq Account /\ \A p \in DOMAIN d : d[p] \in Nat
    /\ GVLists \subseteq Seq(GovernanceVariable) /\ PRepLists \subseteq Seq(PRepList)
    /\ TXLists \subseteq Seq(DelegateTX) /\ BlockLists \subseteq Seq(BlockProduce)
    /\ \A l \in GVLists \cup PRepLists :
          /\ l # <<>> /\ l[1].blockHeight <= Start
          /\ \A i \in DOMAIN l, j \in DOMAIN l : i < j => l[i].blockHeight <= l[j].blockHeight
    /\ \A l \in TXLists : \A i \in DOMAIN l, j \in DOMAIN l :
          i < j => l[i].blockHeight <= l[j].blockHeight
    /\ \A l \in PRepLists : \A i \in DOMAIN l : l[i].total = SumFunction(l[i].delegated)

VARIABLES
    gvs, preps, txs, blocks,    \* what the calculation is given
    revision,                   \* of the header of the IISS data
    read, write,                \* the query DB and the calculate DB
    pass, next,                 \* the pass and its next item
    bpMap,                      \* block produce rewards not yet written
    stats,                      \* Statistics
    conf,                       \* calcDebug.conf
    result,                     \* calcDebug.result.Results, by address
    stored                      \* the calculation_debug DB: results of this term

given == <<gvs, preps, txs, blocks, revision, read>>
vars == <<given, write, pass, next, bpMap, stats, conf, result, stored>>

NoStats == [accounts |-> 0, beta1 |-> 0, beta2 |-> 0, beta3 |-> 0, total |-> 0]

Increase(beta, accounts, reward) ==
    stats' = [stats EXCEPT ![beta] = @ + reward, !.total = @ + reward,
                           !.accounts = @ + accounts]

-----------------------------------------------------------------------------
(* The debug result: the initial I-Score of each address and what every    *)
(* reward adds to it.  The rewards of an address are kept summed up.       *)

\* InitCalcDebugConfig reads it from a file
CalcDebugConfig == [flag : BOOLEAN, addresses : SUBSET Account]

NeedToUpdateCalcDebugResult == conf.flag /\ conf.addresses # {}

InitCalcResult(a) ==
    [total |-> IF read[a] = NoAccount THEN 0 ELSE read[a].iScore,
     beta1 |-> 0, beta2 |-> 0, beta3 |-> 0]

InitCalcDebugResult ==
    result' = IF NeedToUpdateCalcDebugResult
              THEN [a \in conf.addresses |-> InitCalcResult(a)] ELSE result

\* the debug addresses among those of amount are given their amounts
Record(beta, amount) ==
    result' = IF ~NeedToUpdateCalcDebugResult THEN result
              ELSE [a \in DOMAIN result |->
                      IF a \notin DOMAIN amount THEN result[a]
                      ELSE [result[a] EXCEPT !.total = @ + amount[a], ![beta] = @ + amount[a]]]

\* writeBeta1Info: a generator is not looked for among the validators
Beta1Info(bp, reward) ==
    [a \in {bp.generator} \cup bp.validators |->
        IF a = bp.generator THEN reward % Word
        ELSE (reward % Word) \div Cardinality(bp.validators)]

\* Mutant: the period is left out
Beta2InfoOnce(amount, total, gv, period) ==
    (((PRepReward(gv) % Word) * (amount % Word)) % Word) \div (total % Word)

\* writeBeta2Info and writeBeta3Info: products of machine words
Beta2Info(amount, total, gv, period) ==
    (((PRepReward(gv) % Word) * (amount % Word) * period) % Word) \div (total % Word)
Beta3Info(amount, gv, period) ==
    (((gv.rewardRep % Word) * period * (amount % Word)) % Word) \div RewardDivider

-----------------------------------------------------------------------------
(* Delegation rewards. *)

\* the delegations of an account that are rewarded
Valid(ia) == {p \in DOMAIN ia.delegation \cap DOMAIN Candidate :
                 ia.delegation[p] >= MinDelegation}

\* calculateIScore: what an account earns from its block height to a height, and
\* what is recorded for it meanwhile
DelegationsReward(ia, to) ==
    SumFunction([p \in Valid(ia) |-> DelegationReward(ia.delegation[p], gvs, Candidate[p],
                                                      ia.blockHeight, to, RewardDivider)])
DebugReward(ia, to) ==
    SumFunction([p \in Valid(ia) |->
        SumFunction([i \in DOMAIN gvs |->
            Beta3Info(ia.delegation[p], gvs[i],
                      DelegationPeriod(gvs, i, Candidate[p], ia.blockHeight, to))])])

\* calculateDB: every account of the query DB
CalculateDB(a) ==
    /\ pass = "accounts" /\ read[a] # NoAccount /\ write[a] = NoAccount
    /\ LET reward == DelegationsReward(read[a], End)
       IN  /\ write' = [write EXCEPT ![a] = [read[a] EXCEPT !.iScore = @ + reward,
                                                            !.blockHeight = End]]
           /\ Increase("beta3", 1, reward)
    /\ Record("beta3", [x \in {a} |-> DebugReward(read[a], End)])
    /\ UNCHANGED <<given, pass, next, bpMap, conf, stored>>

EndAccounts ==
    /\ pass = "accounts" /\ \A a \in Account : read[a] # NoAccount => write[a] # NoAccount
    /\ pass' = "tx" /\ next' = 1
    /\ UNCHANGED <<given, write, bpMap, stats, conf, result, stored>>

\* Mutant: the statistics keep what is taken back
StatsOfTXWithoutSub(add, sub) == add

StatsOfTX(add, sub) == add - sub

\* an account as a delegation transaction leaves it, without I-Score yet
NewIScoreAccountFromIISS(tx) ==
    [delegation |-> tx.delegation, blockHeight |-> tx.blockHeight, iScore |-> 0]

\* calculateIISSTX: what the old delegation earns after the transaction is taken
\* back, and what the new one earns is added
CalculateIISSTX ==
    /\ pass = "tx" /\ next \in DOMAIN txs
    /\ LET tx == txs[next]
           known == write[tx.addr] # NoAccount
           new == [NewIScoreAccountFromIISS(tx) EXCEPT
                      !.iScore = IF known THEN write[tx.addr].iScore ELSE 0]
           old == IF known THEN [write[tx.addr] EXCEPT !.blockHeight = tx.blockHeight] ELSE new
           sub == IF known THEN DelegationsReward(old, End) ELSE 0
           add == DelegationsReward(new, End)
       IN  /\ write' = [write EXCEPT ![tx.addr] = [new EXCEPT !.iScore = @ - sub + add,
                                                              !.blockHeight = End]]
           /\ Increase("beta3", IF known THEN 0 ELSE 1, StatsOfTX(add, sub))
           /\ Record("beta3", [x \in {tx.addr} |->
                        DebugReward(new, End) + IF known THEN DebugReward(old, End) ELSE 0])
    /\ next' = next + 1
    /\ UNCHANGED <<given, pass, bpMap, conf, stored>>

EndTX ==
    /\ pass = "tx" /\ next \notin DOMAIN txs
    /\ pass' = "blocks" /\ next' = 1
    /\ UNCHANGED <<given, write, bpMap, stats, conf, result, stored>>

-----------------------------------------------------------------------------
(* Block produce rewards. *)

\* Mutant: the validators do not share
ValidatorRewardWhole(bp, reward) == reward

ValidatorReward(bp, reward) == reward \div Cardinality(bp.validators)

\* calculateIISSBlockProduce: a block without validators is not recorded
CalculateIISSBlockProduce ==
    /\ pass = "blocks" /\ next \in DOMAIN blocks
    /\ LET bp == blocks[next]
           reward == BlockProduceReward(GVByBlockHeight(gvs, bp.blockHeight))
       IN  /\ bpMap' = [a \in Account |->
                          bpMap[a] + (IF a = bp.generator THEN reward ELSE 0)
                                   + (IF a \in bp.validators THEN ValidatorReward(bp, reward)
                                      ELSE 0)]
           /\ IF bp.validators = {} THEN UNCHANGED result
              ELSE Record("beta1", Beta1Info(bp, reward))
    /\ next' = next + 1
    /\ UNCHANGED <<given, write, pass, stats, conf, stored>>

\* an account of the calculate DB after a reward that is no delegation reward
Added(a, reward) ==
    IF write[a] = NoAccount
    THEN [iScore |-> reward, blockHeight |-> End, delegation |-> NoResult]
    ELSE [write[a] EXCEPT !.iScore = @ + reward]
NewAccounts(addrs) == Cardinality({a \in addrs : write[a] = NoAccount})

EndBlockProduce ==
    /\ pass = "blocks" /\ next \notin DOMAIN blocks
    /\ LET addrs == UNION {{blocks[i].generator} \cup blocks[i].validators : i \in DOMAIN blocks}
       IN  /\ write' = [a \in Account |-> IF a \in addrs THEN Added(a, bpMap[a]) ELSE write[a]]
           /\ Increase("beta1", NewAccounts(addrs), SumFunction(bpMap))
    /\ pass' = "preps" /\ next' = 1
    /\ UNCHANGED <<given, bpMap, conf, result, stored>>

-----------------------------------------------------------------------------
(* P-Rep rewards. *)

Revision8 == 8

\* Mutant: the revision is not looked at
ListEnd(a, end) == end

\* the block height of a P-Rep after a list that was paid up to end
PRepHeight(a, end) == IF revision < Revision8 THEN end
                      ELSE IF write[a] = NoAccount THEN End ELSE write[a].blockHeight

\* calculatePRepReward, setPRepReward: the list number next, in its blocks
CalculatePRepReward ==
    /\ pass = "preps" /\ next \in DOMAIN preps
    /\ LET prep == preps[next]
           used == Period(preps, next, Start, End)
           from == Min(used) - 1
           paid == IF used = {} \/ prep.total = 0 THEN NoResult
                   ELSE [a \in DOMAIN prep.delegated |->
                           PRepShare(prep.delegated[a], prep.total, gvs, from, Max(used))]
           debug == [a \in DOMAIN paid |->
                       SumFunction([i \in DOMAIN gvs |->
                          Beta2Info(prep.delegated[a], prep.total, gvs[i],
                                    Cardinality(Period(gvs, i, from, Max(used))))])]
       IN  /\ write' = [a \in Account |-> IF a \notin DOMAIN paid THEN write[a]
                               ELSE [Added(a, paid[a]) EXCEPT !.blockHeight = PRepHeight(a, Max(used))]]
           /\ Increase("beta2", NewAccounts(DOMAIN paid), SumFunction(paid))
           /\ Record("beta2", debug)
    /\ next' = next + 1
    /\ UNCHANGED <<given, pass, bpMap, conf, stored>>

\* WriteCalcDebugResult, ResetCalcDebugResults
EndPRep ==
    /\ pass = "preps" /\ next \notin DOMAIN preps
    /\ pass' = "done"
    /\ stored' = IF NeedToUpdateCalcDebugResult THEN result ELSE stored
    /\ result' = IF NeedToUpdateCalcDebugResult THEN NoResult ELSE result
    /\ UNCHANGED <<given, write, next, bpMap, stats, conf>>

-----------------------------------------------------------------------------
(* DEBUG messages before the calculation, and its start.  The handlers take *)
(* messages during a calculation too, and report that they should not: such *)
(* messages are left out.                                                  *)

FlagOn ==
    /\ pass = "idle" /\ conf' = [conf EXCEPT !.flag = TRUE]
    /\ UNCHANGED <<given, write, pass, next, bpMap, stats, result, stored>>
FlagOff ==
    /\ pass = "idle" /\ conf' = [conf EXCEPT !.flag = FALSE]
    /\ UNCHANGED <<given, write, pass, next, bpMap, stats, result, stored>>
AddDebuggingAddress(a) ==
    /\ pass = "idle" /\ conf' = [conf EXCEPT !.addresses = @ \cup {a}]
    /\ UNCHANGED <<given, write, pass, next, bpMap, stats, result, stored>>
DeleteDebuggingAddress(a) ==
    /\ pass = "idle" /\ conf' = [conf EXCEPT !.addresses = @ \ {a}]
    /\ result' = [x \in DOMAIN result \ {a} |-> result[x]]
    /\ UNCHANGED <<given, write, pass, next, bpMap, stats, stored>>

Debug ==
    \/ FlagOn \/ FlagOff
    \/ \E a \in Account : AddDebuggingAddress(a) \/ DeleteDebuggingAddress(a)

StartCalculation ==
    /\ pass = "idle"
    /\ pass' = "accounts"
    /\ InitCalcDebugResult
    /\ UNCHANGED <<given, write, next, bpMap, stats, conf, stored>>

Init ==
    /\ revision \in Revisions
    /\ gvs \in GVLists /\ preps \in PRepLists /\ txs \in TXLists /\ blocks \in BlockLists
    /\ read \in [Account -> {NoAccount} \cup
                    [iScore : IScores, blockHeight : {Start}, delegation : Delegations]]
    /\ write = [a \in Account |-> NoAccount]
    /\ pass = "idle" /\ next = 0
    /\ bpMap = [a \in Account |-> 0]
    /\ stats = NoStats
    /\ conf \in CalcDebugConfig
    /\ result = NoResult /\ stored = NoResult

Next ==
    \/ Debug
    \/ StartCalculation
    \/ \E a \in Account : CalculateDB(a)
    \/ EndAccounts \/ CalculateIISSTX \/ EndTX
    \/ CalculateIISSBlockProduce \/ EndBlockProduce
    \/ CalculatePRepReward \/ EndPRep

Spec == Init /\ [][Next]_vars

-----------------------------------------------------------------------------
(* Properties. *)

\* the reference: block by block, before any division
DelegationAt(a, b) ==
    LET before == {i \in DOMAIN txs : txs[i].addr = a /\ txs[i].blockHeight < b}
    IN  IF before # {} THEN txs[Max(before)].delegation
        ELSE IF read[a] = NoAccount THEN NoResult ELSE read[a].delegation
ExactInBlock(a, b) ==
    LET ia == [delegation |-> DelegationAt(a, b)]
    IN  SumFunction([p \in {p \in Valid(ia) : b \in CandidateBlocks(Candidate[p], Start, End)} |->
                       ia.delegation[p] * GVByBlockHeight(gvs, b).rewardRep])
Exact(a) == SumFunction([b \in Start + 1 .. End |-> ExactInBlock(a, b)])
Initial(a) == IF read[a] = NoAccount THEN 0 ELSE read[a].iScore
TXsOf(a) == {i \in DOMAIN txs : txs[i].addr = a}

\* Every account earns what its delegations earned block by block, to within the
\* divisions that were made, and never a negative amount, although the whole term
\* is calculated with the old delegation first and corrected afterwards: too much
\* only by what was rounded down when a correction took the old reward back
\* (calculateIScore, calculateDelegationReward, calculateIISSTX).
DelegationRewardExact ==
    pass = "blocks" => \A a \in Account : write[a] # NoAccount =>
        LET earned == write[a].iScore - Initial(a)
            error == RewardDivider * earned - Exact(a)
            divisions == Len(gvs) * Cardinality(DOMAIN Candidate)
            corrections == Cardinality(TXsOf(a))
        IN  /\ earned >= 0
            /\ -RewardDivider * divisions * (1 + corrections) <= error
            /\ error <= RewardDivider * divisions * corrections

\* The statistics that CALCULATE_DONE reports are what the accounts got, and count
\* every account of the calculate DB once (Statistics, DoCalculate).
StatsAreAccounts ==
    pass = "done" =>
        LET known == {a \in Account : write[a] # NoAccount}
        IN  /\ stats.total = SumFunction([a \in known |-> write[a].iScore - Initial(a)])
            /\ stats.total = stats.beta1 + stats.beta2 + stats.beta3
            /\ stats.accounts = Cardinality(known)

\* The next calculation goes on where this one ended, for every account: from Revision
\* 8 on, also for a P-Rep whose list was replaced within the term (setPRepReward,
\* calculateIScore).  Before, such a P-Rep stays behind and earns the rest again.
AccountsAtTermEnd ==
    pass = "done" /\ revision >= Revision8 =>
        \A a \in Account : write[a] # NoAccount => write[a].blockHeight = End

\* No more is issued than the governance variable in force provides: a block for
\* its producers at most twice its block produce reward, and for all P-Reps at most
\* one P-Rep reward (calculateIISSBlockProduce, setPRepReward).
IssueBounded ==
    pass = "done" =>
        /\ stats.beta1 <= SumFunction([i \in DOMAIN blocks |->
              2 * BlockProduceReward(GVByBlockHeight(gvs, blocks[i].blockHeight))])
        /\ stats.beta2 <= SumFunction([b \in Start + 1 .. End |->
              PRepReward(GVByBlockHeight(gvs, b))])

\* no product and no total of the debug result exceeds a machine word
Fits ==
    /\ \A i \in DOMAIN gvs, a \in Account :
        /\ \A j \in DOMAIN preps : a \in DOMAIN preps[j].delegated =>
              PRepReward(gvs[i]) * preps[j].delegated[a] * (End - Start) < Word
        /\ read[a] # NoAccount => \A p \in DOMAIN read[a].delegation :
              gvs[i].rewardRep * read[a].delegation[p] * (End - Start) < Word
    /\ \A i \in DOMAIN gvs : BlockProduceReward(gvs[i]) < Word
    /\ \A j \in DOMAIN preps : preps[j].total < Word
\* the blocks whose rewards to a are recorded in full
RecordsBlocksOf(a) ==
    \A i \in DOMAIN blocks : blocks[i].generator = a =>
        blocks[i].validators # {} /\ a \notin blocks[i].validators

\* The debug result explains the I-Score of an address to the unit: for addresses
\* without a delegation transaction (what is taken back is recorded as a reward),
\* whose blocks had other validators, and as long as the products fit into 64 bits
\* (calculation_debug.go).
DebugExplainsIScore ==
    pass = "done" => \A a \in DOMAIN stored :
        Fits /\ TXsOf(a) = {} /\ RecordsBlocksOf(a) =>
            stored[a].total = IF write[a] = NoAccount THEN 0 ELSE write[a].iScore
=============================================================================
