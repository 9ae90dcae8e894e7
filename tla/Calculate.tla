----------------------------- MODULE Calculate -----------------------------
(***************************************************************************)
(* How the Reward Calculator (RC) calculates I-Score.                      *)
(*                                                                         *)
(* At the end of every term ICON Service (IS) writes the term's IISS data  *)
(* and sends CALCULATE.  RC toggles its two account DBs, so that claims    *)
(* and queries are answered from the calculation before, renames the old   *)
(* query DB to a backup, and fills a new calculate DB: the delegation      *)
(* reward of every account in the query DB first, then the delegation      *)
(* transactions, the block produce rewards and the P-Rep rewards of the    *)
(* term.  A calculation that a crash interrupts is started again from the  *)
(* IISS data (reloadIISSData); one that a ROLLBACK interrupts is canceled. *)
(* A ROLLBACK below the last calculation puts the backup back.             *)
(*                                                                         *)
(* Every durable write is a step of its own; the files of a shard change   *)
(* at once.  A delegation earns its amount in I-Score per block, block     *)
(* producers and P-Reps earn one I-Score a term: how governance variables  *)
(* weigh them is module TermRewards'.                                      *)
(***************************************************************************)
EXTENDS Integers, Sequences, FiniteSetsExt

CONSTANTS
    Address,            \* accounts
    Shard,              \* DBCount account DBs of each kind
    ShardOf,            \* getAccountDBIndex
    IISSData,           \* what the IISS data of a term may be
    Term,               \* blocks of a term
    MaxHeight,          \* bound: the highest block
    MaxCrashes,         \* bound: crashes of a behaviour
    RollbackWhileCalculating,   \* IS may send ROLLBACK before CALCULATE_DONE
    NoAccount, NoData   \* no such entry, no such directory

Height == 0 .. MaxHeight
IScoreAccount == [iScore : Int, blockHeight : Height, delegation : Nat]
DelegateTX == [addr : Address, block : 1 .. Term, delegation : Nat]
AccountDB == [Address -> IScoreAccount \cup {NoAccount}]

ASSUME CalculateAssumption ==
    /\ MaxHeight \in Nat /\ Term \in Nat \ {0} /\ MaxCrashes \in Nat
    /\ ShardOf \in [Address -> Shard]
    /\ IISSData \subseteq [txs : Seq(DelegateTX), producers : SUBSET Address,
                           preps : SUBSET Address]
    \* IS numbers the transactions of a term in the order of its blocks
    /\ \A d \in IISSData : \A i, j \in DOMAIN d.txs : i < j => d.txs[i].block <= d.txs[j].block
    /\ RollbackWhileCalculating \in BOOLEAN
    /\ NoAccount \notin IScoreAccount /\ NoData \notin IISSData

VARIABLES
    info,       \* DBInfo: every change is written to the management DB at once
    account,    \* Account0 and Account1
    backups,    \* the renamed account DBs: [height, shard, accounts]
    results,    \* heights in the calculation result DB
    calc,       \* the goroutine that calculates
    rollback,   \* the ROLLBACK handler: its next step
    up,         \* RC runs
    crashes,    \* crashes so far
    torn,       \* history: a crash hit a pass that adds to the calculate DB
    \* ICON Service (external)
    iiss,       \* the IISS data directories, by height
    tip,        \* last block of the chain
    due,        \* CALCULATE for tip is not acknowledged
    rollingBack,\* ROLLBACK to tip is not answered
    data        \* the IISS data of the terms of the chain

dbVars == <<info, account, backups, results>>
faults == <<crashes, torn>>
isVars == <<iiss, tip, due, rollingBack, data>>
vars == <<dbVars, calc, rollback, up, faults, isVars>>

EmptyDB == [a \in Address |-> NoAccount]
QueryDB == info.queryDB
CalcDB == 1 - info.queryDB

\* the end of the last term that is over at height h
TermEnd(h) == h - (h % Term)

IdleCalc == [phase |-> "idle", height |-> 0, reload |-> FALSE, quit |-> FALSE,
             shards |-> {}, addrs |-> {}, next |-> 0, iiss |-> NoData]
Calculation(h, reload) ==
    [IdleCalc EXCEPT !.phase = IF reload THEN "load" ELSE "dispatched",
                     !.height = h, !.reload = reload]
ToPhase(phase) == [calc EXCEPT !.phase = phase]

\* the passes that read an account from the calculate DB and add to it
AddingPhases == {"tx", "bp", "prep", "done"}

IsCalculating == info.calculating > info.calcDone
NeedReload == info.calcDone # info.calculating
Quiet == calc = IdleCalc /\ ~NeedReload /\ rollback = "idle" /\ ~rollingBack /\ ~due

-----------------------------------------------------------------------------
(* The rewards of one account. *)

\* calculateIScore: the delegation reward up to height h
CalculateIScore(ia, h) ==
    IF h <= ia.blockHeight THEN ia
    ELSE [ia EXCEPT !.iScore = @ + ia.delegation * (h - ia.blockHeight),
                    !.blockHeight = h]

\* Mutants: the reward of the whole term is taken back; none is
DelegatedFromStart(ia, tx, h) ==
    LET back == IF ia = NoAccount THEN 0 ELSE ia.iScore - ia.delegation * Term
    IN  CalculateIScore([iScore |-> back, blockHeight |-> h - Term + tx.block,
                         delegation |-> tx.delegation], h)
DelegatedOnTop(ia, tx, h) ==
    CalculateIScore([iScore |-> IF ia = NoAccount THEN 0 ELSE ia.iScore,
                     blockHeight |-> h - Term + tx.block,
                     delegation |-> tx.delegation], h)

\* the account a delegation transaction of the term that ends at h leaves:
\* the reward from its block on is taken back and earned again
Delegated(ia, tx, h) ==
    LET block == h - Term + tx.block
        back == IF ia = NoAccount THEN 0
                ELSE ia.iScore - CalculateIScore([ia EXCEPT !.iScore = 0,
                                                            !.blockHeight = block], h).iScore
    IN  CalculateIScore([iScore |-> back, blockHeight |-> block,
                         delegation |-> tx.delegation], h)

\* the account after a block produce or P-Rep reward, of revision 8 and later:
\* the block height of an account that exists is not changed
Rewarded(ia, h) ==
    IF ia = NoAccount THEN [iScore |-> 1, blockHeight |-> h, delegation |-> 0]
    ELSE [ia EXCEPT !.iScore = @ + 1]

-----------------------------------------------------------------------------
(* Reference: what the term that ends at h earns, block by block. *)

\* a's delegation at a block: that of its last transaction before the block
DelegationAt(old, d, a, block) ==
    LET before == {i \in DOMAIN d.txs : d.txs[i].addr = a /\ d.txs[i].block < block}
    IN  IF before = {} THEN old ELSE d.txs[Max(before)].delegation

Earned(old, d, a) ==
      SumFunctionOnSet([block \in 1 .. Term |-> DelegationAt(old, d, a, block)], 1 .. Term)
    + (IF a \in d.producers THEN 1 ELSE 0)
    + (IF a \in d.preps THEN 1 ELSE 0)

NextAccounts(accounts, d, h) ==
    [a \in Address |->
        LET known == accounts[a] # NoAccount
            old == IF known THEN accounts[a].delegation ELSE 0
            sent == \E i \in DOMAIN d.txs : d.txs[i].addr = a
        IN  IF known \/ sent \/ a \in d.producers \cup d.preps
            THEN [iScore |-> (IF known THEN accounts[a].iScore ELSE 0) + Earned(old, d, a),
                  blockHeight |-> h,
                  delegation |-> DelegationAt(old, d, a, Term + 1)]
            ELSE NoAccount]

\* the accounts after the term that ends at h, as the chain's IISS data has it
Truth[h \in Height] ==
    IF h < Term THEN EmptyDB ELSE NextAccounts(Truth[h - Term], data[h], h)

-----------------------------------------------------------------------------
Init ==
    /\ info = [calcDone |-> 0, prevCalcDone |-> 0, calculating |-> 0,
               queryDB |-> 1, toggleBH |-> 0]
    /\ account = [i \in {0, 1} |-> EmptyDB]
    /\ backups = {}
    /\ results = {}
    /\ calc = IdleCalc
    /\ rollback = "idle"
    /\ up = TRUE
    /\ crashes = 0
    /\ torn = FALSE
    /\ iiss = [h \in Height |-> NoData]
    /\ tip = 0
    /\ due = FALSE
    /\ rollingBack = FALSE
    /\ data = [h \in Height |-> NoData]

-----------------------------------------------------------------------------
(* CALCULATE.  A request that is refused because a calculation is running  *)
(* stays due: IS asks again.                                               *)

Dispatch ==
    /\ up /\ due /\ ~rollingBack /\ calc = IdleCalc
    /\ calc' = Calculation(tip, FALSE)
    /\ UNCHANGED <<dbVars, rollback, up, faults, isVars>>

\* the goroutine of a CALCULATE message gets the channel ROLLBACK closes
GetChannel ==
    /\ calc.phase = "dispatched"
    /\ calc' = ToPhase("load")
    /\ UNCHANGED <<dbVars, rollback, up, faults, isVars>>

\* sendCalculateACK: the request is not due any more, if it still was; nobody
\* waits for the answer to a reload
Acknowledge == due' = (due /\ (calc.reload \/ tip # calc.height))

DropRequest ==
    /\ calc.phase = "load" /\ ~calc.reload /\ IsCalculating
    /\ calc' = IdleCalc
    /\ UNCHANGED <<dbVars, rollback, up, faults, isVars>>

Loadable == calc.phase = "load" /\ (calc.reload \/ ~IsCalculating)

LoadNothing ==
    /\ Loadable /\ iiss[calc.height] = NoData
    /\ info' = [info EXCEPT !.calculating = info.calcDone]
    /\ calc' = IdleCalc
    /\ Acknowledge
    /\ UNCHANGED <<account, backups, results, rollback, up, faults>>
    /\ UNCHANGED <<iiss, tip, rollingBack, data>>

SetCalculatingBH ==
    /\ Loadable /\ iiss[calc.height] # NoData
    /\ info' = [info EXCEPT !.calculating = calc.height]
    /\ calc' = [calc EXCEPT !.phase = "check", !.iiss = iiss[calc.height]]
    /\ UNCHANGED <<account, backups, results, rollback, up, faults, isVars>>

\* Mutant: the refusal is not sent
RefuseSilently ==
    /\ calc.phase = "check" /\ calc.height <= info.calcDone
    /\ info' = [info EXCEPT !.calculating = info.calcDone]
    /\ calc' = IdleCalc
    /\ UNCHANGED <<account, backups, results, rollback, up, faults, isVars>>

\* a calculation that was done before, or is older than one that was
RefuseHeight ==
    /\ calc.phase = "check" /\ calc.height <= info.calcDone
    /\ info' = [info EXCEPT !.calculating = info.calcDone]
    /\ calc' = IdleCalc
    /\ Acknowledge
    /\ UNCHANGED <<account, backups, results, rollback, up, faults>>
    /\ UNCHANGED <<iiss, tip, rollingBack, data>>

\* Mutant: the toggle height is not looked at
ToggledAgain(bh) == [info EXCEPT !.queryDB = 1 - @, !.toggleBH = bh]

\* toggleAccountDB(bh): nothing happens when it was done for bh before
Toggled(bh) ==
    IF info.toggleBH = bh THEN info
    ELSE [info EXCEPT !.queryDB = 1 - @, !.toggleBH = bh]

ToggleAccountDB ==
    /\ calc.phase = "check" /\ calc.height > info.calcDone
    /\ info' = Toggled(calc.height + 1)
    /\ calc' = ToPhase("purge")
    /\ UNCHANGED <<account, backups, results, rollback, up, faults, isVars>>

-----------------------------------------------------------------------------
(* resetAccountDB: the calculate DB is the old query DB now. *)

InShard(s) == {a \in Address : ShardOf[a] = s}
ShardOfDB(accounts, s) == [a \in InShard(s) |-> accounts[a]]
\* accounts with the ones of f's shard replaced
Overwrite(accounts, f) ==
    [a \in Address |-> IF a \in DOMAIN f THEN f[a] ELSE accounts[a]]

\* Mutant: the backups of the calculation before the last one go
DeletePrevBackups ==
    /\ calc.phase = "purge"
    /\ Acknowledge
    /\ backups' = {f \in backups : f.height # info.prevCalcDone}
    /\ calc' = [calc EXCEPT !.phase = "reset", !.shards = Shard]
    /\ UNCHANGED <<info, account, results, rollback, up, faults>>
    /\ UNCHANGED <<iiss, tip, rollingBack, data>>

\* CALCULATE is acknowledged, and the backups of the last calculation go
DeleteOldBackups ==
    /\ calc.phase = "purge"
    /\ Acknowledge
    /\ backups' = {f \in backups : f.height # info.calcDone}
    /\ calc' = [calc EXCEPT !.phase = "reset", !.shards = Shard]
    /\ UNCHANGED <<info, account, results, rollback, up, faults>>
    /\ UNCHANGED <<iiss, tip, rollingBack, data>>

BackupExists(s) == \E f \in backups : f.height = calc.height /\ f.shard = s

KeepShard(s) ==
    /\ calc.phase = "reset" /\ s \in calc.shards /\ BackupExists(s)
    /\ calc' = [calc EXCEPT !.shards = @ \ {s}]
    /\ UNCHANGED <<dbVars, rollback, up, faults, isVars>>

RenameShard(s) ==
    /\ calc.phase = "reset" /\ s \in calc.shards /\ ~BackupExists(s)
    /\ backups' = backups \cup {[height |-> calc.height, shard |-> s,
                                 accounts |-> ShardOfDB(account[CalcDB], s)]}
    /\ account' = [account EXCEPT ![CalcDB] = Overwrite(@, ShardOfDB(EmptyDB, s))]
    /\ calc' = [calc EXCEPT !.shards = @ \ {s}]
    /\ UNCHANGED <<info, results, rollback, up, faults, isVars>>

EndReset ==
    /\ calc.phase = "reset" /\ calc.shards = {}
    /\ calc' = [calc EXCEPT !.phase = "accounts",
                            !.addrs = {a \in Address : account[QueryDB][a] # NoAccount}]
    /\ UNCHANGED <<dbVars, rollback, up, faults, isVars>>

-----------------------------------------------------------------------------
(* The passes over the accounts. *)

\* Mutant: an account that is in the calculate DB already is not calculated again
CalculateDBOnce(a) ==
    /\ calc.phase = "accounts" /\ a \in calc.addrs
    /\ account' = IF account[CalcDB][a] # NoAccount THEN account
                  ELSE [account EXCEPT ![CalcDB][a] =
                           CalculateIScore(account[QueryDB][a], calc.height)]
    /\ calc' = [calc EXCEPT !.addrs = @ \ {a}]
    /\ UNCHANGED <<info, backups, results, rollback, up, faults, isVars>>

\* calculateDB: the shards are calculated side by side, in batches
CalculateDB(a) ==
    /\ calc.phase = "accounts" /\ a \in calc.addrs
    /\ account' = IF calc.height <= account[QueryDB][a].blockHeight THEN account
                  ELSE [account EXCEPT ![CalcDB][a] =
                           CalculateIScore(account[QueryDB][a], calc.height)]
    /\ calc' = [calc EXCEPT !.addrs = @ \ {a}]
    /\ UNCHANGED <<info, backups, results, rollback, up, faults, isVars>>

\* every shard is through or saw that its channel was closed
CancelCalculation ==
    /\ calc.phase = "accounts" /\ calc.quit
    /\ calc' = IdleCalc
    /\ UNCHANGED <<dbVars, rollback, up, faults, isVars>>

EndAccounts ==
    /\ calc.phase = "accounts" /\ calc.addrs = {} /\ ~calc.quit
    /\ calc' = [calc EXCEPT !.phase = "tx", !.next = 1]
    /\ UNCHANGED <<dbVars, rollback, up, faults, isVars>>

CalculateIISSTX ==
    /\ calc.phase = "tx" /\ calc.next <= Len(calc.iiss.txs)
    /\ LET tx == calc.iiss.txs[calc.next]
           ia == account[CalcDB][tx.addr]
       IN  account' = IF ia # NoAccount /\ ia.blockHeight # calc.height THEN account
                      ELSE [account EXCEPT ![CalcDB][tx.addr] =
                               Delegated(ia, tx, calc.height)]
    /\ calc' = [calc EXCEPT !.next = @ + 1]
    /\ UNCHANGED <<info, backups, results, rollback, up, faults, isVars>>

EndTX ==
    /\ calc.phase = "tx" /\ calc.next > Len(calc.iiss.txs)
    /\ calc' = [calc EXCEPT !.phase = "bp", !.addrs = calc.iiss.producers]
    /\ UNCHANGED <<dbVars, rollback, up, faults, isVars>>

\* calculateIISSBlockProduce and calculatePRepReward
AddReward(a) ==
    /\ calc.phase \in {"bp", "prep"} /\ a \in calc.addrs
    /\ account' = [account EXCEPT ![CalcDB][a] = Rewarded(@, calc.height)]
    /\ calc' = [calc EXCEPT !.addrs = @ \ {a}]
    /\ UNCHANGED <<info, backups, results, rollback, up, faults, isVars>>

EndBlockProduce ==
    /\ calc.phase = "bp" /\ calc.addrs = {}
    /\ calc' = [calc EXCEPT !.phase = "prep", !.addrs = calc.iiss.preps]
    /\ UNCHANGED <<dbVars, rollback, up, faults, isVars>>

EndPRep ==
    /\ calc.phase = "prep" /\ calc.addrs = {}
    /\ calc' = ToPhase("done")
    /\ UNCHANGED <<dbVars, rollback, up, faults, isVars>>

-----------------------------------------------------------------------------
SetCalcDoneBH ==
    /\ calc.phase = "done"
    /\ info' = [info EXCEPT !.prevCalcDone = info.calcDone, !.calcDone = calc.height]
    /\ calc' = ToPhase("result")
    /\ UNCHANGED <<account, backups, results, rollback, up, faults, isVars>>

WriteCalculationResult ==
    /\ calc.phase = "result"
    /\ results' = results \cup {calc.height}
    /\ calc' = ToPhase("cleanup")
    /\ UNCHANGED <<info, account, backups, rollback, up, faults, isVars>>

\* the IISS data of earlier terms is deleted, and CALCULATE_DONE is sent
CleanupIISSData ==
    /\ calc.phase = "cleanup"
    /\ iiss' = [h \in Height |-> IF h < calc.height THEN NoData ELSE iiss[h]]
    /\ calc' = IdleCalc
    /\ UNCHANGED <<dbVars, rollback, up, faults, tip, due, rollingBack, data>>

-----------------------------------------------------------------------------
(* ROLLBACK; the claim DB's part of it is in module Claim. *)

\* the goroutines that listen to the channel are told to stop
NotifyRollback ==
    /\ up /\ rollingBack /\ rollback = "idle"
    /\ info.prevCalcDone < tip
    /\ calc' = IF calc.phase \in {"idle", "dispatched"} THEN calc
               ELSE [calc EXCEPT !.quit = TRUE]
    /\ rollback' = "check"
    /\ UNCHANGED <<dbVars, up, faults, isVars>>

CheckAccountDBRollback ==
    /\ rollback = "check"
    /\ rollback' = IF tip <= info.calcDone THEN "rename" ELSE "reply"
    /\ UNCHANGED <<dbVars, calc, up, faults, isVars>>

RestoreShard(f) ==
    /\ rollback = "rename" /\ f \in backups
    /\ account' = [account EXCEPT ![CalcDB] = Overwrite(@, f.accounts)]
    /\ backups' = backups \ {f}
    /\ UNCHANGED <<info, results, calc, rollback, up, faults, isVars>>

ToggleBack ==
    /\ rollback = "rename" /\ backups = {}
    /\ info' = Toggled(tip)
    /\ rollback' = "result"
    /\ UNCHANGED <<account, backups, results, calc, up, faults, isVars>>

\* Mutant: the result of the calculation that is rolled back stays
KeepCalculationResult ==
    /\ rollback = "result"
    /\ rollback' = "info"
    /\ UNCHANGED <<info, account, backups, results, calc, up, faults, isVars>>

DeleteCalculationResult ==
    /\ rollback = "result"
    /\ results' = results \ {info.calcDone}
    /\ rollback' = "info"
    /\ UNCHANGED <<info, account, backups, calc, up, faults, isVars>>

RollbackAccountDBBlockInfo ==
    /\ rollback = "info"
    /\ info' = [info EXCEPT !.calcDone = info.prevCalcDone,
                            !.calculating = info.prevCalcDone]
    /\ rollback' = "reply"
    /\ UNCHANGED <<account, backups, results, calc, up, faults, isVars>>

AnswerRollback ==
    /\ rollback = "reply"
    /\ rollback' = "idle"
    /\ rollingBack' = FALSE
    /\ UNCHANGED <<dbVars, calc, up, faults, iiss, tip, due, data>>

-----------------------------------------------------------------------------
(* IS's blocks and rollbacks, and crashes of RC. *)

AddBlock ==
    /\ up /\ ~due /\ ~rollingBack /\ tip < MaxHeight
    /\ (tip + 1) % Term # 0
    /\ tip' = tip + 1
    /\ UNCHANGED <<dbVars, calc, rollback, up, faults, iiss, due, rollingBack, data>>

\* the last block of a term; IS stops when the calculation before is not done
EndTerm(d) ==
    /\ up /\ ~due /\ ~rollingBack /\ tip < MaxHeight
    /\ (tip + 1) % Term = 0 /\ info.calcDone >= tip + 1 - Term
    /\ tip' = tip + 1
    /\ data' = [data EXCEPT ![tip + 1] = d]
    /\ iiss' = [iiss EXCEPT ![tip + 1] = d]
    /\ due' = TRUE
    /\ UNCHANGED <<dbVars, calc, rollback, up, faults, rollingBack>>

\* the IISS data of the blocks that are given up goes with them
DecideRollback(to) ==
    /\ up /\ ~rollingBack
    /\ info.prevCalcDone < to /\ to < tip
    /\ \/ calc = IdleCalc /\ ~NeedReload
       \/ RollbackWhileCalculating /\ (to > info.calcDone \/ calc = IdleCalc)
    /\ tip' = to
    /\ iiss' = [h \in Height |-> IF h > to THEN NoData ELSE iiss[h]]
    /\ due' = (to = TermEnd(to))
    /\ rollingBack' = TRUE
    /\ UNCHANGED <<dbVars, calc, rollback, up, faults, data>>

Crash ==
    /\ up /\ crashes < MaxCrashes
    /\ up' = FALSE
    /\ calc' = IdleCalc
    /\ rollback' = "idle"
    /\ crashes' = crashes + 1
    /\ torn' = (torn \/ calc.phase \in AddingPhases)
    /\ UNCHANGED <<dbVars, isVars>>

\* RC starts: a calculation that was not finished is calculated again
ReloadIISSData ==
    /\ ~up
    /\ up' = TRUE
    /\ calc' = IF NeedReload THEN Calculation(info.calculating, TRUE) ELSE IdleCalc
    /\ UNCHANGED <<dbVars, rollback, faults, isVars>>

-----------------------------------------------------------------------------
CalculateStep ==
    \/ GetChannel \/ DropRequest \/ LoadNothing \/ SetCalculatingBH
    \/ RefuseHeight \/ ToggleAccountDB \/ DeleteOldBackups
    \/ \E s \in calc.shards : KeepShard(s) \/ RenameShard(s)
    \/ EndReset
    \/ \E a \in calc.addrs : CalculateDB(a) \/ AddReward(a)
    \/ CancelCalculation \/ EndAccounts \/ CalculateIISSTX
    \/ EndTX \/ EndBlockProduce \/ EndPRep
    \/ SetCalcDoneBH \/ WriteCalculationResult \/ CleanupIISSData

RollbackStep ==
    \/ NotifyRollback \/ CheckAccountDBRollback
    \/ \E f \in backups : RestoreShard(f)
    \/ ToggleBack \/ DeleteCalculationResult
    \/ RollbackAccountDBBlockInfo \/ AnswerRollback

Next ==
    \/ Dispatch \/ CalculateStep \/ RollbackStep
    \/ AddBlock
    \/ \E d \in IISSData : EndTerm(d)
    \/ \E to \in Height : DecideRollback(to)
    \/ Crash \/ ReloadIISSData

Spec == Init /\ [][Next]_vars
FairSpec == /\ Spec
            /\ WF_vars(CalculateStep) /\ WF_vars(RollbackStep)
            /\ WF_vars(Dispatch) /\ WF_vars(ReloadIISSData)

-----------------------------------------------------------------------------
(* Properties. *)

CalcPhase == {"idle", "dispatched", "load", "check", "purge", "reset", "accounts",
              "tx", "bp", "prep", "done", "result", "cleanup"}

\* Every variable has its type, and an I-Score is below zero only when a crash
\* made the transactions of a new account count twice (calculateIISSTX).
CalcTypeOK ==
    /\ info \in [calcDone : Height, prevCalcDone : Height, calculating : Height,
                 queryDB : {0, 1}, toggleBH : Nat]
    /\ account \in [{0, 1} -> AccountDB]
    /\ \A db \in {0, 1}, a \in Address :
          account[db][a] # NoAccount /\ account[db][a].iScore < 0 => torn
    /\ \A f \in backups : /\ f.height \in Height /\ f.shard \in Shard
                          /\ f.accounts \in [InShard(f.shard) -> IScoreAccount \cup {NoAccount}]
    /\ results \subseteq Height
    /\ calc.phase \in CalcPhase /\ calc.height \in Height
    /\ calc.shards \subseteq Shard /\ calc.addrs \subseteq Address
    /\ iiss \in [Height -> IISSData \cup {NoData}]
    /\ data \in [Height -> IISSData \cup {NoData}]
    /\ tip \in Height /\ torn \in BOOLEAN

\* What claims and queries are answered from is a function of the chain alone:
\* the accounts as of the last term but one, whatever crashed, was calculated
\* again or rolled back on this node (toggleAccountDB, rollbackAccountDB); a
\* crash in the passes that add to accounts is KnownAccountsExact's.
QueryDBServesChain ==
    ~due /\ ~rollingBack /\ ~torn =>
        account[QueryDB] = Truth[Max({0, TermEnd(tip) - Term})]

\* Once nothing is in progress the calculate DB holds what every block of the
\* chain up to the last calculation earned (DoCalculate and its passes).
CalcDBIsTruth == Quiet /\ ~torn => account[CalcDB] = Truth[info.calcDone]

\* Wherever a calculation was interrupted and calculated again, the accounts the
\* query DB has get exactly the rewards of the term: calculateDB starts them
\* afresh from the query DB.
KnownAccountsExact ==
    Quiet /\ info.calcDone > 0 =>
        \A a \in Address : account[QueryDB][a] # NoAccount =>
            account[CalcDB][a] =
                NextAccounts(account[QueryDB], data[info.calcDone], info.calcDone)[a]

\* A rollback never finds the backups of two calculations: rollbackAccountDB
\* renames every backup_* it finds to the calculate DB.
OneBackupGeneration == \A f, g \in backups : f.height = g.height

\* Claims and queries never see a generation that was not finished, or shards of
\* two generations, even when a ROLLBACK canceled a calculation: all accounts of
\* the query DB were calculated up to the same block (DoCalculate,
\* rollbackAccountDB).
QueryDBIsWhole ==
    \A a, b \in Address :
        account[QueryDB][a] # NoAccount /\ account[QueryDB][b] # NoAccount =>
            account[QueryDB][a].blockHeight = account[QueryDB][b].blockHeight

\* what QUERY_CALCULATE_STATUS and QUERY_CALCULATE_RESULT answer
DoQueryCalculateStatus ==
    IF IsCalculating THEN [status |-> "Calculating", height |-> info.calculating]
    ELSE [status |-> "Calculation Done", height |-> info.calcDone]

DoQueryCalculateResult(h) ==
    IF DoQueryCalculateStatus = [status |-> "Calculating", height |-> h] THEN "Calculating"
    ELSE IF h \in results THEN "Succeeded" ELSE "Invalid block height"

\* ICON Service is not misled by what it asks: "Calculating" is only said while a
\* goroutine calculates, so that waiting for it ends, and once nothing runs a
\* result is only found for a calculation of the chain, however often that
\* height was rolled back and calculated again (DoQueryCalculateStatus,
\* DoQueryCalculateResult, DeleteCalculationResult).
AnswersOfChain ==
    /\ up /\ DoQueryCalculateStatus.status = "Calculating" =>
          calc.phase \notin {"idle", "dispatched"}
    /\ Quiet => \A h \in Height : DoQueryCalculateResult(h) = "Succeeded" =>
          h <= info.calcDone /\ h <= tip

\* Once crashes stop, every CALCULATE is acknowledged and its calculation done,
\* by the goroutine of the request or by the reload after a restart (DoCalculate,
\* reloadIISSData).
CalculationsFinish == due \/ IsCalculating ~> ~due /\ ~IsCalculating
=============================================================================
