-------------------------- MODULE CalculateProofs --------------------------
(***************************************************************************)
(* What the toggle heights and the backups of the account DBs guarantee,   *)
(* wherever a crash or a ROLLBACK interrupts a calculation.  The invariant *)
(* says of every point of a calculation and of a rollback which generation *)
(* of accounts each of the two account DBs and the backups hold.  The      *)
(* second half is about the amounts: what the chain's IISS data earned,    *)
(* block by block, is what the accounts have, when ICON Service sends no   *)
(* ROLLBACK before CALCULATE_DONE.                                         *)
(***************************************************************************)
EXTENDS Calculate, SumTheorems

(* The phases of a calculation that has its account DB toggled. *)
Filling == {"accounts", "tx", "bp", "prep", "done"}
Active == {"purge", "reset"} \cup Filling

(* the end of the term after the last calculation *)
NextEnd == info.calcDone + Term

(* a rollback that has to undo the last calculation is not answered *)
Pending == rollingBack /\ tip <= info.calcDone

(* ... and may have put shards of the backup back already *)
Restoring == Pending /\ info.toggleBH # tip /\ rollback # "reply"

(* the account DBs are toggled for the calculation after the last one *)
ToggledNext == info.toggleBH = NextEnd + 1

(* the backups, if any, are those the last calculation made *)
Old == \A f \in backups : f.height = info.calcDone

BackedUp(s) == \E f \in backups : f.shard = s
AllBackedUp == \A s \in Shard : BackedUp(s)

(* An account, an account DB, and the calculate DB with the backups put back, *)
(* calculated up to block h.                                                  *)
At(ia, h) == ia # NoAccount => ia.blockHeight = h
DBAt(db, h) == \A a \in Address : At(account[db][a], h)
RestoredAt(h) ==
    /\ \A f \in backups, a \in Address : ShardOf[a] = f.shard => At(f.accounts[a], h)
    /\ \A a \in Address : ~BackedUp(ShardOf[a]) => At(account[CalcDB][a], h)

-----------------------------------------------------------------------------
(* The invariant. *)

CalcRecord ==
    [phase : CalcPhase, height : Height, reload : BOOLEAN, quit : BOOLEAN,
     shards : SUBSET Shard, addrs : SUBSET Address, next : Nat, iiss : IISSData \cup {NoData}]
BackupRecord(f) ==
    /\ f.height \in Height /\ f.shard \in Shard
    /\ f.accounts \in [InShard(f.shard) -> IScoreAccount \cup {NoAccount}]

Types ==
    /\ info \in [calcDone : Height, prevCalcDone : Height, calculating : Height,
                 queryDB : {0, 1}, toggleBH : Nat]
    /\ account \in [{0, 1} -> AccountDB]
    /\ \A f \in backups : BackupRecord(f)
    /\ results \subseteq Height
    /\ calc \in CalcRecord
    /\ rollback \in {"idle", "check", "rename", "result", "info", "reply"}
    /\ iiss \in [Height -> IISSData \cup {NoData}]
    /\ tip \in Height /\ due \in BOOLEAN /\ rollingBack \in BOOLEAN /\ up \in BOOLEAN

(* Calculations are made at the ends of terms, one after the other. *)
Heights ==
    /\ info.calcDone % Term = 0 /\ info.prevCalcDone % Term = 0 /\ info.calculating % Term = 0
    /\ info.calcDone \in {info.prevCalcDone, info.prevCalcDone + Term}
    /\ due => tip % Term = 0
    /\ calc.height % Term = 0
    /\ calc.phase = "check" => calc.height <= NextEnd
    /\ calc.phase \in {"check"} \cup Active => calc.iiss # NoData
    /\ calc.phase \in Active => calc.height = NextEnd /\ ToggledNext
    /\ \A h \in Height : h > NextEnd \/ h > tip => iiss[h] = NoData

(* Where the ROLLBACK handler is, and what may be calculated beside it. *)
RollbackState ==
    /\ calc.phase = "idle" => calc = IdleCalc
    /\ rollback # "idle" => rollingBack
    /\ rollingBack => info.prevCalcDone < tip
    /\ rollback \in {"rename", "result", "info"} => Pending
    /\ rollback \in {"result", "info"} => info.toggleBH = tip
    /\ Pending => /\ calc.phase \notin Active \cup {"dispatched"}
                  /\ calc.phase = "load" => calc.height # info.calcDone
                  /\ calc.phase = "check" => calc.height <= info.prevCalcDone
                  /\ info.toggleBH = tip => backups = {}
    /\ info.prevCalcDone < info.calcDone =>
          info.toggleBH > info.calcDone \/ (Pending /\ info.toggleBH = tip)
    /\ rollback = "reply" /\ Pending => info.toggleBH # tip

(* The backups are of one generation, one of each shard. *)
Generations ==
    /\ OneBackupGeneration
    /\ \A f \in backups : f.height \in {info.calcDone, NextEnd}
    /\ ~ToggledNext => Old
    /\ \A f, g \in backups : f.shard = g.shard => f = g
    /\ calc.phase \in {"reset"} \cup Filling => \A f \in backups : f.height = calc.height
    /\ calc.phase = "reset" => \A s \in Shard \ calc.shards : BackedUp(s)
    /\ calc.phase \in Filling => AllBackedUp
    /\ Old /\ ~Restoring => backups = {} \/ AllBackedUp

(* What the account DBs and the backups hold is of one generation; the *)
(* calculate DB only when no calculation or rollback is filling it.     *)
Whole ==
    /\ \E h \in Height : DBAt(QueryDB, h)
    /\ \E h \in Height : RestoredAt(h)
    /\ Old /\ ~Restoring => \E h \in Height : DBAt(CalcDB, h)
    /\ \A f \in backups, a \in Address :
          f.height = NextEnd /\ ShardOf[a] = f.shard => At(account[CalcDB][a], NextEnd)
    /\ calc.phase = "accounts" => \A a \in calc.addrs : account[QueryDB][a] # NoAccount
    /\ calc.phase = "tx" => calc.next > 0

CalculateInv == Types /\ Heights /\ RollbackState /\ Generations /\ Whole

-----------------------------------------------------------------------------
(* Types. *)

(* The numbers the invariant compares. *)
LEMMA NumberTypes ==
    ASSUME Types
    PROVE  /\ Term \in Nat /\ Term > 0
           /\ info.calcDone \in Nat /\ info.prevCalcDone \in Nat /\ info.calculating \in Nat
           /\ info.calcDone \in Height /\ info.prevCalcDone \in Height
           /\ info.calculating \in Height
           /\ info.toggleBH \in Nat /\ info.queryDB \in {0, 1}
           /\ tip \in Nat /\ calc.height \in Nat /\ calc.height \in Height
           /\ \A h \in Height : h \in Nat
<1>1. Term \in Nat /\ Term > 0 /\ Height \subseteq Nat
  BY CalculateAssumption DEF Height
<1>2. /\ info.calcDone \in Height /\ info.prevCalcDone \in Height
      /\ info.calculating \in Height /\ info.toggleBH \in Nat /\ info.queryDB \in {0, 1}
  BY DEF Types
<1>3. tip \in Height /\ calc.height \in Height
  BY DEF Types, CalcRecord
<1> QED
  BY <1>1, <1>2, <1>3

(* The two account DBs. *)
LEMMA AccountDBs ==
    ASSUME Types
    PROVE  /\ QueryDB \in {0, 1} /\ CalcDB \in {0, 1} /\ CalcDB # QueryDB
           /\ 1 - QueryDB = CalcDB /\ 1 - CalcDB = QueryDB
           /\ \A db \in {0, 1}, a \in Address : account[db][a] \in IScoreAccount \cup {NoAccount}
<1>1. info.queryDB \in {0, 1}
  BY DEF Types
<1>2. \A db \in {0, 1}, a \in Address : account[db][a] \in IScoreAccount \cup {NoAccount}
  BY DEF Types, AccountDB
<1> QED
  BY <1>1, <1>2 DEF QueryDB, CalcDB

(* calculateIScore leaves the account calculated up to h. *)
LEMMA ScoreAt ==
    ASSUME NEW ia \in IScoreAccount, NEW h \in Height, ia.blockHeight <= h
    PROVE  /\ CalculateIScore(ia, h) \in IScoreAccount
           /\ CalculateIScore(ia, h).blockHeight = h
<1>1. h \in Nat /\ ia.blockHeight \in Nat /\ ia.iScore \in Int /\ ia.delegation \in Nat
  BY CalculateAssumption DEF IScoreAccount, Height
<1>2. CASE h <= ia.blockHeight
  BY <1>1, <1>2 DEF CalculateIScore
<1>3. CASE ~(h <= ia.blockHeight)
  <2> DEFINE score == ia.iScore + ia.delegation * (h - ia.blockHeight)
  <2>1. score \in Int
    BY <1>1
  <2>2. CalculateIScore(ia, h) = [ia EXCEPT !.iScore = score, !.blockHeight = h]
    BY <1>3 DEF CalculateIScore
  <2> QED
    BY <2>1, <2>2 DEF IScoreAccount
<1> QED
  BY <1>2, <1>3

(* A delegation transaction of the term that ends at h leaves its account *)
(* calculated up to h.                                                    *)
LEMMA DelegatedAt ==
    ASSUME NEW ia \in IScoreAccount \cup {NoAccount}, NEW h \in Height, h >= Term,
           NEW tx \in DelegateTX
    PROVE  /\ Delegated(ia, tx, h) \in IScoreAccount
           /\ Delegated(ia, tx, h).blockHeight = h
<1> DEFINE block == h - Term + tx.block
<1>1. block \in Height /\ block <= h
  BY CalculateAssumption DEF Height, DelegateTX
<1> DEFINE forgone == CalculateIScore([ia EXCEPT !.iScore = 0, !.blockHeight = block], h)
           back == IF ia = NoAccount THEN 0 ELSE ia.iScore - forgone.iScore
           fresh == [iScore |-> back, blockHeight |-> block, delegation |-> tx.delegation]
<1>2. back \in Int
  <2>1. CASE ia = NoAccount
    BY <2>1
  <2>2. CASE ia # NoAccount
    <3>1. ia \in IScoreAccount
      BY <2>2
    <3> HIDE DEF block, forgone, back, fresh
    <3>z. PICK zero \in Int : zero = 0
      OBVIOUS
    <3> DEFINE early == [ia EXCEPT !.iScore = zero, !.blockHeight = block]
    <3>2. early \in IScoreAccount /\ early.blockHeight <= h
      BY <3>1, <1>1 DEF IScoreAccount
    <3> HIDE DEF early
    <3>4. CalculateIScore(early, h) \in IScoreAccount
      BY <3>2, ScoreAt
    <3> USE DEF early, forgone, back
    <3>5. forgone = CalculateIScore(early, h)
      BY <3>z
    <3> HIDE DEF early, forgone
    <3>6. ia.iScore \in Int /\ forgone.iScore \in Int
      BY <3>1, <3>4, <3>5 DEF IScoreAccount
    <3> QED
      BY <3>6, <2>2
  <2> QED
    BY <2>1, <2>2
<1>3. Delegated(ia, tx, h) = CalculateIScore(fresh, h)
  BY DEF Delegated
<1> HIDE DEF back, block
<1>4. fresh \in IScoreAccount /\ fresh.blockHeight <= h
  BY <1>1, <1>2 DEF IScoreAccount, DelegateTX
<1> HIDE DEF fresh
<1> QED
  BY <1>3, <1>4, ScoreAt

(* A reward leaves its account calculated up to h. *)
LEMMA RewardedAt ==
    ASSUME NEW ia \in IScoreAccount \cup {NoAccount}, NEW h \in Height, At(ia, h)
    PROVE  Rewarded(ia, h) \in IScoreAccount /\ Rewarded(ia, h).blockHeight = h
<1>1. CASE ia = NoAccount
  BY <1>1 DEF Rewarded, IScoreAccount
<1>2. CASE ia # NoAccount
  BY <1>2 DEF Rewarded, IScoreAccount, At
<1> QED
  BY <1>1, <1>2

(* That all accounts of the query DB are calculated up to one block is *)
(* QueryDBIsWhole.                                                     *)
LEMMA WholeIsQueryDBIsWhole ==
    ASSUME Whole
    PROVE  QueryDBIsWhole
<1>1. PICK h \in Height : DBAt(QueryDB, h)
  BY DEF Whole
<1> QED
  BY <1>1 DEF QueryDBIsWhole, DBAt, At

-----------------------------------------------------------------------------
(* The initial states. *)

(* The invariant holds when the process starts with an empty chain. *)
LEMMA CalculateInit == Init => CalculateInv
<1> SUFFICES ASSUME Init PROVE CalculateInv
  OBVIOUS
<1> USE DEF Init
<1>1. 0 \in Height /\ Term \in Nat /\ Term > 0 /\ 0 % Term = 0
  <2>1. Term \in Nat /\ Term > 0 /\ 0 \in Height
    BY CalculateAssumption DEF Height
  <2> QED
    BY <2>1, Z3T(30)
<1>2. IdleCalc \in CalcRecord /\ IdleCalc.phase = "idle" /\ IdleCalc.height = 0
  BY <1>1 DEF IdleCalc, CalcRecord, CalcPhase
<1>3. Types
  <2>1. account \in [{0, 1} -> AccountDB]
    BY DEF EmptyDB, AccountDB
  <2> QED
    BY <1>1, <1>2, <2>1 DEF Types
<1>4. Heights
  BY <1>1, <1>2 DEF Heights, Active, Filling, NextEnd
<1>5. RollbackState
  BY <1>1, <1>2 DEF RollbackState, Pending
<1>6. Generations
  BY <1>2 DEF Generations, OneBackupGeneration, Old, Filling
<1>7. Whole
  <2>1. \A db \in {0, 1}, a \in Address : account[db][a] = NoAccount
    BY DEF EmptyDB
  <2>2. QueryDB \in {0, 1} /\ CalcDB \in {0, 1}
    BY <1>3, AccountDBs
  <2>3. DBAt(QueryDB, 0) /\ DBAt(CalcDB, 0) /\ RestoredAt(0)
    BY <2>1, <2>2 DEF DBAt, At, RestoredAt
  <2> QED
    BY <1>1, <1>2, <2>3 DEF Whole
<1> QED
  BY <1>3, <1>4, <1>5, <1>6, <1>7 DEF CalculateInv

-----------------------------------------------------------------------------
(* A step of the goroutine that calculates. *)

(* The goroutine moves on, writes at most CalculatingBH, and changes no *)
(* account but one that it fills.                                       *)
GoroutineStep ==
    /\ UNCHANGED <<backups, rollback, tip, rollingBack>>
    /\ info' \in [calcDone : Height, prevCalcDone : Height, calculating : Height,
                  queryDB : {0, 1}, toggleBH : Nat]
    /\ info'.calcDone = info.calcDone /\ info'.prevCalcDone = info.prevCalcDone
    /\ info'.queryDB = info.queryDB /\ info'.toggleBH = info.toggleBH
    /\ info'.calculating % Term = 0
    /\ up' \in BOOLEAN
    /\ results' \subseteq Height
    /\ iiss' \in [Height -> IISSData \cup {NoData}]
    /\ \A h \in Height : iiss[h] = NoData => iiss'[h] = NoData
    /\ due' \in BOOLEAN /\ (due' => due)
    /\ calc' \in CalcRecord
    /\ \/ account' = account
       \/ /\ calc.phase \in Filling
          /\ \E a \in Address, ia \in IScoreAccount :
                /\ ia.blockHeight = NextEnd
                /\ account' = [account EXCEPT ![CalcDB][a] = ia]

(* Where the goroutine may go. *)
GoroutineGoes ==
    /\ calc'.height % Term = 0
    /\ calc'.phase = "idle" => calc' = IdleCalc
    /\ Pending => calc'.phase # "dispatched"
    /\ Pending /\ calc'.phase = "load" => calc'.height # info.calcDone
    /\ calc'.phase = "check" => /\ calc'.height <= NextEnd
                                /\ Pending => calc'.height <= info.prevCalcDone
    /\ calc'.phase \in {"check"} \cup Active => calc'.iiss # NoData
    /\ calc'.phase \in Active => calc.phase \in Active /\ calc'.height = calc.height
    /\ calc'.phase \in {"reset"} \cup Filling => calc.phase \in {"reset"} \cup Filling
    /\ calc'.phase = "reset" => \A s \in Shard \ calc'.shards : BackedUp(s)
    /\ calc'.phase \in Filling => AllBackedUp
    /\ calc'.phase = "accounts" => \A a \in calc'.addrs : account[QueryDB][a] # NoAccount
    /\ calc'.phase = "tx" => calc'.next > 0

(* Such a step keeps the invariant. *)
LEMMA GoroutineKeeps ==
    ASSUME CalculateInv, GoroutineStep, GoroutineGoes
    PROVE  CalculateInv'
<1>1. Types /\ Heights /\ RollbackState /\ Generations /\ Whole
  BY DEF CalculateInv
<1>2. /\ info'.calcDone = info.calcDone /\ info'.prevCalcDone = info.prevCalcDone
      /\ info'.queryDB = info.queryDB /\ info'.toggleBH = info.toggleBH
      /\ UNCHANGED <<backups, rollback, tip, rollingBack>>
  BY DEF GoroutineStep
<1>3. /\ NextEnd' = NextEnd /\ Pending' = Pending /\ Restoring' = Restoring
      /\ ToggledNext' = ToggledNext /\ Old' = Old
      /\ QueryDB' = QueryDB /\ CalcDB' = CalcDB
      /\ AllBackedUp' = AllBackedUp
      /\ \A s : BackedUp(s)' = BackedUp(s)
  BY <1>2 DEF NextEnd, Pending, Restoring, ToggledNext, Old, QueryDB, CalcDB, AllBackedUp, BackedUp
<1>4. /\ QueryDB \in {0, 1} /\ CalcDB \in {0, 1} /\ CalcDB # QueryDB
      /\ account \in [{0, 1} -> AccountDB]
  BY <1>1, AccountDBs DEF Types
<1> DEFINE OneFilled ==
      /\ account' \in [{0, 1} -> AccountDB]
      /\ account'[QueryDB] = account[QueryDB]
      /\ \A a \in Address : \/ account'[CalcDB][a] = account[CalcDB][a]
                            \/ /\ calc.phase \in Filling
                               /\ At(account'[CalcDB][a], NextEnd)
<1>5. OneFilled
  <2>1. CASE account' = account
    BY <2>1, <1>4
  <2>2. ASSUME calc.phase \in Filling, NEW a \in Address, NEW ia \in IScoreAccount,
               ia.blockHeight = NextEnd,
               account' = [account EXCEPT ![CalcDB][a] = ia]
        PROVE  OneFilled
    <3>1. [account[CalcDB] EXCEPT ![a] = ia] \in AccountDB
      BY <2>2, <1>4 DEF AccountDB
    <3>2. account' = [account EXCEPT ![CalcDB] = [account[CalcDB] EXCEPT ![a] = ia]]
      BY <2>2
    <3>3. account' \in [{0, 1} -> AccountDB] /\ account'[QueryDB] = account[QueryDB]
          /\ account'[CalcDB] = [account[CalcDB] EXCEPT ![a] = ia]
      BY <3>1, <3>2, <1>4
    <3>4. \A b \in Address : account'[CalcDB][b] = IF b = a THEN ia ELSE account[CalcDB][b]
      BY <3>3, <1>4 DEF AccountDB
    <3> QED
      BY <3>3, <3>4, <2>2 DEF At
  <2> QED
    BY <2>1, <2>2 DEF GoroutineStep
<1>6. Types'
  <2>1. \A f \in backups' : BackupRecord(f)
    BY <1>1, <1>2 DEF Types
  <2> QED
    BY <1>1, <1>2, <1>5, <2>1 DEF Types, GoroutineStep, BackupRecord, InShard
<1>7. Heights'
  <2>1. \A h \in Height : h > NextEnd' \/ h > tip' => iiss'[h] = NoData
    BY <1>1, <1>2, <1>3 DEF Heights, GoroutineStep
  <2>2. due' => tip' % Term = 0
    BY <1>1, <1>2 DEF Heights, GoroutineStep
  <2>3. /\ info'.calcDone % Term = 0 /\ info'.prevCalcDone % Term = 0
        /\ info'.calculating % Term = 0
        /\ info'.calcDone \in {info'.prevCalcDone, info'.prevCalcDone + Term}
    BY <1>1, <1>2 DEF Heights, GoroutineStep
  <2>4. /\ calc'.height % Term = 0
        /\ calc'.phase = "check" => calc'.height <= NextEnd'
        /\ calc'.phase \in {"check"} \cup Active => calc'.iiss # NoData
        /\ calc'.phase \in Active => calc'.height = NextEnd' /\ ToggledNext'
    BY <1>1, <1>3 DEF Heights, GoroutineGoes
  <2> QED
    BY <2>1, <2>2, <2>3, <2>4 DEF Heights
<1>8. RollbackState'
  <2>1. Pending => calc'.phase \notin Active
    BY <1>1 DEF RollbackState, GoroutineGoes
  <2> QED
    BY <1>1, <1>2, <1>3, <2>1 DEF RollbackState, GoroutineGoes
<1>9. Generations'
  <2>1. calc'.phase \in {"reset"} \cup Filling => \A f \in backups' : f.height = calc'.height
    BY <1>1, <1>2 DEF Generations, GoroutineGoes, Active
  <2>2. calc'.phase = "reset" => \A s \in Shard \ calc'.shards : BackedUp(s)'
    BY <1>3 DEF GoroutineGoes
  <2>3. calc'.phase \in Filling => AllBackedUp'
    BY <1>3 DEF GoroutineGoes
  <2> QED
    BY <1>1, <1>2, <1>3, <2>1, <2>2, <2>3 DEF Generations, OneBackupGeneration
<1>10. Whole'
  <2>1. \E h \in Height : DBAt(QueryDB, h)'
    BY <1>1, <1>3, <1>5 DEF Whole, DBAt
  <2>2. \E h \in Height : RestoredAt(h)'
    <3>1. PICK h \in Height : RestoredAt(h)
      BY <1>1 DEF Whole
    <3>2. calc.phase \in Filling => \A a \in Address : BackedUp(ShardOf[a])
      BY <1>1, CalculateAssumption DEF Generations, AllBackedUp
    <3>3. \A a \in Address : ~BackedUp(ShardOf[a])' => At(account'[CalcDB'][a], h)
      BY <1>3, <1>5, <3>1, <3>2 DEF RestoredAt
    <3> QED
      BY <1>2, <3>1, <3>3 DEF RestoredAt
  <2>3. (Old /\ ~Restoring)' => \E h \in Height : DBAt(CalcDB, h)'
    <3>1. CASE calc.phase \notin Filling
      BY <3>1, <1>1, <1>3, <1>5 DEF Whole, DBAt
    <3>2. CASE calc.phase \in Filling /\ Address # {}
      <4>1. PICK a \in Address : TRUE
        BY <3>2
      <4>2. PICK f \in backups : f.shard = ShardOf[a]
        BY <1>1, <3>2, CalculateAssumption DEF Generations, AllBackedUp, BackedUp
      <4>3. f.height = NextEnd
        BY <1>1, <3>2 DEF Generations, Heights, Active
      <4>4. f.height # info.calcDone
        BY <1>1, <4>3, NumberTypes DEF NextEnd
      <4> QED
        BY <4>4, <1>3 DEF Old
    <3>3. CASE Address = {}
      BY <3>3, <1>1, NumberTypes DEF DBAt
    <3> QED
      BY <3>1, <3>2, <3>3
  <2>4. \A f \in backups', a \in Address :
          f.height = NextEnd' /\ ShardOf[a] = f.shard => At(account'[CalcDB'][a], NextEnd')
    BY <1>1, <1>2, <1>3, <1>5 DEF Whole
  <2>5. calc'.phase = "accounts" => \A a \in calc'.addrs : account'[QueryDB'][a] # NoAccount
    BY <1>3, <1>5 DEF GoroutineGoes
  <2>6. calc'.phase = "tx" => calc'.next > 0
    BY DEF GoroutineGoes
  <2> QED
    BY <2>1, <2>2, <2>3, <2>4, <2>5, <2>6 DEF Whole
<1> QED
  BY <1>6, <1>7, <1>8, <1>9, <1>10 DEF CalculateInv

(* The record of an idle goroutine. *)
LEMMA Idle ==
    /\ IdleCalc \in CalcRecord /\ IdleCalc.phase = "idle" /\ IdleCalc.height = 0
    /\ IdleCalc.quit = FALSE /\ IdleCalc.reload = FALSE
    /\ IdleCalc.height % Term = 0
<1>1. 0 \in Height /\ Term \in Nat /\ Term > 0
  BY CalculateAssumption DEF Height
<1>2. 0 % Term = 0
  BY <1>1, Z3T(30)
<1> QED
  BY <1>1, <1>2 DEF IdleCalc, CalcRecord, CalcPhase

(* The record of a goroutine that starts. *)
LEMMA Started ==
    ASSUME NEW h \in Height, NEW reload \in BOOLEAN
    PROVE  /\ Calculation(h, reload) \in CalcRecord
           /\ Calculation(h, reload).phase = IF reload THEN "load" ELSE "dispatched"
           /\ Calculation(h, reload).height = h
           /\ Calculation(h, reload).quit = FALSE
           /\ Calculation(h, reload).reload = reload
<1>1. PICK p \in CalcPhase : p = IF reload THEN "load" ELSE "dispatched"
  BY DEF CalcPhase
<1>2. Calculation(h, reload) = [IdleCalc EXCEPT !.phase = p, !.height = h, !.reload = reload]
  BY <1>1 DEF Calculation
<1> QED
  BY <1>1, <1>2, Idle DEF CalcRecord

(* The next phase. *)
LEMMA PhaseGoes ==
    ASSUME Types, NEW p \in CalcPhase
    PROVE  LET c == ToPhase(p)
           IN  /\ c \in CalcRecord /\ c.phase = p /\ c.height = calc.height
               /\ c.iiss = calc.iiss /\ c.addrs = calc.addrs /\ c.shards = calc.shards
               /\ c.quit = calc.quit /\ c.reload = calc.reload
BY DEF Types, ToPhase, CalcRecord

(* An idle goroutine's record meets every condition. *)
LEMMA GoesIdle ==
    ASSUME calc' = IdleCalc
    PROVE  GoroutineGoes
BY Idle DEF GoroutineGoes, Filling, Active

(* A step that leaves the DBs alone. *)
LEMMA DBsKept ==
    ASSUME CalculateInv, calc' \in CalcRecord,
           UNCHANGED <<info, account, backups, rollback, tip, rollingBack, due, iiss>>,
           results' \subseteq Height, up' \in BOOLEAN
    PROVE  GoroutineStep
<1>1. Types /\ Heights
  BY DEF CalculateInv
<1> QED
  BY <1>1 DEF GoroutineStep, Types, Heights

(* A CALCULATE message that is dispatched touches no database. *)
LEMMA DispatchKeeps == CalculateInv /\ Dispatch => CalculateInv'
<1> SUFFICES ASSUME CalculateInv, Dispatch PROVE CalculateInv'
  OBVIOUS
<1>1. Types /\ Heights
  BY DEF CalculateInv
<1>2. tip \in Height /\ tip % Term = 0 /\ ~Pending
  BY <1>1 DEF Types, Heights, Dispatch, Pending
<1>3. calc' \in CalcRecord /\ calc'.phase = "dispatched" /\ calc'.height = tip
  BY <1>2, Started DEF Dispatch
<1>4. GoroutineGoes
  BY <1>2, <1>3 DEF GoroutineGoes, Active, Filling
<1>5. GoroutineStep
  BY <1>1, <1>3, DBsKept DEF Dispatch, dbVars, isVars, Types
<1> QED
  BY <1>4, <1>5, GoroutineKeeps

(* Reloading the IISS data after a crash keeps the invariant. *)
LEMMA ReloadKeeps == CalculateInv /\ ReloadIISSData => CalculateInv'
<1> SUFFICES ASSUME CalculateInv, ReloadIISSData PROVE CalculateInv'
  OBVIOUS
<1>1. Types /\ Heights
  BY DEF CalculateInv
<1>2. info.calculating \in Height /\ info.calculating % Term = 0
  BY <1>1 DEF Types, Heights
<1>3. GoroutineGoes /\ calc' \in CalcRecord
  <2>1. CASE NeedReload
    <3>1. calc' \in CalcRecord /\ calc'.phase = "load" /\ calc'.height = info.calculating
      BY <1>2, <2>1, Started DEF ReloadIISSData
    <3> QED
      BY <1>2, <2>1, <3>1 DEF GoroutineGoes, Active, Filling, NeedReload
  <2>2. CASE ~NeedReload
    BY <2>2, GoesIdle, Idle DEF ReloadIISSData
  <2> QED
    BY <2>1, <2>2
<1>5. GoroutineStep
  BY <1>1, <1>3, DBsKept DEF ReloadIISSData, dbVars, isVars, Types
<1> QED
  BY <1>3, <1>5, GoroutineKeeps

(* Fetching the cancel channel keeps the invariant. *)
LEMMA GetChannelKeeps == CalculateInv /\ GetChannel => CalculateInv'
<1> SUFFICES ASSUME CalculateInv, GetChannel PROVE CalculateInv'
  OBVIOUS
<1>1. Types /\ Heights /\ RollbackState
  BY DEF CalculateInv
<1>2. "load" \in CalcPhase
  BY DEF CalcPhase
<1>3. calc' \in CalcRecord /\ calc'.phase = "load" /\ calc'.height = calc.height
  BY <1>1, <1>2, PhaseGoes DEF GetChannel
<1>4. ~Pending
  BY <1>1 DEF RollbackState, GetChannel
<1>5. GoroutineGoes
  BY <1>1, <1>3, <1>4 DEF GoroutineGoes, Active, Filling, Heights
<1>6. GoroutineStep
  BY <1>1, <1>3, DBsKept DEF GetChannel, dbVars, isVars, Types
<1> QED
  BY <1>5, <1>6, GoroutineKeeps

(* The goroutine stops: its request is dropped, or it is canceled. *)
LEMMA StopKeeps == CalculateInv /\ (DropRequest \/ CancelCalculation) => CalculateInv'
<1> SUFFICES ASSUME CalculateInv, DropRequest \/ CancelCalculation PROVE CalculateInv'
  OBVIOUS
<1>1. calc' = IdleCalc /\ UNCHANGED <<dbVars, rollback, up, faults, isVars>>
  BY DEF DropRequest, CancelCalculation
<1>2. GoroutineGoes
  BY <1>1, GoesIdle
<1>3. GoroutineStep
  BY <1>1, Idle, DBsKept DEF dbVars, isVars, CalculateInv, Types
<1> QED
  BY <1>2, <1>3, GoroutineKeeps

(* There is nothing to calculate, and CalculatingBH goes back. *)
LEMMA RefuseKeeps == CalculateInv /\ (LoadNothing \/ RefuseHeight) => CalculateInv'
<1> SUFFICES ASSUME CalculateInv, LoadNothing \/ RefuseHeight PROVE CalculateInv'
  OBVIOUS
<1>1. Types /\ Heights
  BY DEF CalculateInv
<1>2. /\ calc' = IdleCalc
      /\ info' = [info EXCEPT !.calculating = info.calcDone]
      /\ UNCHANGED <<account, backups, results, rollback, up, iiss, tip, rollingBack>>
      /\ due' = (due /\ (calc.reload \/ tip # calc.height))
  BY DEF LoadNothing, RefuseHeight, Acknowledge
<1>3. GoroutineGoes
  BY <1>2, GoesIdle
<1>4. /\ info' \in [calcDone : Height, prevCalcDone : Height, calculating : Height,
                    queryDB : {0, 1}, toggleBH : Nat]
      /\ info'.calcDone = info.calcDone /\ info'.prevCalcDone = info.prevCalcDone
      /\ info'.queryDB = info.queryDB /\ info'.toggleBH = info.toggleBH
      /\ info'.calculating = info.calcDone
  BY <1>1, <1>2 DEF Types
<1>5. due' \in BOOLEAN /\ (due' => due)
  BY <1>2
<1>6. GoroutineStep
  BY <1>1, <1>2, <1>4, <1>5, Idle DEF GoroutineStep, Types, Heights
<1> QED
  BY <1>3, <1>6, GoroutineKeeps

(* IISS data that is there is of a term that may be calculated. *)
LEMMA SetCalculatingKeeps == CalculateInv /\ SetCalculatingBH => CalculateInv'
<1> SUFFICES ASSUME CalculateInv, SetCalculatingBH PROVE CalculateInv'
  OBVIOUS
<1>1. Types /\ Heights /\ RollbackState
  BY DEF CalculateInv
<1>2. /\ calc.phase = "load" /\ iiss[calc.height] # NoData
      /\ info' = [info EXCEPT !.calculating = calc.height]
      /\ calc' = [calc EXCEPT !.phase = "check", !.iiss = iiss[calc.height]]
      /\ UNCHANGED <<account, backups, results, rollback, up, iiss, tip, due, rollingBack>>
  BY DEF SetCalculatingBH, Loadable, isVars
<1>3. /\ Term \in Nat /\ Term > 0 /\ calc.height \in Nat /\ calc.height \in Height
      /\ info.calcDone \in Nat /\ info.prevCalcDone \in Nat /\ tip \in Nat /\ NextEnd \in Nat
  BY <1>1, NumberTypes DEF NextEnd
<1>4. calc.height <= NextEnd /\ calc.height <= tip
  BY <1>1, <1>2, <1>3 DEF Heights
<1>5. Pending => calc.height <= info.prevCalcDone
  <2> SUFFICES ASSUME Pending PROVE calc.height <= info.prevCalcDone
    OBVIOUS
  <2>1. calc.height <= info.calcDone /\ calc.height # info.calcDone
    BY <1>1, <1>2, <1>3, <1>4 DEF Pending, RollbackState
  <2>2. calc.height < info.calcDone /\ calc.height % Term = 0 /\ info.calcDone % Term = 0
    BY <1>1, <1>3, <2>1 DEF Heights
  <2>3. calc.height + Term <= info.calcDone
    BY <1>3, <2>2, TermsApart
  <2> QED
    BY <1>1, <1>3, <2>3 DEF Heights
<1>6. iiss[calc.height] \in IISSData \cup {NoData}
  BY <1>1, <1>3 DEF Types
<1>7. /\ calc' \in CalcRecord /\ calc'.phase = "check" /\ calc'.height = calc.height
      /\ calc'.iiss = iiss[calc.height]
  <2>1. PICK p \in CalcPhase : p = "check"
    BY DEF CalcPhase
  <2>2. calc' = [calc EXCEPT !.phase = p, !.iiss = iiss[calc.height]]
    BY <1>2, <2>1
  <2> QED
    BY <1>1, <1>6, <2>1, <2>2 DEF Types, CalcRecord
<1>8. GoroutineGoes
  BY <1>1, <1>2, <1>4, <1>5, <1>7 DEF GoroutineGoes, Active, Filling, Heights
<1>9. /\ info' \in [calcDone : Height, prevCalcDone : Height, calculating : Height,
                    queryDB : {0, 1}, toggleBH : Nat]
      /\ info'.calcDone = info.calcDone /\ info'.prevCalcDone = info.prevCalcDone
      /\ info'.queryDB = info.queryDB /\ info'.toggleBH = info.toggleBH
      /\ info'.calculating = calc.height
  BY <1>1, <1>2, <1>3 DEF Types
<1>10. GoroutineStep
  BY <1>1, <1>2, <1>7, <1>9 DEF GoroutineStep, Types, Heights
<1> QED
  BY <1>8, <1>10, GoroutineKeeps

(* A shard whose backup exists is not renamed again. *)
LEMMA KeepShardKeeps ==
    ASSUME CalculateInv, NEW s \in calc.shards, KeepShard(s)
    PROVE  CalculateInv'
<1>1. Types /\ Heights /\ Generations
  BY DEF CalculateInv
<1>2. /\ calc.phase = "reset" /\ BackupExists(s)
      /\ calc' = [calc EXCEPT !.shards = @ \ {s}]
      /\ UNCHANGED <<dbVars, rollback, up, faults, isVars>>
  BY DEF KeepShard
<1>3. /\ calc' \in CalcRecord /\ calc'.phase = "reset" /\ calc'.height = calc.height
      /\ calc'.iiss = calc.iiss /\ calc'.shards = calc.shards \ {s}
  <2>1. calc.shards \ {s} \in SUBSET Shard
    BY <1>1 DEF Types, CalcRecord
  <2> DEFINE rest == calc.shards \ {s}
  <2>2. calc' = [calc EXCEPT !.shards = rest]
    BY <1>2
  <2> HIDE DEF rest
  <2>3. /\ calc' \in CalcRecord /\ calc'.phase = "reset" /\ calc'.height = calc.height
        /\ calc'.iiss = calc.iiss /\ calc'.shards = rest
    BY <1>1, <1>2, <2>1, <2>2 DEF Types, CalcRecord, rest
  <2> QED
    BY <2>3 DEF rest
<1>4. \A t \in Shard \ calc'.shards : BackedUp(t)
  BY <1>1, <1>2, <1>3 DEF Generations, BackedUp, BackupExists
<1>5. GoroutineGoes
  BY <1>1, <1>2, <1>3, <1>4 DEF GoroutineGoes, Active, Filling, Heights
<1>6. GoroutineStep
  BY <1>1, <1>2, <1>3, DBsKept DEF dbVars, isVars, Types
<1> QED
  BY <1>5, <1>6, GoroutineKeeps

(* The end of the reset of the calculate DB keeps the invariant. *)
LEMMA EndResetKeeps == CalculateInv /\ EndReset => CalculateInv'
<1> SUFFICES ASSUME CalculateInv, EndReset PROVE CalculateInv'
  OBVIOUS
<1>1. Types /\ Heights /\ Generations
  BY DEF CalculateInv
<1> DEFINE known == {a \in Address : account[QueryDB][a] # NoAccount}
<1>2. /\ calc.phase = "reset" /\ calc.shards = {}
      /\ calc' = [calc EXCEPT !.phase = "accounts", !.addrs = known]
      /\ UNCHANGED <<dbVars, rollback, up, faults, isVars>>
  BY DEF EndReset
<1>3. known \in SUBSET Address /\ \A a \in known : account[QueryDB][a] # NoAccount
  OBVIOUS
<1> HIDE DEF known
<1>4. /\ calc' \in CalcRecord /\ calc'.phase = "accounts" /\ calc'.height = calc.height
      /\ calc'.iiss = calc.iiss /\ calc'.addrs = known
  <2>1. PICK p \in CalcPhase : p = "accounts"
    BY DEF CalcPhase
  <2>2. calc' = [calc EXCEPT !.phase = p, !.addrs = known]
    BY <1>2, <2>1
  <2> QED
    BY <1>1, <1>3, <2>1, <2>2 DEF Types, CalcRecord
<1>5. AllBackedUp
  BY <1>1, <1>2 DEF Generations, AllBackedUp
<1>6. GoroutineGoes
  BY <1>1, <1>2, <1>3, <1>4, <1>5 DEF GoroutineGoes, Active, Filling, Heights
<1>7. GoroutineStep
  BY <1>1, <1>2, <1>4, DBsKept DEF dbVars, isVars, Types
<1> QED
  BY <1>6, <1>7, GoroutineKeeps

(* From one pass to the next, and to the end. *)
LEMMA NextPassKeeps ==
    ASSUME CalculateInv,
           EndAccounts \/ EndTX \/ EndBlockProduce \/ EndPRep \/ WriteCalculationResult
    PROVE  CalculateInv'
<1>1. Types /\ Heights /\ Generations
  BY DEF CalculateInv
<1> DEFINE Goes(p) ==
      /\ calc' \in CalcRecord /\ calc'.phase = p /\ calc'.height = calc.height
      /\ calc'.iiss = calc.iiss
<1>2. EndAccounts => calc.phase = "accounts" /\ Goes("tx") /\ calc'.next = 1
  <2>1. PICK p \in CalcPhase : p = "tx"
    BY DEF CalcPhase
  <2>2. PICK n \in Nat : n = 1
    OBVIOUS
  <2>3. EndAccounts => calc' = [calc EXCEPT !.phase = p, !.next = n] /\ calc.phase = "accounts"
    BY <2>1, <2>2 DEF EndAccounts
  <2> QED
    BY <1>1, <2>1, <2>2, <2>3 DEF Types, CalcRecord
<1>3. calc.phase \in Filling => calc.iiss \in IISSData
  BY <1>1 DEF Types, CalcRecord, Heights, Active
<1>4. calc.phase \in Filling => /\ calc.iiss.producers \in SUBSET Address
                                /\ calc.iiss.preps \in SUBSET Address
  BY <1>3, CalculateAssumption
<1>5. EndTX => calc.phase = "tx" /\ Goes("bp")
  <2>1. PICK p \in CalcPhase : p = "bp"
    BY DEF CalcPhase
  <2>2. EndTX => /\ calc' = [calc EXCEPT !.phase = p, !.addrs = calc.iiss.producers]
                 /\ calc.phase = "tx"
    BY <2>1 DEF EndTX
  <2> QED
    BY <1>1, <1>4, <2>1, <2>2 DEF Types, CalcRecord, Filling
<1>6. EndBlockProduce => calc.phase = "bp" /\ Goes("prep")
  <2>1. PICK p \in CalcPhase : p = "prep"
    BY DEF CalcPhase
  <2>2. EndBlockProduce => /\ calc' = [calc EXCEPT !.phase = p, !.addrs = calc.iiss.preps]
                           /\ calc.phase = "bp"
    BY <2>1 DEF EndBlockProduce
  <2> QED
    BY <1>1, <1>4, <2>1, <2>2 DEF Types, CalcRecord, Filling
<1>7. EndPRep => calc.phase = "prep" /\ Goes("done")
  BY <1>1, PhaseGoes DEF EndPRep, CalcPhase
<1>8. WriteCalculationResult => calc.phase = "result" /\ Goes("cleanup")
  BY <1>1, PhaseGoes DEF WriteCalculationResult, CalcPhase
<1>9. calc' \in CalcRecord /\ GoroutineGoes
  <2>1. CASE WriteCalculationResult
    BY <1>1, <1>8, <2>1 DEF GoroutineGoes, Active, Filling, Heights
  <2>2. CASE ~WriteCalculationResult
    <3>1. /\ calc.phase \in Filling /\ calc'.phase \in Filling \ {"accounts"}
          /\ calc' \in CalcRecord /\ calc'.height = calc.height /\ calc'.iiss = calc.iiss
          /\ calc'.phase = "tx" => calc'.next > 0
      BY <1>2, <1>5, <1>6, <1>7, <2>2 DEF Filling
    <3>2. AllBackedUp /\ calc.height % Term = 0 /\ calc.iiss # NoData
      BY <1>1, <3>1 DEF Generations, Heights, Active
    <3>3. calc'.phase \in Active /\ calc.phase \in Active
          /\ calc'.phase \notin {"idle", "dispatched", "load", "check", "reset", "accounts"}
      BY <3>1 DEF Active, Filling
    <3> QED
      BY <3>1, <3>2, <3>3 DEF GoroutineGoes
  <2> QED
    BY <2>1, <2>2
<1>10. /\ UNCHANGED <<info, account, backups, rollback, up, tip, rollingBack, due, iiss>>
       /\ results' \subseteq Height
  <2>1. results \subseteq Height /\ calc.height \in Height
    BY <1>1, NumberTypes DEF Types
  <2> QED
    BY <2>1 DEF EndAccounts, EndTX, EndBlockProduce, EndPRep, WriteCalculationResult,
                dbVars, isVars
<1>11. GoroutineStep
  BY <1>1, <1>9, <1>10, DBsKept DEF Types
<1> QED
  BY <1>9, <1>11, GoroutineKeeps

(* Removing the IISS data of a finished calculation keeps the invariant. *)
LEMMA CleanupKeeps == CalculateInv /\ CleanupIISSData => CalculateInv'
<1> SUFFICES ASSUME CalculateInv, CleanupIISSData PROVE CalculateInv'
  OBVIOUS
<1>1. Types /\ Heights
  BY DEF CalculateInv
<1>2. /\ calc' = IdleCalc
      /\ iiss' = [h \in Height |-> IF h < calc.height THEN NoData ELSE iiss[h]]
      /\ UNCHANGED <<info, account, backups, results, rollback, up, tip, due, rollingBack>>
  BY DEF CleanupIISSData, dbVars
<1>3. /\ iiss' \in [Height -> IISSData \cup {NoData}]
      /\ \A h \in Height : iiss[h] = NoData => iiss'[h] = NoData
  BY <1>1, <1>2 DEF Types
<1>4. GoroutineGoes
  BY <1>2, GoesIdle
<1>5. GoroutineStep
  BY <1>1, <1>2, <1>3, Idle DEF GoroutineStep, Types, Heights
<1> QED
  BY <1>4, <1>5, GoroutineKeeps

(* One account is filled, and the goroutine stays in its pass. *)
LEMMA FillKeeps ==
    ASSUME CalculateInv, calc.phase \in Filling, calc' \in CalcRecord,
           calc'.phase = calc.phase, calc'.height = calc.height, calc'.iiss = calc.iiss,
           calc'.addrs \subseteq calc.addrs, calc.phase = "tx" => calc'.next > 0,
           UNCHANGED <<info, backups, results, rollback, up, tip, due, rollingBack, iiss>>,
           \/ account' = account
           \/ \E a \in Address, ia \in IScoreAccount :
                 /\ ia.blockHeight = calc.height
                 /\ account' = [account EXCEPT ![CalcDB][a] = ia]
    PROVE  CalculateInv'
<1>1. Types /\ Heights /\ Generations /\ Whole
  BY DEF CalculateInv
<1>2. /\ calc.phase \in Active /\ calc'.phase \in Active
      /\ calc'.phase \notin {"idle", "dispatched", "load", "check", "reset"}
  BY DEF Active, Filling
<1>3. /\ calc.height = NextEnd /\ AllBackedUp /\ calc.height % Term = 0 /\ calc.iiss # NoData
      /\ calc'.phase = "accounts" => \A a \in calc'.addrs : account[QueryDB][a] # NoAccount
  BY <1>1, <1>2 DEF Heights, Generations, Whole
<1>4. GoroutineGoes
  BY <1>2, <1>3 DEF GoroutineGoes
<1>5. GoroutineStep
  BY <1>1, <1>3 DEF GoroutineStep, Types, Heights
<1> QED
  BY <1>4, <1>5, GoroutineKeeps

(* An account is taken off the list of the pass. *)
LEMMA Listed ==
    ASSUME Types, NEW a, calc' = [calc EXCEPT !.addrs = @ \ {a}]
    PROVE  /\ calc' \in CalcRecord /\ calc'.phase = calc.phase /\ calc'.height = calc.height
           /\ calc'.iiss = calc.iiss /\ calc'.addrs = calc.addrs \ {a}
           /\ calc'.addrs \subseteq calc.addrs
           /\ calc'.quit = calc.quit /\ calc'.reload = calc.reload
<1> DEFINE rest == calc.addrs \ {a}
<1>1. rest \in SUBSET Address /\ rest \subseteq calc.addrs
  BY DEF Types, CalcRecord
<1>2. calc' = [calc EXCEPT !.addrs = rest]
  OBVIOUS
<1> HIDE DEF rest
<1>3. /\ calc' \in CalcRecord /\ calc'.phase = calc.phase /\ calc'.height = calc.height
      /\ calc'.iiss = calc.iiss /\ calc'.addrs = rest
      /\ calc'.quit = calc.quit /\ calc'.reload = calc.reload
  BY <1>1, <1>2 DEF Types, CalcRecord
<1> QED
  BY <1>1, <1>3 DEF rest

(* calculateDB's accounts end up at the height of the calculation, or are skipped. *)
LEMMA CalculateDBKeeps ==
    ASSUME CalculateInv, NEW a \in calc.addrs, CalculateDB(a)
    PROVE  CalculateInv'
<1>1. Types /\ Heights /\ Generations /\ Whole
  BY DEF CalculateInv
<1>2. /\ calc.phase = "accounts" /\ a \in calc.addrs
      /\ account' = IF calc.height <= account[QueryDB][a].blockHeight THEN account
                    ELSE [account EXCEPT ![CalcDB][a] =
                             CalculateIScore(account[QueryDB][a], calc.height)]
      /\ calc' = [calc EXCEPT !.addrs = @ \ {a}]
      /\ UNCHANGED <<info, backups, results, rollback, up, tip, due, rollingBack, iiss>>
  BY DEF CalculateDB, isVars
<1>3. a \in Address /\ calc.height \in Height /\ calc.height \in Nat
  BY <1>1, <1>2, NumberTypes DEF Types, CalcRecord
<1>4. account[QueryDB][a] \in IScoreAccount
  BY <1>1, <1>2, <1>3, AccountDBs DEF Whole
<1> DEFINE old == account[QueryDB][a]
<1>5. CASE calc.height <= old.blockHeight
  <2>1. account' = account
    BY <1>2, <1>5
  <2>2. calc.phase \in Filling
    BY <1>2 DEF Filling
  <2> QED
    BY <1>1, <1>2, <2>1, <2>2, Listed, FillKeeps
<1>6. CASE ~(calc.height <= old.blockHeight)
  <2>1. old.blockHeight <= calc.height
    BY <1>3, <1>4, <1>6, CalculateAssumption DEF IScoreAccount, Height
  <2>2. PICK ia \in IScoreAccount : /\ ia = CalculateIScore(old, calc.height)
                                    /\ ia.blockHeight = calc.height
    BY <1>3, <1>4, <2>1, ScoreAt
  <2>3. account' = [account EXCEPT ![CalcDB][a] = ia]
    BY <1>2, <1>6, <2>2
  <2>4. calc.phase \in Filling
    BY <1>2 DEF Filling
  <2> QED
    BY <1>1, <1>2, <1>3, <2>2, <2>3, <2>4, Listed, FillKeeps
<1> QED
  BY <1>5, <1>6

(* What is in the calculate DB while it is filled is at the height of the *)
(* calculation.                                                           *)
LEMMA FilledAt ==
    ASSUME CalculateInv, calc.phase \in Filling, NEW a \in Address
    PROVE  At(account[CalcDB][a], calc.height)
<1>1. PICK f \in backups : f.shard = ShardOf[a]
  BY CalculateAssumption DEF CalculateInv, Generations, AllBackedUp, BackedUp
<1>2. calc.height = NextEnd
  BY DEF CalculateInv, Heights, Active
<1>3. f.height = NextEnd
  BY <1>2 DEF CalculateInv, Generations
<1> QED
  BY <1>1, <1>2, <1>3 DEF CalculateInv, Whole

(* The reward of a producer or P-Rep keeps the invariant. *)
LEMMA AddRewardKeeps ==
    ASSUME CalculateInv, NEW a \in calc.addrs, AddReward(a)
    PROVE  CalculateInv'
<1>1. Types
  BY DEF CalculateInv
<1>2. /\ calc.phase \in Filling /\ calc.phase # "tx" /\ a \in calc.addrs
      /\ account' = [account EXCEPT ![CalcDB][a] = Rewarded(@, calc.height)]
      /\ calc' = [calc EXCEPT !.addrs = @ \ {a}]
      /\ UNCHANGED <<info, backups, results, rollback, up, tip, due, rollingBack, iiss>>
  BY DEF AddReward, isVars, Filling
<1>3. a \in Address /\ calc.height \in Height
  BY <1>1, NumberTypes DEF Types, CalcRecord
<1>4. account[CalcDB][a] \in IScoreAccount \cup {NoAccount}
  BY <1>1, <1>3, AccountDBs
<1>5. PICK ia \in IScoreAccount : /\ ia = Rewarded(account[CalcDB][a], calc.height)
                                  /\ ia.blockHeight = calc.height
  BY <1>2, <1>3, <1>4, FilledAt, RewardedAt
<1>6. account' = [account EXCEPT ![CalcDB][a] = ia]
  BY <1>2, <1>5
<1> QED
  BY <1>1, <1>2, <1>3, <1>5, <1>6, Listed, FillKeeps

(* A delegation transaction keeps the invariant. *)
LEMMA CalculateTXKeeps == CalculateInv /\ CalculateIISSTX => CalculateInv'
<1> SUFFICES ASSUME CalculateInv, CalculateIISSTX PROVE CalculateInv'
  OBVIOUS
<1>1. Types /\ Heights
  BY DEF CalculateInv
<1> DEFINE tx == calc.iiss.txs[calc.next]
           ia == account[CalcDB][tx.addr]
<1>2. /\ calc.phase = "tx" /\ calc.next <= Len(calc.iiss.txs)
      /\ account' = IF ia # NoAccount /\ ia.blockHeight # calc.height THEN account
                    ELSE [account EXCEPT ![CalcDB][tx.addr] = Delegated(ia, tx, calc.height)]
      /\ calc' = [calc EXCEPT !.next = @ + 1]
      /\ UNCHANGED <<info, backups, results, rollback, up, tip, due, rollingBack, iiss>>
  BY DEF CalculateIISSTX, isVars
<1>3. calc.phase \in Filling /\ calc.phase \in Active
  BY <1>2 DEF Filling, Active
<1>4. calc.iiss.txs \in Seq(DelegateTX)
  BY <1>1, <1>3, CalculateAssumption DEF Types, CalcRecord, Heights
<1>5. calc.next \in Nat /\ calc.next > 0 /\ calc.height \in Height /\ calc.height >= Term
  BY <1>1, <1>2, <1>3, NumberTypes DEF Types, CalcRecord, Heights, NextEnd, CalculateInv, Whole
<1>6. /\ calc' \in CalcRecord /\ calc'.phase = calc.phase /\ calc'.height = calc.height
      /\ calc'.iiss = calc.iiss /\ calc'.addrs = calc.addrs /\ calc'.next > 0
  <2>1. PICK n \in Nat : n = calc.next + 1
    BY <1>5
  <2>2. calc' = [calc EXCEPT !.next = n]
    BY <1>2, <2>1
  <2> QED
    BY <1>1, <1>5, <2>1, <2>2 DEF Types, CalcRecord
<1>7. CASE account' = account
  BY <1>2, <1>3, <1>6, <1>7, FillKeeps
<1>8. CASE account' # account
  <2>0. ia = NoAccount \/ ia.blockHeight = calc.height
    BY <1>2, <1>8
  <2>1. tx \in DelegateTX
    BY <1>2, <1>4, <1>5
  <2>2. tx.addr \in Address
    BY <2>1 DEF DelegateTX
  <2> HIDE DEF tx
  <2>3. ia \in IScoreAccount \cup {NoAccount}
    BY <1>1, <2>2, AccountDBs
  <2> HIDE DEF ia
  <2>4. PICK new \in IScoreAccount : /\ new = Delegated(ia, tx, calc.height)
                                     /\ new.blockHeight = calc.height
    BY <1>5, <2>1, <2>3, DelegatedAt
  <2>5. account' = [account EXCEPT ![CalcDB][tx.addr] = new]
    BY <1>2, <2>0, <2>4
  <2> QED
    BY <1>2, <1>3, <1>6, <2>2, <2>4, <2>5, FillKeeps
<1> QED
  BY <1>7, <1>8

-----------------------------------------------------------------------------
(* The steps of a calculation that change generations. *)

(* A calculation that is not refused is of the next term. *)
LEMMA CheckedIsNext ==
    ASSUME Types, Heights, calc.phase = "check", calc.height > info.calcDone
    PROVE  calc.height = NextEnd
<1>1. /\ Term \in Nat /\ Term > 0 /\ calc.height \in Nat /\ info.calcDone \in Nat
      /\ calc.height <= NextEnd /\ calc.height % Term = 0 /\ info.calcDone % Term = 0
  BY NumberTypes DEF Heights
<1>2. info.calcDone + Term <= calc.height
  BY <1>1, TermsApart
<1> QED
  BY <1>1, <1>2 DEF NextEnd

(* The old calculate DB, which claims and queries read from now on, is whole: *)
(* when the DBs are not toggled for this calculation yet, no calculation has  *)
(* touched it since the last one, and no rollback is restoring it.            *)
LEMMA ToggleKeeps == CalculateInv /\ ToggleAccountDB => CalculateInv'
<1> SUFFICES ASSUME CalculateInv, ToggleAccountDB PROVE CalculateInv'
  OBVIOUS
<1>1. Types /\ Heights /\ RollbackState /\ Generations /\ Whole
  BY DEF CalculateInv
<1>2. /\ calc.phase = "check" /\ calc.height > info.calcDone
      /\ info' = Toggled(calc.height + 1)
      /\ calc' = ToPhase("purge")
      /\ UNCHANGED <<account, backups, results, rollback, up, iiss, tip, due, rollingBack>>
  BY DEF ToggleAccountDB, isVars
<1>3. /\ Term \in Nat /\ Term > 0 /\ calc.height \in Nat /\ info.calcDone \in Nat
      /\ info.prevCalcDone \in Nat /\ tip \in Nat /\ info.toggleBH \in Nat
  BY <1>1, NumberTypes
<1>4. calc.height = NextEnd /\ calc.iiss # NoData
  BY <1>1, <1>2, CheckedIsNext DEF Heights
<1>5. ~Pending
  BY <1>1, <1>2, <1>3 DEF RollbackState, Heights
<1>6. /\ info' \in [calcDone : Height, prevCalcDone : Height, calculating : Height,
                    queryDB : {0, 1}, toggleBH : Nat]
      /\ info'.calcDone = info.calcDone /\ info'.prevCalcDone = info.prevCalcDone
      /\ info'.calculating = info.calculating
      /\ info'.toggleBH = NextEnd + 1
      /\ info'.queryDB = IF ToggledNext THEN info.queryDB ELSE 1 - info.queryDB
  <2>1. CASE ToggledNext
    BY <1>1, <1>2, <1>4, <2>1 DEF Types, Toggled, ToggledNext
  <2>2. CASE ~ToggledNext
    <3>1. PICK q \in {0, 1} : q = 1 - info.queryDB
      BY <1>1 DEF Types
    <3>2. PICK bh \in Nat : bh = NextEnd + 1
      BY <1>3 DEF NextEnd
    <3>3. info' = [info EXCEPT !.queryDB = q, !.toggleBH = bh]
      BY <1>2, <1>4, <2>2, <3>1, <3>2 DEF Toggled, ToggledNext
    <3> QED
      BY <1>1, <2>2, <3>1, <3>2, <3>3 DEF Types
  <2> QED
    BY <2>1, <2>2
<1>7. /\ calc' \in CalcRecord /\ calc'.phase = "purge" /\ calc'.height = NextEnd
      /\ calc'.iiss # NoData
  BY <1>1, <1>2, <1>4, PhaseGoes DEF CalcPhase
<1>8. /\ NextEnd' = NextEnd /\ ToggledNext' /\ ~Pending' /\ ~Restoring /\ ~Restoring'
      /\ Old' = Old /\ AllBackedUp' = AllBackedUp /\ \A s : BackedUp(s)' = BackedUp(s)
  BY <1>2, <1>5, <1>6 DEF NextEnd, ToggledNext, Pending, Restoring, Old, AllBackedUp, BackedUp
<1>9. Types'
  BY <1>1, <1>2, <1>6, <1>7 DEF Types, BackupRecord, InShard
<1>10. Heights'
  BY <1>1, <1>2, <1>4, <1>6, <1>7, <1>8 DEF Heights
<1>11. RollbackState'
  <2>1. info'.toggleBH > info'.calcDone
    BY <1>3, <1>6 DEF NextEnd
  <2> QED
    BY <1>1, <1>2, <1>6, <1>7, <1>8, <1>5, <2>1 DEF RollbackState
<1>12. Generations'
  BY <1>1, <1>2, <1>6, <1>7, <1>8 DEF Generations, OneBackupGeneration, Filling
<1>13. Whole'
  <2>1. CASE ToggledNext
    <3>1. QueryDB' = QueryDB /\ CalcDB' = CalcDB
      BY <1>6, <2>1 DEF QueryDB, CalcDB
    <3> QED
      BY <1>1, <1>2, <1>6, <1>7, <1>8, <3>1 DEF Whole, DBAt, RestoredAt
  <2>2. CASE ~ToggledNext
    <3>1. QueryDB' = CalcDB /\ CalcDB' = QueryDB
      BY <1>1, <1>6, <2>2, AccountDBs DEF QueryDB, CalcDB
    <3>2. Old
      BY <1>1, <2>2 DEF Generations
    <3>3. \E h \in Height : DBAt(QueryDB, h)'
      BY <1>1, <1>2, <1>8, <3>1, <3>2 DEF Whole, DBAt
    <3>4. \E h \in Height : DBAt(CalcDB, h)'
      BY <1>1, <1>2, <3>1 DEF Whole, DBAt
    <3>5. \E h \in Height : RestoredAt(h)'
      <4>1. CASE backups = {}
        BY <1>2, <3>4, <4>1 DEF DBAt, RestoredAt
      <4>2. CASE AllBackedUp
        <5>1. PICK h \in Height : RestoredAt(h)
          BY <1>1 DEF Whole
        <5>2. \A a \in Address : BackedUp(ShardOf[a])'
          BY <1>8, <4>2, CalculateAssumption DEF AllBackedUp
        <5> QED
          BY <1>2, <5>1, <5>2 DEF RestoredAt
      <4> QED
        BY <1>1, <1>8, <3>2, <4>1, <4>2 DEF Generations
    <3>6. \A f \in backups' : f.height # NextEnd'
      BY <1>2, <1>3, <1>8, <3>2 DEF Old, NextEnd
    <3> QED
      BY <1>7, <3>3, <3>4, <3>5, <3>6 DEF Whole
  <2> QED
    BY <2>1, <2>2
<1> QED
  BY <1>9, <1>10, <1>11, <1>12, <1>13 DEF CalculateInv

(* The backups of the last calculation go only while the calculate DB is *)
(* whole without them.                                                   *)
LEMMA PurgeKeeps == CalculateInv /\ DeleteOldBackups => CalculateInv'
<1> SUFFICES ASSUME CalculateInv, DeleteOldBackups PROVE CalculateInv'
  OBVIOUS
<1>1. Types /\ Heights /\ RollbackState /\ Generations /\ Whole
  BY DEF CalculateInv
<1>2. /\ calc.phase = "purge"
      /\ backups' = {f \in backups : f.height # info.calcDone}
      /\ calc' = [calc EXCEPT !.phase = "reset", !.shards = Shard]
      /\ due' = (due /\ (calc.reload \/ tip # calc.height))
      /\ UNCHANGED <<info, account, results, rollback, up, iiss, tip, rollingBack>>
  BY DEF DeleteOldBackups, Acknowledge
<1>3. /\ Term \in Nat /\ Term > 0 /\ info.calcDone \in Nat /\ NextEnd \in Nat
      /\ NextEnd # info.calcDone
  BY <1>1, NumberTypes DEF NextEnd
<1>4. calc.height = NextEnd /\ calc.iiss # NoData /\ ToggledNext
  BY <1>1, <1>2 DEF Heights, Active
<1>5. ~Pending
  BY <1>1, <1>2 DEF RollbackState, Active
<1>6. /\ calc' \in CalcRecord /\ calc'.phase = "reset" /\ calc'.height = calc.height
      /\ calc'.iiss = calc.iiss /\ calc'.shards = Shard
  <2>1. PICK p \in CalcPhase : p = "reset"
    BY DEF CalcPhase
  <2>2. PICK all \in SUBSET Shard : all = Shard
    OBVIOUS
  <2>3. calc' = [calc EXCEPT !.phase = p, !.shards = all]
    BY <1>2, <2>1, <2>2
  <2> QED
    BY <1>1, <2>1, <2>2, <2>3 DEF Types, CalcRecord
<1>7. /\ NextEnd' = NextEnd /\ ToggledNext' = ToggledNext /\ Pending' = Pending
      /\ ~Restoring /\ ~Restoring' /\ QueryDB' = QueryDB /\ CalcDB' = CalcDB
  BY <1>2, <1>5 DEF NextEnd, ToggledNext, Pending, Restoring, QueryDB, CalcDB
<1>8. \A f \in backups' : f \in backups /\ f.height = NextEnd
  BY <1>1, <1>2 DEF Generations
<1>9. \/ Old /\ backups' = {}
      \/ ~Old /\ backups' = backups
  <2>1. CASE Old
    BY <1>2, <2>1 DEF Old
  <2>2. CASE ~Old
    <3>1. PICK g \in backups : g.height # info.calcDone
      BY <2>2 DEF Old
    <3>2. \A f \in backups : f.height # info.calcDone
      BY <1>1, <3>1 DEF Generations, OneBackupGeneration
    <3> QED
      BY <1>2, <2>2, <3>2
  <2> QED
    BY <2>1, <2>2
<1>10. Types'
  <2>1. due' \in BOOLEAN
    BY <1>2
  <2>2. \A f \in backups' : BackupRecord(f)
    BY <1>1, <1>8 DEF Types
  <2> QED
    BY <1>1, <1>2, <1>6, <2>1, <2>2 DEF Types, BackupRecord, InShard
<1>11. Heights'
  BY <1>1, <1>2, <1>4, <1>6, <1>7 DEF Heights
<1>12. RollbackState'
  BY <1>1, <1>2, <1>5, <1>6, <1>7 DEF RollbackState
<1>13. Generations'
  <2>1. OneBackupGeneration' /\ \A f, g \in backups' : f.shard = g.shard => f = g
    BY <1>1, <1>8 DEF Generations, OneBackupGeneration
  <2>2. Old' => backups' = {}
    BY <1>2, <1>3, <1>8 DEF Old
  <2> QED
    BY <1>2, <1>4, <1>6, <1>7, <1>8, <2>1, <2>2 DEF Generations, Filling
<1>14. Whole'
  <2>1. \E h \in Height : RestoredAt(h)'
    <3>1. CASE Old /\ backups' = {}
      BY <1>1, <1>2, <1>7, <3>1 DEF Whole, DBAt, RestoredAt
    <3>2. CASE backups' = backups
      BY <1>1, <1>2, <1>7, <3>2 DEF Whole, RestoredAt, BackedUp
    <3> QED
      BY <1>9, <3>1, <3>2
  <2>2. Old' => \E h \in Height : DBAt(CalcDB, h)'
    <3>1. CASE Old /\ backups' = {}
      BY <1>1, <1>2, <1>7, <3>1 DEF Whole, DBAt
    <3>2. CASE ~Old /\ backups' = backups
      BY <1>2, <3>2 DEF Old
    <3> QED
      BY <1>9, <3>1, <3>2
  <2>3. \E h \in Height : DBAt(QueryDB, h)'
    BY <1>1, <1>2, <1>7 DEF Whole, DBAt
  <2> QED
    BY <1>1, <1>2, <1>6, <1>7, <1>8, <2>1, <2>2, <2>3 DEF Whole
<1> QED
  BY <1>10, <1>11, <1>12, <1>13, <1>14 DEF CalculateInv

(* The accounts of a shard replaced by those of a backup of the shard. *)
LEMMA Overwritten ==
    ASSUME Types, NEW s \in Shard,
           NEW new \in [InShard(s) -> IScoreAccount \cup {NoAccount}],
           account' = [account EXCEPT ![CalcDB] = Overwrite(@, new)]
    PROVE  /\ account' \in [{0, 1} -> AccountDB]
           /\ account'[QueryDB] = account[QueryDB]
           /\ \A a \in Address :
                account'[CalcDB][a] = IF ShardOf[a] = s THEN new[a] ELSE account[CalcDB][a]
<1>1. /\ QueryDB \in {0, 1} /\ CalcDB \in {0, 1} /\ CalcDB # QueryDB
      /\ account \in [{0, 1} -> AccountDB]
  BY AccountDBs DEF Types
<1>2. DOMAIN new = InShard(s)
  OBVIOUS
<1> DEFINE db == Overwrite(account[CalcDB], new)
<1>3. \A a \in Address : db[a] = IF ShardOf[a] = s THEN new[a] ELSE account[CalcDB][a]
  BY <1>2 DEF Overwrite, InShard
<1>4. db \in AccountDB
  <2>1. db = [a \in Address |-> IF ShardOf[a] = s THEN new[a] ELSE account[CalcDB][a]]
    BY <1>2 DEF Overwrite, InShard
  <2>2. \A a \in Address : (IF ShardOf[a] = s THEN new[a] ELSE account[CalcDB][a])
                             \in IScoreAccount \cup {NoAccount}
    BY <1>1 DEF InShard, AccountDB
  <2> QED
    BY <2>1, <2>2 DEF AccountDB
<1>5. account' = [account EXCEPT ![CalcDB] = db]
  OBVIOUS
<1> HIDE DEF db
<1>6. account' \in [{0, 1} -> AccountDB] /\ account'[QueryDB] = account[QueryDB]
      /\ account'[CalcDB] = db
  BY <1>1, <1>4, <1>5
<1> QED
  BY <1>3, <1>6

(* The backup has what the calculate DB had. *)
LEMMA RenameKeeps ==
    ASSUME CalculateInv, NEW s \in calc.shards, RenameShard(s)
    PROVE  CalculateInv'
<1>1. Types /\ Heights /\ RollbackState /\ Generations /\ Whole
  BY DEF CalculateInv
<1> DEFINE saved == ShardOfDB(account[CalcDB], s)
           b == [height |-> calc.height, shard |-> s, accounts |-> saved]
           none == ShardOfDB(EmptyDB, s)
<1>2. /\ calc.phase = "reset" /\ ~BackupExists(s)
      /\ backups' = backups \cup {b}
      /\ account' = [account EXCEPT ![CalcDB] = Overwrite(@, none)]
      /\ calc' = [calc EXCEPT !.shards = @ \ {s}]
      /\ UNCHANGED <<info, results, rollback, up, iiss, tip, due, rollingBack>>
  BY DEF RenameShard, isVars
<1>3. /\ Term \in Nat /\ Term > 0 /\ info.calcDone \in Nat /\ NextEnd \in Nat
      /\ NextEnd # info.calcDone /\ calc.height \in Height
  BY <1>1, NumberTypes DEF NextEnd
<1>4. /\ calc.height = NextEnd /\ calc.iiss # NoData /\ ToggledNext /\ ~Pending /\ s \in Shard
      /\ \A f \in backups : f.height = NextEnd
      /\ \A t \in Shard \ calc.shards : BackedUp(t)
  BY <1>1, <1>2 DEF Heights, RollbackState, Generations, Active, Types, CalcRecord
<1>5. \A f \in backups : f.shard # s
  BY <1>2, <1>4 DEF BackupExists
<1>6. /\ calc' \in CalcRecord /\ calc'.phase = "reset" /\ calc'.height = calc.height
      /\ calc'.iiss = calc.iiss /\ calc'.shards = calc.shards \ {s}
  <2> DEFINE rest == calc.shards \ {s}
  <2>1. rest \in SUBSET Shard
    BY <1>1 DEF Types, CalcRecord
  <2>2. calc' = [calc EXCEPT !.shards = rest]
    BY <1>2
  <2> HIDE DEF rest
  <2>3. /\ calc' \in CalcRecord /\ calc'.phase = "reset" /\ calc'.height = calc.height
        /\ calc'.iiss = calc.iiss /\ calc'.shards = rest
    BY <1>1, <1>2, <2>1, <2>2 DEF Types, CalcRecord
  <2> QED
    BY <2>3 DEF rest
<1>7. /\ saved \in [InShard(s) -> IScoreAccount \cup {NoAccount}]
      /\ none \in [InShard(s) -> IScoreAccount \cup {NoAccount}]
      /\ \A a \in InShard(s) : saved[a] = account[CalcDB][a] /\ none[a] = NoAccount
  <2>1. \A a \in InShard(s) : a \in Address
    BY DEF InShard
  <2>2. \A a \in InShard(s) : account[CalcDB][a] \in IScoreAccount \cup {NoAccount}
    BY <1>1, <2>1, AccountDBs
  <2>3. saved = [a \in InShard(s) |-> account[CalcDB][a]]
    BY DEF ShardOfDB
  <2>4. none = [a \in InShard(s) |-> NoAccount]
    BY <2>1 DEF ShardOfDB, EmptyDB
  <2> QED
    BY <2>2, <2>3, <2>4
<1> HIDE DEF saved, none
<1>8. /\ b.height = NextEnd /\ b.shard = s /\ b.accounts = saved
      /\ BackupRecord(b)
  BY <1>3, <1>4, <1>7 DEF BackupRecord
<1> HIDE DEF b
<1>9. /\ account' \in [{0, 1} -> AccountDB] /\ account'[QueryDB] = account[QueryDB]
      /\ \A a \in Address :
            account'[CalcDB][a] = IF ShardOf[a] = s THEN NoAccount ELSE account[CalcDB][a]
  <2>1. /\ account' \in [{0, 1} -> AccountDB] /\ account'[QueryDB] = account[QueryDB]
        /\ \A a \in Address :
              account'[CalcDB][a] = IF ShardOf[a] = s THEN none[a] ELSE account[CalcDB][a]
    BY <1>1, <1>2, <1>4, <1>7, Overwritten
  <2> QED
    BY <1>7, <2>1 DEF InShard
<1>10. /\ NextEnd' = NextEnd /\ ToggledNext' = ToggledNext /\ Pending' = Pending
       /\ ~Restoring' /\ QueryDB' = QueryDB /\ CalcDB' = CalcDB
       /\ \A t : BackedUp(t)' <=> BackedUp(t) \/ t = s
  BY <1>2, <1>4, <1>8 DEF NextEnd, ToggledNext, Pending, Restoring, QueryDB, CalcDB, BackedUp
<1>11. \A f \in backups' : f = b \/ f \in backups
  BY <1>2
<1>12. ~Old'
  BY <1>2, <1>3, <1>8 DEF Old
<1>13. Types'
  <2>1. \A f \in backups' : BackupRecord(f)
    BY <1>1, <1>8, <1>11 DEF Types
  <2> QED
    BY <1>1, <1>2, <1>6, <1>9, <2>1 DEF Types, BackupRecord, InShard
<1>14. Heights'
  BY <1>1, <1>2, <1>4, <1>6, <1>10 DEF Heights
<1>15. RollbackState'
  BY <1>1, <1>2, <1>4, <1>6, <1>10 DEF RollbackState
<1>16. Generations'
  <2>1. \A f \in backups' : f.height = NextEnd
    BY <1>4, <1>8, <1>11
  <2>2. \A f, g \in backups' : f.shard = g.shard => f = g
    BY <1>1, <1>5, <1>8, <1>11 DEF Generations
  <2>3. \A t \in Shard \ calc'.shards : BackedUp(t)'
    BY <1>4, <1>6, <1>10
  <2> QED
    BY <1>4, <1>6, <1>10, <1>12, <2>1, <2>2, <2>3 DEF Generations, OneBackupGeneration, Filling
<1>17. Whole'
  <2>1. \E h \in Height : DBAt(QueryDB, h)'
    BY <1>1, <1>9, <1>10 DEF Whole, DBAt
  <2>2. \E h \in Height : RestoredAt(h)'
    <3>1. PICK h \in Height : RestoredAt(h)
      BY <1>1 DEF Whole
    <3>2. \A a \in Address : ShardOf[a] = s => saved[a] = account[CalcDB][a]
      BY <1>7 DEF InShard
    <3>3. \A a \in Address : ShardOf[a] = s => At(saved[a], h)
      BY <1>5, <3>1, <3>2 DEF RestoredAt, BackedUp
    <3>4. \A f \in backups', a \in Address : ShardOf[a] = f.shard => At(f.accounts[a], h)
      BY <1>8, <1>11, <3>1, <3>3 DEF RestoredAt
    <3>5. \A a \in Address : ~BackedUp(ShardOf[a])' => At(account'[CalcDB'][a], h)
      BY <1>9, <1>10, <3>1 DEF RestoredAt
    <3> QED
      BY <3>4, <3>5 DEF RestoredAt
  <2>3. \A f \in backups', a \in Address :
          f.height = NextEnd' /\ ShardOf[a] = f.shard => At(account'[CalcDB'][a], NextEnd')
    <3>1. \A a \in Address : ShardOf[a] = s => At(account'[CalcDB][a], NextEnd)
      BY <1>9 DEF At
    <3>2. \A f \in backups, a \in Address :
            f.height = NextEnd /\ ShardOf[a] = f.shard => At(account'[CalcDB][a], NextEnd)
      BY <1>1, <1>5, <1>9 DEF Whole
    <3> QED
      BY <1>8, <1>10, <1>11, <3>1, <3>2
  <2> QED
    BY <1>6, <1>12, <2>1, <2>2, <2>3 DEF Whole
<1> QED
  BY <1>13, <1>14, <1>15, <1>16, <1>17 DEF CalculateInv

(* All shards are filled up to the height of the calculation when it is done. *)
LEMMA SetCalcDoneKeeps == CalculateInv /\ SetCalcDoneBH => CalculateInv'
<1> SUFFICES ASSUME CalculateInv, SetCalcDoneBH PROVE CalculateInv'
  OBVIOUS
<1>1. Types /\ Heights /\ RollbackState /\ Generations /\ Whole
  BY DEF CalculateInv
<1>2. /\ calc.phase = "done"
      /\ info' = [info EXCEPT !.prevCalcDone = info.calcDone, !.calcDone = calc.height]
      /\ calc' = ToPhase("result")
      /\ UNCHANGED <<account, backups, results, rollback, up, iiss, tip, due, rollingBack>>
  BY DEF SetCalcDoneBH, isVars
<1>3. /\ Term \in Nat /\ Term > 0 /\ info.calcDone \in Nat /\ info.prevCalcDone \in Nat
      /\ tip \in Nat /\ NextEnd \in Nat /\ calc.height \in Height /\ info.toggleBH \in Nat
      /\ \A h \in Height : h \in Nat
  BY <1>1, NumberTypes DEF NextEnd
<1>4. calc.phase \in Filling /\ calc.phase \in Active
  BY <1>2 DEF Active, Filling
<1>5. /\ calc.height = NextEnd /\ ToggledNext /\ ~Pending /\ AllBackedUp
      /\ \A f \in backups : f.height = NextEnd
  BY <1>1, <1>4 DEF Heights, RollbackState, Generations
<1>6. /\ calc' \in CalcRecord /\ calc'.phase = "result" /\ calc'.height = calc.height
  BY <1>1, <1>2, PhaseGoes DEF CalcPhase
<1>7. /\ info' \in [calcDone : Height, prevCalcDone : Height, calculating : Height,
                    queryDB : {0, 1}, toggleBH : Nat]
      /\ info'.calcDone = NextEnd /\ info'.prevCalcDone = info.calcDone
      /\ info'.calculating = info.calculating
      /\ info'.toggleBH = info.toggleBH /\ info'.queryDB = info.queryDB
  BY <1>1, <1>2, <1>3, <1>5 DEF Types
<1>8. /\ NextEnd' = NextEnd + Term /\ QueryDB' = QueryDB /\ CalcDB' = CalcDB
      /\ info'.toggleBH = NextEnd + 1
      /\ AllBackedUp' /\ \A s : BackedUp(s)' = BackedUp(s)
  BY <1>2, <1>5, <1>7 DEF NextEnd, ToggledNext, QueryDB, CalcDB, BackedUp, AllBackedUp
<1>9. Old' /\ \A f \in backups' : f.height # NextEnd'
  BY <1>2, <1>3, <1>5, <1>7, <1>8 DEF Old
<1>10. Types'
  BY <1>1, <1>2, <1>6, <1>7 DEF Types, BackupRecord, InShard
<1>11. Heights'
  <2>1. NextEnd % Term = 0
    BY <1>1, <1>5 DEF Heights
  <2>2. info'.calcDone \in {info'.prevCalcDone, info'.prevCalcDone + Term}
    BY <1>7 DEF NextEnd
  <2>3. \A h \in Height : h > NextEnd' \/ h > tip' => iiss'[h] = NoData
    BY <1>1, <1>2, <1>3, <1>8 DEF Heights
  <2> QED
    BY <1>1, <1>2, <1>6, <1>7, <2>1, <2>2, <2>3 DEF Heights, Active, Filling
<1>12. RollbackState'
  <2>1. rollingBack => info.calcDone < tip
    BY <1>3, <1>5 DEF Pending
  <2>2. rollback \notin {"rename", "result", "info"}
    BY <1>1, <1>5 DEF RollbackState
  <2>3. Pending' => info'.toggleBH # tip'
    BY <1>2, <1>3, <1>7, <1>8 DEF Pending
  <2>4. info'.toggleBH > info'.calcDone
    BY <1>3, <1>7, <1>8
  <2> QED
    BY <1>1, <1>2, <1>6, <1>7, <2>1, <2>2, <2>3, <2>4 DEF RollbackState, Active, Filling
<1>13. Generations'
  BY <1>1, <1>2, <1>5, <1>6, <1>7, <1>8, <1>9 DEF Generations, OneBackupGeneration, Filling
<1>14. Whole'
  <2>1. \A a \in Address : At(account[CalcDB][a], NextEnd)
    BY <1>4, <1>5, FilledAt
  <2>2. NextEnd \in Height
    BY <1>3, <1>5
  <2>3. \E h \in Height : DBAt(CalcDB, h)'
    BY <1>2, <1>8, <2>1, <2>2 DEF DBAt
  <2>4. \E h \in Height : DBAt(QueryDB, h)'
    BY <1>1, <1>2, <1>8 DEF Whole, DBAt
  <2>5. \E h \in Height : RestoredAt(h)'
    BY <1>1, <1>2, <1>8 DEF Whole, RestoredAt
  <2> QED
    BY <1>6, <1>9, <2>3, <2>4, <2>5 DEF Whole
<1> QED
  BY <1>10, <1>11, <1>12, <1>13, <1>14 DEF CalculateInv

-----------------------------------------------------------------------------
(* The ROLLBACK handler, ICON Service and crashes. *)

(* Steps that leave the DBs and the passes alone keep the generations, unless *)
(* they end a rollback that is restoring.                                     *)
LEMMA AccountsRest ==
    ASSUME CalculateInv, UNCHANGED <<info, account, backups>>, Restoring => Restoring',
           \/ calc' = IdleCalc
           \/ /\ calc'.phase = calc.phase /\ calc'.height = calc.height
              /\ calc'.shards = calc.shards /\ calc'.addrs = calc.addrs
              /\ calc'.next = calc.next
    PROVE  Generations' /\ Whole'
<1>1. Generations /\ Whole
  BY DEF CalculateInv
<1>2. /\ NextEnd' = NextEnd /\ ToggledNext' = ToggledNext /\ Old' = Old
      /\ QueryDB' = QueryDB /\ CalcDB' = CalcDB
      /\ AllBackedUp' = AllBackedUp /\ \A s : BackedUp(s)' = BackedUp(s)
      /\ \A h : RestoredAt(h)' = RestoredAt(h)
      /\ \A h : DBAt(QueryDB, h)' = DBAt(QueryDB, h) /\ DBAt(CalcDB, h)' = DBAt(CalcDB, h)
  BY DEF NextEnd, ToggledNext, Old, QueryDB, CalcDB, AllBackedUp, BackedUp, RestoredAt, DBAt
<1>3. CASE calc' = IdleCalc
  <2>1. calc'.phase \notin {"reset", "tx", "accounts"} \cup Filling
    BY <1>3, Idle DEF Filling
  <2>2. Generations'
    BY <1>1, <1>2, <2>1 DEF Generations, OneBackupGeneration
  <2>3. Whole'
    BY <1>1, <1>2, <2>1 DEF Whole
  <2> QED
    BY <2>2, <2>3
<1>4. CASE calc' # IdleCalc
  <2>1. /\ calc'.phase = calc.phase /\ calc'.height = calc.height
        /\ calc'.shards = calc.shards /\ calc'.addrs = calc.addrs /\ calc'.next = calc.next
    BY <1>4
  <2>2. Generations'
    BY <1>1, <1>2, <2>1 DEF Generations, OneBackupGeneration
  <2>3. Whole'
    BY <1>1, <1>2, <2>1 DEF Whole
  <2> QED
    BY <2>2, <2>3
<1> QED
  BY <1>3, <1>4

(* The cancellation of the running calculation keeps the invariant. *)
LEMMA NotifyKeeps == CalculateInv /\ NotifyRollback => CalculateInv'
<1> SUFFICES ASSUME CalculateInv, NotifyRollback PROVE CalculateInv'
  OBVIOUS
<1>1. Types /\ Heights /\ RollbackState
  BY DEF CalculateInv
<1>2. /\ rollingBack /\ rollback = "idle" /\ info.prevCalcDone < tip
      /\ calc' = IF calc.phase \in {"idle", "dispatched"} THEN calc
                 ELSE [calc EXCEPT !.quit = TRUE]
      /\ rollback' = "check"
      /\ UNCHANGED <<info, account, backups, results, up, iiss, tip, due, rollingBack>>
  BY DEF NotifyRollback, dbVars, isVars
<1>3. /\ calc' \in CalcRecord /\ calc'.phase = calc.phase /\ calc'.height = calc.height
      /\ calc'.shards = calc.shards /\ calc'.addrs = calc.addrs /\ calc'.next = calc.next
      /\ calc'.iiss = calc.iiss
      /\ calc.phase = "idle" => calc' = calc
  <2>1. CASE calc.phase \in {"idle", "dispatched"}
    BY <1>1, <1>2, <2>1 DEF Types
  <2>2. CASE calc.phase \notin {"idle", "dispatched"}
    <3>1. PICK q \in BOOLEAN : q = TRUE
      OBVIOUS
    <3>2. calc' = [calc EXCEPT !.quit = q]
      BY <1>2, <2>2, <3>1
    <3> QED
      BY <1>1, <2>2, <3>2 DEF Types, CalcRecord
  <2> QED
    BY <2>1, <2>2
<1>4. NextEnd' = NextEnd /\ Pending' = Pending /\ ToggledNext' = ToggledNext
      /\ (Restoring => Restoring')
  BY <1>2 DEF NextEnd, Pending, ToggledNext, Restoring
<1>5. Types'
  BY <1>1, <1>2, <1>3 DEF Types, BackupRecord, InShard
<1>6. Heights'
  BY <1>1, <1>2, <1>3, <1>4 DEF Heights
<1>7. RollbackState'
  BY <1>1, <1>2, <1>3, <1>4 DEF RollbackState
<1> QED
  BY <1>2, <1>3, <1>4, <1>5, <1>6, <1>7, AccountsRest DEF CalculateInv

(* The handler's steps that change neither the account DBs nor DBInfo. *)
LEMMA HandlerKeeps ==
    ASSUME CalculateInv, CheckAccountDBRollback \/ DeleteCalculationResult
    PROVE  CalculateInv'
<1>1. Types /\ Heights /\ RollbackState
  BY DEF CalculateInv
<1>2. /\ UNCHANGED <<info, account, backups, calc, up, iiss, tip, due, rollingBack>>
      /\ results' \subseteq results
  BY DEF CheckAccountDBRollback, DeleteCalculationResult, dbVars, isVars
<1>3. \/ /\ rollback = "check"
         /\ rollback' = IF tip <= info.calcDone THEN "rename" ELSE "reply"
      \/ rollback = "result" /\ rollback' = "info"
  BY DEF CheckAccountDBRollback, DeleteCalculationResult
<1>4. NextEnd' = NextEnd /\ Pending' = Pending /\ ToggledNext' = ToggledNext
  BY <1>2 DEF NextEnd, Pending, ToggledNext
<1>5. Restoring => Restoring'
  BY <1>2, <1>3 DEF Restoring, Pending
<1>6. Types'
  BY <1>1, <1>2, <1>3 DEF Types, BackupRecord, InShard
<1>7. Heights'
  BY <1>1, <1>2, <1>4 DEF Heights
<1>8. RollbackState'
  BY <1>1, <1>2, <1>3, <1>4 DEF RollbackState, Pending
<1> QED
  BY <1>2, <1>5, <1>6, <1>7, <1>8, AccountsRest DEF CalculateInv

(* A shard is put back: the calculate DB with the backups put back stays what *)
(* it was.                                                                    *)
LEMMA RestoreKeeps ==
    ASSUME CalculateInv, NEW f \in backups, RestoreShard(f)
    PROVE  CalculateInv'
<1>1. Types /\ Heights /\ RollbackState /\ Generations /\ Whole
  BY DEF CalculateInv
<1>2. /\ rollback = "rename"
      /\ account' = [account EXCEPT ![CalcDB] = Overwrite(@, f.accounts)]
      /\ backups' = backups \ {f}
      /\ UNCHANGED <<info, results, calc, rollback, up, iiss, tip, due, rollingBack>>
  BY DEF RestoreShard, isVars
<1>3. Pending /\ info.toggleBH # tip /\ Restoring
  BY <1>1, <1>2 DEF RollbackState, Restoring
<1>4. /\ NextEnd' = NextEnd /\ Pending' = Pending /\ ToggledNext' = ToggledNext /\ Restoring'
      /\ QueryDB' = QueryDB /\ CalcDB' = CalcDB
  BY <1>2, <1>3 DEF NextEnd, Pending, ToggledNext, Restoring, QueryDB, CalcDB
<1>5. BackupRecord(f)
  BY <1>1 DEF Types
<1>6. /\ account' \in [{0, 1} -> AccountDB] /\ account'[QueryDB] = account[QueryDB]
      /\ \A a \in Address :
            account'[CalcDB][a] = IF ShardOf[a] = f.shard THEN f.accounts[a]
                                  ELSE account[CalcDB][a]
  BY <1>1, <1>2, <1>5, Overwritten DEF BackupRecord
<1>7. /\ \A g \in backups' : g \in backups /\ g.shard # f.shard
      /\ \A s : BackedUp(s) <=> BackedUp(s)' \/ s = f.shard
  BY <1>1, <1>2 DEF Generations, BackedUp
<1>8. calc.phase \notin Active
  BY <1>1, <1>3 DEF RollbackState
<1>9. Types'
  <2>1. \A g \in backups' : BackupRecord(g)
    BY <1>1, <1>7 DEF Types
  <2> QED
    BY <1>1, <1>2, <1>6, <2>1 DEF Types, BackupRecord, InShard
<1>10. Heights'
  BY <1>1, <1>2, <1>4 DEF Heights
<1>11. RollbackState'
  BY <1>1, <1>2, <1>3, <1>4 DEF RollbackState
<1>12. Generations'
  <2>1. Old => Old'
    BY <1>2 DEF Old
  <2> QED
    BY <1>1, <1>2, <1>4, <1>7, <1>8, <2>1 DEF Generations, OneBackupGeneration, Active
<1>13. Whole'
  <2>1. \E h \in Height : DBAt(QueryDB, h)'
    BY <1>1, <1>4, <1>6 DEF Whole, DBAt
  <2>2. \E h \in Height : RestoredAt(h)'
    <3>1. PICK h \in Height : RestoredAt(h)
      BY <1>1 DEF Whole
    <3>2. \A a \in Address : ~BackedUp(ShardOf[a])' => At(account'[CalcDB'][a], h)
      BY <1>4, <1>6, <1>7, <3>1 DEF RestoredAt
    <3> QED
      BY <1>7, <3>1, <3>2 DEF RestoredAt
  <2>3. \A g \in backups', a \in Address :
          g.height = NextEnd' /\ ShardOf[a] = g.shard => At(account'[CalcDB'][a], NextEnd')
    BY <1>1, <1>4, <1>6, <1>7 DEF Whole
  <2> QED
    BY <1>1, <1>2, <1>4, <1>8, <2>1, <2>2, <2>3 DEF Whole, Active, Filling
<1> QED
  BY <1>9, <1>10, <1>11, <1>12, <1>13 DEF CalculateInv

(* With all shards put back the calculate DB is whole again. *)
LEMMA ToggleBackKeeps == CalculateInv /\ ToggleBack => CalculateInv'
<1> SUFFICES ASSUME CalculateInv, ToggleBack PROVE CalculateInv'
  OBVIOUS
<1>1. Types /\ Heights /\ RollbackState /\ Generations /\ Whole
  BY DEF CalculateInv
<1>2. /\ rollback = "rename" /\ backups = {}
      /\ info' = Toggled(tip)
      /\ rollback' = "result"
      /\ UNCHANGED <<account, backups, results, calc, up, iiss, tip, due, rollingBack>>
  BY DEF ToggleBack, isVars
<1>3. Pending /\ calc.phase \notin Active
  BY <1>1, <1>2 DEF RollbackState
<1>4. tip \in Nat
  BY <1>1, NumberTypes
<1>5. /\ info' \in [calcDone : Height, prevCalcDone : Height, calculating : Height,
                    queryDB : {0, 1}, toggleBH : Nat]
      /\ info'.calcDone = info.calcDone /\ info'.prevCalcDone = info.prevCalcDone
      /\ info'.calculating = info.calculating
      /\ info'.toggleBH = tip
      /\ info'.queryDB \in {info.queryDB, 1 - info.queryDB}
  <2>1. CASE info.toggleBH = tip
    BY <1>1, <1>2, <2>1 DEF Types, Toggled
  <2>2. CASE info.toggleBH # tip
    <3>1. PICK q \in {0, 1} : q = 1 - info.queryDB
      BY <1>1 DEF Types
    <3>2. info' = [info EXCEPT !.queryDB = q, !.toggleBH = tip]
      BY <1>2, <2>2, <3>1 DEF Toggled
    <3> QED
      BY <1>1, <1>4, <3>1, <3>2 DEF Types
  <2> QED
    BY <2>1, <2>2
<1>6. NextEnd' = NextEnd /\ Pending'
  BY <1>2, <1>3, <1>5 DEF NextEnd, Pending
<1>7. Types'
  BY <1>1, <1>2, <1>5 DEF Types, BackupRecord, InShard
<1>8. Heights'
  BY <1>1, <1>2, <1>3, <1>5, <1>6 DEF Heights
<1>9. RollbackState'
  BY <1>1, <1>2, <1>3, <1>5, <1>6 DEF RollbackState
<1>10. Generations'
  BY <1>2, <1>3 DEF Generations, OneBackupGeneration, Old, Active
<1>11. Whole'
  <2>1. \/ QueryDB' = QueryDB /\ CalcDB' = CalcDB
        \/ QueryDB' = CalcDB /\ CalcDB' = QueryDB
    BY <1>1, <1>5, AccountDBs DEF QueryDB, CalcDB
  <2>2. \E h \in Height : DBAt(QueryDB, h)
    BY <1>1 DEF Whole
  <2>3. \E h \in Height : DBAt(CalcDB, h)
    BY <1>1, <1>2 DEF Whole, RestoredAt, DBAt, BackedUp
  <2>4. (\E h \in Height : DBAt(QueryDB, h)') /\ (\E h \in Height : DBAt(CalcDB, h)')
    BY <1>2, <2>1, <2>2, <2>3 DEF DBAt
  <2>5. \E h \in Height : RestoredAt(h)'
    BY <1>2, <2>4 DEF RestoredAt, DBAt
  <2> QED
    BY <1>2, <1>3, <2>4, <2>5 DEF Whole, Active, Filling
<1> QED
  BY <1>7, <1>8, <1>9, <1>10, <1>11 DEF CalculateInv

(* The calculation before is the last one again. *)
LEMMA RollbackInfoKeeps == CalculateInv /\ RollbackAccountDBBlockInfo => CalculateInv'
<1> SUFFICES ASSUME CalculateInv, RollbackAccountDBBlockInfo PROVE CalculateInv'
  OBVIOUS
<1>1. Types /\ Heights /\ RollbackState /\ Generations /\ Whole
  BY DEF CalculateInv
<1>2. /\ rollback = "info"
      /\ info' = [info EXCEPT !.calcDone = info.prevCalcDone,
                              !.calculating = info.prevCalcDone]
      /\ rollback' = "reply"
      /\ UNCHANGED <<account, backups, results, calc, up, iiss, tip, due, rollingBack>>
  BY DEF RollbackAccountDBBlockInfo, isVars
<1>3. /\ Term \in Nat /\ Term > 0 /\ info.calcDone \in Nat /\ info.prevCalcDone \in Nat
      /\ tip \in Nat /\ \A h \in Height : h \in Nat
  BY <1>1, NumberTypes
<1>4. /\ rollingBack /\ Pending /\ info.toggleBH = tip /\ backups = {}
      /\ calc.phase \notin Active \cup {"dispatched"}
      /\ calc.phase = "check" => calc.height <= info.prevCalcDone
      /\ info.prevCalcDone < tip /\ tip <= info.calcDone
  BY <1>1, <1>2 DEF RollbackState, Pending
<1>5. /\ info' \in [calcDone : Height, prevCalcDone : Height, calculating : Height,
                    queryDB : {0, 1}, toggleBH : Nat]
      /\ info'.calcDone = info.prevCalcDone /\ info'.prevCalcDone = info.prevCalcDone
      /\ info'.calculating = info.prevCalcDone
      /\ info'.toggleBH = tip /\ info'.queryDB = info.queryDB
  BY <1>1, <1>2, <1>4 DEF Types
<1>6. /\ NextEnd' = info.calcDone /\ ~Pending' /\ ~Restoring /\ ~Restoring'
      /\ QueryDB' = QueryDB /\ CalcDB' = CalcDB
  <2>1. info.calcDone = info.prevCalcDone + Term
    BY <1>1, <1>3, <1>4 DEF Heights
  <2> QED
    BY <1>2, <1>3, <1>4, <1>5, <2>1 DEF NextEnd, Pending, Restoring, QueryDB, CalcDB
<1>7. Types'
  BY <1>1, <1>2, <1>5 DEF Types, BackupRecord, InShard
<1>8. Heights'
  <2>1. \A h \in Height : h > NextEnd' \/ h > tip' => iiss'[h] = NoData
    BY <1>1, <1>2, <1>3, <1>4, <1>6 DEF Heights
  <2>2. calc'.phase = "check" => calc'.height <= NextEnd'
    <3>1. calc.height \in Nat
      BY <1>1, NumberTypes
    <3> QED
      BY <1>2, <1>3, <1>4, <1>6, <3>1
  <2> QED
    BY <1>1, <1>2, <1>4, <1>5, <2>1, <2>2 DEF Heights
<1>9. RollbackState'
  BY <1>1, <1>2, <1>3, <1>4, <1>5, <1>6 DEF RollbackState
<1>10. Generations'
  BY <1>2, <1>4 DEF Generations, OneBackupGeneration, Old, Active
<1>11. Whole'
  <2>1. Old
    BY <1>4 DEF Old
  <2>2. (\E h \in Height : DBAt(QueryDB, h)') /\ (\E h \in Height : DBAt(CalcDB, h)')
    BY <1>1, <1>2, <1>6, <2>1 DEF Whole, DBAt
  <2>3. \E h \in Height : RestoredAt(h)'
    BY <1>2, <1>4, <2>2 DEF RestoredAt, DBAt
  <2> QED
    BY <1>2, <1>4, <2>2, <2>3 DEF Whole, Active, Filling
<1> QED
  BY <1>7, <1>8, <1>9, <1>10, <1>11 DEF CalculateInv

(* The answer to ROLLBACK keeps the invariant. *)
LEMMA AnswerKeeps == CalculateInv /\ AnswerRollback => CalculateInv'
<1> SUFFICES ASSUME CalculateInv, AnswerRollback PROVE CalculateInv'
  OBVIOUS
<1>1. Types /\ Heights /\ RollbackState
  BY DEF CalculateInv
<1>2. /\ rollback = "reply" /\ rollback' = "idle" /\ rollingBack' = FALSE
      /\ UNCHANGED <<info, account, backups, results, calc, up, iiss, tip, due>>
  BY DEF AnswerRollback, dbVars
<1>3. NextEnd' = NextEnd /\ ToggledNext' = ToggledNext /\ ~Pending' /\ ~Restoring
  BY <1>2 DEF NextEnd, ToggledNext, Pending, Restoring
<1>4. Types'
  BY <1>1, <1>2 DEF Types, BackupRecord, InShard
<1>5. Heights'
  BY <1>1, <1>2, <1>3 DEF Heights
<1>6. RollbackState'
  BY <1>1, <1>2, <1>3 DEF RollbackState
<1> QED
  BY <1>2, <1>3, <1>4, <1>5, <1>6, AccountsRest DEF CalculateInv

(* A crash loses the goroutines and keeps what is in the databases. *)
LEMMA CrashKeeps == CalculateInv /\ Crash => CalculateInv'
<1> SUFFICES ASSUME CalculateInv, Crash PROVE CalculateInv'
  OBVIOUS
<1>1. Types /\ Heights /\ RollbackState
  BY DEF CalculateInv
<1>2. /\ calc' = IdleCalc /\ rollback' = "idle" /\ up' = FALSE
      /\ UNCHANGED <<info, account, backups, results, iiss, tip, due, rollingBack>>
  BY DEF Crash, dbVars, isVars
<1>3. /\ NextEnd' = NextEnd /\ ToggledNext' = ToggledNext /\ Pending' = Pending
      /\ Restoring => Restoring'
  BY <1>2 DEF NextEnd, ToggledNext, Pending, Restoring
<1>4. /\ calc' \in CalcRecord /\ calc'.phase = "idle" /\ calc'.height % Term = 0
      /\ calc'.phase \notin Active
  BY <1>2, Idle DEF Active, Filling
<1>5. Types'
  BY <1>1, <1>2, <1>4 DEF Types, BackupRecord, InShard
<1>6. Heights'
  BY <1>1, <1>2, <1>3, <1>4 DEF Heights
<1>7. RollbackState'
  BY <1>1, <1>2, <1>3, <1>4 DEF RollbackState
<1> QED
  BY <1>2, <1>3, <1>5, <1>6, <1>7, AccountsRest DEF CalculateInv

(* A block of the chain, and the IISS data of its term, keep the invariant. *)
LEMMA AddBlockKeeps == CalculateInv /\ AddBlock => CalculateInv'
<1> SUFFICES ASSUME CalculateInv, AddBlock PROVE CalculateInv'
  OBVIOUS
<1>1. Types /\ Heights /\ RollbackState
  BY DEF CalculateInv
<1>2. /\ ~due /\ ~rollingBack /\ tip < MaxHeight /\ tip' = tip + 1
      /\ UNCHANGED <<info, account, backups, results, calc, rollback, up, iiss, due, rollingBack>>
  BY DEF AddBlock, dbVars
<1>3. tip \in Nat /\ tip' \in Height /\ tip' > tip /\ \A h \in Height : h \in Nat
  BY <1>1, <1>2, NumberTypes, CalculateAssumption DEF Height
<1>4. /\ NextEnd' = NextEnd /\ ToggledNext' = ToggledNext /\ ~Pending /\ ~Pending'
      /\ ~Restoring
  BY <1>2 DEF NextEnd, ToggledNext, Pending, Restoring
<1>5. Types'
  BY <1>1, <1>2, <1>3 DEF Types, BackupRecord, InShard
<1>6. Heights'
  <2>1. \A h \in Height : h > NextEnd' \/ h > tip' => iiss'[h] = NoData
    BY <1>1, <1>2, <1>3, <1>4 DEF Heights
  <2> QED
    BY <1>1, <1>2, <1>4, <2>1 DEF Heights
<1>7. RollbackState'
  BY <1>1, <1>2, <1>4 DEF RollbackState
<1> QED
  BY <1>2, <1>4, <1>5, <1>6, <1>7, AccountsRest DEF CalculateInv

(* The last block of a term is at most one term above the last calculation. *)
LEMMA EndTermKeeps ==
    ASSUME CalculateInv, NEW d \in IISSData, EndTerm(d)
    PROVE  CalculateInv'
<1>1. Types /\ Heights /\ RollbackState
  BY DEF CalculateInv
<1>2. /\ ~due /\ ~rollingBack /\ tip < MaxHeight /\ tip' = tip + 1 /\ due' = TRUE
      /\ (tip + 1) % Term = 0 /\ info.calcDone >= tip + 1 - Term
      /\ iiss' = [iiss EXCEPT ![tip + 1] = d]
      /\ UNCHANGED <<info, account, backups, results, calc, rollback, up, rollingBack>>
  BY DEF EndTerm, dbVars
<1>3. /\ tip \in Nat /\ tip' \in Height /\ tip' > tip /\ info.calcDone \in Nat
      /\ Term \in Nat /\ \A h \in Height : h \in Nat
  BY <1>1, <1>2, NumberTypes, CalculateAssumption DEF Height
<1>4. /\ NextEnd' = NextEnd /\ ToggledNext' = ToggledNext /\ ~Pending /\ ~Pending'
      /\ ~Restoring
  BY <1>2 DEF NextEnd, ToggledNext, Pending, Restoring
<1>5. iiss' \in [Height -> IISSData \cup {NoData}]
      /\ \A h \in Height : h # tip + 1 => iiss'[h] = iiss[h]
  BY <1>1, <1>2, <1>3 DEF Types
<1>6. Types'
  BY <1>1, <1>2, <1>3, <1>5 DEF Types, BackupRecord, InShard
<1>7. Heights'
  <2>1. tip + 1 <= NextEnd
    BY <1>2, <1>3 DEF NextEnd
  <2>2. \A h \in Height : h > NextEnd' \/ h > tip' => iiss'[h] = NoData
    BY <1>1, <1>2, <1>3, <1>4, <1>5, <2>1 DEF Heights, NextEnd
  <2> QED
    BY <1>1, <1>2, <1>4, <2>2 DEF Heights
<1>8. RollbackState'
  BY <1>1, <1>2, <1>4 DEF RollbackState
<1> QED
  BY <1>2, <1>4, <1>6, <1>7, <1>8, AccountsRest DEF CalculateInv

(* A rollback that undoes a calculation begins with the DBs toggled for that *)
(* calculation or a later one, never for its own block.                      *)
LEMMA DecideKeeps ==
    ASSUME CalculateInv, NEW to \in Height, DecideRollback(to)
    PROVE  CalculateInv'
<1>1. Types /\ Heights /\ RollbackState
  BY DEF CalculateInv
<1>2. /\ ~rollingBack /\ info.prevCalcDone < to /\ to < tip
      /\ to > info.calcDone \/ calc = IdleCalc
      /\ tip' = to /\ rollingBack' = TRUE
      /\ iiss' = [h \in Height |-> IF h > to THEN NoData ELSE iiss[h]]
      /\ due' = (to = TermEnd(to))
      /\ UNCHANGED <<info, account, backups, results, calc, rollback, up>>
  BY DEF DecideRollback, dbVars
<1>3. /\ Term \in Nat /\ Term > 0 /\ to \in Nat /\ tip \in Nat /\ info.calcDone \in Nat
      /\ info.prevCalcDone \in Nat /\ info.toggleBH \in Nat /\ \A h \in Height : h \in Nat
  BY <1>1, NumberTypes
<1>4. /\ NextEnd' = NextEnd /\ ToggledNext' = ToggledNext /\ ~Pending /\ ~Restoring
      /\ Pending' => to <= info.calcDone
  BY <1>2 DEF NextEnd, ToggledNext, Pending, Restoring
<1>5. due' => to % Term = 0
  <2>1. to % Term \in Nat
    BY <1>3, Quotient
  <2>2. due' => to = to - (to % Term)
    BY <1>2 DEF TermEnd
  <2> QED
    BY <1>3, <2>1, <2>2
<1>6. iiss' \in [Height -> IISSData \cup {NoData}]
      /\ \A h \in Height : iiss'[h] = IF h > to THEN NoData ELSE iiss[h]
  BY <1>1, <1>2 DEF Types
<1>7. Types'
  BY <1>1, <1>2, <1>6 DEF Types, BackupRecord, InShard
<1>8. Heights'
  <2>1. \A h \in Height : h > NextEnd' \/ h > tip' => iiss'[h] = NoData
    BY <1>1, <1>2, <1>4, <1>6 DEF Heights
  <2> QED
    BY <1>1, <1>2, <1>4, <1>5, <2>1 DEF Heights
<1>9. RollbackState'
  <2>1. rollback = "idle"
    BY <1>1, <1>2 DEF RollbackState
  <2>2. info.prevCalcDone < info.calcDone => info.toggleBH > info.calcDone
    BY <1>1, <1>4 DEF RollbackState
  <2>3. Pending' => calc.phase = "idle" /\ info.toggleBH # to
    BY <1>2, <1>3, <1>4, <2>2, Idle
  <2> QED
    BY <1>1, <1>2, <2>1, <2>2, <2>3 DEF RollbackState, Active, Filling
<1> QED
  BY <1>2, <1>4, <1>7, <1>8, <1>9, AccountsRest DEF CalculateInv

-----------------------------------------------------------------------------
(* The invariance of CalculateInv, and what follows from it. *)

(* Every step keeps the invariant. *)
LEMMA CalculateNext ==
    ASSUME CalculateInv, [Next]_vars
    PROVE  CalculateInv'
<1>1. ASSUME CalculateStep PROVE CalculateInv'
  <2>1. ASSUME NEW s \in calc.shards, KeepShard(s) \/ RenameShard(s) PROVE CalculateInv'
    BY <2>1, KeepShardKeeps, RenameKeeps
  <2>2. ASSUME NEW a \in calc.addrs, CalculateDB(a) \/ AddReward(a) PROVE CalculateInv'
    BY <2>2, CalculateDBKeeps, AddRewardKeeps
  <2>3. CASE EndAccounts \/ EndTX \/ EndBlockProduce \/ EndPRep \/ WriteCalculationResult
    BY <2>3, NextPassKeeps
  <2> QED
    BY <1>1, <2>1, <2>2, <2>3, GetChannelKeeps, StopKeeps, RefuseKeeps, SetCalculatingKeeps,
       ToggleKeeps, PurgeKeeps, EndResetKeeps, CalculateTXKeeps, SetCalcDoneKeeps, CleanupKeeps
       DEF CalculateStep
<1>2. ASSUME RollbackStep PROVE CalculateInv'
  BY <1>2, NotifyKeeps, HandlerKeeps, RestoreKeeps, ToggleBackKeeps, RollbackInfoKeeps,
     AnswerKeeps DEF RollbackStep
<1>3. ASSUME UNCHANGED vars PROVE CalculateInv'
  <2>1. UNCHANGED <<info, account, backups, results, calc, rollback, up, iiss, tip, due,
                    rollingBack>>
    BY <1>3 DEF vars, dbVars, isVars
  <2>2. NextEnd' = NextEnd /\ ToggledNext' = ToggledNext /\ Pending' = Pending
        /\ Restoring' = Restoring
    BY <2>1 DEF NextEnd, ToggledNext, Pending, Restoring
  <2>3. Types'
    BY <2>1 DEF CalculateInv, Types, BackupRecord, InShard
  <2>4. Heights'
    BY <2>1, <2>2 DEF CalculateInv, Heights
  <2>5. RollbackState'
    BY <2>1, <2>2 DEF CalculateInv, RollbackState
  <2> QED
    BY <2>1, <2>2, <2>3, <2>4, <2>5, AccountsRest DEF CalculateInv
<1> QED
  BY <1>1, <1>2, <1>3, DispatchKeeps, AddBlockKeeps, EndTermKeeps, DecideKeeps, CrashKeeps,
     ReloadKeeps DEF Next

(* CalculateInv holds in every reachable state, for every number of accounts, *)
(* shards, crashes and rollbacks, whether or not a ROLLBACK may cancel a      *)
(* calculation.                                                               *)
THEOREM CalculateInvariance == Spec => []CalculateInv
<1>1. Init => CalculateInv
  BY CalculateInit
<1>2. CalculateInv /\ [Next]_vars => CalculateInv'
  BY CalculateNext
<1> QED
  BY <1>1, <1>2, PTL DEF Spec

(* rollbackAccountDB, which renames every backup_* it finds to the calculate *)
(* DB, never mixes two generations: resetAccountDB deletes the backups of    *)
(* the last calculation before it makes its own.                             *)
THEOREM BackupsAreOneGeneration == Spec => []OneBackupGeneration
<1>1. CalculateInv => OneBackupGeneration
  BY DEF CalculateInv, Generations
<1> QED
  BY <1>1, CalculateInvariance, PTL

(* Claims and queries are never answered from a generation that is not       *)
(* finished or from shards of two generations: toggleAccountDB makes the     *)
(* calculate DB the query DB only when a calculation has finished it or a    *)
(* rollback has put all of it back.                                          *)
THEOREM QueriesSeeOneGeneration == Spec => []QueryDBIsWhole
<1>1. CalculateInv => QueryDBIsWhole
  BY WholeIsQueryDBIsWhole DEF CalculateInv
<1> QED
  BY <1>1, CalculateInvariance, PTL

-----------------------------------------------------------------------------
(* What QUERY_CALCULATE_STATUS and QUERY_CALCULATE_RESULT answer when ICON   *)
(* Service sends no ROLLBACK before CALCULATE_DONE.                          *)

(* CalculatingBH is ahead of CalcDoneBH exactly while a goroutine works on    *)
(* it, or will after the restart, and results are of calculations that are    *)
(* not rolled back.                                                           *)
Answers ==
    /\ rollingBack => calc = IdleCalc /\ info.calculating = info.calcDone
    /\ up /\ calc.phase \in {"idle", "dispatched"} => info.calculating = info.calcDone
    /\ calc.phase = "load" /\ ~calc.reload => info.calculating = info.calcDone
    /\ calc.phase \in {"result", "cleanup"} =>
          calc.height = info.calcDone /\ info.calculating = info.calcDone
    /\ calc.phase \in {"check"} \cup Active => info.calculating = calc.height
    /\ ~up => calc = IdleCalc
    /\ ~calc.quit
    /\ \A h \in results : h % Term = 0 /\ h <= info.calcDone
    /\ rollback = "info" => info.calcDone \notin results
    /\ rollback = "reply" => info.calcDone <= tip
    /\ ~rollingBack => info.calcDone <= tip /\ info.calculating <= tip
    /\ calc.phase # "idle" => calc.height <= tip

(* Nothing is answered when the process starts. *)
LEMMA AnswersInit == Init => Answers
<1> SUFFICES ASSUME Init PROVE Answers
  OBVIOUS
<1>1. /\ calc = IdleCalc /\ up = TRUE /\ results = {} /\ rollback = "idle" /\ tip = 0
      /\ rollingBack = FALSE /\ info.calcDone = 0 /\ info.calculating = 0
  BY DEF Init
<1> QED
  BY <1>1, Idle DEF Answers, Active, Filling

(* A step of a pass. *)
LEMMA PassAnswers ==
    ASSUME CalculateInv, Answers, calc.phase \in {"check"} \cup Active,
           calc'.phase \in Active, calc'.height = calc.height, calc'.quit = calc.quit,
           info'.calcDone = info.calcDone, info'.calculating = info.calculating,
           UNCHANGED <<results, rollback, up, tip, rollingBack>>
    PROVE  Answers'
<1>1. /\ calc.phase \notin {"idle", "dispatched", "load", "result", "cleanup"}
      /\ calc'.phase \notin {"idle", "dispatched", "load", "result", "cleanup"}
      /\ calc'.phase \in {"check"} \cup Active
  BY DEF Active, Filling
<1>2. calc # IdleCalc /\ up /\ ~rollingBack
  BY <1>1, Idle DEF Answers
<1> QED
  BY <1>1, <1>2 DEF Answers

(* Toggle, reset and passes leave heights and results alone. *)
LEMMA PassSteps ==
    ASSUME CalculateInv, Answers,
           \/ ToggleAccountDB \/ DeleteOldBackups \/ EndReset
           \/ \E s \in calc.shards : KeepShard(s) \/ RenameShard(s)
           \/ \E a \in calc.addrs : CalculateDB(a) \/ AddReward(a)
           \/ EndAccounts \/ CalculateIISSTX \/ EndTX \/ EndBlockProduce \/ EndPRep
    PROVE  Answers'
<1>1. Types /\ calc \in CalcRecord
  BY DEF CalculateInv, Types
<1> DEFINE Passes ==
      /\ calc.phase \in {"check"} \cup Active /\ calc'.phase \in Active
      /\ calc'.height = calc.height /\ calc'.quit = calc.quit
      /\ info'.calcDone = info.calcDone /\ info'.calculating = info.calculating
      /\ UNCHANGED <<results, rollback, up, tip, rollingBack>>
<1>2. ASSUME ToggleAccountDB PROVE Passes
  <2>1. info'.calcDone = info.calcDone /\ info'.calculating = info.calculating
    BY <1>1, <1>2 DEF ToggleAccountDB, Toggled, Types
  <2>2. calc.phase = "check" /\ calc'.phase = "purge"
        /\ calc'.height = calc.height /\ calc'.quit = calc.quit
    BY <1>1, <1>2, PhaseGoes DEF ToggleAccountDB, CalcPhase
  <2> QED
    BY <1>2, <2>1, <2>2 DEF ToggleAccountDB, Active, isVars
<1>3. ASSUME DeleteOldBackups PROVE Passes
  BY <1>1, <1>3 DEF DeleteOldBackups, Active, CalcRecord
<1>4. ASSUME EndReset PROVE Passes
  BY <1>1, <1>4 DEF EndReset, Active, Filling, CalcRecord, dbVars, isVars
<1>5. ASSUME NEW s \in calc.shards, KeepShard(s) \/ RenameShard(s) PROVE Passes
  BY <1>1, <1>5 DEF KeepShard, RenameShard, Active, CalcRecord, dbVars, isVars
<1>6. ASSUME NEW a \in calc.addrs, CalculateDB(a) \/ AddReward(a) PROVE Passes
  <2>1. /\ calc.phase \in Filling /\ calc' = [calc EXCEPT !.addrs = @ \ {a}]
        /\ UNCHANGED <<info, results, rollback, up, tip, rollingBack>>
    BY <1>6 DEF CalculateDB, AddReward, Filling, isVars
  <2> QED
    BY <1>1, <2>1, Listed DEF Active
<1>7. ASSUME EndAccounts PROVE Passes
  BY <1>1, <1>7 DEF EndAccounts, Active, Filling, CalcRecord, dbVars, isVars
<1>8. ASSUME CalculateIISSTX PROVE Passes
  BY <1>1, <1>8 DEF CalculateIISSTX, Active, Filling, CalcRecord, dbVars, isVars
<1>9. ASSUME EndTX \/ EndBlockProduce PROVE Passes
  BY <1>1, <1>9 DEF EndTX, EndBlockProduce, Active, Filling, CalcRecord, dbVars, isVars
<1>10. ASSUME EndPRep PROVE Passes
  BY <1>1, <1>10 DEF EndPRep, ToPhase, Active, Filling, CalcRecord, dbVars, isVars
<1>11. Passes
  BY <1>2, <1>3, <1>4, <1>5, <1>6, <1>7, <1>8, <1>9, <1>10
<1> QED
  BY <1>11, PassAnswers

(* A goroutine starts, loads its IISS data and ends. *)
LEMMA DispatchAnswers == CalculateInv /\ Answers /\ (Dispatch \/ GetChannel) => Answers'
<1> SUFFICES ASSUME CalculateInv, Answers, Dispatch \/ GetChannel PROVE Answers'
  OBVIOUS
<1>1. Types /\ tip \in Height /\ tip \in Nat
  BY NumberTypes DEF CalculateInv, Types
<1>2. UNCHANGED <<info, results, rollback, up, tip, rollingBack>>
  BY DEF Dispatch, GetChannel, dbVars, isVars
<1>3. CASE Dispatch
  <2>1. /\ calc = IdleCalc /\ up /\ ~rollingBack
        /\ calc'.phase = "dispatched" /\ calc'.height = tip /\ calc'.quit = FALSE
    BY <1>1, <1>3, Started DEF Dispatch
  <2>2. info.calculating = info.calcDone
    BY <2>1, Idle DEF Answers
  <2> QED
    BY <1>1, <1>2, <2>1, <2>2 DEF Answers, Active, Filling
<1>4. CASE GetChannel
  <2>1. /\ calc.phase = "dispatched" /\ calc'.phase = "load" /\ calc'.height = calc.height
        /\ calc'.quit = calc.quit
    BY <1>1, <1>4, PhaseGoes DEF GetChannel, CalcPhase
  <2>2. calc # IdleCalc /\ up /\ ~rollingBack /\ info.calculating = info.calcDone
    BY <2>1, Idle DEF Answers
  <2> QED
    BY <1>2, <2>1, <2>2 DEF Answers, Active, Filling
<1> QED
  BY <1>3, <1>4

(* A calculation that loads its IISS data is one the chain asked for. *)
LEMMA LoadAnswers ==
    ASSUME CalculateInv, Answers,
           DropRequest \/ CancelCalculation \/ LoadNothing \/ RefuseHeight \/ SetCalculatingBH
    PROVE  Answers'
<1>1. Types /\ calc \in CalcRecord
  BY DEF CalculateInv, Types
<1>2. calc.phase # "idle" /\ UNCHANGED <<results, rollback, up, tip, rollingBack>>
  BY DEF DropRequest, CancelCalculation, LoadNothing, RefuseHeight, SetCalculatingBH, Loadable,
         dbVars, isVars
<1>3. calc # IdleCalc /\ up /\ ~rollingBack
  BY <1>2, Idle DEF Answers
<1>4. ~DropRequest /\ ~CancelCalculation
  <2>1. info.calculating \in Nat /\ info.calcDone \in Nat
    BY <1>1, NumberTypes
  <2> QED
    BY <2>1 DEF DropRequest, CancelCalculation, Answers, IsCalculating
<1>5. CASE LoadNothing \/ RefuseHeight
  <2>1. calc' = IdleCalc /\ info' = [info EXCEPT !.calculating = info.calcDone]
    BY <1>5 DEF LoadNothing, RefuseHeight
  <2>2. info'.calculating = info.calcDone /\ info'.calcDone = info.calcDone
    BY <1>1, <2>1 DEF Types
  <2> QED
    BY <1>2, <1>3, <2>1, <2>2, Idle DEF Answers, Active, Filling
<1>6. CASE SetCalculatingBH
  <2>1. /\ info' = [info EXCEPT !.calculating = calc.height]
        /\ calc' = [calc EXCEPT !.phase = "check", !.iiss = iiss[calc.height]]
    BY <1>6 DEF SetCalculatingBH
  <2>2. /\ info'.calculating = calc.height /\ info'.calcDone = info.calcDone
        /\ calc'.phase = "check" /\ calc'.height = calc.height /\ calc'.quit = calc.quit
    BY <1>1, <2>1 DEF Types, CalcRecord
  <2> QED
    BY <1>2, <1>3, <2>2 DEF Answers, Active, Filling
<1> QED
  BY <1>4, <1>5, <1>6

(* A calculation that ends is of the height it was started for. *)
LEMMA DoneAnswers ==
    ASSUME CalculateInv, Answers,
           SetCalcDoneBH \/ WriteCalculationResult \/ CleanupIISSData
    PROVE  Answers'
<1>1. Types /\ Heights
  BY DEF CalculateInv
<1>2. calc.phase \in {"done", "result", "cleanup"} /\ UNCHANGED <<rollback, up, tip, rollingBack>>
  BY DEF SetCalcDoneBH, WriteCalculationResult, CleanupIISSData, dbVars, isVars
<1>3. calc # IdleCalc /\ up /\ ~rollingBack /\ rollback = "idle"
  BY <1>2, Idle DEF Answers, CalculateInv, RollbackState
<1>4. /\ calc.height \in Nat /\ info.calcDone \in Nat /\ tip \in Nat /\ Term \in Nat
      /\ \A h \in results : h \in Nat
  BY <1>1, NumberTypes DEF Types
<1>5. CASE SetCalcDoneBH
  <2>1. /\ calc.phase = "done" /\ UNCHANGED results
        /\ info' = [info EXCEPT !.prevCalcDone = info.calcDone, !.calcDone = calc.height]
        /\ calc' = ToPhase("result")
    BY <1>5 DEF SetCalcDoneBH
  <2>2. info'.calcDone = calc.height /\ info'.calculating = info.calculating
    BY <1>1, <2>1 DEF Types
  <2>3. calc'.phase = "result" /\ calc'.height = calc.height /\ calc'.quit = calc.quit
    BY <1>1, <2>1, PhaseGoes DEF CalcPhase
  <2>4. calc.phase \in {"check"} \cup Active
    BY <2>1 DEF Active, Filling
  <2>5. calc.height > info.calcDone
    BY <1>1, <1>4, <2>4, <2>1, NumberTypes DEF Heights, NextEnd, Active, Filling
  <2>6. info.calculating = calc.height /\ calc.height <= tip
    BY <2>1, <2>4 DEF Answers
  <2>7. \A h \in results : h % Term = 0 /\ h <= info'.calcDone
    BY <1>4, <2>2, <2>5 DEF Answers
  <2> QED
    BY <1>2, <1>3, <2>1, <2>2, <2>3, <2>6, <2>7 DEF Answers, Active, Filling
<1>6. CASE WriteCalculationResult
  <2>1. /\ calc.phase = "result" /\ results' = results \cup {calc.height} /\ UNCHANGED info
        /\ calc' = ToPhase("cleanup")
    BY <1>6 DEF WriteCalculationResult
  <2>2. calc'.phase = "cleanup" /\ calc'.height = calc.height /\ calc'.quit = calc.quit
    BY <1>1, <2>1, PhaseGoes DEF CalcPhase
  <2>3. \A h \in results' : h % Term = 0 /\ h <= info.calcDone
    BY <1>1, <1>4, <2>1 DEF Answers, Heights
  <2> QED
    BY <1>2, <1>3, <2>1, <2>2, <2>3 DEF Answers, Active, Filling
<1>7. CASE CleanupIISSData
  <2>1. calc.phase = "cleanup" /\ calc' = IdleCalc /\ UNCHANGED <<info, results>>
    BY <1>7 DEF CleanupIISSData, dbVars
  <2> QED
    BY <1>2, <1>3, <2>1, Idle DEF Answers, Active, Filling
<1> QED
  BY <1>5, <1>6, <1>7

(* The handler deletes the result before it takes CalcDoneBH back. *)
LEMMA HandlerAnswers ==
    ASSUME CalculateInv, Answers, RollbackStep
    PROVE  Answers'
<1>1. Types /\ Heights /\ RollbackState
  BY DEF CalculateInv
<1>2. rollingBack /\ calc = IdleCalc /\ info.calculating = info.calcDone
      /\ UNCHANGED <<up, tip>>
  <2>1. rollingBack
    BY <1>1 DEF RollbackStep, NotifyRollback, CheckAccountDBRollback, RestoreShard, ToggleBack,
                DeleteCalculationResult, RollbackAccountDBBlockInfo, AnswerRollback, RollbackState
  <2>2. UNCHANGED <<up, tip>>
    BY DEF RollbackStep, NotifyRollback, CheckAccountDBRollback, RestoreShard, ToggleBack,
           DeleteCalculationResult, RollbackAccountDBBlockInfo, AnswerRollback, isVars
  <2> QED
    BY <2>1, <2>2 DEF Answers
<1>3. calc' = calc
  BY <1>2, Idle DEF RollbackStep, NotifyRollback, CheckAccountDBRollback, RestoreShard, ToggleBack,
           DeleteCalculationResult, RollbackAccountDBBlockInfo, AnswerRollback, dbVars
<1>4. /\ Term \in Nat /\ Term > 0 /\ info.calcDone \in Nat /\ info.prevCalcDone \in Nat
      /\ tip \in Nat /\ \A h \in results : h \in Nat
  BY <1>1, NumberTypes DEF Types
<1>5. CASE NotifyRollback \/ CheckAccountDBRollback
  <2>1. /\ UNCHANGED <<info, results, rollingBack>> /\ rollback' # "info"
        /\ rollback' = "reply" => info.calcDone <= tip
    BY <1>4, <1>5 DEF NotifyRollback, CheckAccountDBRollback, dbVars, isVars
  <2> QED
    BY <1>2, <1>3, <2>1 DEF Answers
<1>6. ASSUME NEW f \in backups, RestoreShard(f) PROVE Answers'
  <2>1. UNCHANGED <<info, results, rollback, rollingBack>>
    BY <1>6 DEF RestoreShard, isVars
  <2> QED
    BY <1>2, <1>3, <2>1 DEF Answers
<1>7. CASE ToggleBack
  <2>1. /\ UNCHANGED <<results, rollingBack>> /\ rollback' = "result"
        /\ info'.calcDone = info.calcDone /\ info'.calculating = info.calculating
    BY <1>1, <1>7 DEF ToggleBack, Toggled, Types, isVars
  <2> QED
    BY <1>2, <1>3, <2>1 DEF Answers
<1>8. CASE DeleteCalculationResult
  <2>1. /\ UNCHANGED <<info, rollingBack>> /\ rollback' = "info"
        /\ results' = results \ {info.calcDone}
    BY <1>8 DEF DeleteCalculationResult, isVars
  <2> QED
    BY <1>2, <1>3, <2>1 DEF Answers
<1>9. CASE RollbackAccountDBBlockInfo
  <2>1. /\ rollback = "info" /\ UNCHANGED <<results, rollingBack>> /\ rollback' = "reply"
        /\ info' = [info EXCEPT !.calcDone = info.prevCalcDone,
                                !.calculating = info.prevCalcDone]
    BY <1>9 DEF RollbackAccountDBBlockInfo, isVars
  <2>2. info'.calcDone = info.prevCalcDone /\ info'.calculating = info.prevCalcDone
    BY <1>1, <2>1 DEF Types
  <2>3. info.prevCalcDone < tip
    BY <1>1, <1>2 DEF RollbackState
  <2>4. ASSUME NEW h \in results PROVE h % Term = 0 /\ h <= info.prevCalcDone
    <3>1. h \in Nat /\ h % Term = 0 /\ h <= info.calcDone /\ h # info.calcDone
      BY <1>4, <2>1 DEF Answers
    <3>2. h < info.calcDone /\ info.calcDone % Term = 0
      BY <1>1, <1>4, <3>1 DEF Heights
    <3>3. h + Term <= info.calcDone
      BY <1>4, <3>1, <3>2, TermsApart
    <3> QED
      BY <1>1, <1>4, <3>1, <3>3 DEF Heights
  <2>5. \A h \in results' : h % Term = 0 /\ h <= info'.calcDone
    BY <2>1, <2>2, <2>4
  <2>6. info'.calcDone <= tip' /\ info'.calculating = info'.calcDone
    BY <1>2, <1>4, <2>2, <2>3
  <2>7. /\ rollingBack' /\ rollback' = "reply" /\ calc' = IdleCalc
        /\ calc'.phase = "idle" /\ calc'.quit = FALSE /\ "idle" \notin {"check"} \cup Active
    BY <1>2, <1>3, <2>1, Idle DEF Active, Filling
  <2> QED
    BY <2>5, <2>6, <2>7 DEF Answers
<1>10. CASE AnswerRollback
  <2>1. /\ rollback = "reply" /\ rollback' = "idle" /\ UNCHANGED <<info, results>>
        /\ rollingBack' = FALSE
    BY <1>10 DEF AnswerRollback, dbVars
  <2> QED
    BY <1>2, <1>3, <2>1 DEF Answers
<1> QED
  BY <1>5, <1>6, <1>7, <1>8, <1>9, <1>10 DEF RollbackStep

(* ICON Service's blocks and rollbacks, crashes and restarts. *)
LEMMA OutsideAnswers ==
    ASSUME RollbackWhileCalculating = FALSE, CalculateInv, Answers,
           \/ AddBlock \/ Crash \/ ReloadIISSData
           \/ \E d \in IISSData : EndTerm(d)
           \/ \E to \in Height : DecideRollback(to)
    PROVE  Answers'
<1>1. Types /\ RollbackState
  BY DEF CalculateInv
<1>2. UNCHANGED <<info, results>>
  BY DEF AddBlock, Crash, ReloadIISSData, EndTerm, DecideRollback, dbVars
<1>3. /\ info.calcDone \in Nat /\ info.calculating \in Nat /\ tip \in Nat
      /\ calc.height \in Nat /\ info.calculating \in Height
  BY <1>1, NumberTypes
<1>4. ASSUME AddBlock \/ \E d \in IISSData : EndTerm(d) PROVE Answers'
  <2>1. ~rollingBack /\ tip' = tip + 1 /\ UNCHANGED <<calc, rollback, up, rollingBack>>
    BY <1>4 DEF AddBlock, EndTerm
  <2>2. info.calcDone <= tip' /\ info.calculating <= tip'
    BY <1>3, <2>1 DEF Answers
  <2>3. calc.phase # "idle" => calc.height <= tip'
    BY <1>3, <2>1 DEF Answers
  <2> QED
    BY <1>2, <2>1, <2>2, <2>3 DEF Answers
<1>5. CASE Crash
  <2>1. /\ up' = FALSE /\ calc' = IdleCalc /\ rollback' = "idle"
        /\ UNCHANGED <<tip, rollingBack>>
    BY <1>5 DEF Crash, isVars
  <2> QED
    BY <1>2, <2>1, Idle DEF Answers, Active, Filling
<1>6. CASE ReloadIISSData
  <2>1. /\ up' = TRUE /\ UNCHANGED <<tip, rollback, rollingBack>>
        /\ calc' = IF NeedReload THEN Calculation(info.calculating, TRUE) ELSE IdleCalc
    BY <1>6 DEF ReloadIISSData, isVars
  <2>2. CASE NeedReload
    <3>1. /\ calc'.phase = "load" /\ calc'.height = info.calculating /\ calc'.reload = TRUE
          /\ calc'.quit = FALSE
      BY <1>3, <2>1, <2>2, Started
    <3>2. ~rollingBack
      BY <2>2 DEF Answers, NeedReload
    <3> QED
      BY <1>2, <2>1, <3>1, <3>2 DEF Answers, Active, Filling
  <2>3. CASE ~NeedReload
    <3>1. calc' = IdleCalc /\ info.calculating = info.calcDone
      BY <2>1, <2>3 DEF NeedReload
    <3> QED
      BY <1>2, <2>1, <3>1, Idle DEF Answers, Active, Filling
  <2> QED
    BY <2>2, <2>3
<1>7. ASSUME NEW to \in Height, DecideRollback(to) PROVE Answers'
  <2>1. /\ calc = IdleCalc /\ ~NeedReload /\ ~rollingBack /\ rollingBack' = TRUE
        /\ tip' = to /\ UNCHANGED <<calc, rollback, up>>
    BY <1>7 DEF DecideRollback
  <2>2. rollback = "idle" /\ info.calculating = info.calcDone
    BY <1>1, <2>1 DEF RollbackState, NeedReload
  <2> QED
    BY <1>2, <2>1, <2>2, Idle DEF Answers, Active, Filling
<1> QED
  BY <1>4, <1>5, <1>6, <1>7

(* Every step keeps the answers those of the chain, when IS waits for
   CALCULATE_DONE before it sends ROLLBACK. *)
LEMMA AnswersNext ==
    ASSUME RollbackWhileCalculating = FALSE, CalculateInv, Answers, [Next]_vars
    PROVE  Answers'
<1>1. ASSUME UNCHANGED vars PROVE Answers'
  BY <1>1 DEF vars, dbVars, isVars, Answers
<1>2. ASSUME CalculateStep PROVE Answers'
  <2>1. CASE GetChannel
    BY <2>1, DispatchAnswers
  <2>2. CASE DropRequest \/ CancelCalculation \/ LoadNothing \/ RefuseHeight \/ SetCalculatingBH
    BY <2>2, LoadAnswers
  <2>3. CASE SetCalcDoneBH \/ WriteCalculationResult \/ CleanupIISSData
    BY <2>3, DoneAnswers
  <2>4. ASSUME ~GetChannel,
               ~(DropRequest \/ CancelCalculation \/ LoadNothing \/ RefuseHeight
                   \/ SetCalculatingBH),
               ~(SetCalcDoneBH \/ WriteCalculationResult \/ CleanupIISSData)
        PROVE  Answers'
    BY <1>2, <2>4, PassSteps DEF CalculateStep
  <2> QED
    BY <2>1, <2>2, <2>3, <2>4
<1> QED
  BY <1>1, <1>2, DispatchAnswers, HandlerAnswers, OutsideAnswers DEF Next

(* ICON Service is not misled by what it asks, as long as it sends no        *)
(* ROLLBACK before CALCULATE_DONE: "Calculating" is only said while a        *)
(* goroutine calculates, and once nothing runs a result is only found for a  *)
(* calculation of the chain (DoQueryCalculateStatus, DoQueryCalculateResult, *)
(* DeleteCalculationResult).                                                 *)
THEOREM AnswersAreOfChain ==
    ASSUME RollbackWhileCalculating = FALSE
    PROVE  Spec => []AnswersOfChain
<1>1. Init => Answers
  BY AnswersInit
<1>2. CalculateInv /\ Answers /\ [Next]_vars => Answers'
  BY AnswersNext
<1>3. CalculateInv /\ Answers => AnswersOfChain
  <2> SUFFICES ASSUME CalculateInv, Answers PROVE AnswersOfChain
    OBVIOUS
  <2>1. info.calculating \in Nat /\ info.calcDone \in Nat /\ tip \in Nat
        /\ \A h \in results : h \in Nat
    BY NumberTypes DEF CalculateInv, Types
  <2>2. DoQueryCalculateStatus.status = "Calculating" => info.calculating > info.calcDone
    BY DEF DoQueryCalculateStatus, IsCalculating
  <2>3. up /\ DoQueryCalculateStatus.status = "Calculating" =>
          calc.phase \notin {"idle", "dispatched"}
    BY <2>1, <2>2 DEF Answers
  <2>4. ASSUME Quiet, NEW h \in Height, DoQueryCalculateResult(h) = "Succeeded"
        PROVE  h <= info.calcDone /\ h <= tip
    <3>1. h \in results
      BY <2>4 DEF DoQueryCalculateResult
    <3>2. h <= info.calcDone
      BY <3>1 DEF Answers
    <3>3. info.calcDone <= tip
      BY <2>4 DEF Answers, Quiet
    <3> QED
      BY <2>1, <3>1, <3>2, <3>3
  <2> QED
    BY <2>3, <2>4 DEF AnswersOfChain
<1> QED
  BY <1>1, <1>2, <1>3, CalculateInvariance, PTL DEF Spec

-----------------------------------------------------------------------------
(* The chain's accounts as a function of its data. *)

IsTruth(f, D, S) ==
    f = [h \in S |-> IF h < Term THEN EmptyDB ELSE NextAccounts(f[h - Term], D[h], h)]
TruthOf(D) == CHOOSE f : IsTruth(f, D, Height)

(* Truth is this function of the data of the chain. *)
LEMMA TruthOfData == Truth = TruthOf(data)
BY DEF Truth, TruthOf, IsTruth

(* What the equation says of one height. *)
LEMMA TruthAt ==
    ASSUME NEW f, NEW D, NEW S, IsTruth(f, D, S), NEW h \in S
    PROVE  f[h] = IF h < Term THEN EmptyDB ELSE NextAccounts(f[h - Term], D[h], h)
<1> DEFINE body(t) == IF t < Term THEN EmptyDB ELSE NextAccounts(f[t - Term], D[t], t)
<1>1. f = [t \in S |-> body(t)]
  BY DEF IsTruth
<1> HIDE DEF body
<1>2. f[h] = body(h)
  BY <1>1
<1> QED
  BY <1>2 DEF body

(* There is such a function. *)
LEMMA TruthExists ==
    ASSUME NEW D
    PROVE  IsTruth(TruthOf(D), D, Height)
<1>0. MaxHeight \in Nat /\ Term \in Nat /\ Term > 0
  BY CalculateAssumption
<1> DEFINE Bad == {n \in 0 .. MaxHeight : ~(\E f : IsTruth(f, D, 0 .. n))}
<1>1. Bad = {}
  <2> SUFFICES ASSUME Bad # {} PROVE FALSE
    OBVIOUS
  <2>1. PICK x \in Bad : \A y \in Bad : x <= y
    <3>1. Bad \in SUBSET (0 .. MaxHeight)
      OBVIOUS
    <3> HIDE DEF Bad
    <3> QED
      BY <1>0, <3>1, Least
  <2>2. x \in Nat /\ x <= MaxHeight
    BY <1>0, <2>1
  <2>3. PICK g : x > 0 => IsTruth(g, D, 0 .. (x - 1))
    <3>1. CASE x > 0
      <4>1. x - 1 \in 0 .. MaxHeight /\ ~(x <= x - 1)
        BY <1>0, <2>2, <3>1
      <4>2. x - 1 \notin Bad
        BY <2>1, <4>1
      <4> QED
        BY <4>1, <4>2
    <3> QED
      BY <3>1
  <2> DEFINE body(t) == IF t < Term THEN EmptyDB ELSE NextAccounts(g[t - Term], D[t], t)
             f == [t \in 0 .. x |-> body(t)]
  <2>4. ASSUME NEW t \in 0 .. x, ~(t < Term) PROVE f[t - Term] = g[t - Term]
    <3>1. x > 0 /\ t - Term \in 0 .. (x - 1) /\ t - Term \in 0 .. x
      BY <1>0, <2>2, <2>4
    <3>2. g[t - Term] = body(t - Term)
      BY <2>3, <3>1, TruthAt
    <3> HIDE DEF body
    <3>3. f[t - Term] = body(t - Term)
      BY <3>1
    <3> QED
      BY <3>2, <3>3
  <2> DEFINE again(t) == IF t < Term THEN EmptyDB ELSE NextAccounts(f[t - Term], D[t], t)
  <2>5. \A t \in 0 .. x : body(t) = again(t)
    <3> HIDE DEF f
    <3> QED
      BY <2>4
  <2>6. f = [t \in 0 .. x |-> again(t)]
    <3>1. \A F : F = [t \in 0 .. x |-> body(t)] => F = [t \in 0 .. x |-> again(t)]
      <4> HIDE DEF body, again
      <4> QED
        BY <2>5
    <3> HIDE DEF again, body
    <3> QED
      BY <3>1
  <2>7. IsTruth(f, D, 0 .. x)
    <3> HIDE DEF f
    <3> QED
      BY <2>6 DEF IsTruth
  <2> QED
    BY <2>1, <2>7
<1>2. \E f : IsTruth(f, D, 0 .. MaxHeight)
  <2>1. MaxHeight \in 0 .. MaxHeight
    BY <1>0
  <2> QED
    BY <1>1, <2>1
<1>3. Height = 0 .. MaxHeight
  BY DEF Height
<1> QED
  BY <1>2, <1>3, Zenon DEF TruthOf

(* Data of later terms does not matter. *)
LEMMA TruthAgrees ==
    ASSUME NEW D, NEW E, NEW n \in Nat,
           \A h \in Height : h > 0 /\ h <= n => D[h] = E[h]
    PROVE  \A h \in Height : h <= n => TruthOf(D)[h] = TruthOf(E)[h]
<1>0. MaxHeight \in Nat /\ Term \in Nat /\ Term > 0
  BY CalculateAssumption
<1> DEFINE f == TruthOf(D)  g == TruthOf(E)
           Bad == {h \in 0 .. MaxHeight : h <= n /\ f[h] # g[h]}
<1>1. IsTruth(f, D, Height) /\ IsTruth(g, E, Height) /\ Height = 0 .. MaxHeight
  BY TruthExists DEF Height
<1> HIDE DEF f, g
<1> SUFFICES ASSUME Bad # {} PROVE FALSE
  BY <1>1 DEF f, g
<1>2. PICK x \in Bad : \A y \in Bad : x <= y
  <2>1. Bad \in SUBSET (0 .. MaxHeight)
    OBVIOUS
  <2> HIDE DEF Bad
  <2> QED
    BY <1>0, <2>1, Least
<1>3. x \in Height /\ x \in Nat /\ x <= n /\ f[x] # g[x]
  BY <1>0, <1>1, <1>2
<1>4. /\ f[x] = IF x < Term THEN EmptyDB ELSE NextAccounts(f[x - Term], D[x], x)
      /\ g[x] = IF x < Term THEN EmptyDB ELSE NextAccounts(g[x - Term], E[x], x)
  BY <1>1, <1>3, TruthAt
<1>5. ~(x < Term)
  BY <1>3, <1>4
<1>6. x - Term \in 0 .. MaxHeight /\ x - Term <= n /\ ~(x <= x - Term)
  BY <1>0, <1>2, <1>3, <1>5
<1>7. f[x - Term] = g[x - Term]
  BY <1>2, <1>6
<1>8. D[x] = E[x]
  BY <1>0, <1>3, <1>5
<1> QED
  BY <1>3, <1>4, <1>5, <1>7, <1>8

(* the chain's generation of height h; none before the first term's end *)
Gen(D, h) == IF h < Term THEN EmptyDB ELSE TruthOf(D)[h]

(* One generation after the other. *)
LEMMA NextGen ==
    ASSUME NEW D, NEW h \in Height, h >= Term
    PROVE  Gen(D, h) = NextAccounts(Gen(D, h - Term), D[h], h)
<1>0. MaxHeight \in Nat /\ Term \in Nat /\ Term > 0 /\ Height = 0 .. MaxHeight
  BY CalculateAssumption DEF Height
<1>1. h - Term \in Height
  BY <1>0
<1>2. IsTruth(TruthOf(D), D, Height)
  BY TruthExists
<1>3. TruthOf(D)[h] = NextAccounts(TruthOf(D)[h - Term], D[h], h)
  <2>1. ~(h < Term)
    BY <1>0
  <2> QED
    BY <1>2, <2>1, TruthAt
<1>4. h - Term < Term => TruthOf(D)[h - Term] = EmptyDB
  BY <1>1, <1>2, TruthAt
<1> QED
  BY <1>0, <1>3, <1>4 DEF Gen

(* Truth is the generation of its height. *)
LEMMA TruthIsGen ==
    ASSUME NEW h \in Height
    PROVE  Truth[h] = Gen(data, h)
<1>1. IsTruth(TruthOf(data), data, Height) /\ Truth = TruthOf(data)
  BY TruthExists, TruthOfData
<1>2. h < Term => TruthOf(data)[h] = EmptyDB
  BY <1>1, TruthAt
<1> QED
  BY <1>1, <1>2 DEF Gen

(* Data of later terms does not matter to a generation. *)
LEMMA GenAgrees ==
    ASSUME NEW D, NEW E, NEW n \in Nat, n <= MaxHeight,
           \A h \in Height : h > 0 /\ h <= n => D[h] = E[h]
    PROVE  \A h \in Int : h <= n => Gen(D, h) = Gen(E, h)
<1>0. MaxHeight \in Nat /\ Term \in Nat /\ Term > 0 /\ Height = 0 .. MaxHeight
  BY CalculateAssumption DEF Height
<1>1. \A h \in Height : h <= n => TruthOf(D)[h] = TruthOf(E)[h]
  BY TruthAgrees
<1> QED
  BY <1>0, <1>1 DEF Gen

-----------------------------------------------------------------------------
(* What a part of a term's IISS data earns. *)

DataRecord == [txs : Seq(DelegateTX), producers : SUBSET Address, preps : SUBSET Address]

(* a's transactions before a block, and what its delegations earn in a term *)
TXsBefore(d, a, block) == {i \in DOMAIN d.txs : d.txs[i].addr = a /\ d.txs[i].block < block}
DelegationsEarn(old, d, a) ==
    SumFunctionOnSet([block \in 1 .. Term |-> DelegationAt(old, d, a, block)], 1 .. Term)

(* the first n transactions, some producers and some P-Reps *)
Part(d, n, producers, preps) ==
    [txs |-> SubSeq(d.txs, 1, n), producers |-> producers, preps |-> preps]
Nothing == [txs |-> <<>>, producers |-> {}, preps |-> {}]

(* A prefix of the transactions. *)
LEMMA PartIs ==
    ASSUME NEW d \in DataRecord, NEW n \in 0 .. Len(d.txs),
           NEW P \in SUBSET Address, NEW R \in SUBSET Address
    PROVE  LET e == Part(d, n, P, R)
           IN  /\ e \in DataRecord /\ DOMAIN e.txs = 1 .. n
               /\ \A i \in 1 .. n : e.txs[i] = d.txs[i]
               /\ e.producers = P /\ e.preps = R
<1>1. d.txs \in Seq(DelegateTX) /\ Len(d.txs) \in Nat /\ n \in Nat
  BY DEF DataRecord
<1> DEFINE s == SubSeq(d.txs, 1, n)
<1>2. s \in Seq(DelegateTX) /\ Len(s) = n /\ \A i \in 1 .. n : s[i] = d.txs[i]
  BY <1>1
<1>3. DOMAIN s = 1 .. n
  BY <1>2
<1> HIDE DEF s
<1>4. Part(d, n, P, R) = [txs |-> s, producers |-> P, preps |-> R]
  BY DEF Part, s
<1> QED
  BY <1>2, <1>3, <1>4 DEF DataRecord

(* All of the data. *)
LEMMA PartAll ==
    ASSUME NEW d \in DataRecord
    PROVE  /\ Part(d, Len(d.txs), d.producers, d.preps) = d
           /\ Part(d, 0, {}, {}) = Nothing
           /\ Nothing \in DataRecord /\ Len(d.txs) \in Nat
<1>1. d.txs \in Seq(DelegateTX) /\ Len(d.txs) \in Nat
  BY DEF DataRecord
<1>2. SubSeq(d.txs, 1, Len(d.txs)) = d.txs
  BY <1>1
<1>3. SubSeq(d.txs, 1, 0) = <<>>
  BY <1>1
<1>4. d = [txs |-> d.txs, producers |-> d.producers, preps |-> d.preps]
  BY DEF DataRecord
<1>5. Part(d, Len(d.txs), d.producers, d.preps)
        = [txs |-> d.txs, producers |-> d.producers, preps |-> d.preps]
  BY <1>2, Zenon DEF Part
<1>6. Part(d, 0, {}, {}) = Nothing
  BY <1>3, Zenon DEF Part, Nothing
<1>7. Nothing \in DataRecord
  <2>0. SubSeq(d.txs, 1, 0) \in Seq(DelegateTX)
    BY <1>1
  <2>1. PICK s \in Seq(DelegateTX) : s = <<>>
    BY <1>3, <2>0, Zenon
  <2>2. PICK none \in SUBSET Address : none = {}
    OBVIOUS
  <2>3. Nothing = [txs |-> s, producers |-> none, preps |-> none]
    BY <2>1, <2>2 DEF Nothing
  <2> QED
    BY <2>3 DEF DataRecord
<1>8. Part(d, Len(d.txs), d.producers, d.preps) = d
  BY <1>4, <1>5, Zenon
<1> QED
  BY <1>1, <1>6, <1>7, <1>8

(* The transactions of an account before a block, and the last of them. *)
LEMMA LastBefore ==
    ASSUME NEW d \in DataRecord, NEW a, NEW block \in Int
    PROVE  /\ TXsBefore(d, a, block) \subseteq Int
           /\ TXsBefore(d, a, block) # {} =>
                /\ Max(TXsBefore(d, a, block)) \in TXsBefore(d, a, block)
                /\ Max(TXsBefore(d, a, block)) \in DOMAIN d.txs
<1> DEFINE B == TXsBefore(d, a, block)
<1>1. B \subseteq 1 .. Len(d.txs) /\ Len(d.txs) \in Nat /\ DOMAIN d.txs = 1 .. Len(d.txs)
  BY DEF TXsBefore, DataRecord
<1>2. IsFiniteSet(1 .. Len(d.txs))
  BY <1>1, FS_Interval
<1>3. IsFiniteSet(B) /\ B \subseteq Int
  BY <1>1, <1>2, FS_Subset
<1>4. B # {} => Max(B) \in B
  <2> HIDE DEF B
  <2> QED
    BY <1>3, MaxOfFinite
<1> QED
  BY <1>1, <1>3, <1>4

(* A delegation is the one the account had, or the one its last transaction set. *)
LEMMA DelegationIs ==
    ASSUME NEW d \in DataRecord, NEW a, NEW block \in Int, NEW old \in Nat
    PROVE  /\ DelegationAt(old, d, a, block) =
                IF TXsBefore(d, a, block) = {} THEN old
                ELSE d.txs[Max(TXsBefore(d, a, block))].delegation
           /\ DelegationAt(old, d, a, block) \in Nat
<1>1. DelegationAt(old, d, a, block) =
        IF TXsBefore(d, a, block) = {} THEN old
        ELSE d.txs[Max(TXsBefore(d, a, block))].delegation
  BY DEF DelegationAt, TXsBefore
<1>2. ASSUME TXsBefore(d, a, block) # {}
      PROVE  d.txs[Max(TXsBefore(d, a, block))].delegation \in Nat
  <2>1. Max(TXsBefore(d, a, block)) \in DOMAIN d.txs
    BY <1>2, LastBefore
  <2>2. \A i \in DOMAIN d.txs : d.txs[i] \in DelegateTX
    BY DEF DataRecord
  <2>3. \A tx \in DelegateTX : tx.delegation \in Nat
    BY DEF DelegateTX
  <2> QED
    BY <2>1, <2>2, <2>3
<1> QED
  BY <1>1, <1>2

(* What delegations earn is a number that is not negative. *)
LEMMA DelegationsEarnNat ==
    ASSUME NEW d \in DataRecord, NEW a, NEW old \in Nat
    PROVE  /\ DelegationsEarn(old, d, a) \in Nat
           /\ IsFiniteSet(1 .. Term)
<1> DEFINE f == [block \in 1 .. Term |-> DelegationAt(old, d, a, block)]
<1>0. Term \in Nat /\ IsFiniteSet(1 .. Term)
  BY CalculateAssumption, FS_Interval
<1>1. \A b \in 1 .. Term : f[b] \in Nat
  BY <1>0, DelegationIs
<1> HIDE DEF f
<1>2. SumFunctionOnSet(f, 1 .. Term) \in Nat
  BY <1>0, <1>1, SumNat
<1> QED
  BY <1>0, <1>2 DEF f, DelegationsEarn

(* The account after a term. *)
LEMMA NextIs ==
    ASSUME NEW Q \in AccountDB, NEW d \in DataRecord, NEW h \in Height, NEW a \in Address
    PROVE  LET known == Q[a] # NoAccount
               old == IF known THEN Q[a].delegation ELSE 0
               sent == \E i \in DOMAIN d.txs : d.txs[i].addr = a
               score == IF known THEN Q[a].iScore ELSE 0
           IN  /\ old \in Nat /\ score \in Int
               /\ DelegationAt(old, d, a, Term + 1) \in Nat
               /\ DelegationsEarn(old, d, a) \in Nat
               /\ NextAccounts(Q, d, h)[a] =
                    IF known \/ sent \/ a \in d.producers \/ a \in d.preps
                    THEN [iScore |-> score + (DelegationsEarn(old, d, a)
                                       + (IF a \in d.producers THEN 1 ELSE 0)
                                       + (IF a \in d.preps THEN 1 ELSE 0)),
                          blockHeight |-> h,
                          delegation |-> DelegationAt(old, d, a, Term + 1)]
                    ELSE NoAccount
<1> DEFINE known == Q[a] # NoAccount
           old == IF known THEN Q[a].delegation ELSE 0
           score == IF known THEN Q[a].iScore ELSE 0
<1>1. Q[a] \in IScoreAccount \cup {NoAccount}
  BY DEF AccountDB
<1>2. old \in Nat /\ score \in Int
  BY <1>1 DEF IScoreAccount
<1>3. DelegationAt(old, d, a, Term + 1) \in Nat /\ DelegationsEarn(old, d, a) \in Nat
  <2>1. Term + 1 \in Int
    BY CalculateAssumption
  <2> HIDE DEF old
  <2> QED
    BY <1>2, <2>1, DelegationIs, DelegationsEarnNat
<1>4. a \in d.producers \cup d.preps <=> a \in d.producers \/ a \in d.preps
  OBVIOUS
<1> QED
  BY <1>2, <1>3, <1>4 DEF NextAccounts, Earned, DelegationsEarn

(* ... is of its height, and does not owe anything if it did not before. *)
LEMMA NextSolvent ==
    ASSUME NEW Q \in AccountDB, NEW d \in DataRecord, NEW h \in Height, NEW a \in Address
    PROVE  LET n == NextAccounts(Q, d, h)[a]
           IN  /\ n \in IScoreAccount \cup {NoAccount}
               /\ At(n, h)
               /\ Q[a] # NoAccount => n # NoAccount
               /\ (Q[a] # NoAccount => Q[a].iScore >= 0) =>
                     (n # NoAccount => n.iScore >= 0)
<1> DEFINE n == NextAccounts(Q, d, h)[a]
           known == Q[a] # NoAccount
           old == IF known THEN Q[a].delegation ELSE 0
           score == IF known THEN Q[a].iScore ELSE 0
           extra == (IF a \in d.producers THEN 1 ELSE 0) + (IF a \in d.preps THEN 1 ELSE 0)
           dn == DelegationAt(old, d, a, Term + 1)
           e == DelegationsEarn(old, d, a)
           sn == score + (e + (IF a \in d.producers THEN 1 ELSE 0)
                            + (IF a \in d.preps THEN 1 ELSE 0))
<1>1. /\ score \in Int /\ dn \in Nat /\ e \in Nat
      /\ n = NoAccount \/ n = [iScore |-> sn, blockHeight |-> h, delegation |-> dn]
      /\ known => n = [iScore |-> sn, blockHeight |-> h, delegation |-> dn]
  BY NextIs
<1>2. sn \in Int /\ (score >= 0 => sn >= 0)
  BY <1>1
<1>3. (Q[a] # NoAccount => Q[a].iScore >= 0) => score >= 0
  OBVIOUS
<1> HIDE DEF n, sn, dn, e, score, old
<1>4. PICK r : r = [iScore |-> sn, blockHeight |-> h, delegation |-> dn]
  OBVIOUS
<1>5. r \in IScoreAccount /\ r.blockHeight = h /\ r.iScore = sn
  BY <1>1, <1>2, <1>4 DEF IScoreAccount
<1>6. r # NoAccount
  BY <1>5, CalculateAssumption
<1> QED
  BY <1>1, <1>2, <1>3, <1>4, <1>5, <1>6 DEF n, At

-----------------------------------------------------------------------------
(* What each pass adds. *)

(* calculateIScore from one end of a term to the next. *)
LEMMA FreshIs ==
    ASSUME NEW Q \in AccountDB, NEW h \in Height, NEW a \in Address,
           At(Q[a], h - Term)
    PROVE  NextAccounts(Q, Nothing, h)[a] =
             IF Q[a] = NoAccount THEN NoAccount ELSE CalculateIScore(Q[a], h)
<1>0. Term \in Nat /\ Term > 0 /\ h \in Int /\ Cardinality(1 .. Term) = Term
      /\ IsFiniteSet(1 .. Term)
  <2>1. Term \in Nat /\ Term > 0 /\ h \in Int /\ 1 \in Int
    BY CalculateAssumption DEF Height
  <2> QED
    BY <2>1, FS_Interval
<1>1. Nothing \in DataRecord /\ Nothing.producers = {} /\ Nothing.preps = {}
      /\ DOMAIN Nothing.txs = {}
  <2>1. Nothing.txs = <<>>
    BY DEF Nothing
  <2>2. PICK s \in Seq(DelegateTX) : s = <<>>
    <3>1. <<>> \in Seq(DelegateTX)
      OBVIOUS
    <3> QED
      BY <3>1, Zenon
  <2>3. PICK none \in SUBSET Address : none = {}
    OBVIOUS
  <2>4. Nothing = [txs |-> s, producers |-> none, preps |-> none]
    BY <2>2, <2>3 DEF Nothing
  <2> QED
    BY <2>1, <2>3, <2>4 DEF DataRecord
<1>2. \A b \in Int : TXsBefore(Nothing, a, b) = {}
  BY <1>1 DEF TXsBefore
<1>3. CASE Q[a] = NoAccount
  <2>1. ~(\E i \in DOMAIN Nothing.txs : Nothing.txs[i].addr = a)
        /\ a \notin Nothing.producers /\ a \notin Nothing.preps
    BY <1>1
  <2>2. a \notin Nothing.producers \cup Nothing.preps
    BY <2>1
  <2> QED
    BY <1>3, <2>1, <2>2, Zenon DEF NextAccounts
<1>4. CASE Q[a] # NoAccount
  <2> DEFINE ia == Q[a]
             f == [b \in 1 .. Term |-> DelegationAt(ia.delegation, Nothing, a, b)]
  <2>1. ia \in IScoreAccount /\ ia.delegation \in Nat /\ ia.iScore \in Int
        /\ ia.blockHeight = h - Term
    BY <1>4 DEF AccountDB, IScoreAccount, At
  <2>2. \A b \in Int : DelegationAt(ia.delegation, Nothing, a, b) = ia.delegation
    <3> HIDE DEF ia
    <3> QED
      BY <1>1, <1>2, <2>1, DelegationIs
  <2>3. DelegationsEarn(ia.delegation, Nothing, a) = Term * ia.delegation
    <3>1. \A b \in 1 .. Term : f[b] = ia.delegation
      BY <1>0, <2>2
    <3> HIDE DEF f, ia
    <3>2. SumFunctionOnSet(f, 1 .. Term) = Term * ia.delegation
      BY <1>0, <2>1, <3>1, SumConstant
    <3> QED
      BY <3>2 DEF f, DelegationsEarn
  <2>4. Term + 1 \in Int
    BY <1>0
  <2>5. NextAccounts(Q, Nothing, h)[a] =
          [iScore |-> ia.iScore + (DelegationsEarn(ia.delegation, Nothing, a) + 0 + 0),
           blockHeight |-> h,
           delegation |-> DelegationAt(ia.delegation, Nothing, a, Term + 1)]
    BY <1>1, <1>4, NextIs
  <2>6. NextAccounts(Q, Nothing, h)[a] =
          [iScore |-> ia.iScore + Term * ia.delegation, blockHeight |-> h,
           delegation |-> ia.delegation]
    <3>1. Term * ia.delegation + 0 + 0 = Term * ia.delegation
      BY <1>0, <2>1
    <3> QED
      BY <2>2, <2>3, <2>4, <2>5, <3>1
  <2>7. ia.delegation * (h - ia.blockHeight) = Term * ia.delegation
    <3>1. h - ia.blockHeight = Term
      BY <1>0, <2>1
    <3> QED
      BY <1>0, <2>1, <3>1
  <2>8. ~(h <= ia.blockHeight)
    BY <1>0, <2>1
  <2> DEFINE score == ia.iScore + Term * ia.delegation
  <2>9. CalculateIScore(ia, h) = [ia EXCEPT !.iScore = score, !.blockHeight = h]
    BY <2>7, <2>8 DEF CalculateIScore
  <2>10. score \in Int /\ h \in Height
    BY <1>0, <2>1
  <2> HIDE DEF score
  <2>11. CalculateIScore(ia, h) = [iScore |-> score, blockHeight |-> h, delegation |-> ia.delegation]
    BY <2>1, <2>9, <2>10 DEF IScoreAccount
  <2> QED
    BY <1>4, <2>6, <2>11 DEF score
<1> QED
  BY <1>3, <1>4

(* A delegation transaction, in numbers. *)
LEMMA DelegatedIs ==
    ASSUME NEW ia \in IScoreAccount \cup {NoAccount}, NEW h \in Height, h >= Term,
           NEW tx \in DelegateTX
    PROVE  LET rest == Term - tx.block
           IN  Delegated(ia, tx, h) =
                 [iScore |-> (IF ia = NoAccount THEN 0 ELSE ia.iScore - ia.delegation * rest)
                               + tx.delegation * rest,
                  blockHeight |-> h, delegation |-> tx.delegation]
<1> DEFINE rest == Term - tx.block
           block == h - Term + tx.block
<1>0. /\ tx.block \in Nat /\ tx.block <= Term /\ Term \in Nat /\ h \in Nat /\ rest \in Nat
      /\ tx.delegation \in Nat /\ block \in Height /\ h - block = rest
      /\ (h <= block <=> rest = 0) /\ block \in Nat
  BY CalculateAssumption DEF DelegateTX, Height
<1>1. ASSUME NEW r \in IScoreAccount, r.blockHeight = block
      PROVE  CalculateIScore(r, h) =
               [iScore |-> r.iScore + r.delegation * rest, blockHeight |-> h,
                delegation |-> r.delegation]
  <2>0. r.iScore \in Int /\ r.delegation \in Nat
    BY DEF IScoreAccount
  <2> DEFINE score == r.iScore + r.delegation * rest
  <2>1. score \in Int
    BY <1>0, <2>0
  <2>2. CASE h <= block
    <3>1. score = r.iScore /\ h = block
      <4>1. r.delegation * rest = 0
        BY <1>0, <2>0, <2>2
      <4>2. h = block
        BY <1>0, <2>2
      <4> QED
        BY <2>0, <4>1, <4>2
    <3> HIDE DEF score, block
    <3>2. CalculateIScore(r, h) = r
      BY <1>1, <2>2 DEF CalculateIScore
    <3>3. r = [iScore |-> score, blockHeight |-> h, delegation |-> r.delegation]
      BY <1>1, <3>1 DEF IScoreAccount
    <3> QED
      BY <3>2, <3>3 DEF score
  <2>3. CASE ~(h <= block)
    <3>1. CalculateIScore(r, h) = [r EXCEPT !.iScore = score, !.blockHeight = h]
      BY <1>0, <1>1, <2>3 DEF CalculateIScore
    <3> HIDE DEF score
    <3>2. CalculateIScore(r, h) =
            [iScore |-> score, blockHeight |-> h, delegation |-> r.delegation]
      BY <2>1, <3>1 DEF IScoreAccount
    <3> QED
      BY <3>2 DEF score
  <2> QED
    BY <2>2, <2>3
<1> DEFINE forgone == CalculateIScore([ia EXCEPT !.iScore = 0, !.blockHeight = block], h)
           back == IF ia = NoAccount THEN 0 ELSE ia.iScore - forgone.iScore
           fresh == [iScore |-> back, blockHeight |-> block, delegation |-> tx.delegation]
<1>2. back = IF ia = NoAccount THEN 0 ELSE ia.iScore - ia.delegation * rest
  <2>1. CASE ia = NoAccount
    BY <2>1
  <2>2. CASE ia # NoAccount
    <3>1. ia \in IScoreAccount
      BY <2>2
    <3>2. PICK z \in Int : z = 0
      OBVIOUS
    <3>3. PICK b \in Height : b = block
      BY <1>0
    <3>4. PICK r : r = [ia EXCEPT !.iScore = z, !.blockHeight = b]
      OBVIOUS
    <3>5. r \in IScoreAccount /\ r.iScore = 0 /\ r.blockHeight = block
          /\ r.delegation = ia.delegation
      BY <3>1, <3>2, <3>3, <3>4 DEF IScoreAccount
    <3>6. forgone = CalculateIScore(r, h)
      BY <3>2, <3>3, <3>4
    <3>7. forgone.iScore = 0 + ia.delegation * rest
      BY <1>1, <3>5, <3>6
    <3>8. 0 + ia.delegation * rest = ia.delegation * rest
      BY <1>0, <3>1 DEF IScoreAccount
    <3> QED
      BY <2>2, <3>7, <3>8
  <2> QED
    BY <2>1, <2>2
<1>3. back \in Int
  BY <1>0, <1>2 DEF IScoreAccount
<1>4. Delegated(ia, tx, h) = CalculateIScore(fresh, h)
  BY DEF Delegated
<1>5. fresh \in IScoreAccount /\ fresh.blockHeight = block /\ fresh.iScore = back
      /\ fresh.delegation = tx.delegation
  <2> HIDE DEF back, block
  <2> QED
    BY <1>0, <1>3 DEF IScoreAccount
<1> HIDE DEF fresh
<1>6. CalculateIScore(fresh, h) =
        [iScore |-> back + tx.delegation * rest, blockHeight |-> h, delegation |-> tx.delegation]
  BY <1>1, <1>5
<1> QED
  BY <1>2, <1>4, <1>6

(* IS numbers the transactions of a term in the order of its blocks *)
InOrder(d) == \A i, j \in DOMAIN d.txs : i < j => d.txs[i].block <= d.txs[j].block

(* IISS data is such a record. *)
LEMMA DataIsRecord ==
    ASSUME NEW d \in IISSData
    PROVE  d \in DataRecord /\ InOrder(d) /\ d # NoData
BY CalculateAssumption DEF DataRecord, InOrder

(* what the delegations of an account earn up to a block of the term *)
EarnUpTo(old, d, a, B) ==
    SumFunctionOnSet([block \in 1 .. Term |-> DelegationAt(old, d, a, block)], 1 .. B)

(* A delegation that does not change after block B earns the same in every block. *)
LEMMA EarnSplit ==
    ASSUME NEW old \in Nat, NEW d \in DataRecord, NEW a, NEW B \in 1 .. Term, NEW k \in Nat,
           \A b \in (B + 1) .. Term : DelegationAt(old, d, a, b) = k
    PROVE  /\ DelegationsEarn(old, d, a) = EarnUpTo(old, d, a, B) + (Term - B) * k
           /\ EarnUpTo(old, d, a, B) \in Int
<1> DEFINE f == [block \in 1 .. Term |-> DelegationAt(old, d, a, block)]
           L == 1 .. B
           R == (B + 1) .. Term
<1>0. Term \in Nat /\ B \in Nat /\ B <= Term
  BY CalculateAssumption
<1>1. IsFiniteSet(L) /\ IsFiniteSet(R) /\ Cardinality(R) = Term - B
  <2>1. 1 \in Int /\ B \in Int /\ B + 1 \in Int /\ Term \in Int
    BY <1>0
  <2>2. IsFiniteSet(L) /\ IsFiniteSet(R)
        /\ Cardinality(R) = IF B + 1 > Term THEN 0 ELSE Term - (B + 1) + 1
    BY <2>1, FS_Interval
  <2> QED
    BY <1>0, <2>2
<1>2. L \cap R = {} /\ L \cup R = 1 .. Term
  BY <1>0
<1>3. \A b \in L \cup R : f[b] \in Int
  <2>1. \A b \in 1 .. Term : f[b] \in Int
    BY <1>0, DelegationIs
  <2> QED
    BY <1>2, <2>1
<1>4. \A b \in R : f[b] = k
  BY <1>0
<1> HIDE DEF f, L, R
<1>5. SumFunctionOnSet(f, L \cup R) = SumFunctionOnSet(f, L) + SumFunctionOnSet(f, R)
  BY <1>1, <1>2, <1>3, SumUnion
<1>6. k \in Int
  OBVIOUS
<1>7. SumFunctionOnSet(f, R) = (Term - B) * k
  BY <1>1, <1>4, <1>6, SumConstant
<1>8. SumFunctionOnSet(f, L) \in Int
  BY <1>1, <1>3, SumInt
<1> QED
  BY <1>2, <1>5, <1>7, <1>8 DEF f, L, DelegationsEarn, EarnUpTo

(* The same delegations earn the same. *)
LEMMA EarnSame ==
    ASSUME NEW old \in Nat, NEW d \in DataRecord, NEW e \in DataRecord, NEW a,
           NEW B \in 0 .. Term,
           \A b \in 1 .. B : DelegationAt(old, e, a, b) = DelegationAt(old, d, a, b)
    PROVE  EarnUpTo(old, e, a, B) = EarnUpTo(old, d, a, B)
<1> DEFINE f == [block \in 1 .. Term |-> DelegationAt(old, d, a, block)]
           g == [block \in 1 .. Term |-> DelegationAt(old, e, a, block)]
           L == 1 .. B
<1>0. Term \in Nat /\ B \in Nat /\ B <= Term /\ 1 \in Int /\ B \in Int
  BY CalculateAssumption
<1>1. IsFiniteSet(L)
  BY <1>0, FS_Interval
<1>2. \A b \in L : f[b] \in Int /\ g[b] = f[b]
  BY <1>0, DelegationIs
<1> HIDE DEF f, g, L
<1>3. SumFunctionOnSet(g, L) = SumFunctionOnSet(f, L)
  BY <1>1, <1>2, SumEqual
<1> QED
  BY <1>3 DEF f, g, L, EarnUpTo

(* Data with the same transactions of an account gives it the same delegations. *)
LEMMA SameDelegations ==
    ASSUME NEW old \in Nat, NEW d \in DataRecord, NEW e \in DataRecord, NEW a,
           NEW b \in Int,
           TXsBefore(d, a, b) = TXsBefore(e, a, b),
           \A i \in TXsBefore(d, a, b) : d.txs[i] = e.txs[i]
    PROVE  DelegationAt(old, e, a, b) = DelegationAt(old, d, a, b)
<1>1. TXsBefore(d, a, b) # {} => Max(TXsBefore(d, a, b)) \in TXsBefore(d, a, b)
  BY LastBefore
<1>2. /\ DelegationAt(old, d, a, b) =
           IF TXsBefore(d, a, b) = {} THEN old
           ELSE d.txs[Max(TXsBefore(d, a, b))].delegation
      /\ DelegationAt(old, e, a, b) =
           IF TXsBefore(e, a, b) = {} THEN old
           ELSE e.txs[Max(TXsBefore(e, a, b))].delegation
  BY DelegationIs
<1> QED
  BY <1>1, <1>2

(* What a term does to an account depends on what the data says of it. *)
Sent(d, a) == \E i \in DOMAIN d.txs : d.txs[i].addr = a
LEMMA SameNext ==
    ASSUME NEW Q \in AccountDB, NEW d \in DataRecord, NEW e \in DataRecord,
           NEW h \in Height, NEW a \in Address,
           Sent(d, a) <=> Sent(e, a),
           \A b \in Int : TXsBefore(d, a, b) = TXsBefore(e, a, b),
           \A b \in Int : \A i \in TXsBefore(d, a, b) : d.txs[i] = e.txs[i],
           a \in d.producers <=> a \in e.producers,
           a \in d.preps <=> a \in e.preps
    PROVE  NextAccounts(Q, e, h)[a] = NextAccounts(Q, d, h)[a]
<1> DEFINE known == Q[a] # NoAccount
           old == IF known THEN Q[a].delegation ELSE 0
           score == IF known THEN Q[a].iScore ELSE 0
<1>0. Term \in Nat /\ Term \in 0 .. Term
  BY CalculateAssumption
<1>1. old \in Nat
  BY NextIs
<1> HIDE DEF old
<1>2. \A b \in Int : DelegationAt(old, e, a, b) = DelegationAt(old, d, a, b)
  BY <1>1, SameDelegations
<1>3. EarnUpTo(old, e, a, Term) = EarnUpTo(old, d, a, Term)
  <2>1. \A b \in 1 .. Term : DelegationAt(old, e, a, b) = DelegationAt(old, d, a, b)
    BY <1>0, <1>2
  <2> QED
    BY <1>0, <1>1, <2>1, EarnSame
<1>4. DelegationsEarn(old, e, a) = DelegationsEarn(old, d, a)
  BY <1>3 DEF DelegationsEarn, EarnUpTo
<1>5. DelegationAt(old, e, a, Term + 1) = DelegationAt(old, d, a, Term + 1)
  BY <1>0, <1>2
<1> DEFINE next(x) ==
      IF known \/ Sent(x, a) \/ a \in x.producers \/ a \in x.preps
      THEN [iScore |-> score + (DelegationsEarn(old, x, a)
                                       + (IF a \in x.producers THEN 1 ELSE 0)
                                       + (IF a \in x.preps THEN 1 ELSE 0)),
            blockHeight |-> h, delegation |-> DelegationAt(old, x, a, Term + 1)]
      ELSE NoAccount
<1>6. \A x \in DataRecord : NextAccounts(Q, x, h)[a] = next(x)
  BY NextIs DEF Sent, old
<1>7. next(e) = next(d)
  BY <1>4, <1>5
<1> HIDE DEF next
<1> QED
  BY <1>6, <1>7

(* An account that the data says something of, and one it says nothing of. *)
LEMMA NextSome ==
    ASSUME NEW Q \in AccountDB, NEW d \in DataRecord, NEW h \in Height, NEW a \in Address,
           Q[a] # NoAccount \/ Sent(d, a) \/ a \in d.producers \/ a \in d.preps,
           NEW old, old = IF Q[a] # NoAccount THEN Q[a].delegation ELSE 0,
           NEW score, score = IF Q[a] # NoAccount THEN Q[a].iScore ELSE 0
    PROVE  NextAccounts(Q, d, h)[a] =
             [iScore |-> score + (DelegationsEarn(old, d, a)
                                       + (IF a \in d.producers THEN 1 ELSE 0)
                                       + (IF a \in d.preps THEN 1 ELSE 0)),
              blockHeight |-> h, delegation |-> DelegationAt(old, d, a, Term + 1)]
<1>1. Q[a] # NoAccount \/ (\E i \in DOMAIN d.txs : d.txs[i].addr = a)
      \/ a \in d.producers \cup d.preps
  BY DEF Sent
<1> QED
  BY <1>1, Zenon DEF NextAccounts, Earned, DelegationsEarn

LEMMA NextNone ==
    ASSUME NEW Q, NEW d, NEW h, NEW a \in Address,
           Q[a] = NoAccount, ~Sent(d, a), a \notin d.producers, a \notin d.preps
    PROVE  NextAccounts(Q, d, h)[a] = NoAccount
<1>1. ~(Q[a] # NoAccount \/ (\E i \in DOMAIN d.txs : d.txs[i].addr = a)
        \/ a \in d.producers \cup d.preps)
  BY DEF Sent
<1> QED
  BY <1>1, Zenon DEF NextAccounts

(* The first transactions, and no rewards yet. *)
LEMMA PrefixIs ==
    ASSUME NEW d \in DataRecord, NEW n \in 0 .. Len(d.txs)
    PROVE  LET e == Part(d, n, {}, {})
           IN  /\ e \in DataRecord /\ DOMAIN e.txs = 1 .. n
               /\ \A i \in 1 .. n : e.txs[i] = d.txs[i]
               /\ e.producers = {} /\ e.preps = {}
<1>1. PICK none \in SUBSET Address : none = {}
  OBVIOUS
<1>2. LET e == Part(d, n, none, none)
      IN  /\ e \in DataRecord /\ DOMAIN e.txs = 1 .. n
          /\ \A i \in 1 .. n : e.txs[i] = d.txs[i]
          /\ e.producers = none /\ e.preps = none
  BY PartIs
<1> QED
  BY <1>1, <1>2

(* A transaction does not change other accounts. *)
LEMMA OthersKeep ==
    ASSUME NEW Q \in AccountDB, NEW d \in DataRecord, NEW n \in 0 .. Len(d.txs),
           n + 1 \in DOMAIN d.txs, NEW h \in Height, NEW a \in Address,
           d.txs[n + 1].addr # a
    PROVE  NextAccounts(Q, Part(d, n + 1, {}, {}), h)[a]
             = NextAccounts(Q, Part(d, n, {}, {}), h)[a]
<1> DEFINE e == Part(d, n, {}, {})
           g == Part(d, n + 1, {}, {})
<1>0. Len(d.txs) \in Nat /\ n \in Nat /\ n + 1 \in 0 .. Len(d.txs)
  BY DEF DataRecord
<1>1. e \in DataRecord /\ DOMAIN e.txs = 1 .. n /\ (\A i \in 1 .. n : e.txs[i] = d.txs[i])
      /\ e.producers = {} /\ e.preps = {}
  BY <1>0, PrefixIs
<1>2. g \in DataRecord /\ DOMAIN g.txs = 1 .. (n + 1)
      /\ (\A i \in 1 .. (n + 1) : g.txs[i] = d.txs[i])
      /\ g.producers = {} /\ g.preps = {}
  BY <1>0, PrefixIs
<1> HIDE DEF e, g
<1>3. \A i \in 1 .. (n + 1) : g.txs[i].addr = a => i \in 1 .. n
  BY <1>0, <1>2
<1>4. \A i \in 1 .. n : g.txs[i] = e.txs[i] /\ i \in 1 .. (n + 1)
  BY <1>0, <1>1, <1>2
<1>5. Sent(e, a) <=> Sent(g, a)
  BY <1>1, <1>2, <1>3, <1>4 DEF Sent
<1>6. \A b \in Int : TXsBefore(e, a, b) = TXsBefore(g, a, b)
  BY <1>1, <1>2, <1>3, <1>4 DEF TXsBefore
<1>7. \A b \in Int : \A i \in TXsBefore(e, a, b) : e.txs[i] = g.txs[i]
  BY <1>1, <1>4 DEF TXsBefore
<1>8. NextAccounts(Q, g, h)[a] = NextAccounts(Q, e, h)[a]
  BY <1>1, <1>2, <1>5, <1>6, <1>7, SameNext
<1> QED
  BY <1>8 DEF e, g

(* A delegation transaction takes the reward from its block on back and earns it *)
(* again: what calculateIISSTX leaves is what the blocks of the term earned.     *)
LEMMA SenderEarns ==
    ASSUME NEW Q \in AccountDB, NEW d \in DataRecord, InOrder(d), NEW n \in 0 .. Len(d.txs),
           n + 1 \in DOMAIN d.txs, NEW h \in Height, h >= Term, NEW a \in Address,
           d.txs[n + 1].addr = a
    PROVE  NextAccounts(Q, Part(d, n + 1, {}, {}), h)[a]
             = Delegated(NextAccounts(Q, Part(d, n, {}, {}), h)[a], d.txs[n + 1], h)
<1> DEFINE e == Part(d, n, {}, {})
           g == Part(d, n + 1, {}, {})
           tx == d.txs[n + 1]
           B == tx.block
           k == tx.delegation
           known == Q[a] # NoAccount
           old == IF known THEN Q[a].delegation ELSE 0
           score == IF known THEN Q[a].iScore ELSE 0
           was == DelegationAt(old, e, a, Term + 1)
           S == EarnUpTo(old, e, a, B)
<1>0. Len(d.txs) \in Nat /\ n \in Nat /\ n + 1 \in 0 .. Len(d.txs) /\ Term \in Nat
      /\ DOMAIN d.txs = 1 .. Len(d.txs)
  BY CalculateAssumption DEF DataRecord
<1>1. e \in DataRecord /\ DOMAIN e.txs = 1 .. n /\ (\A i \in 1 .. n : e.txs[i] = d.txs[i])
      /\ e.producers = {} /\ e.preps = {}
  BY <1>0, PrefixIs
<1>2. g \in DataRecord /\ DOMAIN g.txs = 1 .. (n + 1)
      /\ (\A i \in 1 .. (n + 1) : g.txs[i] = d.txs[i])
      /\ g.producers = {} /\ g.preps = {}
  BY <1>0, PrefixIs
<1>3. \A i \in DOMAIN d.txs : d.txs[i] \in DelegateTX /\ d.txs[i].block \in 1 .. Term
  <2>1. \A t \in DelegateTX : t.block \in 1 .. Term
    BY DEF DelegateTX
  <2>2. \A i \in DOMAIN d.txs : d.txs[i] \in DelegateTX
    BY DEF DataRecord
  <2> QED
    BY <2>1, <2>2
<1>4. tx \in DelegateTX /\ B \in 1 .. Term /\ k \in Nat /\ B \in Nat /\ B <= Term
  BY <1>0, <1>3 DEF DelegateTX
<1>5. old \in Nat /\ score \in Int
  BY NextIs
<1>6. \A i \in 1 .. n : d.txs[i].block <= B /\ d.txs[i].block \in Nat
  BY <1>0, <1>3 DEF InOrder
<1>7. g.txs[n + 1] = tx /\ n + 1 \in 1 .. (n + 1)
      /\ \A i \in 1 .. n : g.txs[i] = e.txs[i] /\ i \in 1 .. (n + 1)
  BY <1>0, <1>1, <1>2
<1> HIDE DEF e, g, B, k, tx
<1>8. ASSUME NEW b \in 1 .. B PROVE DelegationAt(old, g, a, b) = DelegationAt(old, e, a, b)
  <2>1. b \in Int /\ ~(B < b)
    BY <1>4
  <2>2. \A i \in 1 .. (n + 1) : g.txs[i].block < b => i \in 1 .. n
    BY <1>0, <1>7, <2>1 DEF B
  <2>3. TXsBefore(e, a, b) = TXsBefore(g, a, b)
    BY <1>1, <1>2, <1>7, <2>2 DEF TXsBefore
  <2>4. \A i \in TXsBefore(e, a, b) : e.txs[i] = g.txs[i]
    BY <1>1, <1>7 DEF TXsBefore
  <2> HIDE DEF old
  <2> QED
    BY <1>1, <1>2, <1>5, <2>1, <2>3, <2>4, SameDelegations
<1>9. ASSUME NEW b \in (B + 1) .. (Term + 1) PROVE DelegationAt(old, g, a, b) = k
  <2>1. b \in Int /\ B < b
    BY <1>0, <1>4
  <2>2. n + 1 \in TXsBefore(g, a, b)
    BY <1>2, <1>7, <2>1 DEF TXsBefore, tx, B
  <2>3. TXsBefore(g, a, b) \subseteq 1 .. (n + 1) /\ TXsBefore(g, a, b) \subseteq Int
    BY <1>2 DEF TXsBefore
  <2>4. \A i \in TXsBefore(g, a, b) : n + 1 >= i
    BY <1>0, <2>3
  <2>5. Max(TXsBefore(g, a, b)) = n + 1
    BY <2>2, <2>3, <2>4, MaxIs
  <2>6. DelegationAt(old, g, a, b) = g.txs[n + 1].delegation
    <3> HIDE DEF old
    <3>1. TXsBefore(g, a, b) # {}
      BY <2>2
    <3>2. DelegationAt(old, g, a, b) = g.txs[Max(TXsBefore(g, a, b))].delegation
      BY <1>2, <1>5, <2>1, <3>1, DelegationIs
    <3> QED
      BY <2>5, <3>2
  <2> QED
    BY <1>7, <2>6 DEF k
<1>10. ASSUME NEW b \in (B + 1) .. (Term + 1) PROVE DelegationAt(old, e, a, b) = was
  <2>1. b \in Int /\ B < b /\ Term + 1 \in Int
    BY <1>0, <1>4
  <2>2. \A i \in 1 .. n : e.txs[i].block < b /\ e.txs[i].block < Term + 1
    <3>1. \A i \in 1 .. n : e.txs[i].block <= B /\ e.txs[i].block \in Nat
      BY <1>1, <1>6
    <3> QED
      BY <1>0, <1>4, <2>1, <3>1
  <2>3. TXsBefore(e, a, Term + 1) = TXsBefore(e, a, b)
    BY <1>1, <2>2 DEF TXsBefore
  <2> HIDE DEF old
  <2> QED
    BY <1>1, <1>5, <2>1, <2>3, DelegationIs
<1>11. was \in Nat
  <2>1. Term + 1 \in Int
    BY <1>0
  <2> HIDE DEF old
  <2> QED
    BY <1>1, <1>5, <2>1, DelegationIs
<1> HIDE DEF was
<1>12. DelegationsEarn(old, e, a) = S + (Term - B) * was /\ S \in Int
  <2>1. \A b \in (B + 1) .. Term : DelegationAt(old, e, a, b) = was
    BY <1>0, <1>4, <1>10
  <2> HIDE DEF old
  <2> QED
    BY <1>1, <1>4, <1>5, <1>11, <2>1, EarnSplit
<1>13. DelegationsEarn(old, g, a) = S + (Term - B) * k
  <2>1. \A b \in (B + 1) .. Term : DelegationAt(old, g, a, b) = k
    BY <1>0, <1>4, <1>9
  <2>2. B \in 0 .. Term
    BY <1>0, <1>4
  <2> HIDE DEF old
  <2>3. EarnUpTo(old, g, a, B) = EarnUpTo(old, e, a, B)
    BY <1>1, <1>2, <1>5, <1>8, <2>2, EarnSame
  <2> QED
    BY <1>2, <1>4, <1>5, <2>1, <2>3, EarnSplit
<1>14. DelegationAt(old, g, a, Term + 1) = k
  <2>1. Term + 1 \in (B + 1) .. (Term + 1)
    BY <1>0, <1>4
  <2> QED
    BY <1>9, <2>1
<1> DEFINE ia == NextAccounts(Q, e, h)[a]
<1>15. NextAccounts(Q, g, h)[a] =
         [iScore |-> score + (S + (Term - B) * k + 0 + 0), blockHeight |-> h, delegation |-> k]
  <2>1. Sent(g, a)
    BY <1>2, <1>7 DEF Sent, tx
  <2>2. a \notin g.producers /\ a \notin g.preps
    BY <1>2
  <2>3. NextAccounts(Q, g, h)[a] =
          [iScore |-> score + (DelegationsEarn(old, g, a) + 0 + 0), blockHeight |-> h,
           delegation |-> DelegationAt(old, g, a, Term + 1)]
    <3>1. \A o, sc : o = old /\ sc = score =>
            NextAccounts(Q, g, h)[a] =
              [iScore |-> sc + (DelegationsEarn(o, g, a)
                                       + (IF a \in g.producers THEN 1 ELSE 0)
                                       + (IF a \in g.preps THEN 1 ELSE 0)),
               blockHeight |-> h, delegation |-> DelegationAt(o, g, a, Term + 1)]
      BY <1>2, <2>1, NextSome
    <3> HIDE DEF old, score
    <3> QED
      BY <2>2, <3>1
  <2> QED
    BY <1>13, <1>14, <2>3
<1>16. (IF ia = NoAccount THEN 0 ELSE ia.iScore - ia.delegation * (Term - B)) = score + S
  <2>1. a \notin e.producers /\ a \notin e.preps
    BY <1>1
  <2>2. CASE known \/ Sent(e, a)
    <3>1. ia = [iScore |-> score + (DelegationsEarn(old, e, a) + 0 + 0), blockHeight |-> h,
                delegation |-> was]
      <4>1. \A o, sc : o = old /\ sc = score =>
              NextAccounts(Q, e, h)[a] =
                [iScore |-> sc + (DelegationsEarn(o, e, a)
                                       + (IF a \in e.producers THEN 1 ELSE 0)
                                       + (IF a \in e.preps THEN 1 ELSE 0)),
                 blockHeight |-> h, delegation |-> DelegationAt(o, e, a, Term + 1)]
        BY <1>1, <2>2, NextSome
      <4> HIDE DEF old, score
      <4> QED
        BY <2>1, <4>1 DEF was
    <3>2. ia \in IScoreAccount \cup {NoAccount}
      BY <1>1, NextSolvent
    <3>3. ia # NoAccount
      <4> DEFINE sc == score + (DelegationsEarn(old, e, a) + 0 + 0)
      <4>1. sc \in Int /\ h \in Height
        BY <1>0, <1>4, <1>5, <1>11, <1>12
      <4> HIDE DEF sc
      <4>2. [iScore |-> sc, blockHeight |-> h, delegation |-> was] \in IScoreAccount
        BY <1>11, <4>1 DEF IScoreAccount
      <4> QED
        BY <3>1, <4>2, CalculateAssumption DEF sc
    <3>4. ia.iScore = score + (S + (Term - B) * was + 0 + 0) /\ ia.delegation = was
      BY <1>12, <3>1
    <3>5. (score + (S + (Term - B) * was + 0 + 0)) - was * (Term - B) = score + S
      BY <1>0, <1>4, <1>5, <1>11, <1>12
    <3> QED
      BY <3>3, <3>4, <3>5
  <2>3. CASE ~(known \/ Sent(e, a))
    <3>1. ia = NoAccount
      BY <2>1, <2>3, NextNone
    <3>2. \A b \in Int : TXsBefore(e, a, b) = {}
      BY <2>3 DEF Sent, TXsBefore
    <3>3. old = 0 /\ score = 0
      BY <2>3
    <3>4. \A b \in Int : DelegationAt(old, e, a, b) = 0
      <4> HIDE DEF old
      <4> QED
        BY <1>1, <1>5, <3>2, <3>3, DelegationIs
    <3>5. S = 0
      <4> DEFINE f == [block \in 1 .. Term |-> DelegationAt(old, e, a, block)]
                 L == 1 .. B
      <4>1. \A b \in L : f[b] = 0
        BY <1>0, <1>4, <3>4
      <4>2. IsFiniteSet(L)
        <5>1. 1 \in Int /\ B \in Int
          BY <1>4
        <5> QED
          BY <5>1, FS_Interval
      <4> HIDE DEF f, L
      <4>3. SumFunctionOnSet(f, L) = 0
        BY <4>1, <4>2, SumZero
      <4> QED
        BY <4>3 DEF f, L, EarnUpTo
    <3> QED
      BY <3>1, <3>3, <3>5
  <2> QED
    BY <2>2, <2>3
<1>17. ia \in IScoreAccount \cup {NoAccount}
  BY <1>1, NextSolvent
<1> HIDE DEF ia
<1>18. Delegated(ia, tx, h) =
         [iScore |-> (IF ia = NoAccount THEN 0 ELSE ia.iScore - ia.delegation * (Term - B))
                       + k * (Term - B),
          blockHeight |-> h, delegation |-> k]
  BY <1>4, <1>17, DelegatedIs DEF B, k
<1>19. score + (S + (Term - B) * k + 0 + 0) = score + S + k * (Term - B)
  BY <1>0, <1>4, <1>5, <1>12
<1> QED
  BY <1>15, <1>16, <1>18, <1>19 DEF e, g, ia, tx

(* Without transactions a delegation stays what it was. *)
LEMMA Unsent ==
    ASSUME NEW d \in DataRecord, NEW a, ~Sent(d, a)
    PROVE  /\ \A b \in Int : DelegationAt(0, d, a, b) = 0
           /\ DelegationsEarn(0, d, a) = 0
<1>1. \A b \in Int : TXsBefore(d, a, b) = {}
  BY DEF Sent, TXsBefore
<1>2. \A b \in Int : DelegationAt(0, d, a, b) = 0
  BY <1>1, DelegationIs
<1>3. DelegationsEarn(0, d, a) = 0
  <2> DEFINE f == [block \in 1 .. Term |-> DelegationAt(0, d, a, block)]
             S == 1 .. Term
  <2>1. IsFiniteSet(S)
    BY DelegationsEarnNat
  <2>2. \A b \in S : f[b] = 0
    BY <1>2, CalculateAssumption
  <2> HIDE DEF f, S
  <2>3. SumFunctionOnSet(f, S) = 0
    BY <2>1, <2>2, SumZero
  <2> QED
    BY <2>3 DEF f, S, DelegationsEarn
<1> QED
  BY <1>2, <1>3

(* A block produce or P-Rep reward is one more I-Score. *)
LEMMA RewardEarns ==
    ASSUME NEW Q \in AccountDB, NEW d \in DataRecord, NEW e \in DataRecord,
           NEW h \in Height, NEW a \in Address, e.txs = d.txs,
           \/ a \notin d.producers /\ a \in e.producers /\ (a \in d.preps <=> a \in e.preps)
           \/ a \notin d.preps /\ a \in e.preps /\ (a \in d.producers <=> a \in e.producers)
    PROVE  NextAccounts(Q, e, h)[a] = Rewarded(NextAccounts(Q, d, h)[a], h)
<1> DEFINE known == Q[a] # NoAccount
           more(x) == (IF a \in x.producers THEN 1 ELSE 0) + (IF a \in x.preps THEN 1 ELSE 0)
<1>1. PICK old \in Nat : old = IF known THEN Q[a].delegation ELSE 0
  <2>1. (IF known THEN Q[a].delegation ELSE 0) \in Nat
    BY NextIs
  <2> QED
    BY <2>1, Zenon
<1>2. PICK score \in Int : score = IF known THEN Q[a].iScore ELSE 0
  <2>1. (IF known THEN Q[a].iScore ELSE 0) \in Int
    BY NextIs
  <2> QED
    BY <2>1, Zenon
<1>3. /\ DelegationsEarn(old, e, a) = DelegationsEarn(old, d, a)
      /\ DelegationAt(old, e, a, Term + 1) = DelegationAt(old, d, a, Term + 1)
      /\ Sent(e, a) <=> Sent(d, a)
  BY DEF DelegationsEarn, DelegationAt, Sent
<1>4. PICK s \in Nat : s = DelegationsEarn(old, d, a)
  BY DelegationsEarnNat, Zenon
<1>5. PICK dn \in Nat : dn = DelegationAt(old, d, a, Term + 1)
  <2>1. Term + 1 \in Int
    BY CalculateAssumption
  <2> QED
    BY <2>1, DelegationIs, Zenon
<1>6. NextAccounts(Q, e, h)[a] =
        [iScore |-> score + (s + (IF a \in e.producers THEN 1 ELSE 0)
                               + (IF a \in e.preps THEN 1 ELSE 0)),
         blockHeight |-> h, delegation |-> dn]
  BY <1>1, <1>2, <1>3, <1>4, <1>5, NextSome
<1>7. CASE known \/ Sent(d, a) \/ a \in d.producers \/ a \in d.preps
  <2> DEFINE was == score + (s + (IF a \in d.producers THEN 1 ELSE 0)
                               + (IF a \in d.preps THEN 1 ELSE 0))
             r == [iScore |-> was, blockHeight |-> h, delegation |-> dn]
  <2>1. NextAccounts(Q, d, h)[a] = r
    BY <1>1, <1>2, <1>4, <1>5, <1>7, NextSome
  <2>2. score + (s + (IF a \in e.producers THEN 1 ELSE 0)
                   + (IF a \in e.preps THEN 1 ELSE 0)) = was + 1
    OBVIOUS
  <2>3. was \in Int
    OBVIOUS
  <2> HIDE DEF was
  <2>4. r \in IScoreAccount /\ r.iScore = was
    BY <2>3 DEF IScoreAccount
  <2>5. r # NoAccount
    BY <2>4, CalculateAssumption
  <2>6. PICK up1 \in Int : up1 = was + 1
    BY <2>3
  <2>7. Rewarded(r, h) = [r EXCEPT !.iScore = up1]
    BY <2>4, <2>5, <2>6 DEF Rewarded
  <2>8. [r EXCEPT !.iScore = up1] = [iScore |-> up1, blockHeight |-> h, delegation |-> dn]
    OBVIOUS
  <2> QED
    BY <1>6, <2>1, <2>2, <2>6, <2>7, <2>8
<1>8. CASE ~(known \/ Sent(d, a) \/ a \in d.producers \/ a \in d.preps)
  <2>1. NextAccounts(Q, d, h)[a] = NoAccount
    BY <1>8, NextNone
  <2>2. old = 0 /\ score = 0
    BY <1>1, <1>2, <1>8
  <2>3. s = 0 /\ dn = 0
    <3>1. Term + 1 \in Int
      BY CalculateAssumption
    <3> QED
      BY <1>4, <1>5, <1>8, <2>2, <3>1, Unsent
  <2>4. score + (s + (IF a \in e.producers THEN 1 ELSE 0)
                   + (IF a \in e.preps THEN 1 ELSE 0)) = 1
    BY <1>8, <2>2, <2>3
  <2> QED
    BY <1>6, <2>1, <2>3, <2>4 DEF Rewarded
<1> QED
  BY <1>7, <1>8

(* ... and nothing to other accounts. *)
LEMMA RewardOthers ==
    ASSUME NEW Q \in AccountDB, NEW d \in DataRecord, NEW e \in DataRecord,
           NEW h \in Height, NEW a \in Address, e.txs = d.txs,
           a \in d.producers <=> a \in e.producers,
           a \in d.preps <=> a \in e.preps
    PROVE  NextAccounts(Q, e, h)[a] = NextAccounts(Q, d, h)[a]
<1>1. (Sent(d, a) <=> Sent(e, a)) /\ \A b \in Int : TXsBefore(d, a, b) = TXsBefore(e, a, b)
  BY DEF Sent, TXsBefore
<1> QED
  BY <1>1, SameNext

-----------------------------------------------------------------------------
(* The account DBs, when ICON Service sends no ROLLBACK before CALCULATE_DONE. *)
(* A generation is the accounts as a calculation left them.                    *)

(* no account has less than nothing *)
Solvent(db) == \A a \in Address : db[a] # NoAccount => db[a].iScore >= 0

(* Two generations follow each other at h: every account the older one has got *)
(* the rewards of the term, and they are the chain's when no crash tore one.   *)
Follows(old, new, h, D, t) ==
    /\ \A a \in Address : At(old[a], h - Term) /\ At(new[a], h)
    /\ h > 0 => \A a \in Address : old[a] # NoAccount => new[a] = NextAccounts(old, D[h], h)[a]
    /\ ~t => old = Gen(D, h - Term) /\ new = Gen(D, h) /\ Solvent(old) /\ Solvent(new)

(* the accounts c with the backups of height h in B put back are db *)
BackedUpAt(B, s, h) == \E f \in B : f.height = h /\ f.shard = s
Restores(db, h, B, c) ==
    \A a \in Address :
        /\ \A f \in B : f.height = h /\ f.shard = ShardOf[a] => f.accounts[a] = db[a]
        /\ ~BackedUpAt(B, ShardOf[a], h) => c[a] = db[a]

(* IISS data stays until its calculation is done, and cannot change meanwhile. *)
Input ==
    /\ data \in [Height -> IISSData \cup {NoData}] /\ torn \in BOOLEAN
    /\ \A h \in Height : info.prevCalcDone < h /\ h <= tip /\ h % Term = 0 =>
          iiss[h] = data[h] /\ data[h] # NoData
    /\ calc.phase \in {"check"} \cup Active => calc.iiss = data[calc.height]

(* When a calculation is due and when it is toggled for. *)
Schedule ==
    /\ info.prevCalcDone < tip \/ (tip = 0 /\ ~due)
    /\ info.calculating \in {info.calcDone, NextEnd}
    /\ ToggledNext => info.calculating = NextEnd
    /\ ~rollingBack => tip < NextEnd + Term
    /\ ~rollingBack /\ ~due /\ ~ToggledNext => tip < NextEnd
    /\ rollingBack /\ ~Pending => tip <= NextEnd
    /\ rollingBack => (due <=> tip % Term = 0)
    /\ rollback = "reply" => ~Pending

(* What the goroutine calculates for. *)
Turn ==
    /\ calc.reload => calc.height = NextEnd \/ calc.phase \in {"result", "cleanup"}
    /\ calc.phase = "load" /\ calc.reload => info.calculating = NextEnd
    /\ calc.phase = "dispatched" => ~calc.reload
    /\ calc.phase \in {"dispatched", "load"} => info.prevCalcDone < calc.height
    /\ calc.phase \in {"result", "cleanup"} => ~ToggledNext /\ info.prevCalcDone < info.calcDone

(* Which generations the account DBs hold, from a calculation to the next and *)
(* to the end of a rollback.                                                  *)
GenerationsFollow ==
    /\ ToggledNext => \E old \in AccountDB :
          /\ Restores(old, NextEnd, backups, account[CalcDB])
          /\ Follows(old, account[QueryDB], info.calcDone, data, torn)
    /\ ~ToggledNext /\ ~Pending =>
          Follows(account[QueryDB], account[CalcDB], info.calcDone, data, torn)
    /\ ~ToggledNext /\ info.prevCalcDone < info.calcDone /\ ~(Pending /\ info.toggleBH = tip) =>
          \E old \in AccountDB :
             /\ Restores(old, info.calcDone, backups, account[CalcDB])
             /\ Follows(old, account[QueryDB], info.prevCalcDone, data, torn)
    /\ Pending /\ info.toggleBH = tip =>
          Follows(account[QueryDB], account[CalcDB], info.prevCalcDone, data, torn)

(* the part of its IISS data that the calculation c has added *)
Added(c) ==
    LET d == c.iiss
    IN  CASE c.phase = "tx" -> Part(d, c.next - 1, {}, {})
          [] c.phase = "bp" -> Part(d, Len(d.txs), d.producers \ c.addrs, {})
          [] c.phase = "prep" -> Part(d, Len(d.txs), d.producers, d.preps \ c.addrs)
          [] OTHER -> d

(* The pass knows which of its accounts and transactions are left. *)
PassOK ==
    /\ calc.phase = "tx" => calc.next <= Len(calc.iiss.txs) + 1
    /\ calc.phase = "bp" => calc.addrs \subseteq calc.iiss.producers
    /\ calc.phase = "prep" => calc.addrs \subseteq calc.iiss.preps

(* What the calculate DB c has of the generation of height h that follows q. *)
Fresh(q, h, a) == NextAccounts(q, Nothing, h)[a]
Starting(c, q, h, addrs) ==
    \A a \in Address \ addrs : q[a] # NoAccount => c[a] = Fresh(q, h, a)
Adding(c, q, h, d, t) ==
    \A a \in Address : q[a] # NoAccount \/ ~t => c[a] = NextAccounts(q, d, h)[a]
Untouched(c, q, h, B) ==
    \A a \in Address : BackedUpAt(B, ShardOf[a], h) => c[a] \in {NoAccount, Fresh(q, h, a)}
Progress ==
    /\ calc.phase = "accounts" => Starting(account[CalcDB], account[QueryDB], NextEnd, calc.addrs)
    /\ calc.phase \in AddingPhases =>
          Adding(account[CalcDB], account[QueryDB], NextEnd, Added(calc), torn)
    /\ ToggledNext /\ ~torn /\ calc.phase \notin AddingPhases =>
          Untouched(account[CalcDB], account[QueryDB], NextEnd, backups)
    /\ ~torn => Solvent(account[0]) /\ Solvent(account[1])

AmountInv == Input /\ Schedule /\ Turn /\ GenerationsFollow /\ PassOK /\ Progress

-----------------------------------------------------------------------------
(* What a step changes. *)

(* The fields of DBInfo that its writes change. *)
LEMMA CalculatingSet ==
    ASSUME Types, NEW v \in Height, info' = [info EXCEPT !.calculating = v]
    PROVE  /\ info'.calculating = v /\ info'.calcDone = info.calcDone
           /\ info'.prevCalcDone = info.prevCalcDone
           /\ info'.toggleBH = info.toggleBH /\ info'.queryDB = info.queryDB
BY DEF Types

LEMMA ToggleSet ==
    ASSUME Types, NEW bh \in Nat, info' = Toggled(bh)
    PROVE  /\ info'.calculating = info.calculating /\ info'.calcDone = info.calcDone
           /\ info'.prevCalcDone = info.prevCalcDone /\ info'.toggleBH = bh
           /\ info'.queryDB = IF info.toggleBH = bh THEN info.queryDB ELSE 1 - info.queryDB
<1>1. CASE info.toggleBH = bh
  BY <1>1 DEF Types, Toggled
<1>2. CASE info.toggleBH # bh
  <2>1. PICK q \in {0, 1} : q = 1 - info.queryDB
    BY DEF Types
  <2>2. info' = [info EXCEPT !.queryDB = q, !.toggleBH = bh]
    BY <1>2, <2>1 DEF Toggled
  <2> QED
    BY <1>2, <2>1, <2>2 DEF Types
<1> QED
  BY <1>1, <1>2

LEMMA CalcDoneSet ==
    ASSUME Types, NEW v \in Height,
           info' = [info EXCEPT !.prevCalcDone = info.calcDone, !.calcDone = v]
    PROVE  /\ info'.calcDone = v /\ info'.prevCalcDone = info.calcDone
           /\ info'.calculating = info.calculating
           /\ info'.toggleBH = info.toggleBH /\ info'.queryDB = info.queryDB
BY DEF Types

LEMMA CalcDoneBack ==
    ASSUME Types, RollbackAccountDBBlockInfo
    PROVE  /\ info'.calcDone = info.prevCalcDone /\ info'.prevCalcDone = info.prevCalcDone
           /\ info'.calculating = info.prevCalcDone
           /\ info'.toggleBH = info.toggleBH /\ info'.queryDB = info.queryDB
BY DEF Types, RollbackAccountDBBlockInfo

(* A step from one pass to the next or within one. *)
Pass ==
    \/ EndReset \/ EndAccounts \/ CalculateIISSTX \/ EndTX \/ EndBlockProduce \/ EndPRep
    \/ \E s \in calc.shards : KeepShard(s) \/ RenameShard(s)
    \/ \E a \in calc.addrs : CalculateDB(a) \/ AddReward(a)

LEMMA PassMoves ==
    ASSUME Types, Pass
    PROVE  /\ calc.phase \in Active /\ calc'.phase \in Active
           /\ calc'.height = calc.height /\ calc'.reload = calc.reload
           /\ calc'.iiss = calc.iiss
           /\ UNCHANGED <<info, results, rollback, up, crashes, torn,
                          iiss, tip, due, rollingBack, data>>
<1>1. calc \in CalcRecord
  BY DEF Types
<1> DEFINE Moves ==
      /\ calc.phase \in Active /\ calc'.phase \in Active
      /\ calc'.height = calc.height /\ calc'.reload = calc.reload
      /\ calc'.iiss = calc.iiss
<1>2. ASSUME EndReset \/ EndAccounts \/ EndTX \/ EndBlockProduce PROVE Moves
  BY <1>1, <1>2 DEF EndReset, EndAccounts, EndTX, EndBlockProduce, Active, Filling, CalcRecord
<1>3. ASSUME EndPRep PROVE Moves
  BY <1>1, <1>3 DEF EndPRep, ToPhase, Active, Filling, CalcRecord
<1>4. ASSUME CalculateIISSTX PROVE Moves
  BY <1>1, <1>4 DEF CalculateIISSTX, Active, Filling, CalcRecord
<1>5. ASSUME NEW s \in calc.shards, KeepShard(s) \/ RenameShard(s) PROVE Moves
  BY <1>1, <1>5 DEF KeepShard, RenameShard, Active, CalcRecord
<1>6. ASSUME NEW a \in calc.addrs, CalculateDB(a) \/ AddReward(a) PROVE Moves
  <2>1. calc.phase \in Filling /\ calc' = [calc EXCEPT !.addrs = @ \ {a}]
    BY <1>6 DEF CalculateDB, AddReward, Filling
  <2> QED
    BY <2>1, Listed DEF Active
<1>7. Moves
  BY <1>2, <1>3, <1>4, <1>5, <1>6 DEF Pass
<1>8. UNCHANGED <<info, results, rollback, up, crashes, torn,
                  iiss, tip, due, rollingBack, data>>
  BY DEF Pass, EndReset, EndAccounts, CalculateIISSTX, EndTX, EndBlockProduce, EndPRep,
         KeepShard, RenameShard, CalculateDB, AddReward, dbVars, faults, isVars
<1> QED
  BY <1>7, <1>8

(* While a goroutine runs there is no ROLLBACK. *)
LEMMA Running ==
    ASSUME CalculateInv, Answers, calc.phase # "idle"
    PROVE  up /\ ~rollingBack /\ ~Pending /\ rollback = "idle" /\ calc.height <= tip
<1>1. calc # IdleCalc
  BY Idle
<1>2. up /\ ~rollingBack /\ calc.height <= tip
  BY <1>1 DEF Answers
<1> QED
  BY <1>2 DEF Pending, CalculateInv, RollbackState

(* Two ends of terms are a term apart, or more. *)
LEMMA EndsApart ==
    ASSUME Types, NEW x \in Nat, NEW y \in Nat, x % Term = 0, y % Term = 0, x < y
    PROVE  x + Term <= y
BY NumberTypes, TermsApart

(* The ends of terms at and after the last calculation. *)
LEMMA Ends ==
    ASSUME CalculateInv
    PROVE  /\ info.calcDone \in Nat /\ info.prevCalcDone \in Nat /\ tip \in Nat
           /\ info.calculating \in Nat /\ info.toggleBH \in Nat
           /\ NextEnd \in Nat /\ NextEnd = info.calcDone + Term
           /\ Term \in Nat /\ Term > 0
           /\ NextEnd % Term = 0 /\ (NextEnd + Term) % Term = 0
           /\ info.calcDone % Term = 0 /\ info.prevCalcDone % Term = 0
           /\ info.prevCalcDone <= info.calcDone
           /\ calc.height \in Nat /\ calc.height \in Height /\ calc.height % Term = 0
           /\ info.prevCalcDone < info.calcDone => info.calcDone = info.prevCalcDone + Term
<1>1. Types /\ Heights
  BY DEF CalculateInv
<1>2. /\ info.calcDone \in Nat /\ info.prevCalcDone \in Nat /\ tip \in Nat
      /\ info.calculating \in Nat /\ info.toggleBH \in Nat
      /\ Term \in Nat /\ Term > 0 /\ calc.height \in Nat /\ calc.height \in Height
  BY <1>1, NumberTypes
<1>3. /\ info.calcDone % Term = 0 /\ info.prevCalcDone % Term = 0 /\ calc.height % Term = 0
      /\ info.calcDone \in {info.prevCalcDone, info.prevCalcDone + Term}
  BY <1>1 DEF Heights
<1>4. NextEnd \in Nat /\ NextEnd % Term = 0
  BY <1>2, <1>3, NextTerm DEF NextEnd
<1>5. (NextEnd + Term) % Term = 0
  BY <1>2, <1>4, NextTerm
<1> QED
  BY <1>2, <1>3, <1>4, <1>5 DEF NextEnd

-----------------------------------------------------------------------------
(* Each step keeps the IISS data in place and the turns of calculations. *)

Turns == Input /\ Schedule /\ Turn

(* Steps that leave the heights alone. *)
LEMMA ScheduleKept ==
    ASSUME Schedule, UNCHANGED <<info, tip, due, rollingBack>>,
           rollback' = "reply" => ~Pending
    PROVE  Schedule'
BY DEF Schedule, NextEnd, ToggledNext, Pending

LEMMA InputKept ==
    ASSUME Input, UNCHANGED <<info, tip, iiss, data, torn>>,
           calc'.phase \in {"check"} \cup Active =>
              /\ calc.phase \in {"check"} \cup Active
              /\ calc'.iiss = calc.iiss /\ calc'.height = calc.height
    PROVE  Input'
BY DEF Input

(* An idle goroutine has no turn. *)
LEMMA IdleTurn ==
    ASSUME calc' = IdleCalc
    PROVE  Turn' /\ calc'.phase \notin {"check"} \cup Active
BY Idle DEF Turn, Active, Filling

LEMMA PassTurns ==
    ASSUME CalculateInv, Answers, Turns, Pass
    PROVE  Turns'
<1>1. Types
  BY DEF CalculateInv
<1>2. /\ calc.phase \in Active /\ calc'.phase \in Active
      /\ calc'.height = calc.height /\ calc'.reload = calc.reload
      /\ calc'.iiss = calc.iiss
      /\ UNCHANGED <<info, rollback, torn, iiss, tip, due, rollingBack, data>>
  BY <1>1, PassMoves
<1>3. Schedule'
  BY <1>2, ScheduleKept DEF Turns, Schedule
<1>4. Input'
  BY <1>2, InputKept DEF Turns
<1>5. Turn'
  BY <1>2 DEF Turns, Turn, NextEnd, ToggledNext, Active, Filling
<1> QED
  BY <1>3, <1>4, <1>5 DEF Turns

(* A CALCULATE message, or the restart, starts a goroutine. *)
LEMMA StartTurns ==
    ASSUME CalculateInv, Answers, Turns, Dispatch \/ GetChannel \/ ReloadIISSData
    PROVE  Turns'
<1>1. Types /\ tip \in Height /\ info.calculating \in Height
  BY NumberTypes DEF CalculateInv, Types
<1>2. UNCHANGED <<info, rollback, torn, iiss, tip, due, rollingBack, data>>
  BY DEF Dispatch, GetChannel, ReloadIISSData, dbVars, faults, isVars
<1>3. Schedule'
  BY <1>2, ScheduleKept DEF Turns, Schedule
<1>4. ASSUME Dispatch PROVE Turn' /\ calc'.phase \notin {"check"} \cup Active
  <2>1. due /\ calc'.phase = "dispatched" /\ calc'.height = tip /\ calc'.reload = FALSE
    BY <1>1, <1>4, Started DEF Dispatch
  <2>2. info.prevCalcDone < tip
    BY <2>1 DEF Turns, Schedule
  <2> QED
    BY <1>2, <2>1, <2>2 DEF Turn, Active, Filling
<1>5. ASSUME GetChannel PROVE Turn' /\ calc'.phase \notin {"check"} \cup Active
  <2>1. /\ calc.phase = "dispatched" /\ calc'.phase = "load" /\ calc'.height = calc.height
        /\ calc'.reload = calc.reload
    BY <1>1, <1>5, PhaseGoes DEF GetChannel, CalcPhase
  <2> QED
    BY <1>2, <2>1 DEF Turns, Turn, Active, Filling
<1>6. ASSUME ReloadIISSData PROVE Turn' /\ calc'.phase \notin {"check"} \cup Active
  <2>1. CASE NeedReload
    <3>1. calc'.phase = "load" /\ calc'.height = info.calculating /\ calc'.reload
      BY <1>1, <1>6, <2>1, Started DEF ReloadIISSData
    <3>2. info.calculating = NextEnd
      BY <2>1 DEF NeedReload, Turns, Schedule
    <3>3. info.prevCalcDone < NextEnd
      BY Ends
    <3> QED
      BY <1>2, <3>1, <3>2, <3>3 DEF Turn, Active, Filling, NextEnd
  <2>2. CASE ~NeedReload
    BY <1>6, <2>2, IdleTurn DEF ReloadIISSData
  <2> QED
    BY <2>1, <2>2
<1>7. Turn' /\ calc'.phase \notin {"check"} \cup Active
  BY <1>4, <1>5, <1>6
<1>8. Input'
  BY <1>2, <1>7, InputKept DEF Turns
<1> QED
  BY <1>3, <1>7, <1>8 DEF Turns

(* A request that is refused, and one whose IISS data is loaded. *)
LEMMA LoadTurns ==
    ASSUME CalculateInv, Answers, Turns,
           DropRequest \/ CancelCalculation \/ LoadNothing \/ RefuseHeight \/ SetCalculatingBH
    PROVE  Turns'
<1>1. Types /\ calc \in CalcRecord /\ calc.height \in Height /\ info.calcDone \in Height
      /\ Heights
  BY NumberTypes DEF CalculateInv, Types
<1>2. /\ calc.phase # "idle"
      /\ UNCHANGED <<rollback, torn, iiss, tip, rollingBack, data>>
  BY DEF DropRequest, CancelCalculation, LoadNothing, RefuseHeight, SetCalculatingBH, Loadable,
         dbVars, faults, isVars
<1>3. ~rollingBack /\ ~Pending /\ rollback = "idle" /\ calc.height <= tip
  BY <1>2, Running
<1>4. CASE DropRequest \/ CancelCalculation
  <2>1. calc' = IdleCalc /\ UNCHANGED <<info, due>>
    BY <1>4 DEF DropRequest, CancelCalculation, dbVars, isVars
  <2> QED
    BY <1>2, <1>3, <2>1, IdleTurn, ScheduleKept, InputKept DEF Turns
<1>5. CASE LoadNothing \/ RefuseHeight
  <2>1. /\ calc' = IdleCalc /\ info' = [info EXCEPT !.calculating = info.calcDone]
        /\ due' = (due /\ (calc.reload \/ tip # calc.height))
        /\ calc.phase \in {"load", "check"}
    BY <1>5 DEF LoadNothing, RefuseHeight, Acknowledge, Loadable
  <2>2. /\ info'.calculating = info.calcDone /\ info'.calcDone = info.calcDone
        /\ info'.prevCalcDone = info.prevCalcDone /\ info'.toggleBH = info.toggleBH
    BY <1>1, <2>1, CalculatingSet
  <2>3. ~ToggledNext
    <3>1. CASE LoadNothing
      <4>1. calc.phase = "load" /\ iiss[calc.height] = NoData
        BY <3>1 DEF LoadNothing, Loadable
      <4>2. info.prevCalcDone < calc.height /\ calc.height % Term = 0
        BY <1>1, <4>1 DEF Turns, Turn, Heights
      <4>3. FALSE
        BY <1>1, <1>3, <4>1, <4>2 DEF Turns, Input
      <4> QED
        BY <4>3
    <3>2. CASE RefuseHeight
      <4>1. calc.phase = "check" /\ calc.height <= info.calcDone
        BY <3>2 DEF RefuseHeight
      <4>2. info.calculating <= info.calcDone
        BY <4>1 DEF Answers
      <4> QED
        BY <4>2, Ends DEF Turns, Schedule
    <3> QED
      BY <1>5, <3>1, <3>2
  <2>4. due /\ ~due' => tip < NextEnd
    <3>1. CASE LoadNothing
      <4>1. calc.phase = "load" /\ iiss[calc.height] = NoData
        BY <3>1 DEF LoadNothing, Loadable
      <4>2. info.prevCalcDone < calc.height /\ calc.height % Term = 0
        BY <1>1, <4>1 DEF Turns, Turn, Heights
      <4> QED
        BY <1>1, <1>3, <4>1, <4>2 DEF Turns, Input
    <3>2. CASE RefuseHeight
      <4>1. calc.height <= info.calcDone
        BY <3>2 DEF RefuseHeight
      <4>2. due /\ ~due' => tip = calc.height
        BY <2>1
      <4> QED
        BY <4>1, <4>2, Ends
    <3> QED
      BY <1>5, <3>1, <3>2
  <2>5. ~rollingBack /\ ~ToggledNext /\ ~due => tip < NextEnd
    BY DEF Turns, Schedule
  <2>6. NextEnd' = NextEnd /\ ToggledNext' = ToggledNext /\ Pending' = Pending
    BY <1>2, <2>2 DEF NextEnd, ToggledNext, Pending
  <2>7. Schedule'
    <3>1. due \in BOOLEAN /\ due' \in BOOLEAN
      BY <1>1, <2>1 DEF Types
    <3>2. (info.prevCalcDone < tip \/ (tip = 0 /\ ~due)) /\ tip < NextEnd + Term
      BY <1>3 DEF Turns, Schedule
    <3>3. ~due' => tip < NextEnd
      BY <1>3, <2>3, <2>4, <2>5, <3>1
    <3> QED
      BY <1>2, <1>3, <2>1, <2>2, <2>3, <2>6, <3>2, <3>3 DEF Schedule
  <2>8. Turn' /\ calc'.phase \notin {"check"} \cup Active
    BY <2>1, IdleTurn
  <2>9. Input'
    BY <1>2, <2>2, <2>8 DEF Turns, Input
  <2> QED
    BY <2>7, <2>8, <2>9 DEF Turns
<1>6. CASE SetCalculatingBH
  <2>1. /\ calc.phase = "load" /\ iiss[calc.height] # NoData
        /\ info' = [info EXCEPT !.calculating = calc.height]
        /\ calc' = [calc EXCEPT !.phase = "check", !.iiss = iiss[calc.height]]
        /\ due' = due
    BY <1>6 DEF SetCalculatingBH, Loadable, isVars
  <2>2. /\ info'.calculating = calc.height /\ info'.calcDone = info.calcDone
        /\ info'.prevCalcDone = info.prevCalcDone /\ info'.toggleBH = info.toggleBH
    BY <1>1, <2>1, CalculatingSet
  <2>3. calc'.phase = "check" /\ calc'.height = calc.height /\ calc'.reload = calc.reload
        /\ calc'.iiss = iiss[calc.height]
    BY <1>1, <2>1 DEF CalcRecord
  <2>4. info.prevCalcDone < calc.height /\ calc.height % Term = 0 /\ calc.height <= NextEnd
    BY <1>1, <2>1, Ends DEF Turns, Turn, Heights
  <2>5. calc.height \in {info.calcDone, NextEnd}
    <3>1. calc.height < NextEnd => calc.height + Term <= NextEnd
      BY <1>1, <2>4, Ends, EndsApart
    <3>2. info.prevCalcDone + Term <= calc.height
      BY <1>1, <2>4, Ends, EndsApart
    <3>3. info.calcDone \in {info.prevCalcDone, info.prevCalcDone + Term}
      BY <1>1 DEF Heights
    <3> QED
      BY <2>4, <3>1, <3>2, <3>3, Ends
  <2>6. ToggledNext => calc.height = NextEnd
    <3> SUFFICES ASSUME ToggledNext PROVE calc.height = NextEnd
      OBVIOUS
    <3>1. info.calculating = NextEnd
      BY DEF Turns, Schedule
    <3>2. calc.reload
      BY <2>1, <3>1, Ends DEF Answers
    <3> QED
      BY <2>1, <3>2 DEF Turns, Turn
  <2>7. NextEnd' = NextEnd /\ ToggledNext' = ToggledNext /\ Pending' = Pending
    BY <1>2, <2>2 DEF NextEnd, ToggledNext, Pending
  <2>8. Schedule'
    BY <1>2, <1>3, <2>1, <2>2, <2>5, <2>6, <2>7 DEF Turns, Schedule
  <2>9. Turn'
    BY <2>1, <2>3, <2>7 DEF Turns, Turn
  <2>10. Input'
    <3>1. iiss[calc.height] = data[calc.height]
      BY <1>1, <1>3, <2>4 DEF Turns, Input
    <3> QED
      BY <1>2, <2>2, <2>3, <3>1 DEF Turns, Input
  <2> QED
    BY <2>8, <2>9, <2>10 DEF Turns
<1> QED
  BY <1>4, <1>5, <1>6

(* The account DBs are toggled, and CALCULATE is acknowledged. *)
LEMMA ToggleTurns ==
    ASSUME CalculateInv, Answers, Turns, ToggleAccountDB \/ DeleteOldBackups
    PROVE  Turns'
<1>1. Types /\ calc \in CalcRecord /\ Heights
  BY DEF CalculateInv, Types
<1>2. /\ calc.phase # "idle" /\ UNCHANGED <<rollback, torn, iiss, tip, rollingBack, data>>
  BY DEF ToggleAccountDB, DeleteOldBackups, faults, isVars
<1>3. ~rollingBack /\ ~Pending /\ rollback = "idle"
  BY <1>2, Running
<1>4. CASE ToggleAccountDB
  <2>1. /\ calc.phase = "check" /\ calc.height > info.calcDone /\ due' = due
        /\ info' = Toggled(calc.height + 1) /\ calc' = ToPhase("purge")
    BY <1>4 DEF ToggleAccountDB, isVars
  <2>2. calc.height = NextEnd /\ info.calculating = calc.height
    BY <1>1, <2>1, CheckedIsNext DEF Answers
  <2>3. /\ info'.calculating = info.calculating /\ info'.calcDone = info.calcDone
        /\ info'.prevCalcDone = info.prevCalcDone /\ info'.toggleBH = NextEnd + 1
    <3>1. calc.height + 1 \in Nat
      BY Ends
    <3> QED
      BY <1>1, <2>1, <2>2, <3>1, ToggleSet
  <2>4. calc'.phase = "purge" /\ calc'.height = calc.height /\ calc'.reload = calc.reload
        /\ calc'.iiss = calc.iiss
    BY <1>1, <2>1, PhaseGoes DEF CalcPhase
  <2>5. NextEnd' = NextEnd /\ ToggledNext' /\ ~Pending'
    BY <1>2, <1>3, <2>3 DEF NextEnd, ToggledNext, Pending
  <2>6. Schedule'
    BY <1>2, <1>3, <2>1, <2>2, <2>3, <2>5 DEF Turns, Schedule
  <2>7. Turn'
    BY <2>2, <2>4, <2>5 DEF Turn
  <2>8. Input'
    BY <1>2, <2>1, <2>3, <2>4 DEF Turns, Input
  <2> QED
    BY <2>6, <2>7, <2>8 DEF Turns
<1>5. CASE DeleteOldBackups
  <2>1. /\ calc.phase = "purge" /\ UNCHANGED info
        /\ calc' = [calc EXCEPT !.phase = "reset", !.shards = Shard]
        /\ due' = (due /\ (calc.reload \/ tip # calc.height))
    BY <1>5 DEF DeleteOldBackups, Acknowledge
  <2>2. ToggledNext /\ calc.phase \in Active
    BY <1>1, <2>1 DEF Heights, Active
  <2>3. calc'.phase = "reset" /\ calc'.height = calc.height /\ calc'.reload = calc.reload
        /\ calc'.iiss = calc.iiss
    BY <1>1, <2>1 DEF CalcRecord
  <2>4. NextEnd' = NextEnd /\ ToggledNext' = ToggledNext /\ Pending' = Pending
    BY <1>2, <2>1 DEF NextEnd, ToggledNext, Pending
  <2>5. Schedule'
    BY <1>2, <1>3, <2>1, <2>2, <2>4 DEF Turns, Schedule
  <2>6. Turn'
    BY <2>1, <2>3, <2>4 DEF Turns, Turn
  <2>7. Input'
    BY <1>2, <2>1, <2>2, <2>3 DEF Turns, Input
  <2> QED
    BY <2>5, <2>6, <2>7 DEF Turns
<1> QED
  BY <1>4, <1>5

(* A calculation is done. *)
LEMMA DoneTurns ==
    ASSUME CalculateInv, Answers, Turns,
           SetCalcDoneBH \/ WriteCalculationResult \/ CleanupIISSData
    PROVE  Turns'
<1>1. Types /\ calc \in CalcRecord /\ Heights /\ calc.height \in Height
  BY NumberTypes DEF CalculateInv, Types
<1>2. /\ calc.phase # "idle" /\ UNCHANGED <<rollback, torn, tip, due, rollingBack, data>>
  BY DEF SetCalcDoneBH, WriteCalculationResult, CleanupIISSData, dbVars, faults, isVars
<1>3. ~rollingBack /\ ~Pending /\ rollback = "idle" /\ calc.height <= tip
  BY <1>2, Running
<1>4. CASE SetCalcDoneBH
  <2>1. /\ calc.phase = "done" /\ UNCHANGED iiss /\ calc' = ToPhase("result")
        /\ info' = [info EXCEPT !.prevCalcDone = info.calcDone, !.calcDone = calc.height]
    BY <1>4 DEF SetCalcDoneBH, isVars
  <2>2. calc.height = NextEnd /\ ToggledNext /\ info.calculating = calc.height
    BY <1>1, <2>1 DEF Heights, Answers, Active, Filling
  <2>3. /\ info'.calcDone = NextEnd /\ info'.prevCalcDone = info.calcDone
        /\ info'.calculating = NextEnd /\ info'.toggleBH = NextEnd + 1
    BY <1>1, <2>1, <2>2, CalcDoneSet DEF ToggledNext
  <2>4. calc'.phase = "result" /\ calc'.height = calc.height /\ calc'.reload = calc.reload
    BY <1>1, <2>1, PhaseGoes DEF CalcPhase
  <2>5. NextEnd' = NextEnd + Term /\ ~ToggledNext' /\ ~Pending'
    BY <1>2, <1>3, <2>3, Ends DEF NextEnd, ToggledNext, Pending
  <2>6. Schedule'
    <3>1. info.calcDone < NextEnd /\ NextEnd <= tip /\ tip < NextEnd + Term
      BY <1>3, <2>2, Ends DEF Turns, Schedule
    <3>2. info.calcDone < tip /\ tip < (NextEnd + Term) + Term
      BY <3>1, Ends
    <3> QED
      BY <1>2, <1>3, <2>3, <2>5, <3>1, <3>2 DEF Schedule
  <2>7. Turn'
    BY <2>3, <2>4, <2>5, Ends DEF Turn
  <2>8. Input'
    <3>1. info.prevCalcDone <= info.calcDone /\ info.prevCalcDone \in Nat /\ info.calcDone \in Nat
          /\ \A h \in Height : h \in Nat
      BY <1>1, Ends, NumberTypes
    <3>2. \A h \in Height : info.calcDone < h => info.prevCalcDone < h
      BY <3>1
    <3>3. calc'.phase \notin {"check"} \cup Active
      BY <2>4 DEF Active, Filling
    <3> QED
      BY <1>2, <2>1, <2>3, <3>2, <3>3 DEF Turns, Input
  <2> QED
    BY <2>6, <2>7, <2>8 DEF Turns
<1>5. CASE WriteCalculationResult
  <2>1. calc.phase = "result" /\ calc' = ToPhase("cleanup") /\ UNCHANGED <<info, iiss>>
    BY <1>5 DEF WriteCalculationResult, isVars
  <2>2. calc'.phase = "cleanup"
    BY <1>1, <2>1, PhaseGoes DEF CalcPhase
  <2>3. Schedule'
    BY <1>2, <1>3, <2>1, ScheduleKept DEF Turns
  <2>4. Turn'
    BY <1>2, <2>1, <2>2 DEF Turns, Turn, ToggledNext, NextEnd
  <2>5. Input'
    <3>1. calc'.phase \notin {"check"} \cup Active
      BY <2>2 DEF Active, Filling
    <3> QED
      BY <1>2, <2>1, <3>1, InputKept DEF Turns
  <2> QED
    BY <2>3, <2>4, <2>5 DEF Turns
<1>6. CASE CleanupIISSData
  <2>1. /\ calc.phase = "cleanup" /\ UNCHANGED info /\ calc' = IdleCalc
        /\ iiss' = [h \in Height |-> IF h < calc.height THEN NoData ELSE iiss[h]]
    BY <1>6 DEF CleanupIISSData, dbVars
  <2>2. calc.height = info.calcDone
    BY <2>1 DEF Answers
  <2>3. Schedule' /\ Turn' /\ calc'.phase \notin {"check"} \cup Active
    BY <1>2, <1>3, <2>1, ScheduleKept, IdleTurn DEF Turns
  <2>4. ASSUME NEW h \in Height, info.prevCalcDone < h, h % Term = 0
        PROVE  iiss'[h] = iiss[h]
    <3>1. h \in Nat /\ info.prevCalcDone + Term <= h
      BY <1>1, <2>4, Ends, EndsApart, NumberTypes
    <3>2. info.calcDone <= info.prevCalcDone + Term
      BY Ends
    <3>3. ~(h < calc.height)
      BY <2>2, <3>1, <3>2, Ends
    <3> QED
      BY <2>1, <3>3
  <2>5. Input'
    BY <1>2, <2>1, <2>3, <2>4 DEF Turns, Input
  <2> QED
    BY <2>3, <2>5 DEF Turns
<1> QED
  BY <1>4, <1>5, <1>6

(* ROLLBACK waits for the goroutine, so that none runs while it is handled. *)
LEMMA HandlerAlone ==
    ASSUME CalculateInv, Answers, Turns, rollingBack
    PROVE  /\ calc = IdleCalc /\ info.calculating = info.calcDone /\ ~ToggledNext
           /\ info.prevCalcDone < tip
<1>1. calc = IdleCalc /\ info.calculating = info.calcDone
  BY DEF Answers
<1>2. ~ToggledNext
  BY <1>1, Ends DEF Turns, Schedule
<1>3. info.prevCalcDone < tip
  BY DEF CalculateInv, RollbackState
<1> QED
  BY <1>1, <1>2, <1>3

LEMMA HandlerTurns ==
    ASSUME CalculateInv, Answers, Turns,
           \/ NotifyRollback \/ CheckAccountDBRollback \/ DeleteCalculationResult
           \/ \E f \in backups : RestoreShard(f)
    PROVE  Turns'
<1>1. rollingBack
  BY DEF NotifyRollback, CheckAccountDBRollback, DeleteCalculationResult, RestoreShard,
         CalculateInv, RollbackState
<1>2. calc = IdleCalc
  BY <1>1, HandlerAlone
<1>3. calc' = calc
  BY <1>2, Idle DEF NotifyRollback, CheckAccountDBRollback, DeleteCalculationResult,
                    RestoreShard
<1>4. UNCHANGED <<info, torn, iiss, tip, due, rollingBack, data>>
  BY DEF NotifyRollback, CheckAccountDBRollback, DeleteCalculationResult, RestoreShard,
         dbVars, faults, isVars
<1>5. rollback' = "reply" => ~Pending
  <2>1. info.calcDone \in Nat /\ tip \in Nat
    BY Ends
  <2> QED
    BY <2>1 DEF NotifyRollback, CheckAccountDBRollback, DeleteCalculationResult, RestoreShard,
                Pending
<1>6. Schedule'
  BY <1>4, <1>5, ScheduleKept DEF Turns
<1>7. Turn' /\ calc'.phase \notin {"check"} \cup Active
  BY <1>2, <1>3, IdleTurn
<1> QED
  BY <1>4, <1>6, <1>7, InputKept DEF Turns

LEMMA RollbackTurns ==
    ASSUME CalculateInv, Answers, Turns,
           ToggleBack \/ RollbackAccountDBBlockInfo \/ AnswerRollback
    PROVE  Turns'
<1>0. Types
  BY DEF CalculateInv
<1>1. rollingBack
  BY DEF ToggleBack, RollbackAccountDBBlockInfo, AnswerRollback, CalculateInv, RollbackState
<1>2. /\ calc = IdleCalc /\ info.calculating = info.calcDone /\ ~ToggledNext
      /\ info.prevCalcDone < tip
  BY <1>1, HandlerAlone
<1>3. UNCHANGED <<calc, torn, iiss, tip, due, data>>
  BY DEF ToggleBack, RollbackAccountDBBlockInfo, AnswerRollback, faults, isVars
<1>4. Turn' /\ calc'.phase \notin {"check"} \cup Active
  BY <1>2, <1>3, IdleTurn
<1>5. CASE ToggleBack
  <2>1. info' = Toggled(tip) /\ rollback' = "result" /\ UNCHANGED rollingBack /\ Pending
    BY <1>5 DEF ToggleBack, isVars, CalculateInv, RollbackState
  <2>2. /\ info'.calculating = info.calculating /\ info'.calcDone = info.calcDone
        /\ info'.prevCalcDone = info.prevCalcDone /\ info'.toggleBH = tip
    BY <1>0, <2>1, Ends, ToggleSet
  <2>3. NextEnd' = NextEnd /\ ~ToggledNext' /\ Pending'
    BY <1>3, <2>1, <2>2, Ends DEF NextEnd, ToggledNext, Pending
  <2>4. Schedule'
    BY <1>1, <1>2, <1>3, <2>1, <2>2, <2>3 DEF Turns, Schedule
  <2>5. Input'
    BY <1>3, <1>4, <2>2 DEF Turns, Input
  <2> QED
    BY <1>4, <2>4, <2>5 DEF Turns
<1>6. CASE RollbackAccountDBBlockInfo
  <2>1. /\ info'.calcDone = info.prevCalcDone /\ info'.prevCalcDone = info.prevCalcDone
        /\ info'.calculating = info.prevCalcDone /\ info'.toggleBH = info.toggleBH
    BY <1>0, <1>6, CalcDoneBack
  <2>2. UNCHANGED rollingBack /\ Pending /\ info.toggleBH = tip
    BY <1>6 DEF RollbackAccountDBBlockInfo, isVars, CalculateInv, RollbackState
  <2>3. tip <= info.calcDone /\ info.prevCalcDone < info.calcDone
        /\ info.calcDone = info.prevCalcDone + Term
    BY <1>2, <2>2, Ends DEF Pending
  <2>4. NextEnd' = info.calcDone /\ ~ToggledNext' /\ ~Pending'
    BY <1>2, <1>3, <2>1, <2>2, <2>3, Ends DEF NextEnd, ToggledNext, Pending
  <2>5. Schedule'
    BY <1>1, <1>2, <1>3, <2>1, <2>2, <2>3, <2>4 DEF Turns, Schedule
  <2>6. Input'
    BY <1>3, <1>4, <2>1 DEF Turns, Input
  <2> QED
    BY <1>4, <2>5, <2>6 DEF Turns
<1>7. CASE AnswerRollback
  <2>1. rollback = "reply" /\ rollback' = "idle" /\ rollingBack' = FALSE /\ UNCHANGED info
    BY <1>7 DEF AnswerRollback, dbVars
  <2>2. ~Pending /\ tip <= NextEnd /\ (due <=> tip % Term = 0)
    BY <1>1, <2>1 DEF Turns, Schedule
  <2>3. NextEnd' = NextEnd /\ ToggledNext' = ToggledNext /\ ~Pending'
    BY <2>1 DEF NextEnd, ToggledNext, Pending
  <2>4. tip < NextEnd + Term /\ (~due => tip < NextEnd)
    <3>1. tip = NextEnd => tip % Term = 0
      BY Ends
    <3> QED
      BY <2>2, <3>1, Ends
  <2>5. Schedule'
    BY <1>2, <1>3, <2>1, <2>3, <2>4 DEF Turns, Schedule
  <2>6. Input'
    BY <1>3, <1>4, <2>1, InputKept DEF Turns
  <2> QED
    BY <1>4, <2>5, <2>6 DEF Turns
<1> QED
  BY <1>5, <1>6, <1>7

(* ICON Service's blocks and decisions. *)
LEMMA ChainTurns ==
    ASSUME CalculateInv, Answers, Turns,
           \/ AddBlock \/ \E d \in IISSData : EndTerm(d)
    PROVE  Turns'
<1>0. Types /\ iiss \in [Height -> IISSData \cup {NoData}] /\ \A h \in Height : h \in Nat
  BY NumberTypes DEF CalculateInv, Types
<1>1. /\ up /\ ~due /\ ~rollingBack /\ tip < MaxHeight /\ tip' = tip + 1
      /\ UNCHANGED <<info, calc, rollback, torn, rollingBack>>
  BY DEF AddBlock, EndTerm, dbVars, faults
<1>2. tip + 1 \in Height /\ rollback = "idle" /\ ~Pending /\ info.calcDone <= tip
  <2>1. tip + 1 \in Height
    <3>1. tip \in Nat
      BY Ends
    <3> QED
      BY <1>1, <3>1, CalculateAssumption DEF Height
  <2>2. rollback = "idle" /\ ~Pending
    BY <1>1 DEF Pending, CalculateInv, RollbackState
  <2> QED
    BY <1>1, <2>1, <2>2 DEF Answers
<1>3. NextEnd' = NextEnd /\ ToggledNext' = ToggledNext /\ ~Pending'
  BY <1>1 DEF NextEnd, ToggledNext, Pending
<1>4. info.prevCalcDone < tip + 1
  BY <1>2, Ends
<1>5. Turn'
  BY <1>1, <1>3 DEF Turns, Turn
<1>6. CASE AddBlock
  <2>1. (tip + 1) % Term # 0 /\ UNCHANGED <<iiss, due, data>>
    BY <1>6 DEF AddBlock
  <2>2. tip + 1 # NextEnd /\ tip + 1 # NextEnd + Term
    BY <2>1, Ends
  <2>3. tip < NextEnd + Term /\ (~ToggledNext => tip < NextEnd)
    BY <1>1 DEF Turns, Schedule
  <2>4. tip + 1 < NextEnd + Term /\ (~ToggledNext => tip + 1 < NextEnd)
    BY <2>2, <2>3, Ends
  <2>5. Schedule'
    BY <1>1, <1>2, <1>3, <1>4, <2>1, <2>4 DEF Turns, Schedule
  <2>6. \A h \in Height : h <= tip + 1 /\ h % Term = 0 => h <= tip
    BY <1>0, <2>1, Ends
  <2>7. Input'
    BY <1>1, <2>1, <2>6 DEF Turns, Input
  <2> QED
    BY <1>5, <2>5, <2>7 DEF Turns
<1>7. ASSUME NEW d \in IISSData, EndTerm(d) PROVE Turns'
  <2>1. /\ (tip + 1) % Term = 0 /\ info.calcDone >= tip + 1 - Term /\ due' = TRUE
        /\ data' = [data EXCEPT ![tip + 1] = d] /\ iiss' = [iiss EXCEPT ![tip + 1] = d]
    BY <1>7 DEF EndTerm
  <2>2. tip + 1 < NextEnd + Term
    BY <2>1, Ends
  <2>3. Schedule'
    BY <1>1, <1>2, <1>3, <1>4, <2>1, <2>2 DEF Turns, Schedule
  <2>4. d # NoData /\ data \in [Height -> IISSData \cup {NoData}]
    BY DataIsRecord DEF Turns, Input
  <2>5. data' \in [Height -> IISSData \cup {NoData}]
    BY <2>1, <2>4
  <2>6. \A h \in Height : IF h = tip + 1 THEN data'[h] = d /\ iiss'[h] = d
                          ELSE data'[h] = data[h] /\ iiss'[h] = iiss[h]
    BY <1>0, <2>1, <2>4
  <2>7. \A h \in Height : h <= tip + 1 /\ h # tip + 1 => h <= tip
    BY <1>0, Ends
  <2>8. \A h \in Height : info'.prevCalcDone < h /\ h <= tip' /\ h % Term = 0 =>
           iiss'[h] = data'[h] /\ data'[h] # NoData
    BY <1>1, <2>4, <2>6, <2>7 DEF Turns, Input
  <2>9. calc'.phase \in {"check"} \cup Active => calc'.iiss = data'[calc'.height]
    <3> SUFFICES ASSUME calc.phase \in {"check"} \cup Active
                 PROVE  calc.iiss = data'[calc.height]
      BY <1>1
    <3>1. calc.phase # "idle"
      BY DEF Active, Filling
    <3>2. calc.height <= tip /\ calc.height \in Height /\ calc.height # tip + 1
      BY <3>1, Running, Ends
    <3> QED
      BY <2>6, <3>2 DEF Turns, Input
  <2>10. Input'
    BY <1>1, <2>5, <2>8, <2>9 DEF Turns, Input
  <2> QED
    BY <1>5, <2>3, <2>10 DEF Turns
<1> QED
  BY <1>6, <1>7

LEMMA DecideTurns ==
    ASSUME RollbackWhileCalculating = FALSE, CalculateInv, Answers, Turns,
           NEW to \in Height, DecideRollback(to)
    PROVE  Turns'
<1>0. Types /\ Heights /\ to \in Nat
  BY NumberTypes DEF CalculateInv
<1>1. /\ ~rollingBack /\ info.prevCalcDone < to /\ to < tip
      /\ calc = IdleCalc /\ ~NeedReload
      /\ tip' = to /\ due' = (to = TermEnd(to)) /\ rollingBack' = TRUE
      /\ iiss' = [h \in Height |-> IF h > to THEN NoData ELSE iiss[h]]
      /\ UNCHANGED <<info, calc, rollback, torn, data>>
  BY DEF DecideRollback, dbVars, faults
<1>2. ~ToggledNext /\ rollback = "idle"
  BY <1>1, Ends DEF NeedReload, Turns, Schedule, CalculateInv, RollbackState
<1>3. to <= NextEnd
  <2>1. CASE due
    <3>1. tip % Term = 0 /\ tip < NextEnd + Term
      BY <1>0, <1>1, <2>1 DEF Heights, Turns, Schedule
    <3>2. NextEnd < tip => NextEnd + Term <= tip
      BY <1>0, <3>1, Ends, EndsApart
    <3> QED
      BY <1>0, <1>1, <3>1, <3>2, Ends
  <2>2. CASE ~due
    BY <1>0, <1>1, <1>2, <2>2, Ends DEF Turns, Schedule
  <2> QED
    BY <2>1, <2>2
<1>4. due' <=> to % Term = 0
  <2>1. to % Term \in Int
    BY <1>0, Ends, Quotient
  <2>2. \A x, y \in Int : x = x - y <=> y = 0
    OBVIOUS
  <2>3. to = TermEnd(to) <=> to % Term = 0
    BY <1>0, <2>1, <2>2 DEF TermEnd
  <2> QED
    BY <1>1, <2>3
<1>5. NextEnd' = NextEnd /\ ToggledNext' = ToggledNext
  BY <1>1 DEF NextEnd, ToggledNext
<1>6. Schedule'
  BY <1>1, <1>2, <1>3, <1>4, <1>5 DEF Turns, Schedule
<1>7. Turn' /\ calc'.phase \notin {"check"} \cup Active
  BY <1>1, IdleTurn
<1>8. Input'
  <2>1. \A h \in Height : h <= to => h <= tip /\ ~(h > to)
    BY <1>0, <1>1, Ends, NumberTypes
  <2>2. \A h \in Height : h <= to => iiss'[h] = iiss[h]
    BY <1>1, <2>1
  <2> QED
    BY <1>1, <1>7, <2>1, <2>2 DEF Turns, Input
<1> QED
  BY <1>6, <1>7, <1>8 DEF Turns

LEMMA CrashTurns ==
    ASSUME CalculateInv, Answers, Turns, Crash
    PROVE  Turns'
<1>1. /\ calc' = IdleCalc /\ rollback' = "idle" /\ torn' = (torn \/ calc.phase \in AddingPhases)
      /\ UNCHANGED <<info, iiss, tip, due, rollingBack, data>>
  BY DEF Crash, dbVars, isVars
<1>2. Schedule' /\ Turn' /\ calc'.phase \notin {"check"} \cup Active
  BY <1>1, ScheduleKept, IdleTurn DEF Turns
<1>3. Input'
  BY <1>1, <1>2 DEF Turns, Input
<1> QED
  BY <1>2, <1>3 DEF Turns

(* Every step keeps the turns. *)
LEMMA TurnsNext ==
    ASSUME RollbackWhileCalculating = FALSE, CalculateInv, Answers, Turns, [Next]_vars
    PROVE  Turns'
<1>1. ASSUME UNCHANGED vars PROVE Turns'
  BY <1>1 DEF vars, dbVars, faults, isVars, Turns, Input, Schedule, Turn, NextEnd, ToggledNext,
              Pending
<1>2. ASSUME CalculateStep PROVE Turns'
  <2>1. CASE Pass
    BY <2>1, PassTurns
  <2> QED
    BY <1>2, <2>1, StartTurns, LoadTurns, ToggleTurns, DoneTurns DEF CalculateStep, Pass
<1>3. ASSUME RollbackStep PROVE Turns'
  BY <1>3, HandlerTurns, RollbackTurns DEF RollbackStep
<1> QED
  BY <1>1, <1>2, <1>3, StartTurns, ChainTurns, DecideTurns, CrashTurns DEF Next

-----------------------------------------------------------------------------
(* Each step keeps the generations in order. *)

(* A crash that tears a generation takes nothing else away. *)
LEMMA FollowsTorn ==
    ASSUME NEW old, NEW new, NEW h, NEW D, NEW t, NEW u, t => u,
           Follows(old, new, h, D, t)
    PROVE  Follows(old, new, h, D, u)
BY DEF Follows

(* Data of later terms does not matter. *)
LEMMA FollowsAgrees ==
    ASSUME NEW old, NEW new, NEW h \in Nat, NEW D, NEW E, NEW t, NEW n \in Nat,
           h <= n, n <= MaxHeight,
           \A x \in Height : x > 0 /\ x <= n => D[x] = E[x],
           Follows(old, new, h, D, t)
    PROVE  Follows(old, new, h, E, t)
<1>0. Term \in Nat /\ Term > 0 /\ MaxHeight \in Nat
  BY CalculateAssumption
<1>1. \A x \in Int : x <= n => Gen(D, x) = Gen(E, x)
  BY GenAgrees
<1>2. h \in Int /\ h - Term \in Int /\ h - Term <= n
  BY <1>0
<1>3. Gen(D, h) = Gen(E, h) /\ Gen(D, h - Term) = Gen(E, h - Term)
  BY <1>1, <1>2
<1>4. h > 0 => D[h] = E[h]
  <2>1. h \in Height
    BY <1>0 DEF Height
  <2> QED
    BY <2>1
<1> QED
  BY <1>3, <1>4 DEF Follows

(* Steps that leave the account DBs and the heights alone. *)
LEMMA GenerationsKept ==
    ASSUME GenerationsFollow, UNCHANGED <<account, backups, tip, rollingBack, data>>,
           torn => torn',
           info'.calcDone = info.calcDone, info'.prevCalcDone = info.prevCalcDone,
           info'.toggleBH = info.toggleBH, info'.queryDB = info.queryDB
    PROVE  GenerationsFollow'
<1>1. /\ NextEnd' = NextEnd /\ ToggledNext' = ToggledNext /\ Pending' = Pending
      /\ QueryDB' = QueryDB /\ CalcDB' = CalcDB
  BY DEF NextEnd, ToggledNext, Pending, QueryDB, CalcDB
<1>2. \A old, new, h : Follows(old, new, h, data, torn) => Follows(old, new, h, data', torn')
  BY FollowsTorn
<1> HIDE DEF QueryDB, CalcDB
<1>3. ToggledNext' => \E old \in AccountDB :
        /\ Restores(old, NextEnd', backups', account'[CalcDB'])
        /\ Follows(old, account'[QueryDB'], info'.calcDone, data', torn')
  BY <1>1, <1>2 DEF GenerationsFollow
<1>4. ~ToggledNext' /\ ~Pending' =>
        Follows(account'[QueryDB'], account'[CalcDB'], info'.calcDone, data', torn')
  BY <1>1, <1>2 DEF GenerationsFollow
<1>5. ~ToggledNext' /\ info'.prevCalcDone < info'.calcDone /\ ~(Pending' /\ info'.toggleBH = tip') =>
        \E old \in AccountDB :
           /\ Restores(old, info'.calcDone, backups', account'[CalcDB'])
           /\ Follows(old, account'[QueryDB'], info'.prevCalcDone, data', torn')
  BY <1>1, <1>2 DEF GenerationsFollow
<1>6. Pending' /\ info'.toggleBH = tip' =>
        Follows(account'[QueryDB'], account'[CalcDB'], info'.prevCalcDone, data', torn')
  BY <1>1, <1>2 DEF GenerationsFollow
<1> QED
  BY <1>3, <1>4, <1>5, <1>6 DEF GenerationsFollow

LEMMA QuietGenerations ==
    ASSUME CalculateInv, Answers, Turns, GenerationsFollow,
           \/ Dispatch \/ GetChannel \/ ReloadIISSData \/ Crash
           \/ DropRequest \/ CancelCalculation \/ LoadNothing \/ RefuseHeight
           \/ SetCalculatingBH
           \/ EndReset \/ EndAccounts \/ EndTX \/ EndBlockProduce \/ EndPRep
           \/ \E s \in calc.shards : KeepShard(s)
           \/ WriteCalculationResult \/ CleanupIISSData
           \/ NotifyRollback \/ CheckAccountDBRollback \/ DeleteCalculationResult
    PROVE  GenerationsFollow'
<1>1. Types /\ info.calcDone \in Height /\ calc.height \in Height
  BY NumberTypes DEF CalculateInv
<1>2. UNCHANGED <<account, backups, tip, rollingBack, data>>
  BY DEF Dispatch, GetChannel, ReloadIISSData, Crash, DropRequest, CancelCalculation, LoadNothing,
         RefuseHeight, SetCalculatingBH, EndReset, EndAccounts, EndTX, EndBlockProduce, EndPRep,
         KeepShard, WriteCalculationResult, CleanupIISSData, NotifyRollback,
         CheckAccountDBRollback, DeleteCalculationResult, dbVars, faults, isVars
<1>3. torn => torn'
  <2>1. CASE Crash
    BY <2>1 DEF Crash
  <2>2. CASE ~Crash
    <3>1. UNCHANGED torn
      BY <2>2 DEF Dispatch, GetChannel, ReloadIISSData, DropRequest, CancelCalculation, LoadNothing,
                 RefuseHeight, SetCalculatingBH, EndReset, EndAccounts, EndTX, EndBlockProduce, EndPRep,
                 KeepShard, WriteCalculationResult, CleanupIISSData, NotifyRollback,
                 CheckAccountDBRollback, DeleteCalculationResult, faults
    <3> QED
      BY <3>1
  <2> QED
    BY <2>1, <2>2
<1>4. \/ UNCHANGED info
      \/ info' = [info EXCEPT !.calculating = info.calcDone]
      \/ info' = [info EXCEPT !.calculating = calc.height]
  BY DEF Dispatch, GetChannel, ReloadIISSData, Crash, DropRequest, CancelCalculation, LoadNothing,
         RefuseHeight, SetCalculatingBH, EndReset, EndAccounts, EndTX, EndBlockProduce, EndPRep,
         KeepShard, WriteCalculationResult, CleanupIISSData, NotifyRollback,
         CheckAccountDBRollback, DeleteCalculationResult, dbVars
<1>5. /\ info'.calcDone = info.calcDone /\ info'.prevCalcDone = info.prevCalcDone
      /\ info'.toggleBH = info.toggleBH /\ info'.queryDB = info.queryDB
  BY <1>1, <1>4, CalculatingSet
<1> QED
  BY <1>2, <1>3, <1>5, GenerationsKept

(* One entry of the calculate DB is written. *)
LEMMA OneEntry ==
    ASSUME Types, NEW a \in Address, NEW x, account' = [account EXCEPT ![CalcDB][a] = x]
    PROVE  /\ account'[QueryDB] = account[QueryDB]
           /\ \A b \in Address : account'[CalcDB][b] = IF b = a THEN x ELSE account[CalcDB][b]
<1>1. /\ account \in [{0, 1} -> AccountDB] /\ CalcDB \in {0, 1} /\ QueryDB \in {0, 1}
      /\ CalcDB # QueryDB
  BY AccountDBs DEF Types
<1> HIDE DEF QueryDB, CalcDB
<1>2. account[CalcDB] \in AccountDB
  BY <1>1
<1>3. account' = [account EXCEPT ![CalcDB] = [account[CalcDB] EXCEPT ![a] = x]]
  OBVIOUS
<1>4. account'[QueryDB] = account[QueryDB]
      /\ account'[CalcDB] = [account[CalcDB] EXCEPT ![a] = x]
  BY <1>1, <1>3
<1> QED
  BY <1>2, <1>4 DEF AccountDB

(* A pass over the accounts fills the calculate DB. *)
Fill == CalculateIISSTX \/ \E a \in calc.addrs : CalculateDB(a) \/ AddReward(a)
LEMMA FillSteps ==
    ASSUME CalculateInv, Fill
    PROVE  /\ calc.phase \in Filling /\ UNCHANGED <<info, backups, torn, tip, rollingBack, data>>
           /\ account'[QueryDB] = account[QueryDB]
<1>1. Types /\ calc.addrs \subseteq Address /\ Heights
  BY DEF CalculateInv, Types, CalcRecord
<1>2. calc.phase \in Filling /\ UNCHANGED <<info, backups, torn, tip, rollingBack, data>>
  BY DEF Fill, CalculateIISSTX, CalculateDB, AddReward, Filling, faults, isVars
<1>3. ASSUME NEW a \in calc.addrs, CalculateDB(a) PROVE account'[QueryDB] = account[QueryDB]
  <2>1. \/ account' = account
        \/ account' = [account EXCEPT ![CalcDB][a] =
                          CalculateIScore(account[QueryDB][a], calc.height)]
    BY <1>3 DEF CalculateDB
  <2> QED
    BY <1>1, <2>1, OneEntry
<1>4. ASSUME NEW a \in calc.addrs, AddReward(a) PROVE account'[QueryDB] = account[QueryDB]
  <2>1. account' = [account EXCEPT ![CalcDB][a] = Rewarded(account[CalcDB][a], calc.height)]
    BY <1>4 DEF AddReward
  <2> QED
    BY <1>1, <2>1, OneEntry
<1>5. ASSUME CalculateIISSTX PROVE account'[QueryDB] = account[QueryDB]
  <2> DEFINE tx == calc.iiss.txs[calc.next]
  <2>1. calc.iiss \in IISSData /\ calc.next \in Nat /\ calc.next > 0
        /\ calc.next <= Len(calc.iiss.txs)
    BY <1>1, <1>5 DEF CalculateIISSTX, Types, CalcRecord, Heights, Active, Filling,
                      CalculateInv, Whole
  <2>2. tx.addr \in Address
    <3>1. calc.iiss.txs \in Seq(DelegateTX)
      BY <2>1, DataIsRecord DEF DataRecord
    <3>2. tx \in DelegateTX
      BY <2>1, <3>1
    <3> QED
      BY <3>2 DEF DelegateTX
  <2>3. \/ account' = account
        \/ account' = [account EXCEPT ![CalcDB][tx.addr] =
                          Delegated(account[CalcDB][tx.addr], tx, calc.height)]
    BY <1>5 DEF CalculateIISSTX
  <2> HIDE DEF tx
  <2> QED
    BY <1>1, <2>2, <2>3, OneEntry
<1> QED
  BY <1>2, <1>3, <1>4, <1>5 DEF Fill

(* All shards are backed up then, and what the calculate DB has is not needed. *)
LEMMA FillGenerations ==
    ASSUME CalculateInv, Answers, GenerationsFollow, Fill
    PROVE  GenerationsFollow'
<1>1. /\ calc.phase \in Filling /\ UNCHANGED <<info, backups, torn, tip, rollingBack, data>>
      /\ account'[QueryDB] = account[QueryDB]
  BY FillSteps
<1>2. /\ NextEnd' = NextEnd /\ ToggledNext' = ToggledNext /\ Pending' = Pending
      /\ QueryDB' = QueryDB /\ CalcDB' = CalcDB
  BY <1>1 DEF NextEnd, ToggledNext, Pending, QueryDB, CalcDB
<1>3. ToggledNext /\ ~Pending /\ calc.height = NextEnd
  <2>1. calc.phase \in Active /\ calc.phase # "idle"
    BY <1>1 DEF Active, Filling
  <2> QED
    BY <2>1, Running DEF CalculateInv, Heights
<1>4. \A a \in Address : BackedUpAt(backups, ShardOf[a], NextEnd)
  <2>1. \A a \in Address : ShardOf[a] \in Shard
    BY CalculateAssumption
  <2>2. AllBackedUp /\ \A f \in backups : f.height = NextEnd
    BY <1>1, <1>3 DEF CalculateInv, Generations
  <2> QED
    BY <2>1, <2>2 DEF AllBackedUp, BackedUp, BackedUpAt
<1> HIDE DEF QueryDB, CalcDB
<1>5. PICK old \in AccountDB : /\ Restores(old, NextEnd, backups, account[CalcDB])
                               /\ Follows(old, account[QueryDB], info.calcDone, data, torn)
  BY <1>3 DEF GenerationsFollow
<1>6. Restores(old, NextEnd, backups, account'[CalcDB])
  BY <1>4, <1>5 DEF Restores
<1>7. /\ Restores(old, NextEnd', backups', account'[CalcDB'])
      /\ Follows(old, account'[QueryDB'], info'.calcDone, data', torn')
  BY <1>1, <1>2, <1>5, <1>6
<1> QED
  BY <1>2, <1>3, <1>7 DEF GenerationsFollow

(* The account DBs change places: what was calculated is served, and what was *)
(* served is backed up.                                                       *)
LEMMA ToggleGenerations ==
    ASSUME CalculateInv, Answers, Turns, GenerationsFollow, ToggleAccountDB
    PROVE  GenerationsFollow'
<1>1. Types /\ Heights
  BY DEF CalculateInv
<1>2. /\ calc.phase = "check" /\ calc.height > info.calcDone
      /\ info' = Toggled(calc.height + 1)
      /\ UNCHANGED <<account, backups, torn, tip, rollingBack, data>>
  BY DEF ToggleAccountDB, faults, isVars
<1>3. calc.height = NextEnd /\ ~Pending
  BY <1>1, <1>2, CheckedIsNext, Running
<1>4. /\ info'.calculating = info.calculating /\ info'.calcDone = info.calcDone
      /\ info'.prevCalcDone = info.prevCalcDone /\ info'.toggleBH = NextEnd + 1
      /\ info'.queryDB = IF ToggledNext THEN info.queryDB ELSE 1 - info.queryDB
  <2>1. calc.height + 1 \in Nat
    BY Ends
  <2> QED
    BY <1>1, <1>2, <1>3, <2>1, ToggleSet DEF ToggledNext
<1>5. NextEnd' = NextEnd /\ ToggledNext' /\ ~Pending'
  BY <1>2, <1>3, <1>4 DEF NextEnd, ToggledNext, Pending
<1>6. CASE ToggledNext
  BY <1>2, <1>4, <1>6, GenerationsKept DEF ToggledNext
<1>7. CASE ~ToggledNext
  <2>1. QueryDB' = CalcDB /\ CalcDB' = QueryDB
    BY <1>1, <1>4, <1>7, AccountDBs DEF QueryDB, CalcDB
  <2>2. account[QueryDB] \in AccountDB
    BY <1>1, AccountDBs DEF Types
  <2> HIDE DEF QueryDB, CalcDB
  <2>3. Follows(account[QueryDB], account[CalcDB], info.calcDone, data, torn)
    BY <1>3, <1>7 DEF GenerationsFollow
  <2>4. \A f \in backups : f.height # NextEnd
    <3>1. \A f \in backups : f.height = info.calcDone
      BY <1>7 DEF CalculateInv, Generations, Old
    <3> QED
      BY <3>1, Ends
  <2>5. Restores(account[QueryDB], NextEnd, backups, account[QueryDB])
    BY <2>4 DEF Restores
  <2>6. \E old \in AccountDB :
          /\ Restores(old, NextEnd', backups', account'[CalcDB'])
          /\ Follows(old, account'[QueryDB'], info'.calcDone, data', torn')
    BY <1>2, <1>4, <1>5, <2>1, <2>2, <2>3, <2>5
  <2> QED
    BY <1>5, <2>6 DEF GenerationsFollow
<1> QED
  BY <1>6, <1>7

(* The old backups go, and each shard of the old query DB is backed up. *)
LEMMA ResetGenerations ==
    ASSUME CalculateInv, Answers, GenerationsFollow,
           DeleteOldBackups \/ \E s \in calc.shards : RenameShard(s)
    PROVE  GenerationsFollow'
<1>1. Types /\ Heights
  BY DEF CalculateInv
<1>2. /\ calc.phase \in {"purge", "reset"}
      /\ UNCHANGED <<info, torn, tip, rollingBack, data>>
  BY DEF DeleteOldBackups, RenameShard, faults, isVars
<1>3. ToggledNext /\ ~Pending /\ calc.height = NextEnd
  <2>1. calc.phase \in Active /\ calc.phase # "idle"
    BY <1>2 DEF Active
  <2> QED
    BY <1>1, <2>1, Running DEF Heights
<1>4. /\ NextEnd' = NextEnd /\ ToggledNext' = ToggledNext /\ Pending' = Pending
      /\ QueryDB' = QueryDB /\ CalcDB' = CalcDB
  BY <1>2 DEF NextEnd, ToggledNext, Pending, QueryDB, CalcDB
<1>5. PICK old \in AccountDB : /\ Restores(old, NextEnd, backups, account[CalcDB])
                               /\ Follows(old, account[QueryDB], info.calcDone, data, torn)
  BY <1>3 DEF GenerationsFollow
<1>6. account'[QueryDB] = account[QueryDB]
      /\ Restores(old, NextEnd, backups', account'[CalcDB])
  <2>1. CASE DeleteOldBackups
    <3>1. backups' = {f \in backups : f.height # info.calcDone} /\ UNCHANGED account
      BY <2>1 DEF DeleteOldBackups
    <3>2. NextEnd # info.calcDone
      BY Ends
    <3>3. \A f : f.height = NextEnd => (f \in backups' <=> f \in backups)
      BY <3>1, <3>2
    <3> HIDE DEF QueryDB, CalcDB
    <3> QED
      BY <1>5, <3>1, <3>3 DEF Restores, BackedUpAt
  <2>2. ASSUME NEW s \in calc.shards, RenameShard(s)
        PROVE  account'[QueryDB] = account[QueryDB]
               /\ Restores(old, NextEnd, backups', account'[CalcDB])
    <3> DEFINE saved == ShardOfDB(account[CalcDB], s)
               b == [height |-> calc.height, shard |-> s, accounts |-> saved]
               none == ShardOfDB(EmptyDB, s)
    <3>1. /\ ~BackupExists(s) /\ backups' = backups \cup {b}
          /\ account' = [account EXCEPT ![CalcDB] = Overwrite(@, none)]
      BY <2>2 DEF RenameShard
    <3>2. s \in Shard
      BY <1>1 DEF Types, CalcRecord
    <3>3. \A a \in Address : ShardOf[a] = s =>
            a \in InShard(s) /\ saved[a] = account[CalcDB][a]
      BY DEF InShard, ShardOfDB
    <3>4. none \in [InShard(s) -> IScoreAccount \cup {NoAccount}]
      BY DEF ShardOfDB, EmptyDB, InShard
    <3>5. /\ account'[QueryDB] = account[QueryDB]
          /\ \A a \in Address :
               account'[CalcDB][a] = IF ShardOf[a] = s THEN none[a] ELSE account[CalcDB][a]
      <4> HIDE DEF none
      <4> QED
        BY <1>1, <3>1, <3>2, <3>4, Overwritten
    <3>6. ~BackedUpAt(backups, s, NextEnd)
      BY <1>3, <3>1 DEF BackupExists, BackedUpAt
    <3> HIDE DEF QueryDB, CalcDB, saved, none
    <3>7. b.height = NextEnd /\ b.shard = s /\ b.accounts = saved
      BY <1>3
    <3> HIDE DEF b
    <3>8. ASSUME NEW a \in Address, ShardOf[a] = s
          PROVE  /\ \A f \in backups' : f.height = NextEnd /\ f.shard = ShardOf[a] =>
                       f.accounts[a] = old[a]
                 /\ BackedUpAt(backups', ShardOf[a], NextEnd)
      <4>1. account[CalcDB][a] = old[a]
        BY <1>5, <3>6, <3>8 DEF Restores
      <4>2. \A f \in backups : ~(f.height = NextEnd /\ f.shard = s)
        BY <3>6 DEF BackedUpAt
      <4>3. b.accounts[a] = old[a]
        BY <3>3, <3>7, <3>8, <4>1
      <4> QED
        BY <3>1, <3>7, <3>8, <4>2, <4>3 DEF BackedUpAt
    <3>9. ASSUME NEW a \in Address, ShardOf[a] # s
          PROVE  /\ \A f \in backups' : f.height = NextEnd /\ f.shard = ShardOf[a] =>
                       f.accounts[a] = old[a]
                 /\ ~BackedUpAt(backups', ShardOf[a], NextEnd) => account'[CalcDB][a] = old[a]
      <4>1. \A f \in backups' : f.shard = ShardOf[a] => f \in backups
        BY <3>1, <3>7, <3>9
      <4>2. BackedUpAt(backups, ShardOf[a], NextEnd) => BackedUpAt(backups', ShardOf[a], NextEnd)
        BY <3>1 DEF BackedUpAt
      <4>3. account'[CalcDB][a] = account[CalcDB][a]
        BY <3>5, <3>9
      <4> QED
        BY <1>5, <4>1, <4>2, <4>3 DEF Restores
    <3> QED
      BY <3>5, <3>8, <3>9 DEF Restores
  <2> QED
    BY <2>1, <2>2
<1> HIDE DEF QueryDB, CalcDB
<1>7. /\ Restores(old, NextEnd', backups', account'[CalcDB'])
      /\ Follows(old, account'[QueryDB'], info'.calcDone, data', torn')
  BY <1>2, <1>4, <1>5, <1>6
<1> QED
  BY <1>3, <1>4, <1>7 DEF GenerationsFollow

(* What the rewards of a whole term make of a generation is the next one. *)
LEMMA NextFollows ==
    ASSUME NEW q \in AccountDB, NEW c \in AccountDB, NEW h \in Height, NEW D, NEW t,
           h >= Term, D[h] \in DataRecord,
           \A a \in Address : At(q[a], h - Term) /\ At(c[a], h),
           Adding(c, q, h, D[h], t),
           ~t => q = Gen(D, h - Term) /\ Solvent(q) /\ Solvent(c)
    PROVE  Follows(q, c, h, D, t)
<1>1. ASSUME ~t PROVE c = Gen(D, h)
  <2>1. Gen(D, h) = NextAccounts(q, D[h], h)
    BY <1>1, NextGen
  <2>2. \A a \in Address : c[a] = NextAccounts(q, D[h], h)[a]
    BY <1>1 DEF Adding
  <2>3. c = [a \in Address |-> c[a]]
    BY DEF AccountDB
  <2>4. NextAccounts(q, D[h], h) = [a \in Address |-> NextAccounts(q, D[h], h)[a]]
    BY Zenon DEF NextAccounts
  <2> QED
    BY <2>1, <2>2, <2>3, <2>4
<1>2. \A a \in Address : q[a] # NoAccount => c[a] = NextAccounts(q, D[h], h)[a]
  BY DEF Adding
<1> QED
  BY <1>1, <1>2 DEF Follows

(* The accounts of the query DB are of the last calculation while the next runs. *)
LEMMA QueryAt ==
    ASSUME CalculateInv, GenerationsFollow, ToggledNext
    PROVE  \A a \in Address : At(account[QueryDB][a], info.calcDone)
BY DEF GenerationsFollow, Follows

(* A generation is finished. *)
LEMMA DoneGenerations ==
    ASSUME CalculateInv, Answers, Turns, GenerationsFollow, Progress, SetCalcDoneBH
    PROVE  GenerationsFollow'
<1>1. Types /\ Heights /\ calc \in CalcRecord /\ calc.height \in Height
  BY NumberTypes DEF CalculateInv, Types
<1>2. /\ calc.phase = "done" /\ UNCHANGED <<account, backups, torn, tip, rollingBack, data>>
      /\ info' = [info EXCEPT !.prevCalcDone = info.calcDone, !.calcDone = calc.height]
  BY DEF SetCalcDoneBH, faults, isVars
<1>3. /\ calc.height = NextEnd /\ ToggledNext /\ ~Pending /\ ~rollingBack
      /\ calc.phase \in Active /\ calc.phase \in AddingPhases /\ calc.phase \in Filling
  BY <1>1, <1>2, Running DEF Heights, Active, Filling, AddingPhases
<1>4. /\ info'.calcDone = NextEnd /\ info'.prevCalcDone = info.calcDone
      /\ info'.toggleBH = NextEnd + 1 /\ info'.queryDB = info.queryDB
  BY <1>1, <1>2, <1>3, CalcDoneSet DEF ToggledNext
<1>5. /\ NextEnd' = NextEnd + Term /\ ~ToggledNext' /\ ~Pending'
      /\ QueryDB' = QueryDB /\ CalcDB' = CalcDB
  BY <1>2, <1>3, <1>4, Ends DEF NextEnd, ToggledNext, Pending, QueryDB, CalcDB
<1>6. account[QueryDB] \in AccountDB /\ account[CalcDB] \in AccountDB
      /\ QueryDB \in {0, 1} /\ CalcDB \in {0, 1}
  BY <1>1, AccountDBs DEF Types
<1>7. \A a \in Address : At(account[CalcDB][a], NextEnd)
  BY <1>3, FilledAt
<1> HIDE DEF QueryDB, CalcDB
<1>8. PICK old \in AccountDB : /\ Restores(old, NextEnd, backups, account[CalcDB])
                               /\ Follows(old, account[QueryDB], info.calcDone, data, torn)
  BY <1>3 DEF GenerationsFollow
<1>9. Follows(account[QueryDB], account[CalcDB], NextEnd, data, torn)
  <2>1. NextEnd \in Height /\ NextEnd >= Term /\ NextEnd - Term = info.calcDone
    BY <1>1, <1>3, Ends
  <2>2. calc.iiss = data[NextEnd] /\ calc.iiss \in IISSData
    BY <1>1, <1>3 DEF Turns, Input, Heights, CalcRecord
  <2>3. data[NextEnd] \in DataRecord
    BY <2>2, DataIsRecord
  <2>4. \A a \in Address : At(account[QueryDB][a], NextEnd - Term) /\ At(account[CalcDB][a], NextEnd)
    BY <1>7, <1>8, <2>1 DEF Follows
  <2>5. Added(calc) = data[NextEnd]
    BY <1>2, <2>2 DEF Added
  <2>6. Adding(account[CalcDB], account[QueryDB], NextEnd, data[NextEnd], torn)
    BY <1>3, <2>5 DEF Progress
  <2>7. ~torn => /\ account[QueryDB] = Gen(data, NextEnd - Term)
                 /\ Solvent(account[QueryDB]) /\ Solvent(account[CalcDB])
    BY <1>6, <1>8, <2>1 DEF Follows, Progress
  <2> QED
    BY <1>6, <2>1, <2>3, <2>4, <2>6, <2>7, NextFollows
<1>10. Follows(account'[QueryDB'], account'[CalcDB'], info'.calcDone, data', torn')
  BY <1>2, <1>4, <1>5, <1>9
<1>11. /\ Restores(old, info'.calcDone, backups', account'[CalcDB'])
       /\ Follows(old, account'[QueryDB'], info'.prevCalcDone, data', torn')
  BY <1>2, <1>4, <1>5, <1>8
<1> QED
  BY <1>5, <1>10, <1>11 DEF GenerationsFollow

(* A backup is put back. *)
LEMMA RestoreGenerations ==
    ASSUME CalculateInv, Answers, Turns, GenerationsFollow, NEW f \in backups, RestoreShard(f)
    PROVE  GenerationsFollow'
<1>1. Types /\ BackupRecord(f)
  BY DEF CalculateInv, Types
<1>2. /\ rollback = "rename" /\ backups' = backups \ {f}
      /\ account' = [account EXCEPT ![CalcDB] = Overwrite(@, f.accounts)]
      /\ UNCHANGED <<info, torn, tip, rollingBack, data>>
  BY DEF RestoreShard, faults, isVars
<1>3. Pending /\ rollingBack /\ info.toggleBH # tip
  BY <1>2 DEF CalculateInv, RollbackState
<1>4. ~ToggledNext /\ info.prevCalcDone < info.calcDone /\ f.height = info.calcDone
  <2>1. ~ToggledNext /\ info.prevCalcDone < tip /\ tip <= info.calcDone
    BY <1>3, HandlerAlone DEF Pending
  <2> QED
    BY <2>1, Ends DEF CalculateInv, Generations, Old
<1>5. /\ ToggledNext' = ToggledNext /\ Pending' = Pending
      /\ QueryDB' = QueryDB /\ CalcDB' = CalcDB
  BY <1>2 DEF NextEnd, ToggledNext, Pending, QueryDB, CalcDB
<1>6. PICK old \in AccountDB : /\ Restores(old, info.calcDone, backups, account[CalcDB])
                               /\ Follows(old, account[QueryDB], info.prevCalcDone, data, torn)
  BY <1>3, <1>4 DEF GenerationsFollow
<1>7. /\ account'[QueryDB] = account[QueryDB]
      /\ \A a \in Address :
           account'[CalcDB][a] = IF ShardOf[a] = f.shard THEN f.accounts[a] ELSE account[CalcDB][a]
  BY <1>1, <1>2, Overwritten DEF BackupRecord
<1>8. Restores(old, info.calcDone, backups', account'[CalcDB])
  <2> HIDE DEF QueryDB, CalcDB
  <2>1. \A g \in backups' : g \in backups
    BY <1>2
  <2>2. ASSUME NEW a \in Address, ~BackedUpAt(backups', ShardOf[a], info.calcDone)
        PROVE  account'[CalcDB][a] = old[a]
    <3>1. CASE ShardOf[a] = f.shard
      BY <1>4, <1>6, <1>7, <3>1 DEF Restores
    <3>2. CASE ShardOf[a] # f.shard
      <4>1. ~BackedUpAt(backups, ShardOf[a], info.calcDone)
        BY <1>2, <2>2, <3>2 DEF BackedUpAt
      <4> QED
        BY <1>6, <1>7, <3>2, <4>1 DEF Restores
    <3> QED
      BY <3>1, <3>2
  <2> QED
    BY <1>6, <2>1, <2>2 DEF Restores
<1> HIDE DEF QueryDB, CalcDB
<1>9. /\ Restores(old, info'.calcDone, backups', account'[CalcDB'])
      /\ Follows(old, account'[QueryDB'], info'.prevCalcDone, data', torn')
  BY <1>2, <1>5, <1>6, <1>7, <1>8
<1> QED
  BY <1>2, <1>3, <1>4, <1>5, <1>9 DEF GenerationsFollow

(* The generation before is served again, and the heights follow. *)
LEMMA RollbackGenerations ==
    ASSUME CalculateInv, Answers, Turns, GenerationsFollow,
           ToggleBack \/ RollbackAccountDBBlockInfo \/ AnswerRollback
    PROVE  GenerationsFollow'
<1>0. Types
  BY DEF CalculateInv
<1>1. rollingBack /\ UNCHANGED <<account, backups, torn, tip, data>>
  BY DEF ToggleBack, RollbackAccountDBBlockInfo, AnswerRollback, CalculateInv, RollbackState,
         dbVars, faults, isVars
<1>2. ~ToggledNext /\ info.prevCalcDone < tip
  BY <1>1, HandlerAlone
<1>3. CASE ToggleBack
  <2>1. /\ info' = Toggled(tip) /\ UNCHANGED rollingBack /\ Pending /\ backups = {}
    BY <1>3 DEF ToggleBack, isVars, CalculateInv, RollbackState
  <2>2. /\ info'.calculating = info.calculating /\ info'.calcDone = info.calcDone
        /\ info'.prevCalcDone = info.prevCalcDone /\ info'.toggleBH = tip
        /\ info'.queryDB = IF info.toggleBH = tip THEN info.queryDB ELSE 1 - info.queryDB
    BY <1>0, <2>1, Ends, ToggleSet
  <2>3. CASE info.toggleBH = tip
    BY <1>1, <2>1, <2>2, <2>3, GenerationsKept
  <2>4. CASE info.toggleBH # tip
    <3>1. QueryDB' = CalcDB /\ CalcDB' = QueryDB
      BY <1>0, <2>2, <2>4, AccountDBs DEF QueryDB, CalcDB
    <3>2. account[CalcDB] \in AccountDB
      BY <1>0, AccountDBs DEF Types
    <3>3. info.prevCalcDone < info.calcDone
      BY <1>2, <2>1, Ends DEF Pending
    <3> HIDE DEF QueryDB, CalcDB
    <3>4. PICK old \in AccountDB :
            /\ Restores(old, info.calcDone, backups, account[CalcDB])
            /\ Follows(old, account[QueryDB], info.prevCalcDone, data, torn)
      BY <1>2, <2>4, <3>3 DEF GenerationsFollow
    <3>5. \A a \in Address : account[CalcDB][a] = old[a]
      BY <2>1, <3>4 DEF Restores, BackedUpAt
    <3>6. account[CalcDB] = old
      BY <3>2, <3>4, <3>5 DEF AccountDB
    <3>7. Follows(account'[QueryDB'], account'[CalcDB'], info'.prevCalcDone, data', torn')
      BY <1>1, <2>2, <3>1, <3>4, <3>6
    <3>8. NextEnd' = NextEnd /\ ~ToggledNext' /\ Pending' /\ info'.toggleBH = tip'
      BY <1>1, <2>1, <2>2, Ends DEF NextEnd, ToggledNext, Pending
    <3> QED
      BY <3>7, <3>8 DEF GenerationsFollow
  <2> QED
    BY <2>3, <2>4
<1>4. CASE RollbackAccountDBBlockInfo
  <2>1. /\ info'.calcDone = info.prevCalcDone /\ info'.prevCalcDone = info.prevCalcDone
        /\ info'.toggleBH = info.toggleBH /\ info'.queryDB = info.queryDB
    BY <1>0, <1>4, CalcDoneBack
  <2>2. UNCHANGED rollingBack /\ Pending /\ info.toggleBH = tip
    BY <1>4 DEF RollbackAccountDBBlockInfo, isVars, CalculateInv, RollbackState
  <2>3. tip <= info.calcDone /\ info.prevCalcDone < info.calcDone
        /\ info.calcDone = info.prevCalcDone + Term
    BY <1>2, <2>2, Ends DEF Pending
  <2>4. NextEnd' = info.calcDone /\ ~ToggledNext' /\ ~Pending'
    BY <1>1, <1>2, <2>1, <2>2, <2>3, Ends DEF NextEnd, ToggledNext, Pending
  <2>5. QueryDB' = QueryDB /\ CalcDB' = CalcDB
    BY <2>1 DEF QueryDB, CalcDB
  <2>6. ~(info'.prevCalcDone < info'.calcDone)
    BY <2>1, Ends
  <2> HIDE DEF QueryDB, CalcDB
  <2>7. Follows(account'[QueryDB'], account'[CalcDB'], info'.calcDone, data', torn')
    BY <1>1, <2>1, <2>2, <2>5 DEF GenerationsFollow
  <2> QED
    BY <2>4, <2>6, <2>7 DEF GenerationsFollow
<1>5. CASE AnswerRollback
  <2>1. rollback = "reply" /\ rollingBack' = FALSE /\ UNCHANGED info
    BY <1>5 DEF AnswerRollback, dbVars
  <2>2. ~Pending /\ ~Pending'
    BY <2>1 DEF Turns, Schedule, Pending
  <2>3. NextEnd' = NextEnd /\ ToggledNext' = ToggledNext /\ QueryDB' = QueryDB /\ CalcDB' = CalcDB
    BY <2>1 DEF NextEnd, ToggledNext, QueryDB, CalcDB
  <2> HIDE DEF QueryDB, CalcDB
  <2> QED
    BY <1>1, <1>2, <2>1, <2>2, <2>3 DEF GenerationsFollow
<1> QED
  BY <1>3, <1>4, <1>5

(* A new block or a new term is after all generations; a decision to roll back *)
(* changes none.                                                               *)
LEMMA ChainGenerations ==
    ASSUME RollbackWhileCalculating = FALSE, CalculateInv, Answers, Turns, GenerationsFollow,
           \/ AddBlock \/ \E d \in IISSData : EndTerm(d)
           \/ \E to \in Height : DecideRollback(to)
    PROVE  GenerationsFollow'
<1>0. Types /\ tip \in Nat /\ \A h \in Height : h \in Nat
  BY NumberTypes DEF CalculateInv
<1>1. ~rollingBack /\ ~Pending /\ UNCHANGED <<info, account, backups, torn>>
  BY DEF AddBlock, EndTerm, DecideRollback, Pending, dbVars, faults
<1>2. /\ NextEnd' = NextEnd /\ ToggledNext' = ToggledNext
      /\ QueryDB' = QueryDB /\ CalcDB' = CalcDB
  BY <1>1 DEF NextEnd, ToggledNext, QueryDB, CalcDB
<1>3. ~(Pending' /\ info.toggleBH = tip')
  <2>1. ASSUME NEW to \in Height, DecideRollback(to) PROVE ~(Pending' /\ info.toggleBH = tip')
    <3> SUFFICES ASSUME Pending', info.toggleBH = tip' PROVE FALSE
      OBVIOUS
    <3>1. tip' = to /\ info.prevCalcDone < to /\ to \in Nat
      BY <1>0, <2>1 DEF DecideRollback
    <3>2. to <= info.calcDone
      BY <1>1, <3>1 DEF Pending
    <3>3. info.toggleBH > info.calcDone
      BY <1>1, <3>1, <3>2, Ends DEF CalculateInv, RollbackState
    <3> QED
      BY <3>1, <3>2, <3>3, Ends
  <2>2. ASSUME AddBlock \/ \E d \in IISSData : EndTerm(d) PROVE ~Pending'
    BY <1>1, <2>2 DEF AddBlock, EndTerm, Pending
  <2> QED
    BY <2>1, <2>2
<1>4. \A h \in Height : h <= tip => data'[h] = data[h]
  <2>1. UNCHANGED data \/ \E d : data' = [data EXCEPT ![tip + 1] = d]
    BY DEF AddBlock, EndTerm, DecideRollback
  <2>2. data \in [Height -> IISSData \cup {NoData}]
    BY DEF Turns, Input
  <2>3. \A h \in Height : h <= tip => h # tip + 1
    BY <1>0
  <2> QED
    BY <2>1, <2>2, <2>3
<1>5. ASSUME NEW old, NEW new, NEW h \in Nat, h <= tip, Follows(old, new, h, data, torn)
      PROVE  Follows(old, new, h, data', torn')
  <2>1. tip <= MaxHeight
    BY <1>0, CalculateAssumption DEF Types, Height
  <2>2. \A x \in Height : x > 0 /\ x <= tip => data[x] = data'[x]
    BY <1>4
  <2>3. Follows(old, new, h, data', torn)
    BY <1>0, <1>5, <2>1, <2>2, FollowsAgrees
  <2> QED
    BY <1>1, <2>3
<1>6. info.calcDone <= tip /\ info.prevCalcDone <= tip
      /\ info.calcDone \in Nat /\ info.prevCalcDone \in Nat
  BY <1>1, Ends DEF Answers
<1> HIDE DEF QueryDB, CalcDB
<1>7. ToggledNext' => \E old \in AccountDB :
        /\ Restores(old, NextEnd', backups', account'[CalcDB'])
        /\ Follows(old, account'[QueryDB'], info'.calcDone, data', torn')
  BY <1>1, <1>2, <1>5, <1>6 DEF GenerationsFollow
<1>8. ~ToggledNext' =>
        Follows(account'[QueryDB'], account'[CalcDB'], info'.calcDone, data', torn')
  BY <1>1, <1>2, <1>5, <1>6 DEF GenerationsFollow
<1>9. ~ToggledNext' /\ info'.prevCalcDone < info'.calcDone =>
        \E old \in AccountDB :
           /\ Restores(old, info'.calcDone, backups', account'[CalcDB'])
           /\ Follows(old, account'[QueryDB'], info'.prevCalcDone, data', torn')
  BY <1>1, <1>2, <1>5, <1>6 DEF GenerationsFollow
<1> QED
  BY <1>1, <1>3, <1>7, <1>8, <1>9 DEF GenerationsFollow

LEMMA GenerationsNext ==
    ASSUME RollbackWhileCalculating = FALSE, CalculateInv, Answers, Turns, GenerationsFollow,
           Progress, [Next]_vars
    PROVE  GenerationsFollow'
<1>1. ASSUME UNCHANGED vars PROVE GenerationsFollow'
  BY <1>1, GenerationsKept DEF vars, dbVars, faults, isVars
<1>2. ASSUME CalculateStep PROVE GenerationsFollow'
  <2>1. CASE Fill
    BY <2>1, FillGenerations
  <2>2. CASE \E s \in calc.shards : RenameShard(s)
    BY <2>2, ResetGenerations
  <2>3. CASE \E s \in calc.shards : KeepShard(s)
    BY <2>3, QuietGenerations
  <2> QED
    BY <1>2, <2>1, <2>2, <2>3, QuietGenerations, ToggleGenerations, ResetGenerations,
       DoneGenerations DEF CalculateStep, Fill
<1>3. ASSUME RollbackStep PROVE GenerationsFollow'
  BY <1>3, QuietGenerations, RestoreGenerations, RollbackGenerations DEF RollbackStep
<1> QED
  BY <1>1, <1>2, <1>3, QuietGenerations, ChainGenerations DEF Next

-----------------------------------------------------------------------------
(* Each step keeps what a calculation has done so far. *)

(* Steps that leave the account DBs alone. *)
SameDBs ==
    /\ UNCHANGED <<account, backups>>
    /\ info'.calcDone = info.calcDone /\ info'.toggleBH = info.toggleBH
    /\ info'.queryDB = info.queryDB

LEMMA UntouchedKept ==
    ASSUME Progress, SameDBs, torn => torn',
           calc.phase \in AddingPhases => torn'
    PROVE  /\ ToggledNext' /\ ~torn' =>
                Untouched(account'[CalcDB'], account'[QueryDB'], NextEnd', backups')
           /\ ~torn' => Solvent(account'[0]) /\ Solvent(account'[1])
<1>1. /\ NextEnd' = NextEnd /\ ToggledNext' = ToggledNext
      /\ QueryDB' = QueryDB /\ CalcDB' = CalcDB
  BY DEF SameDBs, NextEnd, ToggledNext, QueryDB, CalcDB
<1> HIDE DEF QueryDB, CalcDB
<1> QED
  BY <1>1 DEF SameDBs, Progress

(* A goroutine that starts, loads its data or ends. *)
LEMMA IdleProgress ==
    ASSUME Progress, SameDBs, torn => torn',
           calc.phase \in AddingPhases => torn',
           calc'.phase \notin AddingPhases \cup {"accounts"}
    PROVE  Progress' /\ PassOK'
<1>1. PassOK'
  BY DEF PassOK, AddingPhases
<1>2. /\ ToggledNext' /\ ~torn' =>
           Untouched(account'[CalcDB'], account'[QueryDB'], NextEnd', backups')
      /\ ~torn' => Solvent(account'[0]) /\ Solvent(account'[1])
  BY UntouchedKept
<1> QED
  BY <1>1, <1>2 DEF Progress

(* Steps of others than the goroutine. *)
LEMMA SameProgress ==
    ASSUME Progress, PassOK, SameDBs, UNCHANGED <<calc, torn>>
    PROVE  Progress' /\ PassOK'
<1>1. /\ NextEnd' = NextEnd /\ ToggledNext' = ToggledNext
      /\ QueryDB' = QueryDB /\ CalcDB' = CalcDB
  BY DEF SameDBs, NextEnd, ToggledNext, QueryDB, CalcDB
<1> HIDE DEF QueryDB, CalcDB
<1> QED
  BY <1>1 DEF SameDBs, Progress, PassOK

LEMMA QuietProgress ==
    ASSUME CalculateInv, Answers, Turns, Progress,
           \/ Dispatch \/ GetChannel \/ ReloadIISSData \/ Crash
           \/ DropRequest \/ CancelCalculation \/ LoadNothing \/ RefuseHeight
           \/ SetCalculatingBH
           \/ \E s \in calc.shards : KeepShard(s)
           \/ WriteCalculationResult \/ CleanupIISSData
    PROVE  Progress' /\ PassOK'
<1>1. Types /\ info.calcDone \in Height /\ calc.height \in Height /\ calc \in CalcRecord
      /\ tip \in Height /\ info.calculating \in Height
  BY NumberTypes DEF CalculateInv, Types
<1>2. UNCHANGED <<account, backups>>
  BY DEF Dispatch, GetChannel, ReloadIISSData, Crash, DropRequest, CancelCalculation, LoadNothing,
         RefuseHeight, SetCalculatingBH, KeepShard, WriteCalculationResult, CleanupIISSData,
         dbVars
<1>3. \/ UNCHANGED info
      \/ info' = [info EXCEPT !.calculating = info.calcDone]
      \/ info' = [info EXCEPT !.calculating = calc.height]
  BY DEF Dispatch, GetChannel, ReloadIISSData, Crash, DropRequest, CancelCalculation, LoadNothing,
         RefuseHeight, SetCalculatingBH, KeepShard, WriteCalculationResult, CleanupIISSData,
         dbVars
<1>4. SameDBs
  BY <1>1, <1>2, <1>3, CalculatingSet DEF SameDBs
<1>5. (torn => torn') /\ (calc.phase \in AddingPhases => torn')
  <2>1. CASE Crash
    BY <2>1 DEF Crash
  <2>2. CASE ReloadIISSData
    <3>1. calc = IdleCalc /\ UNCHANGED torn
      BY <2>2 DEF ReloadIISSData, Answers, faults
    <3> QED
      BY <3>1, Idle DEF AddingPhases
  <2>3. CASE Dispatch
    <3>1. calc = IdleCalc /\ UNCHANGED torn
      BY <2>3 DEF Dispatch, faults
    <3> QED
      BY <3>1, Idle DEF AddingPhases
  <2>4. CASE ~Crash /\ ~ReloadIISSData /\ ~Dispatch
    BY <2>4 DEF GetChannel, DropRequest, CancelCalculation, LoadNothing, RefuseHeight,
                SetCalculatingBH, KeepShard, WriteCalculationResult, CleanupIISSData,
                Loadable, faults, AddingPhases
  <2> QED
    BY <2>1, <2>2, <2>3, <2>4
<1>6. calc'.phase \in {"dispatched", "load", "check", "reset", "cleanup", "idle"}
  <2>1. CASE Dispatch
    BY <1>1, <2>1, Started DEF Dispatch
  <2>2. CASE ReloadIISSData
    BY <1>1, <2>2, Started, Idle DEF ReloadIISSData
  <2>3. CASE GetChannel \/ WriteCalculationResult
    BY <1>1, <2>3, PhaseGoes DEF GetChannel, WriteCalculationResult, CalcPhase
  <2>4. CASE SetCalculatingBH
    BY <1>1, <2>4 DEF SetCalculatingBH, CalcRecord
  <2>5. CASE \E s \in calc.shards : KeepShard(s)
    BY <1>1, <2>5 DEF KeepShard, CalcRecord
  <2>6. CASE Crash \/ DropRequest \/ CancelCalculation \/ LoadNothing \/ RefuseHeight
             \/ CleanupIISSData
    BY <2>6, Idle DEF Crash, DropRequest, CancelCalculation, LoadNothing, RefuseHeight,
                      CleanupIISSData
  <2> QED
    BY <2>1, <2>2, <2>3, <2>4, <2>5, <2>6
<1>7. calc'.phase \notin AddingPhases \cup {"accounts"}
  BY <1>6 DEF AddingPhases
<1> QED
  BY <1>4, <1>5, <1>7, IdleProgress

LEMMA OutsideProgress ==
    ASSUME CalculateInv, Answers, Turns, Progress, PassOK,
           \/ AddBlock \/ \E d \in IISSData : EndTerm(d)
           \/ \E to \in Height : DecideRollback(to)
           \/ NotifyRollback \/ CheckAccountDBRollback \/ DeleteCalculationResult
           \/ AnswerRollback
    PROVE  Progress' /\ PassOK'
<1>1. UNCHANGED <<info, account, backups, torn>>
  BY DEF AddBlock, EndTerm, DecideRollback, NotifyRollback, CheckAccountDBRollback,
         DeleteCalculationResult, AnswerRollback, dbVars, faults
<1>2. UNCHANGED calc
  <2>1. CASE NotifyRollback
    <3>1. calc = IdleCalc
      BY <2>1, HandlerAlone DEF NotifyRollback
    <3> QED
      BY <2>1, <3>1, Idle DEF NotifyRollback
  <2>2. CASE ~NotifyRollback
    BY <2>2 DEF AddBlock, EndTerm, DecideRollback, CheckAccountDBRollback,
                DeleteCalculationResult, AnswerRollback
  <2> QED
    BY <2>1, <2>2
<1> QED
  BY <1>1, <1>2, SameProgress DEF SameDBs

(* The query DB and the calculate DB are the two account DBs. *)
LEMMA BothSolvent ==
    ASSUME NEW dbs, NEW q \in {0, 1}
    PROVE  Solvent(dbs[0]) /\ Solvent(dbs[1]) <=> Solvent(dbs[q]) /\ Solvent(dbs[1 - q])
<1>1. CASE q = 0
  BY <1>1
<1>2. CASE q = 1
  BY <1>2
<1> QED
  BY <1>1, <1>2

LEMMA ToggleProgress ==
    ASSUME CalculateInv, Answers, Turns, Progress, ToggleAccountDB
    PROVE  Progress' /\ PassOK'
<1>1. Types /\ Heights
  BY DEF CalculateInv
<1>2. /\ calc.phase = "check" /\ calc.height > info.calcDone
      /\ info' = Toggled(calc.height + 1) /\ calc' = ToPhase("purge")
      /\ UNCHANGED <<account, backups, torn>>
  BY DEF ToggleAccountDB, faults
<1>3. calc.height = NextEnd
  BY <1>1, <1>2, CheckedIsNext
<1>4. /\ info'.calcDone = info.calcDone /\ info'.toggleBH = NextEnd + 1
      /\ info'.queryDB = IF ToggledNext THEN info.queryDB ELSE 1 - info.queryDB
  <2>1. calc.height + 1 \in Nat
    BY Ends
  <2> QED
    BY <1>1, <1>2, <1>3, <2>1, ToggleSet DEF ToggledNext
<1>5. calc'.phase = "purge"
  BY <1>1, <1>2, PhaseGoes DEF CalcPhase
<1>6. calc.phase \notin AddingPhases /\ calc'.phase \notin AddingPhases \cup {"accounts"}
  BY <1>2, <1>5 DEF AddingPhases
<1>7. CASE ToggledNext
  <2>1. SameDBs
    BY <1>2, <1>4, <1>7 DEF SameDBs, ToggledNext
  <2> QED
    BY <1>2, <1>6, <2>1, IdleProgress
<1>8. CASE ~ToggledNext
  <2>1. \A f \in backups : f.height # NextEnd
    <3>1. \A f \in backups : f.height = info.calcDone
      BY <1>8 DEF CalculateInv, Generations, Old
    <3> QED
      BY <3>1, Ends
  <2>2. NextEnd' = NextEnd
    BY <1>4 DEF NextEnd
  <2>3. Untouched(account'[CalcDB'], account'[QueryDB'], NextEnd', backups')
    BY <1>2, <2>1, <2>2 DEF Untouched, BackedUpAt
  <2>4. PassOK'
    BY <1>5 DEF PassOK
  <2> QED
    BY <1>2, <1>6, <2>3, <2>4 DEF Progress
<1> QED
  BY <1>7, <1>8

LEMMA ResetProgress ==
    ASSUME CalculateInv, Answers, Progress,
           DeleteOldBackups \/ \E s \in calc.shards : RenameShard(s)
    PROVE  Progress' /\ PassOK'
<1>1. Types /\ Heights /\ calc \in CalcRecord
  BY DEF CalculateInv, Types
<1>2. calc.phase \in {"purge", "reset"} /\ UNCHANGED <<info, torn>>
  BY DEF DeleteOldBackups, RenameShard, faults
<1>3. calc'.phase = "reset"
  BY <1>1 DEF DeleteOldBackups, RenameShard, CalcRecord
<1>4. /\ calc.height = NextEnd /\ ToggledNext
      /\ calc.phase \notin AddingPhases /\ calc'.phase \notin AddingPhases \cup {"accounts"}
  BY <1>1, <1>2, <1>3 DEF Heights, Active, AddingPhases
<1>5. /\ NextEnd' = NextEnd /\ ToggledNext' = ToggledNext
      /\ QueryDB' = QueryDB /\ CalcDB' = CalcDB /\ QueryDB \in {0, 1} /\ CalcDB = 1 - QueryDB
  BY <1>1, <1>2, AccountDBs DEF NextEnd, ToggledNext, QueryDB, CalcDB
<1>6. PassOK'
  BY <1>3 DEF PassOK
<1>7. CASE DeleteOldBackups
  <2>1. backups' \subseteq backups /\ UNCHANGED account
    BY <1>7 DEF DeleteOldBackups
  <2> HIDE DEF QueryDB, CalcDB
  <2>2. ~torn => Untouched(account'[CalcDB'], account'[QueryDB'], NextEnd', backups')
    BY <1>4, <1>5, <2>1 DEF Progress, Untouched, BackedUpAt
  <2> QED
    BY <1>2, <1>4, <1>6, <2>1, <2>2 DEF Progress
<1>8. ASSUME NEW s \in calc.shards, RenameShard(s) PROVE Progress' /\ PassOK'
  <2> DEFINE b == [height |-> calc.height, shard |-> s,
                   accounts |-> ShardOfDB(account[CalcDB], s)]
             none == ShardOfDB(EmptyDB, s)
  <2>1. /\ backups' = backups \cup {b}
        /\ account' = [account EXCEPT ![CalcDB] = Overwrite(@, none)]
    BY <1>8 DEF RenameShard
  <2>2. s \in Shard
    BY <1>1 DEF Types, CalcRecord
  <2>3. none \in [InShard(s) -> IScoreAccount \cup {NoAccount}]
        /\ \A a \in Address : ShardOf[a] = s => none[a] = NoAccount
    BY DEF ShardOfDB, EmptyDB, InShard
  <2> HIDE DEF none
  <2>4. /\ account'[QueryDB] = account[QueryDB]
        /\ \A a \in Address :
             account'[CalcDB][a] = IF ShardOf[a] = s THEN NoAccount ELSE account[CalcDB][a]
    <3>1. /\ account'[QueryDB] = account[QueryDB]
          /\ \A a \in Address :
               account'[CalcDB][a] = IF ShardOf[a] = s THEN none[a] ELSE account[CalcDB][a]
      BY <1>1, <2>1, <2>2, <2>3, Overwritten
    <3> HIDE DEF QueryDB, CalcDB
    <3> QED
      BY <2>3, <3>1
  <2>5. b.shard = s
    OBVIOUS
  <2> HIDE DEF b, QueryDB, CalcDB
  <2>6. ~torn => Untouched(account'[CalcDB'], account'[QueryDB'], NextEnd', backups')
    <3> SUFFICES ASSUME ~torn, NEW a \in Address, BackedUpAt(backups', ShardOf[a], NextEnd)
                 PROVE  account'[CalcDB][a] \in {NoAccount, Fresh(account'[QueryDB], NextEnd, a)}
      BY <1>5 DEF Untouched
    <3>1. CASE ShardOf[a] = s
      BY <2>4, <3>1
    <3>2. CASE ShardOf[a] # s
      <4>1. BackedUpAt(backups, ShardOf[a], NextEnd)
        BY <2>1, <2>5, <3>2 DEF BackedUpAt
      <4>2. account[CalcDB][a] \in {NoAccount, Fresh(account[QueryDB], NextEnd, a)}
        BY <1>4, <4>1 DEF Progress, Untouched
      <4> QED
        BY <2>4, <3>2, <4>2
    <3> QED
      BY <3>1, <3>2
  <2>7. ~torn => Solvent(account'[QueryDB]) /\ Solvent(account'[CalcDB])
    <3>1. ~torn => Solvent(account[QueryDB]) /\ Solvent(account[CalcDB])
      BY <1>5, BothSolvent DEF Progress
    <3> QED
      BY <2>4, <3>1 DEF Solvent
  <2>8. ~torn => Solvent(account'[0]) /\ Solvent(account'[1])
    BY <1>5, <2>7, BothSolvent
  <2> QED
    BY <1>2, <1>4, <1>6, <2>6, <2>8 DEF Progress
<1> QED
  BY <1>7, <1>8

(* The calculation is counted, or a rollback takes it back. *)
LEMMA DoneProgress ==
    ASSUME CalculateInv, Answers, Turns, Progress,
           SetCalcDoneBH \/ ToggleBack \/ RollbackAccountDBBlockInfo
    PROVE  Progress' /\ PassOK'
<1>1. Types /\ Turns'
  BY DoneTurns, RollbackTurns DEF CalculateInv
<1>2. UNCHANGED <<account, torn>>
  BY DEF SetCalcDoneBH, ToggleBack, RollbackAccountDBBlockInfo, faults
<1>3. ~ToggledNext' /\ calc'.phase \in {"result", "idle"}
  <2>1. CASE SetCalcDoneBH
    <3>1. calc'.phase = "result"
      BY <1>1, <2>1, PhaseGoes DEF SetCalcDoneBH, CalcPhase
    <3> QED
      BY <1>1, <3>1 DEF Turns, Turn
  <2>2. CASE ToggleBack \/ RollbackAccountDBBlockInfo
    <3>1. Pending
      BY <2>2 DEF ToggleBack, RollbackAccountDBBlockInfo, CalculateInv, RollbackState
    <3>2. calc = IdleCalc /\ UNCHANGED calc /\ info.calculating = info.calcDone
      BY <2>2, <3>1, HandlerAlone DEF Pending, ToggleBack, RollbackAccountDBBlockInfo
    <3>3. info'.calculating = info'.calcDone /\ info'.calcDone \in Nat
      BY <1>1, <2>2, <3>2, Ends, CalcDoneBack, ToggleSet DEF ToggleBack
    <3>4. info'.calculating # NextEnd'
      <4>1. Term \in Nat /\ Term > 0
        BY Ends
      <4> QED
        BY <3>3, <4>1 DEF NextEnd
    <3> QED
      BY <1>1, <3>2, <3>4, Idle DEF Turns, Schedule
  <2> QED
    BY <2>1, <2>2
<1>4. calc'.phase \notin AddingPhases \cup {"accounts"}
  BY <1>3 DEF AddingPhases
<1>5. PassOK'
  BY <1>3 DEF PassOK
<1> QED
  BY <1>2, <1>3, <1>4, <1>5 DEF Progress

LEMMA RestoreProgress ==
    ASSUME CalculateInv, Answers, Turns, GenerationsFollow, Progress, PassOK,
           NEW f \in backups, RestoreShard(f)
    PROVE  Progress' /\ PassOK'
<1>1. Types /\ BackupRecord(f)
  BY DEF CalculateInv, Types
<1>2. /\ rollback = "rename" /\ UNCHANGED <<info, calc, torn>>
      /\ account' = [account EXCEPT ![CalcDB] = Overwrite(@, f.accounts)]
  BY DEF RestoreShard, faults
<1>3. Pending /\ rollingBack /\ info.toggleBH # tip
  BY <1>2 DEF CalculateInv, RollbackState
<1>4. /\ ~ToggledNext /\ info.prevCalcDone < info.calcDone /\ f.height = info.calcDone
      /\ calc = IdleCalc
  <2>1. ~ToggledNext /\ info.prevCalcDone < tip /\ tip <= info.calcDone /\ calc = IdleCalc
    BY <1>3, HandlerAlone DEF Pending
  <2> QED
    BY <2>1, Ends DEF CalculateInv, Generations, Old
<1>5. ~ToggledNext' /\ calc'.phase = "idle" /\ QueryDB \in {0, 1} /\ CalcDB = 1 - QueryDB
  BY <1>1, <1>2, <1>4, Idle, AccountDBs DEF ToggledNext, NextEnd, CalcDB
<1>6. PICK old \in AccountDB : /\ Restores(old, info.calcDone, backups, account[CalcDB])
                               /\ Follows(old, account[QueryDB], info.prevCalcDone, data, torn)
  BY <1>3, <1>4 DEF GenerationsFollow
<1>7. /\ account'[QueryDB] = account[QueryDB]
      /\ \A a \in Address :
           account'[CalcDB][a] = IF ShardOf[a] = f.shard THEN f.accounts[a] ELSE account[CalcDB][a]
  BY <1>1, <1>2, Overwritten DEF BackupRecord
<1> HIDE DEF QueryDB, CalcDB
<1>8. \A a \in Address : account'[CalcDB][a] = IF ShardOf[a] = f.shard THEN old[a]
                                               ELSE account[CalcDB][a]
  BY <1>4, <1>6, <1>7 DEF Restores
<1>9. ~torn => Solvent(account'[QueryDB]) /\ Solvent(account'[CalcDB])
  <2>1. ~torn => Solvent(account[QueryDB]) /\ Solvent(account[CalcDB]) /\ Solvent(old)
    BY <1>5, <1>6, BothSolvent DEF Progress, Follows
  <2> QED
    BY <1>7, <1>8, <2>1 DEF Solvent
<1>10. ~torn => Solvent(account'[0]) /\ Solvent(account'[1])
  BY <1>5, <1>9, BothSolvent
<1>11. calc'.phase \notin AddingPhases \cup {"accounts"} /\ PassOK'
  BY <1>5 DEF AddingPhases, PassOK
<1> QED
  BY <1>2, <1>5, <1>10, <1>11 DEF Progress

-----------------------------------------------------------------------------
(* The passes. *)

(* What the passes work on. *)
LEMMA PassData ==
    ASSUME CalculateInv, Answers, GenerationsFollow, calc.phase \in {"reset"} \cup Filling
    PROVE  /\ Types /\ calc \in CalcRecord
           /\ calc.height = NextEnd /\ ToggledNext /\ NextEnd \in Height /\ NextEnd >= Term
           /\ calc.iiss \in DataRecord /\ InOrder(calc.iiss)
           /\ account[QueryDB] \in AccountDB /\ account[CalcDB] \in AccountDB
           /\ QueryDB \in {0, 1} /\ CalcDB = 1 - QueryDB
           /\ \A a \in Address : At(account[QueryDB][a], NextEnd - Term)
<1>1. Types /\ Heights /\ calc \in CalcRecord /\ calc.height \in Height
  BY NumberTypes DEF CalculateInv, Types
<1>2. calc.phase \in Active /\ calc.phase \in {"check"} \cup Active
  BY DEF Active
<1>3. calc.height = NextEnd /\ ToggledNext /\ calc.iiss # NoData
  BY <1>1, <1>2 DEF Heights
<1>4. calc.iiss \in IISSData
  BY <1>1, <1>3 DEF CalcRecord
<1>5. NextEnd >= Term /\ NextEnd - Term = info.calcDone
  BY Ends
<1>6. /\ account[QueryDB] \in AccountDB /\ account[CalcDB] \in AccountDB
      /\ QueryDB \in {0, 1} /\ CalcDB = 1 - QueryDB
  BY <1>1, AccountDBs DEF Types, CalcDB
<1>7. \A a \in Address : At(account[QueryDB][a], NextEnd - Term)
  BY <1>3, <1>5, QueryAt
<1> QED
  BY <1>1, <1>3, <1>4, <1>5, <1>6, <1>7, DataIsRecord

(* The passes begin with the accounts of the query DB. *)
LEMMA EndResetProgress ==
    ASSUME CalculateInv, Answers, GenerationsFollow, Progress, EndReset
    PROVE  Progress' /\ PassOK'
<1>1. /\ calc.phase = "reset"
      /\ calc' = [calc EXCEPT !.phase = "accounts",
                              !.addrs = {a \in Address : account[QueryDB][a] # NoAccount}]
      /\ UNCHANGED <<info, account, backups, torn>>
  BY DEF EndReset, dbVars, faults
<1>2. calc \in CalcRecord
  BY <1>1, PassData
<1>3. calc'.phase = "accounts" /\ calc'.addrs = {a \in Address : account[QueryDB][a] # NoAccount}
  BY <1>1, <1>2 DEF CalcRecord
<1>4. SameDBs /\ calc.phase \notin AddingPhases /\ calc'.phase \notin AddingPhases
  BY <1>1, <1>3 DEF SameDBs, AddingPhases
<1>5. /\ ToggledNext' /\ ~torn' =>
           Untouched(account'[CalcDB'], account'[QueryDB'], NextEnd', backups')
      /\ ~torn' => Solvent(account'[0]) /\ Solvent(account'[1])
  BY <1>1, <1>4, UntouchedKept
<1>6. QueryDB' = QueryDB
  BY <1>1 DEF QueryDB
<1>7. Starting(account'[CalcDB'], account'[QueryDB'], NextEnd', calc'.addrs)
  <2> HIDE DEF QueryDB, CalcDB
  <2> QED
    BY <1>1, <1>3, <1>6 DEF Starting
<1>8. PassOK'
  BY <1>3 DEF PassOK
<1> QED
  BY <1>4, <1>5, <1>7, <1>8 DEF Progress

(* calculateDB starts an account afresh. *)
LEMMA CalculateDBProgress ==
    ASSUME CalculateInv, Answers, GenerationsFollow, Progress, PassOK,
           NEW a \in calc.addrs, CalculateDB(a)
    PROVE  Progress' /\ PassOK'
<1>1. /\ calc.phase = "accounts" /\ UNCHANGED <<info, backups, torn>>
      /\ account' = IF calc.height <= account[QueryDB][a].blockHeight THEN account
                    ELSE [account EXCEPT ![CalcDB][a] =
                             CalculateIScore(account[QueryDB][a], calc.height)]
      /\ calc' = [calc EXCEPT !.addrs = @ \ {a}]
  BY DEF CalculateDB, faults
<1>2. /\ Types /\ calc \in CalcRecord
      /\ calc.height = NextEnd /\ ToggledNext /\ NextEnd \in Height /\ NextEnd >= Term
      /\ calc.iiss \in DataRecord
      /\ account[QueryDB] \in AccountDB
      /\ QueryDB \in {0, 1} /\ CalcDB = 1 - QueryDB
      /\ \A b \in Address : At(account[QueryDB][b], NextEnd - Term)
  <2>1. calc.phase \in {"reset"} \cup Filling
    BY <1>1 DEF Filling
  <2> QED
    BY <2>1, PassData
<1>3. a \in Address /\ account[QueryDB][a] # NoAccount
  BY <1>1, <1>2 DEF CalcRecord, CalculateInv, Whole
<1>4. ~(calc.height <= account[QueryDB][a].blockHeight)
  <2>1. account[QueryDB][a].blockHeight = NextEnd - Term
    BY <1>2, <1>3 DEF At
  <2> QED
    BY <1>2, <2>1, Ends
<1>5. /\ account'[QueryDB] = account[QueryDB]
      /\ \A b \in Address : account'[CalcDB][b] =
            IF b = a THEN CalculateIScore(account[QueryDB][a], NextEnd) ELSE account[CalcDB][b]
  <2>1. account' = [account EXCEPT ![CalcDB][a] = CalculateIScore(account[QueryDB][a], NextEnd)]
    BY <1>1, <1>2, <1>4
  <2>2. Types /\ a \in Address
    BY <1>2, <1>3
  <2> HIDE DEF QueryDB, CalcDB
  <2> QED
    BY <2>1, <2>2, OneEntry
<1>6. /\ calc'.phase = "accounts" /\ calc'.addrs = calc.addrs \ {a}
  BY <1>1, <1>2, Listed
<1>7. /\ NextEnd' = NextEnd /\ ToggledNext' = ToggledNext
      /\ QueryDB' = QueryDB /\ CalcDB' = CalcDB
  BY <1>1 DEF NextEnd, ToggledNext, QueryDB, CalcDB
<1> HIDE DEF QueryDB, CalcDB
<1>8. CalculateIScore(account[QueryDB][a], NextEnd) = Fresh(account[QueryDB], NextEnd, a)
  BY <1>2, <1>3, FreshIs DEF Fresh
<1>9. \A b \in Address : account'[CalcDB][b] =
            IF b = a THEN Fresh(account[QueryDB], NextEnd, a) ELSE account[CalcDB][b]
  BY <1>5, <1>8
<1>10. Starting(account'[CalcDB'], account'[QueryDB'], NextEnd', calc'.addrs)
  BY <1>1, <1>5, <1>6, <1>7, <1>9 DEF Progress, Starting
<1>11. calc.phase \notin AddingPhases /\ calc'.phase \notin AddingPhases
  BY <1>1, <1>6 DEF AddingPhases
<1>12. ~torn => Untouched(account'[CalcDB'], account'[QueryDB'], NextEnd', backups')
  <2>1. ~torn => Untouched(account[CalcDB], account[QueryDB], NextEnd, backups)
    BY <1>2, <1>11 DEF Progress
  <2> QED
    BY <1>1, <1>5, <1>7, <1>9, <2>1 DEF Untouched
<1>13. ~torn => Solvent(account'[0]) /\ Solvent(account'[1])
  <2> SUFFICES ASSUME ~torn PROVE Solvent(account'[QueryDB]) /\ Solvent(account'[CalcDB])
    BY <1>2, BothSolvent
  <2>1. Solvent(account[QueryDB]) /\ Solvent(account[CalcDB])
    BY <1>2, BothSolvent DEF Progress
  <2>2. Nothing \in DataRecord
    BY <1>2, PartAll
  <2>3. Fresh(account[QueryDB], NextEnd, a) # NoAccount =>
          Fresh(account[QueryDB], NextEnd, a).iScore >= 0
    <3>1. account[QueryDB][a] # NoAccount => account[QueryDB][a].iScore >= 0
      BY <1>3, <2>1 DEF Solvent
    <3> QED
      BY <1>2, <1>3, <2>2, <3>1, NextSolvent DEF Fresh
  <2> QED
    BY <1>5, <1>9, <2>1, <2>3 DEF Solvent
<1>14. PassOK'
  BY <1>6 DEF PassOK
<1> QED
  BY <1>1, <1>6, <1>10, <1>11, <1>12, <1>13, <1>14 DEF Progress

(* What is added to a solvent database is solvent. *)
LEMMA AddingSolvent ==
    ASSUME NEW Q \in AccountDB, NEW d \in DataRecord, NEW h \in Height, NEW c, Solvent(Q),
           \A a \in Address : c[a] = NextAccounts(Q, d, h)[a]
    PROVE  Solvent(c)
<1>1. ASSUME NEW a \in Address, c[a] # NoAccount PROVE c[a].iScore >= 0
  <2>1. Q[a] # NoAccount => Q[a].iScore >= 0
    BY DEF Solvent
  <2>2. NextAccounts(Q, d, h)[a] # NoAccount => NextAccounts(Q, d, h)[a].iScore >= 0
    BY <2>1, NextSolvent
  <2> QED
    BY <1>1, <2>2
<1> QED
  BY <1>1 DEF Solvent

(* A step of the passes that add to the calculate DB keeps the progress when it
   leaves every account with what was added so far. *)
LEMMA AddingProgress ==
    ASSUME CalculateInv, Answers, GenerationsFollow, Progress, calc.phase \in Filling,
           UNCHANGED <<info, backups, torn>>, account'[QueryDB] = account[QueryDB],
           calc'.phase \in AddingPhases, Added(calc') \in DataRecord,
           Adding(account'[CalcDB], account[QueryDB], NextEnd, Added(calc'), torn)
    PROVE  Progress'
<1>1. /\ NextEnd \in Height /\ account[QueryDB] \in AccountDB
      /\ QueryDB \in {0, 1} /\ CalcDB = 1 - QueryDB
  <2>1. calc.phase \in {"reset"} \cup Filling
    OBVIOUS
  <2> QED
    BY <2>1, PassData
<1>2. NextEnd' = NextEnd /\ QueryDB' = QueryDB /\ CalcDB' = CalcDB
  BY DEF NextEnd, QueryDB, CalcDB
<1> HIDE DEF QueryDB, CalcDB
<1>3. calc'.phase # "accounts"
  BY DEF AddingPhases
<1>4. Adding(account'[CalcDB'], account'[QueryDB'], NextEnd', Added(calc'), torn')
  BY <1>2
<1>5. ASSUME ~torn PROVE Solvent(account'[0]) /\ Solvent(account'[1])
  <2>1. Solvent(account[QueryDB])
    BY <1>1, <1>5, BothSolvent DEF Progress
  <2>2. \A a \in Address : account'[CalcDB][a] = NextAccounts(account[QueryDB], Added(calc'), NextEnd)[a]
    BY <1>5 DEF Adding
  <2>3. Solvent(account'[CalcDB])
    BY <1>1, <2>1, <2>2, AddingSolvent
  <2> QED
    BY <1>1, <2>1, <2>3, BothSolvent
<1> QED
  BY <1>3, <1>4, <1>5 DEF Progress

(* Nothing is added yet when the delegation transactions begin. *)
LEMMA EndAccountsProgress ==
    ASSUME CalculateInv, Answers, GenerationsFollow, Progress, EndAccounts
    PROVE  Progress' /\ PassOK'
<1>1. /\ calc.phase = "accounts" /\ calc.addrs = {}
      /\ calc' = [calc EXCEPT !.phase = "tx", !.next = 1]
      /\ UNCHANGED <<info, account, backups, torn>>
  BY DEF EndAccounts, dbVars, faults
<1>2. calc.phase \in {"reset"} \cup Filling /\ calc.phase \in Filling
  BY <1>1 DEF Filling
<1>3. /\ Types /\ calc \in CalcRecord /\ ToggledNext
      /\ calc.height = NextEnd /\ NextEnd \in Height
      /\ calc.iiss \in DataRecord
      /\ account[QueryDB] \in AccountDB
      /\ \A a \in Address : At(account[QueryDB][a], NextEnd - Term)
  BY <1>2, PassData
<1>4. calc'.phase = "tx" /\ calc'.next = 1 /\ calc'.iiss = calc.iiss
  BY <1>1, <1>3 DEF CalcRecord
<1>5. Len(calc.iiss.txs) \in Nat /\ Part(calc.iiss, 0, {}, {}) = Nothing /\ Nothing \in DataRecord
  BY <1>3, PartAll
<1>6. Added(calc') = Nothing
  <2>1. Added(calc') = Part(calc.iiss, calc'.next - 1, {}, {})
    BY <1>4 DEF Added
  <2> QED
    BY <1>4, <1>5, <2>1
<1>7. \A s \in Shard : BackedUpAt(backups, s, NextEnd)
  BY <1>1, <1>2, <1>3 DEF CalculateInv, Generations, AllBackedUp, BackedUp, BackedUpAt
<1>8. \A a \in Address : ShardOf[a] \in Shard
  BY CalculateAssumption
<1> HIDE DEF QueryDB, CalcDB
<1>9. Adding(account[CalcDB], account[QueryDB], NextEnd, Nothing, torn)
  <2> SUFFICES ASSUME NEW a \in Address, account[QueryDB][a] # NoAccount \/ ~torn
               PROVE  account[CalcDB][a] = Fresh(account[QueryDB], NextEnd, a)
    BY DEF Adding, Fresh
  <2>1. CASE account[QueryDB][a] # NoAccount
    BY <1>1, <2>1 DEF Progress, Starting
  <2>2. CASE account[QueryDB][a] = NoAccount
    <3>1. calc.phase \notin AddingPhases
      BY <1>1 DEF AddingPhases
    <3>2. account[CalcDB][a] \in {NoAccount, Fresh(account[QueryDB], NextEnd, a)}
      BY <1>3, <1>7, <1>8, <2>2, <3>1 DEF Progress, Untouched
    <3>3. Fresh(account[QueryDB], NextEnd, a) = NoAccount
      BY <1>3, <2>2, FreshIs DEF Fresh
    <3> QED
      BY <3>2, <3>3
  <2> QED
    BY <2>1, <2>2
<1>10. calc'.phase \in AddingPhases
  BY <1>4 DEF AddingPhases
<1>11. Added(calc') \in DataRecord
  BY <1>5, <1>6
<1>12. Adding(account'[CalcDB], account[QueryDB], NextEnd, Added(calc'), torn)
  BY <1>1, <1>6, <1>9
<1>13. Progress'
  BY <1>1, <1>2, <1>10, <1>11, <1>12, AddingProgress
<1>14. PassOK'
  BY <1>4, <1>5 DEF PassOK
<1> QED
  BY <1>13, <1>14

(* The next pass begins with what the one before added. *)
LEMMA NextPassProgress ==
    ASSUME CalculateInv, Answers, GenerationsFollow, Progress, PassOK,
           EndTX \/ EndBlockProduce \/ EndPRep
    PROVE  Progress' /\ PassOK'
<1>1. /\ UNCHANGED <<info, account, backups, torn>>
      /\ calc.phase \in {"tx", "bp", "prep"}
  BY DEF EndTX, EndBlockProduce, EndPRep, dbVars, faults
<1>2. calc.phase \in {"reset"} \cup Filling /\ calc.phase \in Filling /\ calc.phase \in AddingPhases
  BY <1>1 DEF Filling, AddingPhases
<1>3. calc \in CalcRecord /\ calc.iiss \in DataRecord /\ Types
  BY <1>2, PassData
<1>4. /\ Len(calc.iiss.txs) \in Nat
      /\ Part(calc.iiss, Len(calc.iiss.txs), calc.iiss.producers, calc.iiss.preps) = calc.iiss
      /\ calc.iiss.producers \subseteq Address /\ calc.iiss.preps \subseteq Address
  BY <1>3, PartAll DEF DataRecord
<1>5. calc'.phase \in AddingPhases /\ Added(calc') = Added(calc) /\ PassOK'
      /\ Added(calc) \in DataRecord
  <2> DEFINE n == Len(calc.iiss.txs)
             P == calc.iiss.producers
             R == calc.iiss.preps
  <2>0. /\ Part(calc.iiss, n, {}, {}) \in DataRecord
        /\ Part(calc.iiss, n, P, {}) \in DataRecord
    <3>1. n \in 0 .. Len(calc.iiss.txs)
      BY <1>4
    <3>2. {} \in SUBSET Address /\ P \in SUBSET Address
      BY <1>4
    <3> HIDE DEF n, P
    <3> QED
      BY <1>3, <3>1, <3>2, PartIs
  <2>1. CASE EndTX
    <3>1. /\ calc.phase = "tx" /\ calc.next > n
          /\ calc' = [calc EXCEPT !.phase = "bp", !.addrs = calc.iiss.producers]
      BY <2>1 DEF EndTX
    <3>2. calc'.phase = "bp" /\ calc'.addrs = P /\ calc'.iiss = calc.iiss
      BY <1>3, <3>1 DEF CalcRecord
    <3>3. calc.next \in Nat /\ calc.next <= n + 1
      BY <1>3, <3>1 DEF PassOK, CalcRecord
    <3>4. calc.next - 1 = n
      BY <1>4, <3>1, <3>3
    <3>5. Added(calc) = Part(calc.iiss, n, {}, {})
      BY <3>1, <3>4 DEF Added
    <3>6. P \ P = {}
      OBVIOUS
    <3>7. Added(calc') = Part(calc.iiss, n, P \ P, {})
      BY <3>2 DEF Added
    <3> QED
      BY <2>0, <3>2, <3>5, <3>6, <3>7 DEF AddingPhases, PassOK
  <2>2. CASE EndBlockProduce
    <3>1. /\ calc.phase = "bp" /\ calc.addrs = {}
          /\ calc' = [calc EXCEPT !.phase = "prep", !.addrs = calc.iiss.preps]
      BY <2>2 DEF EndBlockProduce
    <3>2. calc'.phase = "prep" /\ calc'.addrs = R /\ calc'.iiss = calc.iiss
      BY <1>3, <3>1 DEF CalcRecord
    <3>3. P \ {} = P /\ R \ R = {}
      OBVIOUS
    <3>4. Added(calc) = Part(calc.iiss, n, P \ {}, {})
      BY <3>1 DEF Added
    <3>5. Added(calc') = Part(calc.iiss, n, P, R \ R)
      BY <3>2 DEF Added
    <3> QED
      BY <2>0, <3>2, <3>3, <3>4, <3>5 DEF AddingPhases, PassOK
  <2>3. CASE EndPRep
    <3>1. calc.phase = "prep" /\ calc.addrs = {} /\ calc' = ToPhase("done")
      BY <2>3 DEF EndPRep
    <3>2. calc'.phase = "done" /\ calc'.iiss = calc.iiss
      BY <1>3, <3>1, PhaseGoes DEF CalcPhase
    <3>3. R \ {} = R
      OBVIOUS
    <3>4. Added(calc) = Part(calc.iiss, n, P, R \ {})
      BY <3>1 DEF Added
    <3>5. Added(calc') = calc.iiss
      BY <3>2 DEF Added
    <3> QED
      BY <1>3, <1>4, <3>2, <3>3, <3>4, <3>5 DEF AddingPhases, PassOK
  <2> QED
    BY <2>1, <2>2, <2>3
<1>6. Adding(account[CalcDB], account[QueryDB], NextEnd, Added(calc), torn)
  BY <1>2 DEF Progress
<1> HIDE DEF QueryDB, CalcDB
<1>7. Adding(account'[CalcDB], account[QueryDB], NextEnd, Added(calc'), torn)
  BY <1>1, <1>5, <1>6
<1>8. Added(calc') \in DataRecord
  BY <1>5
<1> QED
  BY <1>1, <1>2, <1>5, <1>7, <1>8, AddingProgress

(* calculateIISSTX adds one more transaction. *)
LEMMA TXProgress ==
    ASSUME CalculateInv, Answers, GenerationsFollow, Progress, PassOK, CalculateIISSTX
    PROVE  Progress' /\ PassOK'
<1> DEFINE tx == calc.iiss.txs[calc.next]
           ia == account[CalcDB][tx.addr]
           n == calc.next - 1
<1>1. /\ calc.phase = "tx" /\ calc.next <= Len(calc.iiss.txs)
      /\ account' = IF ia # NoAccount /\ ia.blockHeight # calc.height THEN account
                    ELSE [account EXCEPT ![CalcDB][tx.addr] = Delegated(ia, tx, calc.height)]
      /\ calc' = [calc EXCEPT !.next = @ + 1]
      /\ UNCHANGED <<info, backups, torn>>
  BY DEF CalculateIISSTX, faults
<1>2. calc.phase \in {"reset"} \cup Filling /\ calc.phase \in Filling /\ calc.phase \in AddingPhases
  BY <1>1 DEF Filling, AddingPhases
<1>3. /\ Types /\ calc \in CalcRecord /\ calc.height = NextEnd
      /\ NextEnd \in Height /\ NextEnd >= Term
      /\ calc.iiss \in DataRecord /\ InOrder(calc.iiss)
      /\ account[QueryDB] \in AccountDB
  BY <1>2, PassData
<1>4. calc.next \in Nat /\ calc.next > 0 /\ Len(calc.iiss.txs) \in Nat
  BY <1>1, <1>3, PartAll DEF CalcRecord, CalculateInv, Whole
<1>5. /\ n \in 0 .. Len(calc.iiss.txs) /\ n + 1 = calc.next
      /\ n + 1 \in 0 .. Len(calc.iiss.txs)
      /\ calc.next \in DOMAIN calc.iiss.txs
  BY <1>1, <1>3, <1>4 DEF DataRecord
<1>6. tx \in DelegateTX
  BY <1>3, <1>5 DEF DataRecord
<1>7. tx.addr \in Address
  BY <1>6 DEF DelegateTX
<1>8. calc'.phase = "tx" /\ calc'.next = calc.next + 1 /\ calc'.iiss = calc.iiss
  BY <1>1, <1>3 DEF CalcRecord
<1>9. At(ia, calc.height)
  BY <1>2, <1>7, FilledAt
<1>10. account' = [account EXCEPT ![CalcDB][tx.addr] = Delegated(ia, tx, calc.height)]
  BY <1>1, <1>9 DEF At
<1>11. /\ account'[QueryDB] = account[QueryDB]
       /\ \A b \in Address : account'[CalcDB][b] =
             IF b = tx.addr THEN Delegated(ia, tx, calc.height) ELSE account[CalcDB][b]
  <2> HIDE DEF QueryDB, CalcDB, tx, ia, n
  <2> QED
    BY <1>3, <1>7, <1>10, OneEntry
<1>12. Added(calc) = Part(calc.iiss, n, {}, {})
  BY <1>1 DEF Added
<1>13. Added(calc') = Part(calc.iiss, n + 1, {}, {})
  <2>1. calc'.next - 1 = n + 1
    BY <1>4, <1>8
  <2>2. Added(calc') = Part(calc.iiss, calc'.next - 1, {}, {})
    BY <1>8 DEF Added
  <2> QED
    BY <2>1, <2>2
<1>14. Added(calc') \in DataRecord
  <2> HIDE DEF n
  <2> QED
    BY <1>3, <1>5, <1>13, PrefixIs
<1>15. Adding(account[CalcDB], account[QueryDB], NextEnd, Part(calc.iiss, n, {}, {}), torn)
  BY <1>2, <1>12 DEF Progress
<1> HIDE DEF QueryDB, CalcDB
<1>16. ASSUME NEW a \in Address, account[QueryDB][a] # NoAccount \/ ~torn
       PROVE  account'[CalcDB][a] =
                NextAccounts(account[QueryDB], Part(calc.iiss, n + 1, {}, {}), NextEnd)[a]
  <2>1. account[CalcDB][a] = NextAccounts(account[QueryDB], Part(calc.iiss, n, {}, {}), NextEnd)[a]
    BY <1>15, <1>16 DEF Adding
  <2>2. CASE a # tx.addr
    <3>1. account'[CalcDB][a] = account[CalcDB][a]
      BY <1>11, <2>2
    <3>2. n + 1 \in DOMAIN calc.iiss.txs /\ calc.iiss.txs[n + 1].addr # a
      BY <1>5, <2>2
    <3> HIDE DEF n, tx
    <3>3. NextAccounts(account[QueryDB], Part(calc.iiss, n + 1, {}, {}), NextEnd)[a]
             = NextAccounts(account[QueryDB], Part(calc.iiss, n, {}, {}), NextEnd)[a]
      BY <1>3, <1>5, <3>2, OthersKeep
    <3> QED
      BY <2>1, <3>1, <3>3
  <2>3. CASE a = tx.addr
    <3>1. account'[CalcDB][a] = Delegated(account[CalcDB][a], tx, NextEnd)
      BY <1>3, <1>11, <2>3
    <3>2. /\ n + 1 \in DOMAIN calc.iiss.txs /\ calc.iiss.txs[n + 1].addr = a
          /\ calc.iiss.txs[n + 1] = tx
      BY <1>5, <2>3
    <3> HIDE DEF n, tx
    <3>3. NextAccounts(account[QueryDB], Part(calc.iiss, n + 1, {}, {}), NextEnd)[a]
             = Delegated(NextAccounts(account[QueryDB], Part(calc.iiss, n, {}, {}), NextEnd)[a],
                         calc.iiss.txs[n + 1], NextEnd)
      <4>1. /\ calc.iiss \in DataRecord /\ InOrder(calc.iiss) /\ n \in 0 .. Len(calc.iiss.txs)
            /\ NextEnd \in Height /\ NextEnd >= Term /\ account[QueryDB] \in AccountDB
        BY <1>3, <1>5
      <4> QED
        BY <3>2, <4>1, SenderEarns
    <3> QED
      BY <2>1, <3>1, <3>2, <3>3
  <2> QED
    BY <2>2, <2>3
<1>17. Adding(account'[CalcDB], account[QueryDB], NextEnd, Added(calc'), torn)
  BY <1>13, <1>16 DEF Adding
<1>18. calc'.phase \in AddingPhases
  BY <1>8 DEF AddingPhases
<1>19. Progress'
  BY <1>1, <1>2, <1>11, <1>14, <1>17, <1>18, AddingProgress
<1>20. PassOK'
  BY <1>1, <1>4, <1>8 DEF PassOK
<1> QED
  BY <1>19, <1>20

(* One more reward of the block producers or of the P-Reps is added. *)
LEMMA RewardAdds ==
    ASSUME CalculateInv, Answers, GenerationsFollow, PassOK, NEW a \in calc.addrs, AddReward(a)
    PROVE  /\ Added(calc) \in DataRecord /\ Added(calc') \in DataRecord
           /\ Added(calc').txs = Added(calc).txs
           /\ \/ /\ a \notin Added(calc).producers /\ a \in Added(calc').producers
                 /\ (a \in Added(calc).preps <=> a \in Added(calc').preps)
              \/ /\ a \notin Added(calc).preps /\ a \in Added(calc').preps
                 /\ (a \in Added(calc).producers <=> a \in Added(calc').producers)
           /\ \A b \in Address : b # a =>
                 /\ b \in Added(calc).producers <=> b \in Added(calc').producers
                 /\ b \in Added(calc).preps <=> b \in Added(calc').preps
           /\ calc'.phase = calc.phase /\ calc'.addrs = calc.addrs \ {a}
           /\ calc'.iiss = calc.iiss
<1>1. calc.phase \in {"bp", "prep"} /\ calc' = [calc EXCEPT !.addrs = @ \ {a}]
  BY DEF AddReward
<1>2. calc.phase \in {"reset"} \cup Filling
  BY <1>1 DEF Filling
<1>3. Types /\ calc \in CalcRecord /\ calc.iiss \in DataRecord
  BY <1>2, PassData
<1>4. calc'.phase = calc.phase /\ calc'.addrs = calc.addrs \ {a} /\ calc'.iiss = calc.iiss
  BY <1>1, <1>3, Listed
<1> DEFINE n == Len(calc.iiss.txs)
           P == calc.iiss.producers
           R == calc.iiss.preps
           A == calc.addrs
           PA == P \ A
           PB == P \ (A \ {a})
           RA == R \ A
           RB == R \ (A \ {a})
<1>5. /\ n \in 0 .. Len(calc.iiss.txs)
      /\ P \in SUBSET Address /\ R \in SUBSET Address /\ {} \in SUBSET Address
      /\ PA \in SUBSET Address /\ PB \in SUBSET Address
      /\ RA \in SUBSET Address /\ RB \in SUBSET Address
  BY <1>3, PartAll DEF DataRecord
<1>6. CASE calc.phase = "bp"
  <2>1. Added(calc) = Part(calc.iiss, n, PA, {}) /\ Added(calc') = Part(calc.iiss, n, PB, {})
    BY <1>4, <1>6 DEF Added
  <2>2. a \in P /\ a \notin PA /\ a \in PB /\ \A b \in Address : b # a => (b \in PA <=> b \in PB)
    BY <1>6 DEF PassOK
  <2>3. /\ Part(calc.iiss, n, PA, {}) \in DataRecord /\ Part(calc.iiss, n, PB, {}) \in DataRecord
        /\ Part(calc.iiss, n, PA, {}).producers = PA /\ Part(calc.iiss, n, PB, {}).producers = PB
        /\ Part(calc.iiss, n, PA, {}).preps = {} /\ Part(calc.iiss, n, PB, {}).preps = {}
    <3> HIDE DEF n, P, R, A, PA, PB, RA, RB
    <3>1. calc.iiss \in DataRecord
      BY <1>3
    <3>2. /\ Part(calc.iiss, n, PA, {}) \in DataRecord
          /\ Part(calc.iiss, n, PA, {}).producers = PA /\ Part(calc.iiss, n, PA, {}).preps = {}
      BY <1>5, <3>1, PartIs
    <3>3. /\ Part(calc.iiss, n, PB, {}) \in DataRecord
          /\ Part(calc.iiss, n, PB, {}).producers = PB /\ Part(calc.iiss, n, PB, {}).preps = {}
      BY <1>5, <3>1, PartIs
    <3> QED
      BY <3>2, <3>3
  <2>4. Part(calc.iiss, n, PB, {}).txs = Part(calc.iiss, n, PA, {}).txs
    BY DEF Part
  <2> HIDE DEF n, P, R, A, PA, PB, RA, RB
  <2> QED
    BY <1>4, <2>1, <2>2, <2>3, <2>4
<1>7. CASE calc.phase = "prep"
  <2>1. Added(calc) = Part(calc.iiss, n, P, RA) /\ Added(calc') = Part(calc.iiss, n, P, RB)
    BY <1>4, <1>7 DEF Added
  <2>2. a \in R /\ a \notin RA /\ a \in RB /\ \A b \in Address : b # a => (b \in RA <=> b \in RB)
    BY <1>7 DEF PassOK
  <2>3. /\ Part(calc.iiss, n, P, RA) \in DataRecord /\ Part(calc.iiss, n, P, RB) \in DataRecord
        /\ Part(calc.iiss, n, P, RA).producers = P /\ Part(calc.iiss, n, P, RB).producers = P
        /\ Part(calc.iiss, n, P, RA).preps = RA /\ Part(calc.iiss, n, P, RB).preps = RB
    <3> HIDE DEF n, P, R, A, PA, PB, RA, RB
    <3> QED
      BY <1>3, <1>5, PartIs
  <2>4. Part(calc.iiss, n, P, RB).txs = Part(calc.iiss, n, P, RA).txs
    BY DEF Part
  <2> HIDE DEF n, P, R, A, PA, PB, RA, RB
  <2> QED
    BY <1>4, <2>1, <2>2, <2>3, <2>4
<1> QED
  BY <1>1, <1>6, <1>7

(* calculateIISSBlockProduce and calculatePRepReward reward an account. *)
LEMMA AddRewardProgress ==
    ASSUME CalculateInv, Answers, GenerationsFollow, Progress, PassOK,
           NEW a \in calc.addrs, AddReward(a)
    PROVE  Progress' /\ PassOK'
<1>1. /\ calc.phase \in {"bp", "prep"}
      /\ account' = [account EXCEPT ![CalcDB][a] = Rewarded(@, calc.height)]
      /\ UNCHANGED <<info, backups, torn>>
  BY DEF AddReward, faults
<1>2. calc.phase \in {"reset"} \cup Filling /\ calc.phase \in Filling /\ calc.phase \in AddingPhases
  BY <1>1 DEF Filling, AddingPhases
<1>3. /\ Types /\ calc \in CalcRecord /\ calc.height = NextEnd /\ NextEnd \in Height
      /\ account[QueryDB] \in AccountDB
  BY <1>2, PassData
<1>4. a \in Address
  BY <1>3 DEF CalcRecord
<1>5. account' = [account EXCEPT ![CalcDB][a] = Rewarded(account[CalcDB][a], NextEnd)]
  BY <1>1, <1>3, <1>4, AccountDBs DEF Types, AccountDB
<1> HIDE DEF QueryDB, CalcDB
<1>6. /\ account'[QueryDB] = account[QueryDB]
      /\ \A b \in Address : account'[CalcDB][b] =
            IF b = a THEN Rewarded(account[CalcDB][a], NextEnd) ELSE account[CalcDB][b]
  BY <1>3, <1>4, <1>5, OneEntry
<1> DEFINE d == Added(calc)
           e == Added(calc')
<1>7. /\ d \in DataRecord /\ e \in DataRecord /\ e.txs = d.txs
      /\ \/ a \notin d.producers /\ a \in e.producers /\ (a \in d.preps <=> a \in e.preps)
         \/ a \notin d.preps /\ a \in e.preps /\ (a \in d.producers <=> a \in e.producers)
      /\ \A b \in Address : b # a => /\ b \in d.producers <=> b \in e.producers
                                     /\ b \in d.preps <=> b \in e.preps
      /\ calc'.phase = calc.phase /\ calc'.addrs = calc.addrs \ {a} /\ calc'.iiss = calc.iiss
  BY RewardAdds
<1>8. Adding(account[CalcDB], account[QueryDB], NextEnd, d, torn)
  BY <1>2 DEF Progress
<1>9. Adding(account'[CalcDB], account[QueryDB], NextEnd, e, torn)
  <2> HIDE DEF d, e
  <2> SUFFICES ASSUME NEW b \in Address, account[QueryDB][b] # NoAccount \/ ~torn
               PROVE  account'[CalcDB][b] = NextAccounts(account[QueryDB], e, NextEnd)[b]
    BY DEF Adding
  <2>1. account[CalcDB][b] = NextAccounts(account[QueryDB], d, NextEnd)[b]
    BY <1>8 DEF Adding
  <2>2. CASE b = a
    <3>1. NextAccounts(account[QueryDB], e, NextEnd)[a]
            = Rewarded(NextAccounts(account[QueryDB], d, NextEnd)[a], NextEnd)
      BY <1>3, <1>4, <1>7, RewardEarns
    <3> QED
      BY <1>6, <2>1, <2>2, <3>1
  <2>3. CASE b # a
    <3>1. NextAccounts(account[QueryDB], e, NextEnd)[b] = NextAccounts(account[QueryDB], d, NextEnd)[b]
      BY <1>3, <1>7, <2>3, RewardOthers
    <3> QED
      BY <1>6, <2>1, <2>3, <3>1
  <2> QED
    BY <2>2, <2>3
<1>10. Progress'
  BY <1>1, <1>2, <1>6, <1>7, <1>9, AddingProgress
<1>11. PassOK'
  BY <1>1, <1>7 DEF PassOK
<1> QED
  BY <1>10, <1>11

(* Every step keeps the progress of the passes. *)
LEMMA ProgressNext ==
    ASSUME RollbackWhileCalculating = FALSE, CalculateInv, Answers, Turns, GenerationsFollow,
           Progress, PassOK, [Next]_vars
    PROVE  Progress' /\ PassOK'
<1>1. ASSUME UNCHANGED vars PROVE Progress' /\ PassOK'
  <2>1. SameDBs /\ UNCHANGED <<calc, torn>>
    BY <1>1 DEF vars, dbVars, faults, SameDBs
  <2> QED
    BY <2>1, SameProgress
<1>2. ASSUME CalculateStep PROVE Progress' /\ PassOK'
  <2>1. CASE \/ GetChannel \/ DropRequest \/ CancelCalculation \/ LoadNothing \/ RefuseHeight
             \/ SetCalculatingBH \/ WriteCalculationResult \/ CleanupIISSData
             \/ \E s \in calc.shards : KeepShard(s)
    BY <2>1, QuietProgress
  <2>2. CASE DeleteOldBackups \/ \E s \in calc.shards : RenameShard(s)
    BY <2>2, ResetProgress
  <2>3. CASE EndTX \/ EndBlockProduce \/ EndPRep
    BY <2>3, NextPassProgress
  <2>4. ASSUME NEW a \in calc.addrs, CalculateDB(a) PROVE Progress' /\ PassOK'
    BY <2>4, CalculateDBProgress
  <2>5. ASSUME NEW a \in calc.addrs, AddReward(a) PROVE Progress' /\ PassOK'
    BY <2>5, AddRewardProgress
  <2>6. CASE EndReset \/ EndAccounts \/ CalculateIISSTX
    BY <2>6, EndResetProgress, EndAccountsProgress, TXProgress
  <2>7. CASE ToggleAccountDB \/ SetCalcDoneBH
    BY <2>7, ToggleProgress, DoneProgress
  <2> QED
    BY <1>2, <2>1, <2>2, <2>3, <2>4, <2>5, <2>6, <2>7 DEF CalculateStep
<1>3. ASSUME RollbackStep PROVE Progress' /\ PassOK'
  <2>1. CASE NotifyRollback \/ CheckAccountDBRollback \/ DeleteCalculationResult \/ AnswerRollback
    BY <2>1, OutsideProgress
  <2>2. CASE ToggleBack \/ RollbackAccountDBBlockInfo
    BY <2>2, DoneProgress
  <2>3. ASSUME NEW f \in backups, RestoreShard(f) PROVE Progress' /\ PassOK'
    BY <2>3, RestoreProgress
  <2> QED
    BY <1>3, <2>1, <2>2, <2>3 DEF RollbackStep
<1>4. CASE \/ AddBlock \/ \E d \in IISSData : EndTerm(d)
           \/ \E to \in Height : DecideRollback(to)
  BY <1>4, OutsideProgress
<1>5. CASE Dispatch \/ Crash \/ ReloadIISSData
  BY <1>5, QuietProgress
<1> QED
  BY <1>1, <1>2, <1>3, <1>4, <1>5 DEF Next

(* The databases are empty at first. *)
LEMMA AmountInit == Init => AmountInv
<1> SUFFICES ASSUME Init PROVE AmountInv
  OBVIOUS
<1>1. /\ info.calcDone = 0 /\ info.prevCalcDone = 0 /\ info.calculating = 0
      /\ info.toggleBH = 0 /\ info.queryDB = 1
      /\ account[0] = EmptyDB /\ account[1] = EmptyDB /\ backups = {}
      /\ calc = IdleCalc /\ rollback = "idle" /\ torn = FALSE
      /\ iiss = [h \in Height |-> NoData] /\ data = [h \in Height |-> NoData]
      /\ tip = 0 /\ due = FALSE /\ rollingBack = FALSE
  BY DEF Init
<1>2. Term \in Nat /\ Term > 0
  BY CalculateAssumption
<1>3. NextEnd = Term /\ ~ToggledNext /\ ~Pending
  BY <1>1, <1>2 DEF NextEnd, ToggledNext, Pending
<1>4. account[QueryDB] = EmptyDB /\ account[CalcDB] = EmptyDB
  BY <1>1 DEF QueryDB, CalcDB
<1>5. calc.phase = "idle" /\ calc.reload = FALSE
  BY <1>1 DEF IdleCalc
<1>6. Input
  <2>1. data \in [Height -> IISSData \cup {NoData}] /\ torn \in BOOLEAN
    BY <1>1
  <2>2. ~\E h \in Height : info.prevCalcDone < h /\ h <= tip
    BY <1>1 DEF Height
  <2> QED
    BY <1>5, <2>1, <2>2 DEF Input, Active, Filling
<1>7. Schedule
  BY <1>1, <1>2, <1>3 DEF Schedule
<1>8. Turn
  BY <1>5 DEF Turn
<1>9. Solvent(EmptyDB) /\ \A a \in Address, h \in Int : At(EmptyDB[a], h)
  BY DEF Solvent, EmptyDB, At
<1>10. Gen(data, 0) = EmptyDB /\ Gen(data, 0 - Term) = EmptyDB
  BY <1>2 DEF Gen
<1>11. Follows(EmptyDB, EmptyDB, 0, data, torn)
  <2>1. 0 \in Int /\ 0 - Term \in Int /\ ~(0 > 0)
    BY <1>2
  <2> QED
    BY <1>9, <1>10, <2>1 DEF Follows
<1>12. GenerationsFollow
  <2>1. ~(info.prevCalcDone < info.calcDone)
    BY <1>1
  <2> HIDE DEF QueryDB, CalcDB
  <2> QED
    BY <1>1, <1>3, <1>4, <1>11, <2>1 DEF GenerationsFollow
<1>13. PassOK
  BY <1>5 DEF PassOK
<1>14. Progress
  BY <1>1, <1>3, <1>5, <1>9 DEF Progress, AddingPhases
<1> QED
  BY <1>6, <1>7, <1>8, <1>12, <1>13, <1>14 DEF AmountInv

(* The two account databases are consecutive generations of the chain's      *)
(* accounts, the backups restore the one before, and the passes have added   *)
(* what they went through, as long as IS sends no ROLLBACK before            *)
(* CALCULATE_DONE (DoCalculate, rollbackAccountDB).                          *)
THEOREM AmountInvariance ==
    ASSUME RollbackWhileCalculating = FALSE
    PROVE  Spec => [](CalculateInv /\ Answers /\ AmountInv)
<1>1. Init => Answers /\ AmountInv
  BY AnswersInit, AmountInit
<1>2. CalculateInv /\ Answers /\ AmountInv /\ [Next]_vars => Answers' /\ AmountInv'
  <2> SUFFICES ASSUME CalculateInv, Answers, AmountInv, [Next]_vars
               PROVE  Answers' /\ AmountInv'
    OBVIOUS
  <2>1. Answers'
    BY AnswersNext
  <2>2. Turns /\ GenerationsFollow /\ Progress /\ PassOK
    BY DEF AmountInv, Turns
  <2>3. Turns'
    BY <2>2, TurnsNext
  <2>4. GenerationsFollow'
    BY <2>2, GenerationsNext
  <2>5. Progress' /\ PassOK'
    BY <2>2, ProgressNext
  <2> QED
    BY <2>1, <2>3, <2>4, <2>5 DEF AmountInv, Turns
<1> QED
  BY <1>1, <1>2, CalculateInvariance, PTL DEF Spec

(* Once nothing is in progress the two generations are those of the last
   calculation. *)
LEMMA QuietFollows ==
    ASSUME CalculateInv, Answers, AmountInv, Quiet
    PROVE  Follows(account[QueryDB], account[CalcDB], info.calcDone, data, torn)
<1>1. info.calculating = info.calcDone /\ ~rollingBack
  BY DEF Quiet, NeedReload
<1>2. NextEnd = info.calcDone + Term /\ Term > 0 /\ Term \in Nat /\ info.calcDone \in Nat
  BY Ends
<1>3. ~ToggledNext
  BY <1>1, <1>2 DEF AmountInv, Schedule
<1>4. ~Pending
  BY <1>1 DEF Pending
<1> QED
  BY <1>3, <1>4 DEF AmountInv, GenerationsFollow

(* Wherever a calculation was interrupted and calculated again, the accounts *)
(* the query DB has get exactly the rewards of the term: calculateDB starts  *)
(* them afresh from the query DB, and the passes after it add to them what   *)
(* every block of the term earned (calculateDB, calculateIISSTX).            *)
THEOREM KnownAccountsAreExact ==
    ASSUME RollbackWhileCalculating = FALSE
    PROVE  Spec => []KnownAccountsExact
<1>1. CalculateInv /\ Answers /\ AmountInv => KnownAccountsExact
  <2> SUFFICES ASSUME CalculateInv, Answers, AmountInv, Quiet, info.calcDone > 0
               PROVE  \A a \in Address : account[QueryDB][a] # NoAccount =>
                        account[CalcDB][a] =
                          NextAccounts(account[QueryDB], data[info.calcDone], info.calcDone)[a]
    BY DEF KnownAccountsExact
  <2> HIDE DEF QueryDB, CalcDB
  <2> QED
    BY QuietFollows DEF Follows
<1> QED
  BY <1>1, AmountInvariance, PTL

(* Once nothing is in progress the calculate DB holds what every block of    *)
(* the chain up to the last calculation earned, whatever crashed outside the *)
(* adding passes or was rolled back (DoCalculate and its passes,             *)
(* rollbackAccountDB).                                                       *)
THEOREM CalcDBHoldsTruth ==
    ASSUME RollbackWhileCalculating = FALSE
    PROVE  Spec => []CalcDBIsTruth
<1>1. CalculateInv /\ Answers /\ AmountInv => CalcDBIsTruth
  <2> SUFFICES ASSUME CalculateInv, Answers, AmountInv, Quiet, ~torn
               PROVE  account[CalcDB] = Truth[info.calcDone]
    BY DEF CalcDBIsTruth
  <2>1. account[CalcDB] = Gen(data, info.calcDone)
    BY QuietFollows DEF Follows
  <2>2. info.calcDone \in Height
    BY DEF CalculateInv, Types
  <2>3. Truth[info.calcDone] = Gen(data, info.calcDone)
    BY <2>2, TruthIsGen
  <2> QED
    BY <2>1, <2>3
<1> QED
  BY <1>1, AmountInvariance, PTL

(* The larger of zero and a number. *)
LEMMA MaxOfZero ==
    ASSUME NEW x \in Int
    PROVE  Max({0, x}) = IF x < 0 THEN 0 ELSE x
<1> DEFINE S == {0, x}
<1>1. S \subseteq Int
  OBVIOUS
<1>2. CASE x < 0
  <2>1. 0 \in S /\ \A j \in S : 0 >= j
    BY <1>2
  <2> HIDE DEF S
  <2>2. Max(S) = 0
    BY <1>1, <2>1, MaxIs
  <2> QED
    BY <1>2, <2>2 DEF S
<1>3. CASE ~(x < 0)
  <2>1. x \in S /\ \A j \in S : x >= j
    BY <1>3
  <2> HIDE DEF S
  <2>2. Max(S) = x
    BY <1>1, <2>1, MaxIs
  <2> QED
    BY <1>3, <2>2 DEF S
<1> QED
  BY <1>2, <1>3

(* What claims and queries are answered from is a function of the chain      *)
(* alone: the accounts as of the last term but one, whatever crashed, was    *)
(* calculated again or rolled back (toggleAccountDB, rollbackAccountDB).     *)
THEOREM QueryDBIsOfChain ==
    ASSUME RollbackWhileCalculating = FALSE
    PROVE  Spec => []QueryDBServesChain
<1>1. CalculateInv /\ Answers /\ AmountInv => QueryDBServesChain
  <2> SUFFICES ASSUME CalculateInv, Answers, AmountInv, ~due, ~rollingBack, ~torn
               PROVE  account[QueryDB] = Truth[Max({0, TermEnd(tip) - Term})]
    BY DEF QueryDBServesChain
  <2>1. /\ info.calcDone \in Nat /\ tip \in Nat /\ NextEnd = info.calcDone + Term
        /\ Term \in Nat /\ Term > 0 /\ NextEnd % Term = 0 /\ info.calcDone % Term = 0
        /\ NextEnd \in Nat /\ info.calculating \in Nat
    BY Ends
  <2>2. info.calcDone \in Height /\ tip \in Height
    BY DEF CalculateInv, Types
  <2>3. info.calcDone <= tip /\ info.calculating <= tip
    BY DEF Answers
  <2>4. ~Pending
    BY DEF Pending
  <2>5. CASE ToggledNext
    <3>1. info.calculating = NextEnd /\ tip < NextEnd + Term
      BY <2>5 DEF AmountInv, Schedule
    <3>2. NextEnd <= tip
      BY <2>3, <3>1
    <3>3. TermEnd(tip) = NextEnd
      BY <2>1, <3>1, <3>2, TermEndIs DEF TermEnd
    <3>4. TermEnd(tip) - Term = info.calcDone
      BY <2>1, <3>3
    <3>5. Max({0, info.calcDone}) = info.calcDone
      <4>1. info.calcDone \in Int /\ ~(info.calcDone < 0)
        BY <2>1
      <4> QED
        BY <4>1, MaxOfZero
    <3>6. account[QueryDB] = Gen(data, info.calcDone)
      BY <2>5 DEF AmountInv, GenerationsFollow, Follows
    <3>7. Truth[info.calcDone] = Gen(data, info.calcDone)
      BY <2>2, TruthIsGen
    <3> QED
      BY <3>4, <3>5, <3>6, <3>7
  <2>6. CASE ~ToggledNext
    <3>1. tip < info.calcDone + Term
      BY <2>1, <2>6 DEF AmountInv, Schedule
    <3>2. TermEnd(tip) = info.calcDone
      BY <2>1, <2>3, <3>1, TermEndIs DEF TermEnd
    <3>3. account[QueryDB] = Gen(data, info.calcDone - Term)
      BY <2>4, <2>6 DEF AmountInv, GenerationsFollow, Follows
    <3>4. CASE info.calcDone < Term
      <4>1. Max({0, info.calcDone - Term}) = 0
        <5>1. info.calcDone - Term \in Int /\ info.calcDone - Term < 0
          BY <2>1, <3>4
        <5> QED
          BY <5>1, MaxOfZero
      <4>2. 0 \in Height
        BY CalculateAssumption DEF Height
      <4>3. Truth[0] = Gen(data, 0)
        BY <4>2, TruthIsGen
      <4>4. Gen(data, 0) = EmptyDB /\ Gen(data, info.calcDone - Term) = EmptyDB
        BY <2>1, <3>4 DEF Gen
      <4> QED
        BY <3>2, <3>3, <4>1, <4>3, <4>4
    <3>5. CASE info.calcDone >= Term
      <4>1. Max({0, info.calcDone - Term}) = info.calcDone - Term
        <5>1. info.calcDone - Term \in Int /\ ~(info.calcDone - Term < 0)
          BY <2>1, <3>5
        <5> QED
          BY <5>1, MaxOfZero
      <4>2. info.calcDone - Term \in Height
        BY <2>1, <2>2, <3>5, CalculateAssumption DEF Height
      <4>3. Truth[info.calcDone - Term] = Gen(data, info.calcDone - Term)
        BY <4>2, TruthIsGen
      <4> QED
        BY <3>2, <3>3, <4>1, <4>3
    <3> QED
      BY <2>1, <3>4, <3>5
  <2> QED
    BY <2>5, <2>6
<1> QED
  BY <1>1, AmountInvariance, PTL

(* Every variable has its type, and an I-Score is below zero only when a     *)
(* crash made the transactions of a new account count twice: the amount that *)
(* calculateIISSTX takes back is one it gave before.                         *)
THEOREM CalculateTypes ==
    ASSUME RollbackWhileCalculating = FALSE
    PROVE  Spec => []CalcTypeOK
<1>1. CalculateInv /\ AmountInv => CalcTypeOK
  <2> SUFFICES ASSUME CalculateInv, AmountInv PROVE CalcTypeOK
    OBVIOUS
  <2>1. Types
    BY DEF CalculateInv
  <2>2. /\ data \in [Height -> IISSData \cup {NoData}] /\ torn \in BOOLEAN
        /\ ~torn => Solvent(account[0]) /\ Solvent(account[1])
    BY DEF AmountInv, Input, Progress
  <2>3. ASSUME NEW db \in {0, 1}, NEW a \in Address,
               account[db][a] # NoAccount, account[db][a].iScore < 0
        PROVE  torn
    <3>1. account[db][a].iScore \in Int
      BY <2>1, <2>3 DEF Types, AccountDB, IScoreAccount
    <3>2. ~torn => account[db][a].iScore >= 0
      BY <2>2, <2>3 DEF Solvent
    <3> QED
      BY <2>2, <2>3, <3>1, <3>2
  <2>4. calc.phase \in CalcPhase /\ calc.height \in Height
        /\ calc.shards \subseteq Shard /\ calc.addrs \subseteq Address
    BY <2>1 DEF Types, CalcRecord
  <2>5. \A f \in backups : /\ f.height \in Height /\ f.shard \in Shard
                           /\ f.accounts \in [InShard(f.shard) -> IScoreAccount \cup {NoAccount}]
    BY <2>1 DEF Types, BackupRecord
  <2> QED
    BY <2>1, <2>2, <2>3, <2>4, <2>5 DEF Types, CalcTypeOK
<1> QED
  BY <1>1, AmountInvariance, PTL
=============================================================================
