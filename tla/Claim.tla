------------------------------- MODULE Claim -------------------------------
(***************************************************************************)
(* How the Reward Calculator (RC) pays I-Score out.                        *)
(*                                                                         *)
(* ICON Service (IS) invokes candidate blocks (START_BLOCK, then CLAIM and *)
(* COMMIT_CLAIM for each claim transaction), commits one of them with      *)
(* COMMIT_BLOCK, starts a calculation at the end of a term (CALCULATE) and *)
(* may go back to an earlier block (ROLLBACK).  RC keeps                   *)
(*   - the preCommit DB: the claims of candidate blocks,                   *)
(*   - the claim DB: the I-Score every address has claimed so far,         *)
(*   - the claim backup DB: what the claim DB said before each block,      *)
(*   - two account DBs, one answering claims and queries and one being     *)
(*     calculated, that swap roles at every calculation.                   *)
(* A handler that writes several database keys is a sequence of steps, one *)
(* write each, and the process may die between any two of them.  What IS   *)
(* does after a crash is external: it sends INIT and repeats the request   *)
(* that was not answered (docs/iiss_iscore.wsd: its own state DB is        *)
(* updated before COMMIT_BLOCK is sent).                                   *)
(*                                                                         *)
(* A calculation is one step here; its own steps are not this module's.    *)
(***************************************************************************)
EXTENDS Integers

CONSTANTS
    Address,            \* accounts
    Hash,               \* hashes of candidate blocks
    ClaimMinIScore,     \* BigIntClaimMinIScore, 1000 in the code
    ClaimBackupPeriod,  \* blocks a claim backup is kept for
    Rewards,            \* what one calculation may add to an account
    Term,               \* blocks from one calculation to the next
    MaxHeight,          \* bound: the highest block
    MaxTx,              \* bound: claim transactions of one candidate block
    NoBackup            \* no entry in the claim backup DB

Height == 0 .. MaxHeight
TxIndex == 1 .. MaxTx
ClaimData == [blockHeight : Height, iScore : Nat]
PreCommit == [height : Height, hash : Hash, addr : Address, txIndex : TxIndex,
              confirmed : BOOLEAN, iScore : Nat]
Transaction == [hash : Hash, addr : Address, txIndex : TxIndex, iScore : Nat]

ASSUME ConstantsAssumption ==
    /\ MaxHeight \in Nat
    /\ MaxTx \in Nat
    /\ ClaimMinIScore \in Nat \ {0}
    /\ ClaimBackupPeriod \in Nat
    /\ Term \in Nat \ {0}
    /\ Rewards \subseteq Nat
    /\ NoBackup \notin ClaimData

VARIABLES
    preCommit,    \* preCommit DB: a set of PreCommit, key (height, hash, addr)
    claim,        \* claim DB; an address without an entry has NilClaim
    backup,       \* claim backup DB: backup[h][a] is a's claim before block h+1
    cbInfo,       \* ClaimBackupInfo: first and last block height
    info,         \* DBInfo, as persisted
    account,      \* Account0 and Account1
    accBackup,    \* the renamed account DB of the last calculation, {} or {it}
    job,          \* the handler in progress, lost in a crash
    \* ICON Service (external)
    up,           \* both processes run and INIT has been sent
    tip,          \* last block of the chain
    ledger,       \* ledger[h][a]: I-Score paid to a in the blocks up to h
    started,      \* candidate blocks of height tip+1 that are being invoked
    paid,         \* paid[b][a]: I-Score paid to a in candidate block b
    nextTx,       \* index of the next transaction of a candidate block
    tx,           \* the claim transaction being executed, {} or {it}
    committing,   \* hash of the block whose COMMIT_BLOCK is not answered
    rollingBack   \* a ROLLBACK to tip is not answered

dbVars == <<preCommit, claim, backup, cbInfo, info, account, accBackup>>
chainVars == <<tip, ledger, committing, rollingBack>>
blockVars == <<started, paid, nextTx, tx>>
vars == <<dbVars, job, up, chainVars, blockVars>>

NilClaim == [blockHeight |-> 0, iScore |-> 0]
NoAccount == [blockHeight |-> 0, iScore |-> 0]
NothingPaid == [b \in Hash |-> [a \in Address |-> 0]]

Idle == [phase |-> "idle", pcs |-> {}, saved |-> {}, addrs |-> {}, cursor |-> 0]
Phase == {"idle", "flush",                                        \* preCommit
          "write", "gc", "cbInfo", "commitFlush", "current",      \* COMMIT_BLOCK
          "restore", "drop", "rbInfo", "rbCurrent",               \* ROLLBACK
          "rename", "toggle", "calcDone", "reply"}

Job(phase) == [Idle EXCEPT !.phase = phase]
FlushJob(phase, entries) == [Idle EXCEPT !.phase = phase, !.pcs = entries]

Ready == up /\ job = Idle
Settled == committing = {} /\ ~rollingBack

-----------------------------------------------------------------------------
(* What the handlers read. *)

QueryDB == info.queryDB
CalcDB == 1 - info.queryDB
QueryAccount(a) == account[QueryDB][a]

\* the preCommit entries of one candidate block, and of every block of a height
BlockEntries(h, b) == {p \in preCommit : p.height = h /\ p.hash = b}
HeightEntries(h) == {p \in preCommit : p.height = h}

AlreadyClaimedInBlock(b, a) == \E p \in BlockEntries(tip + 1, b) : p.addr = a
AlreadyClaimedInPeriod(a) ==
    claim[a] # NilClaim /\ QueryAccount(a).blockHeight = claim[a].blockHeight
Unclaimed(a) == QueryAccount(a).iScore - claim[a].iScore

\* the I-Score a CLAIM request is answered with
ClaimableIScore(b, a) ==
    IF \/ AlreadyClaimedInBlock(b, a)
       \/ AlreadyClaimedInPeriod(a)
       \/ Unclaimed(a) < ClaimMinIScore
    THEN 0
    ELSE Unclaimed(a) - (Unclaimed(a) % ClaimMinIScore)

\* Mutant: an entry written before a crash is written again
NotWrittenOnce(p) == ~p.confirmed \/ p.iScore = 0

\* an entry that COMMIT_BLOCK leaves out
NotWritten(p) ==
    \/ ~p.confirmed
    \/ p.iScore = 0
    \/ p.height <= claim[p.addr].blockHeight

BackedUp(h) == {a \in Address : backup[h][a] # NoBackup}

\* Mutant: the garbage collection drops one block too many
GarbageBlockNext == tip - ClaimBackupPeriod

\* the block height writeClaimBackupInfo starts from, and the last one it drops
FirstBackup == IF cbInfo.first = 0 THEN tip ELSE cbInfo.first
GarbageBlock == tip - ClaimBackupPeriod - 1
HasGarbage == tip > ClaimBackupPeriod + FirstBackup

BackupsCover(to) == cbInfo.first <= to
RollbackAllowed(to) == info.prevCalcDone < to /\ BackupsCover(to)

\* a claim DB that is not ahead of the rollback height is left alone
ClaimRollbackNeeded == cbInfo.last > tip

-----------------------------------------------------------------------------
Init ==
    /\ preCommit = {}
    /\ claim = [a \in Address |-> NilClaim]
    /\ backup = [h \in Height |-> [a \in Address |-> NoBackup]]
    /\ cbInfo = [first |-> 0, last |-> 0]
    /\ info = [current |-> 0, calcDone |-> 0, prevCalcDone |-> 0,
               queryDB |-> 1, toggleBH |-> 0]
    /\ account = [i \in {0, 1} |-> [a \in Address |-> NoAccount]]
    /\ accBackup = {}
    /\ job = Idle
    /\ up = FALSE
    /\ tip = 0
    /\ ledger = [h \in Height |-> [a \in Address |-> 0]]
    /\ started = {}
    /\ paid = NothingPaid
    /\ nextTx = [b \in Hash |-> 1]
    /\ tx = {}
    /\ committing = {}
    /\ rollingBack = FALSE

-----------------------------------------------------------------------------
(* deletePreCommit: the keys are collected first and deleted one by one.   *)

DeletePreCommit(p) ==
    /\ job.phase \in {"flush", "commitFlush"}
    /\ p \in job.pcs
    /\ preCommit' = preCommit \ {p}
    /\ job' = [job EXCEPT !.pcs = @ \ {p}]
    /\ UNCHANGED <<claim, backup, cbInfo, info, account, accBackup, up>>
    /\ UNCHANGED <<chainVars, blockVars>>

EndFlush ==
    /\ job.phase = "flush" /\ job.pcs = {}
    /\ job' = Idle
    /\ UNCHANGED <<dbVars, up, chainVars, blockVars>>

-----------------------------------------------------------------------------
(* Invoking a candidate block of height tip+1. *)

StartBlock(b) ==
    /\ Ready /\ Settled /\ tx = {}
    /\ tip < MaxHeight /\ tip < info.calcDone + Term
    /\ started' = started \cup {b}
    /\ paid' = [paid EXCEPT ![b] = [a \in Address |-> 0]]
    /\ nextTx' = [nextTx EXCEPT ![b] = 1]
    /\ job' = FlushJob("flush", BlockEntries(tip + 1, b))
    /\ UNCHANGED <<dbVars, up, chainVars, tx>>

\* CLAIM: the answer is the I-Score the transaction will be paid
DoClaim(b, a) ==
    /\ Ready /\ tx = {}
    /\ b \in started /\ nextTx[b] \in TxIndex
    /\ LET iScore == ClaimableIScore(b, a)
           entry == [height |-> tip + 1, hash |-> b, addr |-> a,
                     txIndex |-> nextTx[b], confirmed |-> FALSE, iScore |-> iScore]
       IN  /\ preCommit' = IF iScore = 0 THEN preCommit ELSE preCommit \cup {entry}
           /\ tx' = {[hash |-> b, addr |-> a, txIndex |-> nextTx[b], iScore |-> iScore]}
    /\ nextTx' = [nextTx EXCEPT ![b] = @ + 1]
    /\ UNCHANGED <<claim, backup, cbInfo, info, account, accBackup>>
    /\ UNCHANGED <<job, up, chainVars, started, paid>>

\* the unconfirmed entry COMMIT_CLAIM for transaction t is about
EntryOf(t) == {p \in BlockEntries(tip + 1, t.hash) :
                  p.addr = t.addr /\ p.txIndex = t.txIndex /\ ~p.confirmed}

Confirm(p) == [p EXCEPT !.confirmed = TRUE]

\* COMMIT_CLAIM with success: the transaction pays what CLAIM answered
CommitClaim(t) ==
    /\ Ready /\ t \in tx
    /\ preCommit' = (preCommit \ EntryOf(t)) \cup {Confirm(p) : p \in EntryOf(t)}
    /\ paid' = [paid EXCEPT ![t.hash][t.addr] = @ + t.iScore]
    /\ tx' = {}
    /\ UNCHANGED <<claim, backup, cbInfo, info, account, accBackup>>
    /\ UNCHANGED <<job, up, chainVars, started, nextTx>>

\* COMMIT_CLAIM with failure
RevertClaim(t) ==
    /\ Ready /\ t \in tx
    /\ preCommit' = preCommit \ EntryOf(t)
    /\ tx' = {}
    /\ UNCHANGED <<claim, backup, cbInfo, info, account, accBackup>>
    /\ UNCHANGED <<job, up, chainVars, started, paid, nextTx>>

\* COMMIT_BLOCK with failure
AbortBlock(b) ==
    /\ Ready /\ tx = {}
    /\ b \in started
    /\ started' = started \ {b}
    /\ job' = FlushJob("flush", BlockEntries(tip + 1, b))
    /\ UNCHANGED <<dbVars, up, chainVars, paid, nextTx, tx>>

-----------------------------------------------------------------------------
(* COMMIT_BLOCK with success. *)

DropCandidates ==
    /\ started' = {}
    /\ paid' = NothingPaid
    /\ nextTx' = [b \in Hash |-> 1]
    /\ tx' = {}

\* IS makes b the next block of the chain in its own state DB
DecideBlock(b) ==
    /\ Ready /\ tx = {}
    /\ b \in started
    /\ tip' = tip + 1
    /\ ledger' = [ledger EXCEPT ![tip + 1] =
                     [a \in Address |-> ledger[tip][a] + paid[b][a]]]
    /\ committing' = {b}
    /\ DropCandidates
    /\ UNCHANGED <<dbVars, job, up, rollingBack>>

CommitBlock(b) ==
    /\ Ready /\ b \in committing
    /\ job' = FlushJob("write", BlockEntries(tip, b))
    /\ UNCHANGED <<dbVars, up, chainVars, blockVars>>

SkipPreCommit(p) ==
    /\ job.phase = "write" /\ job.saved = {} /\ p \in job.pcs
    /\ NotWritten(p)
    /\ job' = [job EXCEPT !.pcs = @ \ {p}]
    /\ UNCHANGED <<dbVars, up, chainVars, blockVars>>

\* Mutant: the backup is kept under the block that changes the claim
BackupClaimLate(p) ==
    /\ job.phase = "write" /\ job.saved = {} /\ p \in job.pcs
    /\ ~NotWritten(p)
    /\ backup' = [backup EXCEPT ![p.height][p.addr] = claim[p.addr]]
    /\ job' = [job EXCEPT !.pcs = @ \ {p}, !.saved = {p}]
    /\ UNCHANGED <<preCommit, claim, cbInfo, info, account, accBackup>>
    /\ UNCHANGED <<up, chainVars, blockVars>>

BackupClaim(p) ==
    /\ job.phase = "write" /\ job.saved = {} /\ p \in job.pcs
    /\ ~NotWritten(p)
    /\ backup' = [backup EXCEPT ![p.height - 1][p.addr] = claim[p.addr]]
    /\ job' = [job EXCEPT !.pcs = @ \ {p}, !.saved = {p}]
    /\ UNCHANGED <<preCommit, claim, cbInfo, info, account, accBackup>>
    /\ UNCHANGED <<up, chainVars, blockVars>>

WriteClaim(p) ==
    /\ job.phase = "write" /\ p \in job.saved
    /\ claim' = [claim EXCEPT ![p.addr] =
                    [blockHeight |-> p.height, iScore |-> @.iScore + p.iScore]]
    /\ job' = [job EXCEPT !.saved = {}]
    /\ UNCHANGED <<preCommit, backup, cbInfo, info, account, accBackup>>
    /\ UNCHANGED <<up, chainVars, blockVars>>

EndWrite ==
    /\ job.phase = "write" /\ job.pcs = {} /\ job.saved = {}
    /\ job' = Job("gc")
    /\ UNCHANGED <<dbVars, up, chainVars, blockVars>>

\* writeClaimBackupInfo: the backups that are too old go first
GarbageCollect ==
    /\ job.phase = "gc"
    /\ backup' = [h \in Height |->
                     IF HasGarbage /\ h \in FirstBackup .. GarbageBlock
                     THEN [a \in Address |-> NoBackup]
                     ELSE backup[h]]
    /\ job' = Job("cbInfo")
    /\ UNCHANGED <<preCommit, claim, cbInfo, info, account, accBackup>>
    /\ UNCHANGED <<up, chainVars, blockVars>>

\* then the range of the remaining ones is written
WriteBackupInfo ==
    /\ job.phase = "cbInfo"
    /\ cbInfo' = [first |-> IF HasGarbage THEN GarbageBlock + 1 ELSE FirstBackup,
                  last |-> IF cbInfo.last < tip THEN tip ELSE cbInfo.last]
    /\ job' = FlushJob("commitFlush", HeightEntries(tip))
    /\ UNCHANGED <<preCommit, claim, backup, info, account, accBackup>>
    /\ UNCHANGED <<up, chainVars, blockVars>>

EndCommitFlush ==
    /\ job.phase = "commitFlush" /\ job.pcs = {}
    /\ job' = Job("current")
    /\ UNCHANGED <<dbVars, up, chainVars, blockVars>>

\* Mutant: COMMIT_BLOCK forgets the current block
ForgetCurrentBlockInfo ==
    /\ job.phase = "current"
    /\ job' = Job("reply")
    /\ UNCHANGED <<dbVars, up, chainVars, blockVars>>

SetCurrentBlockInfo ==
    /\ job.phase = "current"
    /\ info' = [info EXCEPT !.current = tip]
    /\ job' = Job("reply")
    /\ UNCHANGED <<preCommit, claim, backup, cbInfo, account, accBackup>>
    /\ UNCHANGED <<up, chainVars, blockVars>>

\* the answer to COMMIT_BLOCK or ROLLBACK reaches IS
Reply ==
    /\ job.phase = "reply"
    /\ committing' = {}
    /\ rollingBack' = FALSE
    /\ job' = Idle
    /\ UNCHANGED <<dbVars, up, tip, ledger, blockVars>>

-----------------------------------------------------------------------------
(* ROLLBACK.  A request that RollbackAllowed refuses changes nothing. *)

DecideRollback(to) ==
    /\ Ready /\ Settled
    /\ to < tip /\ RollbackAllowed(to)
    /\ tip' = to
    /\ rollingBack' = TRUE
    /\ DropCandidates
    /\ UNCHANGED <<dbVars, job, up, ledger, committing>>

\* Mutant: every address is restored, with or without a backup
RestoreAllJob(h) ==
    [Idle EXCEPT !.phase = "restore", !.addrs = Address, !.cursor = h]

RestoreJob(h) ==
    [Idle EXCEPT !.phase = "restore", !.addrs = BackedUp(h), !.cursor = h]

\* what follows the rollback of the claim DB
AccountPhase == IF tip <= info.calcDone THEN "rename" ELSE "reply"

\* Mutant: a claim DB that needs no rollback is refused
RollbackOnce ==
    /\ Ready /\ rollingBack
    /\ RollbackAllowed(tip) /\ tip < cbInfo.last
    /\ job' = RestoreJob(cbInfo.last)
    /\ UNCHANGED <<dbVars, up, chainVars, blockVars>>

Rollback ==
    /\ Ready /\ rollingBack
    /\ RollbackAllowed(tip)
    /\ job' = IF ClaimRollbackNeeded THEN RestoreJob(cbInfo.last) ELSE Job(AccountPhase)
    /\ UNCHANGED <<dbVars, up, chainVars, blockVars>>

\* a NilClaim in the backup DB deletes the entry of the claim DB
RestoreClaim(a) ==
    /\ job.phase = "restore" /\ a \in job.addrs
    /\ claim' = [claim EXCEPT ![a] = backup[job.cursor][a]]
    /\ job' = [job EXCEPT !.addrs = @ \ {a}]
    /\ UNCHANGED <<preCommit, backup, cbInfo, info, account, accBackup>>
    /\ UNCHANGED <<up, chainVars, blockVars>>

EndRestore ==
    /\ job.phase = "restore" /\ job.addrs = {}
    /\ job' = [job EXCEPT !.phase = "drop", !.addrs = BackedUp(job.cursor)]
    /\ UNCHANGED <<dbVars, up, chainVars, blockVars>>

DropBackup(a) ==
    /\ job.phase = "drop" /\ a \in job.addrs
    /\ backup' = [backup EXCEPT ![job.cursor][a] = NoBackup]
    /\ job' = [job EXCEPT !.addrs = @ \ {a}]
    /\ UNCHANGED <<preCommit, claim, cbInfo, info, account, accBackup>>
    /\ UNCHANGED <<up, chainVars, blockVars>>

EndDrop ==
    /\ job.phase = "drop" /\ job.addrs = {}
    /\ job' = IF tip < job.cursor THEN RestoreJob(job.cursor - 1) ELSE Job("rbInfo")
    /\ UNCHANGED <<dbVars, up, chainVars, blockVars>>

RollbackBackupInfo ==
    /\ job.phase = "rbInfo"
    /\ cbInfo' = [cbInfo EXCEPT !.last = tip]
    /\ job' = Job("rbCurrent")
    /\ UNCHANGED <<preCommit, claim, backup, info, account, accBackup>>
    /\ UNCHANGED <<up, chainVars, blockVars>>

RollbackCurrentBlockInfo ==
    /\ job.phase = "rbCurrent"
    /\ info' = [info EXCEPT !.current = tip]
    /\ job' = Job(AccountPhase)
    /\ UNCHANGED <<preCommit, claim, backup, cbInfo, account, accBackup>>
    /\ UNCHANGED <<up, chainVars, blockVars>>

-----------------------------------------------------------------------------
(* The account DBs: rollbackAccountDB in three steps, and a calculation. *)

RenameAccountBackup ==
    /\ job.phase = "rename"
    /\ \/ accBackup = {} /\ UNCHANGED account
       \/ \E old \in accBackup : account' = [account EXCEPT ![CalcDB] = old]
    /\ accBackup' = {}
    /\ job' = Job("toggle")
    /\ UNCHANGED <<preCommit, claim, backup, cbInfo, info>>
    /\ UNCHANGED <<up, chainVars, blockVars>>

\* Mutant: a repeated toggle swaps the DBs again
ToggledAgain(bh) == [info EXCEPT !.queryDB = 1 - @, !.toggleBH = bh]

\* toggleAccountDB(bh): nothing happens when it was done for bh before
Toggled(bh) ==
    IF info.toggleBH = bh THEN info
    ELSE [info EXCEPT !.queryDB = 1 - @, !.toggleBH = bh]

ToggleBack ==
    /\ job.phase = "toggle"
    /\ info' = Toggled(tip)
    /\ job' = Job("calcDone")
    /\ UNCHANGED <<preCommit, claim, backup, cbInfo, account, accBackup>>
    /\ UNCHANGED <<up, chainVars, blockVars>>

RollbackAccountDBBlockInfo ==
    /\ job.phase = "calcDone"
    /\ info' = [info EXCEPT !.calcDone = info.prevCalcDone]
    /\ job' = Job("reply")
    /\ UNCHANGED <<preCommit, claim, backup, cbInfo, account, accBackup>>
    /\ UNCHANGED <<up, chainVars, blockVars>>

\* CALCULATE for the block tip, reward[a] being what it adds to a's I-Score
Calculate(reward) ==
    /\ Ready /\ Settled
    /\ tip = info.calcDone + Term
    /\ LET read == CalcDB     \* becomes the query DB, the other one is rewritten
           write == QueryDB
           Updated(a) == IF account[read][a] = NoAccount /\ reward[a] = 0
                         THEN NoAccount
                         ELSE [blockHeight |-> tip,
                               iScore |-> account[read][a].iScore + reward[a]]
       IN  /\ accBackup' = {account[write]}
           /\ account' = [account EXCEPT ![write] = [a \in Address |-> Updated(a)]]
    /\ info' = [Toggled(tip + 1) EXCEPT !.prevCalcDone = info.calcDone,
                                        !.calcDone = tip]
    /\ UNCHANGED <<preCommit, claim, backup, cbInfo, job, up, chainVars, blockVars>>

-----------------------------------------------------------------------------
(* A crash loses the handler in progress and IS's candidate blocks. *)

Crash ==
    /\ up
    /\ up' = FALSE
    /\ job' = Idle
    /\ DropCandidates
    /\ UNCHANGED <<dbVars, chainVars>>

\* Mutant: INIT drops the entries of the last block too
InitMsgFromTip ==
    /\ ~up
    /\ tip <= info.current + 1
    /\ up' = TRUE
    /\ job' = FlushJob("flush", {p \in preCommit : p.height >= tip})
    /\ UNCHANGED <<dbVars, chainVars, blockVars>>

\* INIT with the height of IS's last block
InitMsg ==
    /\ ~up
    /\ tip <= info.current + 1
    /\ up' = TRUE
    /\ job' = FlushJob("flush", {p \in preCommit : p.height > tip})
    /\ UNCHANGED <<dbVars, chainVars, blockVars>>

-----------------------------------------------------------------------------
Invoke ==
    \/ \E b \in Hash : StartBlock(b) \/ AbortBlock(b)
    \/ \E b \in Hash, a \in Address : DoClaim(b, a)
    \/ \E t \in tx : CommitClaim(t) \/ RevertClaim(t)

CommitStep ==
    \/ \E b \in committing : CommitBlock(b)
    \/ \E p \in job.pcs : SkipPreCommit(p) \/ BackupClaim(p)
    \/ \E p \in job.saved : WriteClaim(p)
    \/ EndWrite \/ GarbageCollect \/ WriteBackupInfo
    \/ EndCommitFlush \/ SetCurrentBlockInfo

RollbackStep ==
    \/ Rollback
    \/ \E a \in job.addrs : RestoreClaim(a) \/ DropBackup(a)
    \/ EndRestore \/ EndDrop \/ RollbackBackupInfo \/ RollbackCurrentBlockInfo
    \/ RenameAccountBackup \/ ToggleBack \/ RollbackAccountDBBlockInfo

FlushStep ==
    \/ \E p \in job.pcs : DeletePreCommit(p)
    \/ EndFlush

\* what runs to its end once a request was sent, IS's restart included
Progress == CommitStep \/ RollbackStep \/ FlushStep \/ Reply \/ InitMsg

Next ==
    \/ Invoke
    \/ \E b \in Hash : DecideBlock(b)
    \/ \E to \in Height : DecideRollback(to)
    \/ \E reward \in [Address -> Rewards] : Calculate(reward)
    \/ Progress
    \/ Crash

Spec == Init /\ [][Next]_vars
FairSpec == Spec /\ WF_vars(Progress)

-----------------------------------------------------------------------------
(* Properties. *)

JobRecord == [phase : Phase, pcs : SUBSET PreCommit, saved : SUBSET PreCommit,
              addrs : SUBSET Address, cursor : Height]
Accounts == [Address -> [blockHeight : Height, iScore : Nat]]
DBInfo == [current : Height, calcDone : Height, prevCalcDone : Height,
           queryDB : {0, 1}, toggleBH : Nat]

\* Every variable has its type: the databases as db_claim.go, db_management.go
\* and db_account.go define their entries.
TypeOK ==
    /\ preCommit \subseteq PreCommit
    /\ claim \in [Address -> ClaimData]
    /\ backup \in [Height -> [Address -> ClaimData \cup {NoBackup}]]
    /\ cbInfo \in [first : Height, last : Height]
    /\ info \in DBInfo
    /\ account \in [{0, 1} -> Accounts]
    /\ accBackup \subseteq Accounts
    /\ job \in JobRecord
    /\ up \in BOOLEAN
    /\ tip \in Height
    /\ ledger \in [Height -> [Address -> Nat]]
    /\ started \subseteq Hash
    /\ paid \in [Hash -> [Address -> Nat]]
    /\ nextTx \in [Hash -> 1 .. MaxTx + 1]
    /\ tx \subseteq Transaction
    /\ committing \subseteq Hash
    /\ rollingBack \in BOOLEAN

\* Whenever every request was answered, the claim DB says exactly what the
\* blocks of the chain have paid: whatever was reverted, aborted, rolled back,
\* repeated or interrupted by a crash (writePreCommitToClaimDB, rollbackClaimDB).
ClaimDBIsLedger ==
    job = Idle /\ Settled => \A a \in Address : claim[a].iScore = ledger[tip][a]

\* No address is ever paid more I-Score than the query DB has for it, the
\* blocks being invoked included (DoClaim, toggleAccountDB, rollbackAccountDB).
NeverOverpaid ==
    \A a \in Address :
        /\ ledger[tip][a] <= QueryAccount(a).iScore
        /\ \A b \in started : ledger[tip][a] + paid[b][a] <= QueryAccount(a).iScore

\* RC accepts the INIT of an IS that restarts, wherever the crash was: the
\* current block is at most one block behind the chain (DoInit).
RestartAccepted == ~up => tip <= info.current + 1

\* A rollback the account DBs can do, to a block of the chain, is never refused
\* for want of claim backups (ClaimBackupPeriod against the term length).
BackupsCoverRollback ==
    job = Idle /\ Settled =>
        \A to \in 1 .. tip : info.prevCalcDone < to => BackupsCover(to)

\* Once crashes stop, every COMMIT_BLOCK and ROLLBACK is answered.
RequestsAnswered == <>[]up => (~Settled ~> Settled)
=============================================================================
