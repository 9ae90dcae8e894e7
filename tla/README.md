# Reward Calculator in TLA+

The Reward Calculator (RC, `core/`) keeps the I-Score of every account of an ICON
node: what it has earned by delegating, producing blocks and being a P-Rep, and
what it has claimed. ICON Service (IS), in another process, drives it over a local
socket. These modules model RC's state and handlers as written in `src/core`, and
the databases, codec and transport under them in `src/common`, with the processes'
crashes, and check and prove that what is paid, earned, backed up and rolled back
fits the chain.

## 1. Inventory

### Parts, state, operations

| part | state | operations | module |
|---|---|---|---|
| Claims (`msg_claim.go`, `db_claim.go`) | preCommit DB, claim DB, claim backup DB, range of the backups | START_BLOCK, CLAIM, COMMIT_CLAIM, COMMIT_BLOCK, rollback of the claim DB, garbage collection of backups | `Claim` |
| Handshake (`msg.go`) | `DBInfo.Current` | INIT, READY, VERSION | `Claim` (INIT), `IPC` |
| Query (`msg.go`) | the goroutine's reads | QUERY | `Query` |
| Calculation (`msg_calculate.go`, `db_calculate.go`) | calculate DB, result DB, `Calculating`, `CalcDone`, `PrevCalcDone` | CALCULATE, its passes, cancellation, QUERY_CALCULATE_STATUS / RESULT | `Calculate`; the amounts in `TermRewards` and `Reward` |
| Account databases (`context.go`, `db_account.go`) | two DBs of `DBCount` shards, `QueryDBIsZero`, `ToggleBH`, renamed backups | toggle, reset, rollback | `Calculate`; abstracted in `Claim` |
| Management lists (`context.go`, `db_management.go`) | governance variables, P-Rep lists, P-Rep candidates, in memory and in the DB | update, delete old, rollback, load | `Management` |
| IISS data (`db_iissdata.go`) | directories written by IS | load, clean up | `Calculate`, `Management` |
| Rollback (`msg_rollback.go`) | cancel channel | ROLLBACK: cancel, claim DB, account DBs, management DB | `Claim`, `Calculate`, `Management`, `IPC` |
| Statistics, debug output (`statistics.go`, `calculation_debug.go`, `msg_debug.go`) | sums of a calculation, debug flag, addresses and results | increase, record, DEBUG | `TermRewards` |
| Manager (`manager.go`), IPC (`common/ipc`, `api_ipc.go`) | connections, wait group of running messages | dispatch, client requests, reload, exit | `IPC` |
| Databases (`common/db`) | backend, layer, proxy | get bucket, set, delete, flush, set real | `KeyValue`, `Store` |
| Codec and numbers (`common/codec/rlp.go`, `hexint.go`) | encoder buffers, decoder position | encode, decode, format, parse | `RLP`, `Numbers` |
| Addresses, crypto, tools | | | not modelled |

### How they interact

IS sends START_BLOCK, then CLAIM and COMMIT_CLAIM for every claim transaction of a
candidate block; several candidate blocks of one height may be invoked. COMMIT_BLOCK
moves the entries of one of them from the preCommit DB to the claim DB. At the end of
a term IS writes the term's IISS data to a directory and sends CALCULATE; RC updates
its lists of governance variables, P-Reps and candidates from it, toggles
its two account DBs (claims and queries are then answered from the calculation
before), renames the old query DB to a backup, and fills a new calculate DB.
ROLLBACK goes back to an earlier block: it cancels a calculation that runs, restores
claims from the claim backups, renames the account backups back and cuts the lists.
Every message but ROLLBACK is handled by a goroutine of its own (`msg.go:122-154`).
`DBInfo` is shared by all of them and is written to the management DB at every change.
After a crash RC reloads the IISS data of an unfinished calculation by itself, and IS
sends INIT and repeats what was not answered.

### What is hard

* No database write is batched with another one. A crash may fall between any two
  of them, and the repeated request must complete what was begun and repeat nothing.
* A rollback undoes several heights, several shards and several fields, and may itself
  be interrupted and repeated.
* A calculation runs for minutes beside claims, commits, queries and rollbacks, and is
  canceled or reloaded half way.
* "Backed up", "toggled" and "calculated" are each remembered in a height
  (`ClaimBackupInfo`, `ToggleBH`, `CalcDone`), and the handlers decide by
  comparing heights: off-by-one errors and stale values pay wrong amounts.
* Rewards are rounded per governance variable, and a delegation that changes within
  a term is calculated twice, by subtraction and addition.
* The exit waits for a count that every handler must take back, on every path.

What makes the parts correct: the claim DB is what the chain paid; nobody is paid
more than was earned; every rollback that may be asked for can be done; what claims
are answered from is a function of the chain alone, since the nodes of the network must
agree on it; a calculation gives each account what the term earned, once, at the rates
the chain had in force; a query hides nothing; every request is answered and every
calculation finished; a database is one store whatever its layers do; what is encoded
can be decoded. `PROJECT.json` lists the hazards at their lines.

## 2. Modules

### Claim

Variables are the databases (`preCommit`, `claim`, `backup`, `cbInfo`, `info`,
`account`, `accBackup`), the handler in progress (`job`, lost in a crash), and IS's
side, which is external: the chain's `tip`, the `ledger` of what each block of the
chain paid, candidate blocks, the request that is not answered.

One step is one database write. COMMIT_BLOCK is `CommitBlock`, then per entry
`SkipPreCommit`, or `BackupClaim` and `WriteClaim`, then `GarbageCollect`,
`WriteBackupInfo`, the flush of the height's preCommit entries, `SetCurrentBlockInfo`
and `Reply`. ROLLBACK is `Rollback` (the checks), per height `RestoreClaim` and
`DropBackup` for each address, `RollbackBackupInfo`, `RollbackCurrentBlockInfo`, and
for the account DBs `RenameAccountBackup`, `ToggleBack`, `RollbackAccountDBBlockInfo`.
`Crash` may come anywhere, `InitMsg` follows it.

Abstractions. The garbage collection is one step: its deletions commute and nothing
reads the deleted backups. A calculation is one step that adds some reward; it takes
place when IS has no open request, and IS does not go beyond the end of a term before
the calculation is done, because the IISS engine exits otherwise
(`docs/iiss_calculation.wsd`, "get no CALCULATE_DONE for previous CALCULATE").
IS waits for the answer to COMMIT_BLOCK and ROLLBACK, and executes one claim
transaction at a time. What IS does after a crash follows `docs/iiss_iscore.wsd`: its
state DB is updated before COMMIT_BLOCK is sent, so the block is in its chain and the
request is repeated. `RollbackManagementDB` is in `Management`.

`ClaimInv` states the inductive invariants in named parts: `IInv` for claims, backups and
requests, `AccountInv` for the account DBs and what was paid from them. `ClaimProofs` proves
them.

### Query

Extends `Claim` by one goroutine that answers QUERY, read by read: `SearchPreCommit`,
`ReadClaim`, `GetQueryDB` (the handle), `ReadAccount`, `AnswerQuery`. Any step of
`Claim` may come between two reads. The goroutine carries what the properties compare
the answer with: the least that could be claimed since it started, and what became of
the transaction it was asked about. `ClaimProofs` has the theorems.

### Calculate

Variables: `info` (the fields of `DBInfo` that CALCULATE and ROLLBACK use), the two account
DBs, `backups` (a record per renamed shard), `results`, the calculating goroutine
(`calc`), the next step of the ROLLBACK handler (`rollback`), the history variable
`torn` (a crash hit a pass that adds to the calculate DB), and IS's side: the IISS
data directories, the tip, what is due.

`Dispatch` and `GetChannel` start the goroutine of a CALCULATE message and fetch its
cancel channel; `ReloadIISSData` starts it after a crash. Then come the early returns
(`DropRequest`, `LoadNothing`, `RefuseHeight`) or `SetCalculatingBH`,
`ToggleAccountDB`, `DeleteOldBackups`, per shard `KeepShard` or `RenameShard`, the
passes (`CalculateDB` per account, `CalculateIISSTX` per transaction, `AddReward` per
block producer and P-Rep), `SetCalcDoneBH`, `WriteCalculationResult` and
`CleanupIISSData`. ROLLBACK runs beside it: `NotifyRollback`,
`CheckAccountDBRollback`, `RestoreShard`, `ToggleBack`, `DeleteCalculationResult`,
`RollbackAccountDBBlockInfo`, `AnswerRollback`.

`NextAccounts` and `Truth` are the reference: what an account earns block by block.
The code calculates a term with the old delegation first and corrects it transaction
by transaction (`Delegated`).

Abstractions. A delegation is a number that earns itself per block; producers and
P-Reps earn one I-Score a term. The rules are those of revision 8 and later. The transactions of
a term are in the order of their blocks (`CalculateAssumption`): IS numbers them as it executes
them, and `calculateIISSTX` reads them in the order of that index (`msg_calculate.go:532-541`). Files of
a shard are renamed at once: between the `RemoveAll` and the `Rename` of
`rollbackAccountDB` only the calculate DB is missing, which the repeated rollback
replaces. Batches of `calculateDB` are single writes, so every prefix a batch could
leave is among the states. A CALCULATE that is refused because a calculation runs
stays due. IISS data without a block height in its header is not modelled. A graceful exit
cancels the calculation where a crash would interrupt it. A ROLLBACK to below
`CalcDone` while a goroutine calculates is not modelled: it closes databases the
goroutine iterates over, and the outcome is the database library's. The constant
`RollbackWhileCalculating` says whether IS may send ROLLBACK before CALCULATE_DONE.
`CalculateProofs` has the theorems about generations, answers and amounts.

### Reward, TermRewards

`Reward` has the arithmetic of one list of entries with heights: the blocks an entry is
in force for, delegation rewards, block produce and P-Rep rewards. `TermRewards` runs
the passes of one calculation with it, in order and with the code's divisions, over every
combination of inputs: `CalculateDB`, `CalculateIISSTX`,
`CalculateIISSBlockProduce`, `CalculatePRepReward`. Each pass adds to the statistics
and, for the debug addresses, to the debug result, which is computed in machine words
(`Word` stands for 2^64). DEBUG messages come before the calculation. The lists of
governance variables and P-Reps are in the order of their block heights, as
`UpdateGovernanceVariable` and the iteration over the management DB leave them, and begin at or
before the term. `SumTheorems` has the theory of sums and `TermRewardsProofs` the theorems.

### Management

The three lists in memory (`gv`, `prep`, `candidate`) and in the management DB. The update
of governance variables and of P-Rep lists is a step that makes a sequence of writes
(`GVWrites`, `PRepWrites`), of which a crash or the exit may leave any prefix
(`Interrupted`); `UpdatePRepCandidate` is a step for each transaction, in the order of blocks,
up to `EndPRepCandidate`. `Restart` loads what is in the DB, and the reloaded calculation
updates again. `Calculate` stands
for the part of `DoCalculate` before the updates, `EndCalculation` for the rest;
`RollbackAccountDB`, `RollbackGV` and `RollbackPRep` are ROLLBACK; as in `Calculate` one to
below `CalcDone` waits until nothing is calculated, and one in the moment of an update is left out. `chain` is what the
blocks recorded, the reference. `ManagementProofs` has the theorems.

### IPC

Connections are pairs of FIFO streams. `HandleMessage` starts a goroutine for a
message, or handles ROLLBACK in the receiving one; goroutines are counted
(`AddMsgTask`, `DoneMsgTask`), work on the databases and send their responses in any
order. Tools send a request and take the next message as its response
(`AfterResponse`; CALCULATE has two), IS tells them apart. `NotifyExit`,
`WaitMsgTasksDone`, `CloseIScoreDB` and `ProcessExit` are the exit after a signal.
Contents are reduced to the kinds of message that behave differently. `IPCProofs` has the
theorems.

### KeyValue, Store

`KeyValue` is what a database with a write-back layer promises: one store that clients
read and write, a stored copy that follows, a commit after which nothing is held back.
`Store` is how `layerDB` and `proxyDB` do it over a backend, with one or several key
spaces, locks per bucket, and a Flush whose writes may fail. `StoreProofs` proves that
`Store` implements `KeyValue`. The core uses goleveldb; the layers are the library's.

### Numbers, RLP

`Numbers` has the conversions of `hexint.go` with words of `Width` bytes. In `RLP` a
client encodes items at nesting levels of its choice, encoders are flushed as the code
flushes them, and a decoder reads the stream header by header.
Slices, pointers, structs and maps are containers of items. The core's messages and
records use MessagePack; RLP is offered by the same package. `RLPProofs` has the theorems about numbers
and keys.

## 3. Runs

| run | bounds | shows |
|---|---|---|
| `claim` | 2 accounts, 2 candidate blocks a height, 2 claims each, 5 heights, a calculation every block, backups kept for one block, crashes without limit | `ClaimDBIsLedger`, `BackupsReachBack`, `RestartAccepted`, `BackupsCoverRollback`, `TypeOK`, `IInv` |
| `claim_terms` | terms of 2 blocks, backup period 2 * 2 - 1, 7 heights, one candidate block a height, 2 claims | `NeverOverpaid`, `RequestsAnswered` |
| `query` | 1 account, 2 candidate blocks a height, 4 heights, a calculation every block, crashes without limit | `QueryHidesNothing`, `QueryCountsItsClaim` |
| `calculate` | 2 accounts in 2 shards, 2 kinds of term, 3 terms of 2 blocks, 2 crashes anywhere | `QueryDBServesChain`, `CalcDBIsTruth`, `KnownAccountsExact`, `AnswersOfChain`, `CalcTypeOK`, `CalculationsFinish` |
| `calculate_cancel` | 2 accounts in 2 shards, terms in which one account or the other earns, 3 terms of 2 blocks, one crash anywhere, ROLLBACK during a calculation | `OneBackupGeneration`, `QueryDBIsWhole` |
| `management` | 3 terms of 3 blocks, 2 candidates, 2 crashes, governance variables in the middle and at the ends of terms, one P-Rep list a term | `GVInForce`, `PRepRewardOnce`, `MemoryIsDB`, `CandidateBlocksMatchChain`, `ManagementTypeOK` |
| `rewards` | a term of 4 blocks, 3 accounts, 2 candidates that come and go in the term, every combination of the lists in `MCTermRewards`, revisions 0 and 8 | `DelegationRewardExact`, `StatsAreAccounts`, `AccountsAtTermEnd`, `IssueBounded`, `DebugExplainsIScore` |
| `ipc` | a tool that calculates and IS, 2 requests each | `CountedTasksFinish`, `RollbackNotOvertaken`, `ResponseMatches`, `OneCalculation`, `IPCTypeOK`, `CloseEnds`, `ToolsAnswered` |
| `store` | 2 buckets, 2 keys (one empty), 1 value, a durable and a volatile backend | `FlushedHoldsNothing`, `ImplementsKeyValue` |
| `codec` | 3 items at every nesting, lengths 0 to 256 around the thresholds, 12 integers around the bounds of one to three bytes | `ReadsBack`, `NumbersReadBack`, `KeysInOrder` |

The bounds are the smallest at which garbage is collected, a rollback crosses a
calculation, the account DBs have been toggled more often than there are generations,
two candidate blocks compete, one shard is renamed and the other is not, a crash
hits the repetition of what a crash interrupted, governance variables are deleted as
old and then rolled back to, a message arrives while the exit waits, and a Flush fails
with one bucket done. A third kind of reward, message or backend repeats what two show:
the code treats all of them alike. Symmetry (accounts, candidate
blocks and list contents are interchangeable) is used where no liveness property is
checked, in `Claim`, `Query` and `Management`.

Deadlock is checked except in `rewards` (one calculation, which ends), `ipc` (the process
exits and clients stop at `MaxRequests`) and `codec` (a stream is decoded once).

Runs that refute what the source says of itself (each a finding in `PROJECT.json`):

* `no_need_to_rollback`: "No need to Rollback account DB" is said although the
  canceled calculation has toggled the account DBs; claims are then answered from a
  term too late.
* `rlp_lengths`: the decoder's limit for short headers is `055`, an octal 45, the
  encoder's is 55; strings and containers of 45 to 55 bytes do not come back.

Fairness. `Claim`: weak fairness of the steps of a handler that was started, of the
request IS repeats, and of the restart. `Calculate`: weak fairness of the calculating
goroutine, of the ROLLBACK handler, of the CALCULATE that is due and of the restart.
`IPC`: weak fairness of `Progress`, the steps of RC's goroutines and of tools that wait.
Handlers run to completion without waiting for each other, the scheduler runs every
goroutine that can run, and the node's operator restarts
the processes; nothing is assumed of blocks, claims, rollbacks, requests, signals or
crashes. `RequestsAnswered` speaks of behaviours in which crashes stop;
`CalculationsFinish` of at most `MaxCrashes` of them.

## 4. Proofs

`ClaimProofs` proves, for every set of addresses and hashes and every value of the
bounds, the unit, the backup period and the term:

* `Invariance`: `Spec => []IInv`;
* `TypeCorrect`: `Spec => []TypeOK`;
* `ClaimsAreLedger`: `Spec => []ClaimDBIsLedger`;
* `RollbackPossible`: `Spec => []BackupsReachBack`;
* `RestartsAccepted`: `Spec => []RestartAccepted`.

The only assumption is `ConstantsAssumption` in `Claim`.

The argument. `ClaimDBIsLedger` speaks of states without an open request and is
preserved by no handler step as it stands. While a COMMIT_BLOCK is open, each account
is either written (its claim has the block's height and the new ledger's I-Score) or
not (it has the old one, and if there is a backup already it is that claim); this is
`CommitPending`, and it survives a crash, because it does not mention the handler.
`CommitProgress` adds where the handler is: every entry it has left behind is
written. For rollbacks the claim DB must be recoverable: `BackupsReachBack` says that
for each covered height and each account the oldest backup from that height on,
or the claim itself when there is none, is the ledger's entry. Restoring from the top
preserves it at every single step, which is why an interrupted rollback may start
again. `RollbackProgress` says that the heights above the cursor have no backups left,
`BackupRange` that nothing is backed up beyond the chain. `CandidatesRecorded`,
`TransactionRecorded` and `UniqueKeys` tie what the candidate blocks paid to the
confirmed entries; `Exchange` excludes handlers that IS cannot have asked for.
`CurrentReaches` is inductive relative to `IInv` and gives `RestartAccepted`.

`StoreProofs` proves, for every set of bucket ids of one length, of keys and values, and
for every backend (`StoreAssumption` in `Store`):

* `FlushedHoldsNothingHolds`: `Spec => []FlushedHoldsNothing`;
* `StoreImplementsKeyValue`: `Spec => KV!Spec`, the refinement of `KeyValue`.

The argument. That a flushed layer has no bucket with writes in memory is not inductive:
while Flush walks over the buckets, the ones it has passed must stay flushed, and the
keys it has passed in its bucket must be stored (`FlushOK`); both hold because
a bucket that is opened during Flush waits for the layer's lock, and a write to the
bucket under Flush for the bucket's. With it, `InitRefines` maps initial states, and
`StepRefines` each action: a write to the layer or below is a `Write`, a key of Flush
`Persist`, the end of Flush `Commit`, which needs that view and stored copy agree. That two buckets
never share a key of a backend with one key space (`RealKeyInjective`) rests on
the ids having one length: a database has either the empty id alone or two-character ids
(`common/db/bucket.go`).

`ClaimProofs` goes on to the account DBs:

* `NobodyOverpaid`: `Spec => []NeverOverpaid`;
* `PeriodSuffices`: `Spec => []BackupsCoverRollback`, from the hypothesis
  `PeriodCoversTerms`, `ClaimBackupPeriod >= 2 * Term - 1`, which is how the code sets the
  constant (`db_claim.go:23`, 43120 * 2 - 1 with terms of 43120 blocks).

The argument. What an account was paid is compared with the account DB that paid, and that one
changes with calculations and rollbacks. `AccountInv` says of which term each of
the two DBs and each backup is, that I-Score never falls from one generation to the next, and
that each block of the ledger was paid from the generation before its term; the
interrupted rollback is described by which of its three durable steps are done.

It also proves `QueriesHideNothing` (`QueryHidesNothing`) and `QueriesCountTheirClaim`
(`QueryCountsItsClaim`) on top of them. The goroutine's reads are of different moments, so its
invariant bounds what is read so far by what could be claimed at the start. It holds
because a step that is not part of a rollback only moves forward (`ForwardStep`): claims grow,
the query DB changes only with a calculation, and an entry leaves the preCommit DB only after the
claim DB has it. Spans of a rollback are excluded by the properties themselves.

`IPCProofs` proves, for every number of connections and requests:

* `IPCTypes`, `CloseWaits` (`CountedTasksFinish`), `RollbackIsAlone` (`RollbackNotOvertaken`),
  `ResponsesMatch` (`ResponseMatches`);
* `CalculationsExclude` (`OneCalculation`), from the hypothesis `OneCalculator`: the clients that
  send CALCULATE are one, and it waits for each answer. Two that do not wait for each other can
  both pass the check of `Calculating` before either sets it.

The wait group is the number of goroutines that have not taken their count back, which the
invariant states as a cardinality; a tool's next message is its response because the streams hold at
most the answers to its open request.

`CalculateProofs` proves, for every set of accounts, shards, terms and crashes:

* `CalculateInvariance`: `Spec => []CalculateInv`;
* `BackupsAreOneGeneration`: `Spec => []OneBackupGeneration`;
* `QueriesSeeOneGeneration`: `Spec => []QueryDBIsWhole`;
* `AnswersAreOfChain`: `Spec => []AnswersOfChain` when IS waits for CALCULATE_DONE
  before it sends ROLLBACK (`RollbackWhileCalculating = FALSE`; see section 5).

The argument. Half of the shards may be renamed, and half of the renamed ones renamed back,
when a crash comes, so neither DB is of one generation. What is kept by every single
rename, restore and repetition is `RestoredAt`: the calculate DB with the backups put back
is of one generation. The query DB is replaced only by a toggle, and a toggle happens only when
nothing is left to restore (`Generations`, `Whole`). `Heights` orders `PrevCalcDone`, `CalcDone`,
`Calculating`, `ToggleBH` and the tip, `RollbackState` says what the ROLLBACK handler has done.
An earlier form of `QueryDBIsWhole`, which also counted the accounts, could not be proved and is
false: see section 5.

It goes on to the amounts, for every set of accounts and shards, every length of the
term and every IISS data with transactions in the order of blocks, when IS waits for
CALCULATE_DONE before it sends ROLLBACK (`RollbackWhileCalculating = FALSE`; the other case is
refuted by `no_need_to_rollback`):

* `AmountInvariance`: `Spec => [](CalculateInv /\ Answers /\ AmountInv)`;
* `KnownAccountsAreExact`: `Spec => []KnownAccountsExact`;
* `CalcDBHoldsTruth`: `Spec => []CalcDBIsTruth`;
* `QueryDBIsOfChain`: `Spec => []QueryDBServesChain`;
* `CalculateTypes`: `Spec => []CalcTypeOK`.

The argument has three parts. What a pass leaves: `NextAccounts` applied to a part of the term's
data, so each pass adds one more transaction or reward to that part. `SenderEarns` is the heart of
it: what `Delegated` takes back and earns again is the difference between the sums over blocks
before and after one more transaction, because the transactions are in order of blocks; `FreshIs`
is `calculateDB`, `RewardEarns` the rewards. What the databases are (`GenerationsFollow`): the
query DB and the calculate DB are two consecutive generations of the chain's accounts, or, while a
calculation is under way, the query DB is the last one and the backups put back are the one before
it. What ties both to the chain (`Input`, `Schedule`, `Turn`): the IISS data a goroutine holds is
the chain's, whether it was dispatched or reloaded; a toggled DB means the calculation of the next
term is on record; IS is never further than one term beyond it. `Progress` says where a pass is:
accounts the query DB knows are started afresh, so they are exact whatever a crashed pass left
there; the others are exact as long as no crash hit an adding pass (`torn`). `Truth` is a recursive
function of the chain's data; that it exists is shown for the function of any data (`TruthExists`),
and that it does not depend on blocks above its height gives that a rollback and new blocks do not
change the generations below (`GenAgrees`).

`TermRewardsProofs` proves, for every term, every list of governance variables, P-Reps,
transactions and blocks and every finite set of accounts (`TermRewardsAssumption`):

* `RewardsInvariance`: `Spec => []RewardsInv`;
* `StatisticsAreAccounts`: `Spec => []StatsAreAccounts`;
* `NobodyStaysBehind`: `Spec => []AccountsAtTermEnd`;
* `IssueIsBounded`: `Spec => []IssueBounded`;
* `DelegationsAreExact`: `Spec => []DelegationRewardExact`;
* `DebugResultExplains`: `Spec => []DebugExplainsIScore`.

The argument. `StatsAreAccounts` speaks of the end of a calculation; `Counted` says it of every
step. All four passes follow one rule, `PaidCounted`: what the accounts get more is what the
statistics are increased by, and accounts that are new are counted. That a new account starts from
nothing needs that after the first pass every account of the query DB is known (`ReadFirst`), and
that everything in `bpMap` is written needs that only producers are in it (`Produced`).
`IssueBounded` needs that a block is in the period of one governance variable and of one P-Rep list
(`PeriodsDisjoint`, `PeriodGV`), and that shares rounded down are together no more than the whole
(`SharesBounded`); the table of shares, by P-Rep and by governance variable, is summed both ways
(`SumSwap`).

`DelegationRewardExact` compares one product per governance variable, candidate and calculation
with the sum over blocks that rounds nothing. A product is the sum over the blocks of its period,
less than one division off (`NearSum`, `EarningNear`); the periods of the governance variables cut
the term into pieces that cover it (`PeriodsCover`). The invariant `Right` says of every account,
after the transactions seen so far, what the error is and which delegation is in force; a
transaction changes the reference only in the blocks after it, where the old delegation is taken
back and the new one added (`RightStep`), which needs that the transactions of an account come in
order of blocks. That nobody ends below zero needs more than the error bound: what is taken back
is of a later part of the term than what was given, and the earning grows with the part
(`EarningMono`, `EarnsMono`).

`DebugExplainsIScore` is proved with `DebugInv`: for an address that is explained, the total of
its debug result is the I-Score of the account in the calculate DB, or what the query DB has
before the first pass reached it, plus what waits in `bpMap` (`Due`). Each pass keeps the two in
step because the products, cut to 64 bits, are the products themselves (`WordsFit`); here the
order of the factors and where the division is done matter (`DebugRewardIs`, `PaidDebugIs`,
`BlockDebugIs`).

`ManagementProofs` proves, for every length of the term, all blocks in which governance variables
are recorded, any candidates that register and leave, and any number of crashes and rollbacks
(`ManagementAssumption`):

* `ManagementInvariance`: `Spec => []ManagementInv`;
* `ManagementTypes`: `Spec => []ManagementTypeOK`;
* `RestartLoadsMemory`: `Spec => []MemoryIsDB`;
* `GVInForceHolds`: `Spec => []GVInForce`;
* `CandidatesMatchChain`: `Spec => []CandidateBlocksMatchChain`;
* `PRepRewardedOnce`: `Spec => []PRepRewardOnce`, from the hypothesis `OneListATerm`: the chain
  records a P-Rep list with the last block of every term and no other. With a second list in a term
  the property is false (section 5).

The argument. `Schedule` orders `PrevCalcDone`, `CalcDone`, `Calculating`, the tip and the phases of
the calculation and of ROLLBACK. A list in memory is not described by what happened to it but by the
DB: `Listed` says that it has the keys of the bucket in order, which is what `Load` returns
(`ListedIsLoad`), and every update and cut keeps it (`UpdateLists`, `RollbackLists`). What a crash
leaves is a prefix of the writes, so the rest is said of the bucket, after any number of writes
(`GVUpdate`, `GVRollback`): its entries are the chain's as far as the chain goes (`OfChain`), and
none that is needed is missing. That an entry is `Needed` (no younger one is as old as `PrevCalcDone`)
depends on the chain alone, so neither a rollback nor a repetition changes which ones are.
`NothingMissing` cannot say that all of them are there: new ones come one by one, from the oldest,
and a crash may leave the first few. It says that an entry is there if its block is below `CalcDone` or
if any later key is there, which is just what the comparison with the last entry in
`UpdateGovernanceVariable` relies on; and the ones as old as `PrevCalcDone` are there unless nothing
was calculated yet (`HasFirst`). After the update all up to the calculated height are there
(`UpTo`), and `GVInForce` follows.

For candidates `CandidateInv` says that each is absent, registered, or registered and gone, at the
blocks of the chain, and that the transactions of the term that were seen are applied (`Applied`); a
transaction that comes again finds its effect there. For P-Rep lists, `PRepInv` says that nothing in
memory or in the DB is newer than `CalcDone`, or, when a ROLLBACK has taken `CalcDone` back, than the
end of the term after it, and that an update ends with the list of the term (`EndsWith`). A
repeated list therefore comes twice at the same height, the first of the two pays for no block, and
older lists end at it.

`SumTheorems` is the theory of finite sums under them, with the arithmetic of terms. The library defines a sum by a recursive
function over subsets, which takes an arbitrary element each time; the lemmas show that the
function exists and that the order does not matter. Induction over the set is done in first-order
form, for a family of subsets instead of an operator (`FiniteInduction`, from the
well-foundedness of the strict subset order).

`RLPProofs` proves, for words of any width and any numbers that fit into one:

* `KeysAreInOrder`: `Spec => []KeysInOrder`;
* `NumbersComeBack`: `Spec => []NumbersReadBack`.

`LogInv` says that the numbers in the log are the client's; the rest is arithmetic. The digits of
a number are its quotients by powers of the radix, modulo the radix. Of two numbers, the first
quotient that differs decides (`FirstDifference`): before it the digits are the same, and there the
smaller number has the smaller digit, which is what the order of keys compares; padding makes the
digits start at the same place.

Reading bytes is a fold, which the library defines by a recursive function over sets of indexes;
`FoldExists` shows that there is one, and `ShiftRuns`, `FlipRuns` and `HexRuns` turn each of the
three folds into a run: a number for every prefix, each made of the one before. A run is determined
by its digits (`RunsAgree`) and no step of it overflows a word (`RunBounded`), so it is enough to
give the run of a number's bytes: its quotients (`BytesRun`). A negative number has the bytes of
its two's complement (`Complement`), and the complements of the bytes are read as the complement of
the number (`ReadsComplement`). How many bytes `Int64ToBytes` and `BigIntToBytes` take is a matter
of how many bits the number needs (`RangesByBits`): they agree because the one stops where the sign
fits and the other adds a byte when the bits fill the last one (`BigIntSame`). For text, two
digits make a byte and a leading 0 that is left out is put back (`TextBytes`). Powers are
a recursive function too; that they exist and grow (`PowerExists`, `PowersGrow`), and every other
induction here, is by the least index for which it would fail.

Only model-checked: the liveness properties (`RequestsAnswered`, `CalculationsFinish`, `CloseEnds`,
`ToolsAnswered`), which are out of the prover's reach; and `ReadsBack`: what a
nested container is encoded to is a recursive function of all that comes after it, and that the
decoder follows it is an induction over streams. Every other invariant a
run checks is the subject of a theorem above.

## 5. Known gaps of the code

Met while modelling; the properties are stated so that they hold beside them.

* "already claimed in current period" (`msg_claim.go:115`) compares the account's
  calculation height with the height of the block of the last claim, so I-Score that was
  never claimed can be refused for a term.
* A crash between the last two writes of a claim rollback leaves `Current` at the
  height before it (`db_claim.go:574`); the repeated ROLLBACK does not write it.
* A calculation canceled by ROLLBACK stays "Calculating" (`msg_calculate.go:447`) and
  CALCULATE is dropped until the process restarts. `AnswersOfChain` is checked where
  IS waits for CALCULATE_DONE before it sends ROLLBACK.
* After such a canceled calculation a second ROLLBACK, to below `CalcDone`, restores and toggles
  what the canceled one left, and the next calculation may find accounts of the query DB already
  at its own height; `calculateDB` skips them (`msg_calculate.go:223`) and they are missing
  in the DB it fills. `QueryDBIsWhole` therefore speaks of heights, not of the accounts.
* A crash between `CalcDone` and the result loses the result (`msg_calculate.go:514`).
* A calculation reloaded after a crash in the passes goes on in the calculate DB of the
  interrupted one (`context.go:171`): accounts that are new in the term are rewarded twice, or
  get a negative I-Score when their delegation changed. The variable `torn` keeps these
  behaviours apart in `QueryDBServesChain`, `CalcDBIsTruth` and `CalcTypeOK`.
* ROLLBACK while the governance variables are being updated leaves entries of blocks
  that were rolled back (`msg_rollback.go:93`); `Management` lets the update finish first.
* A term with a second P-Rep list whose calculation is repeated gets lists twice
  (`context.go:390`); `PRepRewardOnce` is checked with one list a term.
* Before revision 8 a P-Rep whose list is replaced within a term stays behind the term's end
  (`msg_calculate.go:849`) and earns the rest again.
* A refused CALCULATE is answered twice, by its ACK and by CALCULATE_DONE; the client API
  does not take the second (`api_ipc.go:145-177`).
* A QUERY that holds a handle of an account DB which is closed answers 0 (errors of `Get` are
  ignored, `msg.go:260`); one that spans a ROLLBACK may be negative, and one that spans
  COMMIT_BLOCK and CALCULATE may offer too much. While ROLLBACK has set the list of account
  DBs to nil (`context.go:99`), a QUERY panics.
* `writeToDB` (`context.go:256`) encodes `DBInfo` without a lock.
* A message that cannot be decoded stays counted (`msg_calculate.go:299`) and the
  exit waits for ever; the reload goroutine, and handlers counted after Close has waited,
  are not waited for.
* ROLLBACK that its claim part refuses has canceled the calculation already
  (`msg_rollback.go:79`).
* Debug results: what a delegation transaction takes back is recorded as a reward, blocks
  without validators and generators among the validators are not recorded in full, products
  are cut to 64 bits, and DEBUG messages during a calculation change it half way
  (`msg_debug.go:182-226`).
* RLP: positive integers whose first byte is 0x80 or more decode as negative and the least
  int64 as 0 (`rlp.go:271`), a decoder does not skip what was not read of a container
  (`rlp.go:418`), and booleans and maps are encoded but not decoded.

## 6. Not modelled

Addresses, hex bytes and crypto are stateless. The state hash of a calculation, the
migration of `DBInfo` between versions, iterators, batches and snapshots of the
databases, and the framing of messages are not modelled; MessagePack, LevelDB, Badger
and Bolt are third-party. The tools print or generate data. Read errors within a pass,
which the code logs and skips, are not modelled.

## 7. Plan

1. A composition of `Claim`, `Calculate` and `Management` for one ROLLBACK that each part
   may refuse or a crash interrupt.
2. An abstract `ClaimLedger` (a chain of blocks that pay, and go back) and the proof
   that `Claim` implements it.
