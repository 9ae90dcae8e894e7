------------------------------ MODULE ClaimInv ------------------------------
(***************************************************************************)
(* The inductive invariant behind Claim's ClaimDBIsLedger, in named parts. *)
(***************************************************************************)
EXTENDS Claim

CommitPhases == {"write", "gc", "cbInfo", "commitFlush", "current"}
ClaimRollbackPhases == {"restore", "drop", "rbInfo"}
RollbackPhases == ClaimRollbackPhases \cup {"rbCurrent", "rename", "toggle", "calcDone"}

\* which handler may run in which state of the exchange with IS
Exchange ==
    /\ job.phase = "idle" => job = Idle
    /\ job.phase \in CommitPhases => committing # {}
    /\ job.phase \in RollbackPhases => rollingBack
    /\ job.phase = "reply" => ~Settled
    /\ committing # {} => ~rollingBack
    /\ \A b, c \in committing : b = c
    /\ started # {} => Settled
    /\ ~up => job = Idle /\ started = {}
    /\ \A t, u \in tx : t = u
    /\ \A t \in tx : up /\ job = Idle /\ t.hash \in started
    /\ job.phase \notin {"flush", "write", "commitFlush"} => job.pcs = {}
    /\ job.phase # "write" => job.saved = {}
    /\ started # {} => tip < MaxHeight

\* the preCommit DB has one entry per key
UniqueKeys ==
    \A p, q \in preCommit :
        p.height = q.height /\ p.hash = q.hash /\ p.addr = q.addr => p = q

\* the entries of a candidate block, the ones being flushed left out
LiveEntries(b) == BlockEntries(tip + 1, b) \ job.pcs

\* what a candidate block has paid is what its confirmed entries say
CandidatesRecorded ==
    \A b \in started :
        /\ \A p \in LiveEntries(b) : p.txIndex < nextTx[b]
        /\ \A p \in LiveEntries(b) : p.confirmed => paid[b][p.addr] = p.iScore
        /\ \A a \in Address :
              (\A p \in LiveEntries(b) : p.addr = a => ~p.confirmed) => paid[b][a] = 0

\* a transaction in progress has an unconfirmed entry with the I-Score CLAIM
\* answered, or none when that was zero
TransactionRecorded ==
    \A t \in tx :
        /\ t.txIndex < nextTx[t.hash]
        /\ t.iScore = 0 => EntryOf(t) = {}
        /\ t.iScore # 0 => \E p \in EntryOf(t) : p.iScore = t.iScore

\* what is left to do when the block b is committed but not answered
Unwritten(a) == claim[a].blockHeight < tip
CommitPending ==
    \A b \in committing :
        /\ tip > 0
        /\ cbInfo.last \in {tip - 1, tip}
        /\ cbInfo.last = tip => \A p \in BlockEntries(tip, b) : NotWritten(p)
        /\ cbInfo.last = tip - 1 =>
              \A a \in Address :
                 /\ claim[a].blockHeight <= tip
                 /\ ~Unwritten(a) => claim[a].iScore = ledger[tip][a]
                 /\ Unwritten(a) => claim[a].iScore = ledger[tip - 1][a]
                 /\ Unwritten(a) /\ backup[tip - 1][a] # NoBackup
                       => backup[tip - 1][a] = claim[a]
                 /\ Unwritten(a) =>
                       /\ \A p \in BlockEntries(tip, b) : p.addr = a /\ p.confirmed
                             => ledger[tip][a] = ledger[tip - 1][a] + p.iScore
                       /\ (\A p \in BlockEntries(tip, b) : p.addr = a => ~p.confirmed)
                             => ledger[tip][a] = ledger[tip - 1][a]

\* where the COMMIT_BLOCK handler is
CommitProgress ==
    \A b \in committing :
        /\ job.phase = "flush" => \A p \in job.pcs : p.height > tip
        /\ job.phase = "write" =>
              /\ job.pcs \cup job.saved \subseteq BlockEntries(tip, b)
              /\ \A p, q \in job.saved : p = q
              /\ \A p \in BlockEntries(tip, b) \ (job.pcs \cup job.saved) : NotWritten(p)
              /\ \A p \in job.saved : /\ ~NotWritten(p)
                                      /\ p \notin job.pcs
                                      /\ backup[tip - 1][p.addr] = claim[p.addr]
        /\ job.phase \in {"gc", "cbInfo"} =>
              \A p \in BlockEntries(tip, b) : NotWritten(p)
        /\ job.phase \in {"commitFlush", "current", "reply"} =>
              cbInfo.last = tip /\ ~HasGarbage

\* where the ROLLBACK handler is
RollbackProgress ==
    /\ rollingBack => tip <= cbInfo.last
    /\ job.phase \in {"restore", "drop"} =>
          /\ tip <= job.cursor /\ job.cursor <= cbInfo.last
          /\ \A h \in Height, a \in Address : h > job.cursor => backup[h][a] = NoBackup
    /\ job.phase = "restore" =>
          /\ job.addrs \subseteq BackedUp(job.cursor)
          /\ \A a \in BackedUp(job.cursor) \ job.addrs : claim[a] = backup[job.cursor][a]
    /\ job.phase = "drop" =>
          /\ BackedUp(job.cursor) = job.addrs
          /\ \A a \in job.addrs : claim[a] = backup[job.cursor][a]
    /\ job.phase = "rbInfo" =>
          \A h \in Height, a \in Address : tip <= h => backup[h][a] = NoBackup
    /\ rollingBack /\ job.phase \notin ClaimRollbackPhases \cup {"idle", "flush"} =>
          cbInfo.last = tip

\* a rollback to block h would leave the claim of a as the ledger has it at h:
\* so says the oldest backup from h on, or else the claim DB itself
Restorable(h, a) ==
    \/ \E i \in h .. MaxHeight :
          /\ backup[i][a] # NoBackup
          /\ \A j \in h .. i - 1 : backup[j][a] = NoBackup
          /\ backup[i][a].iScore = ledger[h][a] /\ backup[i][a].blockHeight <= h
    \/ /\ \A i \in h .. MaxHeight : backup[i][a] = NoBackup
       /\ claim[a].iScore = ledger[h][a] /\ claim[a].blockHeight <= h

\* the first block a rollback may go back to, the garbage collection of the
\* commit in progress counted as done
FirstRestorable ==
    IF committing # {} /\ HasGarbage THEN GarbageBlock + 1 ELSE cbInfo.first

\* Going back from here to any block h that the backups still cover would leave
\* the claim DB as it was when h was committed, however often the handlers were
\* interrupted (rollbackClaimDB undoes what writePreCommitToClaimDB backs up).
BackupsReachBack ==
    \A h \in Height, a \in Address :
        FirstRestorable <= h /\ h <= tip /\ h <= cbInfo.last
            => Restorable(h, a)

\* the backups end where the chain does
BackupRange ==
    /\ cbInfo.first <= cbInfo.last /\ cbInfo.first <= tip
    /\ Settled => cbInfo.last = tip
    /\ \A h \in Height, a \in Address :
          tip <= h /\ cbInfo.last <= h => backup[h][a] = NoBackup

\* the current block is behind the chain by at most the block being committed
CurrentReaches ==
    /\ tip <= info.current + 1
    /\ committing = {} => tip <= info.current
    /\ committing # {} /\ job.phase = "reply" => tip <= info.current

\* a rollback that undoes the last calculation is not answered yet
AccountRollback == rollingBack /\ tip <= info.calcDone

\* what was paid is never taken back by a later block
LedgerGrows ==
    \A h, k \in Height, a \in Address :
        h <= k /\ k <= tip => ledger[h][a] <= ledger[k][a]

\* the calculation before the last one can be undone once, until the next one
Calculations ==
    /\ accBackup # {} => /\ info.calcDone = info.prevCalcDone + Term
                         /\ info.toggleBH = info.calcDone + 1
    /\ AccountRollback => /\ info.prevCalcDone < tip
                          /\ info.calcDone = info.prevCalcDone + Term
                          /\ info.toggleBH \in {tip, info.calcDone + 1}
    /\ ~AccountRollback => /\ info.calcDone <= tip /\ tip <= info.calcDone + Term
                           /\ info.toggleBH <= info.calcDone + Term
                           /\ accBackup = {} => info.calcDone = info.prevCalcDone
    /\ started # {} => tip < info.calcDone + Term
    /\ rollingBack => info.prevCalcDone < tip
    /\ job.phase \in {"rename", "toggle", "calcDone"} => tip <= info.calcDone
    /\ job.phase \in {"toggle", "calcDone"} => accBackup = {}
    /\ job.phase = "calcDone" => info.toggleBH = tip
    /\ job.phase = "reply" => ~AccountRollback

\* every account DB covers what was paid while it answered claims, or will
\* have to cover when it answers them (again)
AccountsCover ==
    \A a \in Address :
        /\ ledger[tip][a] <= QueryAccount(a).iScore
        /\ \A old \in accBackup :
              /\ old[a].iScore <= QueryAccount(a).iScore
              /\ ledger[tip][a] <= old[a].iScore \/ ~AccountRollback
              /\ ledger[info.calcDone][a] <= old[a].iScore \/ AccountRollback
        /\ ~AccountRollback => QueryAccount(a).iScore <= account[CalcDB][a].iScore
        /\ AccountRollback /\ accBackup = {} =>
              IF info.toggleBH = tip
              THEN QueryAccount(a).iScore <= account[CalcDB][a].iScore
              ELSE /\ ledger[tip][a] <= account[CalcDB][a].iScore
                   /\ account[CalcDB][a].iScore <= QueryAccount(a).iScore

\* so does it cover what the blocks being invoked pay
CandidatesCovered ==
    /\ \A b \in started, a \in Address :
          ledger[tip][a] + paid[b][a] <= QueryAccount(a).iScore
    /\ \A t \in tx : ledger[tip][t.addr] + paid[t.hash][t.addr] + t.iScore
                         <= QueryAccount(t.addr).iScore

\* the inductive invariant behind NeverOverpaid, on top of IInv
AccountInv == LedgerGrows /\ Calculations /\ AccountsCover /\ CandidatesCovered

\* the backups reach back to the calculation before the last one
FirstReaches ==
    /\ cbInfo.first <= info.prevCalcDone + 1
    /\ cbInfo.first = 0 => cbInfo.last = 0

\* The inductive invariant of the claim, commit and rollback handlers.
IInv ==
    /\ TypeOK
    /\ Exchange
    /\ UniqueKeys
    /\ CandidatesRecorded
    /\ TransactionRecorded
    /\ CommitPending
    /\ CommitProgress
    /\ RollbackProgress
    /\ BackupRange
    /\ BackupsReachBack
=============================================================================
