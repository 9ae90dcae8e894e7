---------------------------- MODULE ClaimProofs ----------------------------
(***************************************************************************)
(* IInv is inductive, so the claim DB is the ledger of what was paid and a *)
(* rollback can always be done, for every number of addresses, candidate   *)
(* blocks and heights, and every backup period and term.  Neither does a   *)
(* query that runs beside the handlers hide what can be claimed.           *)
(***************************************************************************)
EXTENDS ClaimInv, Query, TLAPS

(* The jobs a handler may leave behind. *)
LEMMA JobTypes ==
    /\ Idle \in JobRecord
    /\ \A phase \in Phase : Job(phase) \in JobRecord
    /\ \A phase \in Phase, S \in SUBSET PreCommit : FlushJob(phase, S) \in JobRecord
    /\ \A h \in Height : RestoreJob(h) \in JobRecord
<1>1. 0 \in Height
  BY ConstantsAssumption DEF Height
<1>2. Idle \in JobRecord
  BY <1>1 DEF Idle, JobRecord, Phase
<1>3. \A h : BackedUp(h) \subseteq Address
  BY DEF BackedUp
<1> QED
  BY <1>2, <1>3 DEF Job, FlushJob, RestoreJob, JobRecord, Phase

(* The fields of the jobs a handler may leave behind. *)
LEMMA JobFields ==
    /\ Idle.phase = "idle" /\ Idle.pcs = {} /\ Idle.saved = {} /\ Idle.addrs = {}
    /\ \A phase : /\ Job(phase).phase = phase /\ Job(phase).pcs = {}
                  /\ Job(phase).saved = {} /\ Job(phase).addrs = {}
    /\ \A phase, S : /\ FlushJob(phase, S).phase = phase
                     /\ FlushJob(phase, S).pcs = S
                     /\ FlushJob(phase, S).saved = {}
    /\ \A h : /\ RestoreJob(h).phase = "restore" /\ RestoreJob(h).pcs = {}
              /\ RestoreJob(h).saved = {} /\ RestoreJob(h).cursor = h
              /\ RestoreJob(h).addrs = BackedUp(h)
BY DEF Idle, Job, FlushJob, RestoreJob

(* The answer to CLAIM is a multiple of the unit, at most what is unclaimed. *)
LEMMA ClaimableType ==
    ASSUME TypeOK, NEW b, NEW a \in Address
    PROVE  /\ ClaimableIScore(b, a) \in Nat
           /\ ClaimableIScore(b, a) # 0 => ~AlreadyClaimedInBlock(b, a)
           /\ ClaimableIScore(b, a) # 0 => ClaimableIScore(b, a) <= Unclaimed(a)
<1>1. Unclaimed(a) \in Int
  BY DEF TypeOK, Unclaimed, QueryAccount, QueryDB, DBInfo, Accounts, ClaimData
<1>2. \A x \in Nat, m \in Nat \ {0} : x % m \in Nat /\ x % m <= x
  BY SMT
<1> QED
  BY <1>1, <1>2, ConstantsAssumption DEF ClaimableIScore

(* While a COMMIT_BLOCK or ROLLBACK is unanswered no block is invoked. *)
LEMMA NoCandidates ==
    ASSUME Exchange, ~Settled
    PROVE  started = {} /\ tx = {}
BY DEF Exchange

(* Confirming an entry changes nothing else of it. *)
LEMMA ConfirmFields ==
    ASSUME NEW p \in PreCommit
    PROVE  /\ Confirm(p) \in PreCommit /\ Confirm(p).confirmed
           /\ Confirm(p).height = p.height /\ Confirm(p).hash = p.hash
           /\ Confirm(p).addr = p.addr /\ Confirm(p).txIndex = p.txIndex
           /\ Confirm(p).iScore = p.iScore
BY DEF Confirm, PreCommit

(* Restorable depends on the backups from h on, the claim and the ledger at h. *)
LEMMA RestorableSame ==
    ASSUME NEW h \in Height, NEW a \in Address, Restorable(h, a),
           \A i \in h .. MaxHeight : backup'[i][a] = backup[i][a],
           claim'[a] = claim[a], ledger'[h][a] = ledger[h][a]
    PROVE  Restorable(h, a)'
<1>1. \A i \in h .. MaxHeight : \A j \in h .. i - 1 : j \in h .. MaxHeight
  BY ConstantsAssumption DEF Height
<1> QED
  BY <1>1 DEF Restorable

(* So BackupsReachBack is not disturbed by a step that leaves them alone. *)
LEMMA ReachBackSame ==
    ASSUME TypeOK, BackupsReachBack,
           UNCHANGED <<backup, claim, cbInfo, tip, ledger, committing>>
    PROVE  BackupsReachBack'
<1> SUFFICES ASSUME NEW h \in Height, NEW a \in Address,
                    FirstRestorable' <= h, h <= tip', h <= cbInfo'.last
             PROVE  Restorable(h, a)'
  BY DEF BackupsReachBack
<1>1. FirstRestorable' = FirstRestorable
  BY DEF FirstRestorable, HasGarbage, GarbageBlock, FirstBackup
<1>2. Restorable(h, a)
  BY <1>1 DEF BackupsReachBack
<1> QED
  BY <1>2, RestorableSame

(* With every request answered the claim DB is the ledger. *)
LEMMA SettledClaims ==
    ASSUME IInv, Settled
    PROVE  \A a \in Address : claim[a].iScore = ledger[tip][a] /\ claim[a].blockHeight <= tip
<1> SUFFICES ASSUME NEW a \in Address
             PROVE  claim[a].iScore = ledger[tip][a] /\ claim[a].blockHeight <= tip
  OBVIOUS
<1>1. /\ tip \in Height /\ cbInfo.first <= tip /\ cbInfo.last = tip
      /\ \A h \in Height : tip <= h => backup[h][a] = NoBackup
  BY DEF IInv, TypeOK, BackupRange
<1>2. FirstRestorable = cbInfo.first
  BY DEF FirstRestorable, Settled
<1>3. Restorable(tip, a)
  BY <1>1, <1>2 DEF IInv, BackupsReachBack, Height
<1>4. \A i \in tip .. MaxHeight : backup[i][a] = NoBackup
  BY <1>1, ConstantsAssumption DEF Height
<1> QED
  BY <1>3, <1>4 DEF Restorable

(* deletePreCommit: the deleted entry was not a live one, or was already written. *)
LEMMA DeletePreCommitInv ==
    ASSUME IInv, NEW p, DeletePreCommit(p)
    PROVE  IInv'
<1>1. TypeOK'
  BY DEF DeletePreCommit, IInv, TypeOK, JobRecord, chainVars, blockVars
<1>2. Exchange'
  BY JobFields
  DEF DeletePreCommit, IInv, Exchange, Settled, dbVars, chainVars, blockVars
<1>3. UniqueKeys'
  BY DEF DeletePreCommit, IInv, UniqueKeys, chainVars
<1>4. CandidatesRecorded'
  BY DEF DeletePreCommit, IInv, CandidatesRecorded, LiveEntries, BlockEntries,
         chainVars, blockVars
<1>5. TransactionRecorded'
  BY JobFields
  DEF DeletePreCommit, IInv, TransactionRecorded, dbVars, chainVars, blockVars,
      Exchange
<1>6. CommitPending'
  <2>1. \A b \in committing : BlockEntries(tip, b)' \subseteq BlockEntries(tip, b)
    BY DEF DeletePreCommit, BlockEntries, chainVars
  <2>2. ASSUME NEW b \in committing, cbInfo.last = tip - 1
        PROVE  BlockEntries(tip, b)' = BlockEntries(tip, b)
    <3>1. tip \in Nat
      BY DEF IInv, TypeOK, Height
    <3>2. job.phase = "flush"
      BY <2>2, <3>1 DEF DeletePreCommit, IInv, CommitProgress
    <3>3. p.height > tip
      BY <3>2 DEF DeletePreCommit, IInv, CommitProgress
    <3>4. p \notin BlockEntries(tip, b)
      BY <3>1, <3>3 DEF BlockEntries
    <3> QED
      BY <3>4 DEF DeletePreCommit, BlockEntries, chainVars
  <2> QED
    BY <2>1, <2>2
    DEF DeletePreCommit, IInv, CommitPending, NotWritten, Unwritten, chainVars
<1>7. CommitProgress'
  BY DEF DeletePreCommit, IInv, CommitProgress, HasGarbage, FirstBackup, chainVars
<1>8. RollbackProgress'
  BY DEF DeletePreCommit, IInv, RollbackProgress, chainVars
<1>9. BackupRange'
  BY DEF DeletePreCommit, IInv, BackupRange, Settled, chainVars
<1>10. BackupsReachBack'
  BY ReachBackSame DEF DeletePreCommit, IInv, dbVars, chainVars, blockVars
<1> QED
  BY <1>1, <1>2, <1>3, <1>4, <1>5, <1>6, <1>7, <1>8, <1>9, <1>10 DEF IInv

(* The end of START_BLOCK, INIT or a failed COMMIT_BLOCK. *)
LEMMA EndFlushInv ==
    ASSUME IInv, EndFlush
    PROVE  IInv'
<1>1. TypeOK'
  BY ConstantsAssumption, JobTypes
  DEF EndFlush, IInv, TypeOK, Phase, dbVars, chainVars, blockVars
<1>2. Exchange'
  BY JobFields
  DEF EndFlush, IInv, Exchange, Settled, CommitPhases, RollbackPhases,
      ClaimRollbackPhases, dbVars, chainVars, blockVars
<1>3. UniqueKeys'
  BY DEF EndFlush, IInv, UniqueKeys, dbVars, chainVars
<1>4. CandidatesRecorded'
  BY JobFields
  DEF EndFlush, IInv, CandidatesRecorded, LiveEntries, BlockEntries, dbVars,
      chainVars, blockVars
<1>5. TransactionRecorded'
  BY DEF EndFlush, IInv, TransactionRecorded, EntryOf, BlockEntries, dbVars,
         chainVars, blockVars
<1>6. CommitPending'
  BY DEF EndFlush, IInv, CommitPending, BlockEntries, NotWritten, Unwritten, dbVars,
         chainVars
<1>7. CommitProgress'
  BY JobFields DEF EndFlush, IInv, CommitProgress, dbVars, chainVars
<1>8. RollbackProgress'
  BY JobFields DEF EndFlush, IInv, RollbackProgress, dbVars, chainVars
<1>9. BackupRange'
  BY DEF EndFlush, IInv, BackupRange, Settled, dbVars, chainVars
<1>10. BackupsReachBack'
  BY ReachBackSame DEF EndFlush, IInv, dbVars, chainVars, blockVars
<1> QED
  BY <1>1, <1>2, <1>3, <1>4, <1>5, <1>6, <1>7, <1>8, <1>9, <1>10 DEF IInv

(* START_BLOCK: what the block had recorded before is being flushed. *)
LEMMA StartBlockInv ==
    ASSUME IInv, NEW b \in Hash, StartBlock(b)
    PROVE  IInv'
<1>1. TypeOK'
  BY ConstantsAssumption, JobTypes
  DEF StartBlock, IInv, TypeOK, Phase, dbVars, chainVars, BlockEntries
<1>2. Exchange'
  BY JobFields
  DEF StartBlock, IInv, Exchange, Settled, Ready, CommitPhases, RollbackPhases,
      ClaimRollbackPhases, dbVars, chainVars
<1>3. UniqueKeys'
  BY DEF StartBlock, IInv, UniqueKeys, dbVars, chainVars
<1>4. CandidatesRecorded'
  <2>1. job.pcs = {} /\ job'.pcs = BlockEntries(tip + 1, b)
    BY JobFields DEF StartBlock, Ready
  <2>2. LiveEntries(b)' = {}
    BY <2>1 DEF StartBlock, LiveEntries, BlockEntries, dbVars, chainVars
  <2>3. \A c \in started : c # b => LiveEntries(c)' = LiveEntries(c)
    BY <2>1 DEF StartBlock, LiveEntries, BlockEntries, dbVars, chainVars
  <2>4. paid'[b] = [a \in Address |-> 0]
    BY DEF StartBlock, IInv, TypeOK
  <2>5. \A c \in Hash : c # b => paid'[c] = paid[c] /\ nextTx'[c] = nextTx[c]
    BY DEF StartBlock, IInv, TypeOK
  <2>6. started \subseteq Hash
    BY DEF IInv, TypeOK
  <2> QED
    BY <2>2, <2>3, <2>4, <2>5, <2>6 DEF StartBlock, IInv, CandidatesRecorded
<1>5. TransactionRecorded'
  BY DEF StartBlock, IInv, TransactionRecorded, dbVars, chainVars
<1>6. CommitPending'
  BY DEF StartBlock, IInv, CommitPending, BlockEntries, NotWritten, Unwritten,
         dbVars, chainVars
<1>7. CommitProgress'
  BY DEF StartBlock, IInv, CommitProgress, Settled, dbVars, chainVars
<1>8. RollbackProgress'
  BY JobFields DEF StartBlock, IInv, RollbackProgress, dbVars, chainVars
<1>9. BackupRange'
  BY DEF StartBlock, IInv, BackupRange, dbVars, chainVars
<1>10. BackupsReachBack'
  BY ReachBackSame DEF StartBlock, IInv, dbVars, chainVars, blockVars
<1> QED
  BY <1>1, <1>2, <1>3, <1>4, <1>5, <1>6, <1>7, <1>8, <1>9, <1>10 DEF IInv

(* CLAIM: the new entry, if any, is unconfirmed and the only one of its key. *)
LEMMA DoClaimInv ==
    ASSUME IInv, NEW b \in Hash, NEW a \in Address, DoClaim(b, a)
    PROVE  IInv'
<1>1a. /\ ClaimableIScore(b, a) \in Nat
       /\ ClaimableIScore(b, a) # 0 => \A p \in BlockEntries(tip + 1, b) : p.addr # a
  BY ClaimableType DEF IInv, AlreadyClaimedInBlock
<1>1b. tip + 1 \in Height /\ b \in started /\ nextTx[b] \in TxIndex
  BY ConstantsAssumption DEF DoClaim, IInv, TypeOK, Exchange, Height
<1>1c. PICK s \in Nat : s = ClaimableIScore(b, a)
  BY <1>1a
<1>1d. PICK e \in PreCommit : e = [height |-> tip + 1, hash |-> b, addr |-> a,
                                   txIndex |-> nextTx[b], confirmed |-> FALSE, iScore |-> s]
  BY <1>1b DEF PreCommit
<1>1e. PICK t \in Transaction : t = [hash |-> b, addr |-> a, txIndex |-> nextTx[b], iScore |-> s]
  BY <1>1b DEF Transaction
<1>a. /\ preCommit' = IF s = 0 THEN preCommit ELSE preCommit \cup {e}
      /\ tx' = {t}
      /\ job' = job /\ job = Idle /\ up /\ tx = {} /\ started' = started
      /\ paid' = paid /\ tip' = tip
  BY <1>1c, <1>1d, <1>1e DEF DoClaim, Ready, chainVars
<1>b. nextTx'[b] = nextTx[b] + 1 /\ \A c \in Hash : c # b => nextTx'[c] = nextTx[c]
  BY DEF DoClaim, IInv, TypeOK
<1>c. /\ e.height = tip + 1 /\ e.hash = b /\ e.addr = a /\ e.txIndex = nextTx[b]
      /\ ~e.confirmed /\ e.iScore = s
      /\ t.hash = b /\ t.addr = a /\ t.txIndex = nextTx[b] /\ t.iScore = s
  BY <1>1d, <1>1e
<1>d. \A c : LiveEntries(c) = BlockEntries(tip + 1, c) /\ LiveEntries(c)' = BlockEntries(tip + 1, c)'
  BY <1>a, JobFields DEF LiveEntries
<1>e. nextTx[b] \in Nat /\ \A p \in preCommit : p.txIndex \in Nat
  BY <1>1b DEF IInv, TypeOK, TxIndex, PreCommit
<1>1. TypeOK'
  <2>1. preCommit' \subseteq PreCommit /\ tx' \subseteq Transaction
    BY <1>a DEF IInv, TypeOK
  <2>2. nextTx' \in [Hash -> 1 .. MaxTx + 1]
    BY <1>1b, ConstantsAssumption DEF DoClaim, IInv, TypeOK, TxIndex
  <2> QED
    BY <2>1, <2>2 DEF DoClaim, IInv, TypeOK, chainVars
<1>2. Exchange'
  BY DEF DoClaim, IInv, Exchange, Settled, Ready, chainVars
<1>3. UniqueKeys'
  <2>1. s # 0 => \A p \in preCommit :
            ~(p.height = e.height /\ p.hash = e.hash /\ p.addr = e.addr)
    BY <1>1a, <1>1c, <1>c DEF BlockEntries
  <2> QED
    BY <1>a, <2>1 DEF IInv, UniqueKeys
<1>4. CandidatesRecorded'
  <2>1. \A c : c # b => LiveEntries(c)' = LiveEntries(c)
    BY <1>a, <1>c, <1>d DEF BlockEntries
  <2>2. LiveEntries(b)' = IF s = 0 THEN LiveEntries(b) ELSE LiveEntries(b) \cup {e}
    BY <1>a, <1>c, <1>d DEF BlockEntries
  <2>3. LiveEntries(b) \subseteq preCommit
    BY DEF LiveEntries, BlockEntries
  <2>4. started \subseteq Hash
    BY DEF IInv, TypeOK
  <2> QED
    BY <1>a, <1>b, <1>c, <1>e, <2>1, <2>2, <2>3, <2>4 DEF IInv, CandidatesRecorded
<1>5. TransactionRecorded'
  <2>1. \A p \in BlockEntries(tip + 1, b) : p.txIndex \in Nat /\ p.txIndex < nextTx[b]
    BY <1>1b, <1>d, <1>e DEF IInv, CandidatesRecorded, BlockEntries
  <2>2. ASSUME s = 0 PROVE EntryOf(t)' = {}
    BY <1>a, <1>c, <1>e, <2>1, <2>2 DEF EntryOf, BlockEntries
  <2>3. ASSUME s # 0 PROVE e \in EntryOf(t)'
    BY <1>a, <1>c, <2>3 DEF EntryOf, BlockEntries
  <2> QED
    BY <1>a, <1>b, <1>c, <1>e, <2>2, <2>3 DEF TransactionRecorded
<1>6. CommitPending'
  BY DEF DoClaim, IInv, CommitPending, Exchange, Settled, chainVars
<1>7. CommitProgress'
  BY JobFields DEF DoClaim, IInv, CommitProgress, Ready, chainVars
<1>8. RollbackProgress'
  BY JobFields DEF DoClaim, IInv, RollbackProgress, Ready, BackupRange, chainVars
<1>9. BackupRange'
  BY DEF DoClaim, IInv, BackupRange, Settled, chainVars
<1>10. BackupsReachBack'
  BY ReachBackSame DEF DoClaim, IInv, dbVars, chainVars, blockVars
<1> QED
  BY <1>1, <1>2, <1>3, <1>4, <1>5, <1>6, <1>7, <1>8, <1>9, <1>10 DEF IInv

(* COMMIT_CLAIM with success: exactly the transaction's entry is confirmed. *)
LEMMA CommitClaimInv ==
    ASSUME IInv, NEW t, CommitClaim(t)
    PROVE  IInv'
<1>a. /\ t \in tx /\ t \in Transaction /\ t.hash \in started /\ t.hash \in Hash
      /\ t.addr \in Address /\ t.iScore \in Nat
      /\ job' = job /\ job = Idle /\ tx' = {} /\ started' = started /\ tip' = tip
      /\ committing = {} /\ committing' = {}
  BY DEF CommitClaim, Ready, IInv, TypeOK, Exchange, Transaction, Settled, chainVars
<1>b. \A c : LiveEntries(c) = BlockEntries(tip + 1, c) /\ LiveEntries(c)' = BlockEntries(tip + 1, c)'
  BY <1>a, JobFields DEF LiveEntries
<1>c. EntryOf(t) \subseteq preCommit /\ EntryOf(t) \subseteq LiveEntries(t.hash)
  BY <1>b DEF EntryOf, BlockEntries
<1>d. /\ \A p, q \in EntryOf(t) : p = q
      /\ t.iScore = 0 => EntryOf(t) = {}
      /\ \A p \in EntryOf(t) : p.iScore = t.iScore /\ p.addr = t.addr /\ ~p.confirmed
  BY <1>a DEF IInv, UniqueKeys, TransactionRecorded, EntryOf, BlockEntries
<1>e. \A q \in LiveEntries(t.hash) : q.addr = t.addr /\ EntryOf(t) # {} => q \in EntryOf(t)
  BY <1>b DEF IInv, UniqueKeys, EntryOf, BlockEntries
<1>f. /\ paid' = [paid EXCEPT ![t.hash][t.addr] = @ + t.iScore] /\ nextTx' = nextTx
      /\ preCommit' = (preCommit \ EntryOf(t)) \cup {Confirm(p) : p \in EntryOf(t)}
  BY DEF CommitClaim
<1>g. \A p \in EntryOf(t) :
         /\ Confirm(p) \in PreCommit /\ Confirm(p).confirmed
         /\ Confirm(p).height = p.height /\ Confirm(p).hash = p.hash
         /\ Confirm(p).addr = p.addr /\ Confirm(p).txIndex = p.txIndex
         /\ Confirm(p).iScore = p.iScore
  BY <1>c, ConfirmFields DEF IInv, TypeOK
<1>1. TypeOK'
  <2>1. preCommit' \subseteq PreCommit
    BY <1>f, <1>g DEF IInv, TypeOK
  <2>2. paid' \in [Hash -> [Address -> Nat]]
    BY <1>a, <1>f DEF IInv, TypeOK
  <2> QED
    BY <2>1, <2>2 DEF CommitClaim, IInv, TypeOK, chainVars
<1>2. Exchange'
  BY DEF CommitClaim, IInv, Exchange, Settled, chainVars
<1>3. UniqueKeys'
  <2> SUFFICES ASSUME NEW p \in preCommit', NEW q \in preCommit',
                      p.height = q.height, p.hash = q.hash, p.addr = q.addr
               PROVE  p = q
    BY DEF UniqueKeys
  <2>1. CASE p \in preCommit \ EntryOf(t) /\ q \in preCommit \ EntryOf(t)
    BY <2>1 DEF IInv, UniqueKeys
  <2>2. CASE p \in preCommit \ EntryOf(t) /\ q \notin preCommit \ EntryOf(t)
    BY <1>c, <1>f, <1>g, <2>2 DEF IInv, UniqueKeys
  <2>3. CASE p \notin preCommit \ EntryOf(t) /\ q \in preCommit \ EntryOf(t)
    BY <1>c, <1>f, <1>g, <2>3 DEF IInv, UniqueKeys
  <2>4. CASE p \notin preCommit \ EntryOf(t) /\ q \notin preCommit \ EntryOf(t)
    BY <1>d, <1>f, <2>4
  <2> QED
    BY <2>1, <2>2, <2>3, <2>4
<1>4. CandidatesRecorded'
  <2>0. \A p \in EntryOf(t) : p.hash = t.hash /\ p.height = tip + 1
    BY DEF EntryOf, BlockEntries
  <2>1. ASSUME NEW c \in Hash, c # t.hash
        PROVE  LiveEntries(c)' = LiveEntries(c) /\ paid'[c] = paid[c]
    <3>1. paid'[c] = paid[c]
      BY <1>a, <1>f, <2>1 DEF IInv, TypeOK
    <3>2. BlockEntries(tip + 1, c)' = BlockEntries(tip + 1, c)
      BY <1>a, <1>f, <1>g, <2>0, <2>1 DEF BlockEntries
    <3> QED
      BY <1>b, <3>1, <3>2
  <2>2. LiveEntries(t.hash)' = (LiveEntries(t.hash) \ EntryOf(t))
                                \cup {Confirm(p) : p \in EntryOf(t)}
    BY <1>a, <1>b, <1>f, <1>g DEF BlockEntries, EntryOf
  <2>3. \A a \in Address : paid'[t.hash][a] = IF a = t.addr THEN paid[t.hash][a] + t.iScore
                                              ELSE paid[t.hash][a]
    BY <1>a, <1>f DEF IInv, TypeOK
  <2>4. EntryOf(t) # {} => paid[t.hash][t.addr] = 0
    BY <1>a, <1>d, <1>e DEF IInv, CandidatesRecorded
  <2>5. paid[t.hash] \in [Address -> Nat] /\ \A p \in LiveEntries(t.hash) : p.addr \in Address
    BY <1>a DEF IInv, TypeOK, LiveEntries, BlockEntries, PreCommit
  <2>6. ASSUME NEW p \in LiveEntries(t.hash)'
        PROVE  /\ p.txIndex < nextTx[t.hash]
               /\ p.confirmed => paid'[t.hash][p.addr] = p.iScore
    <3>1. CASE p \in LiveEntries(t.hash) \ EntryOf(t)
      <4>1. p.addr = t.addr => t.iScore = 0
        BY <3>1, <1>a, <1>e DEF IInv, TransactionRecorded
      <4> QED
        BY <3>1, <4>1, <2>3, <2>5, <1>a DEF IInv, CandidatesRecorded
    <3>2. CASE p \notin LiveEntries(t.hash) \ EntryOf(t)
      <4>1. PICK o \in EntryOf(t) : p = Confirm(o)
        BY <2>2, <3>2
      <4> QED
        BY <4>1, <1>a, <1>c, <1>d, <1>g, <2>3, <2>4 DEF IInv, CandidatesRecorded
    <3> QED
      BY <3>1, <3>2
  <2>7. ASSUME NEW a \in Address, \A p \in LiveEntries(t.hash)' : p.addr = a => ~p.confirmed
        PROVE  paid'[t.hash][a] = 0
    <3>1. a = t.addr => EntryOf(t) = {}
      BY <1>d, <1>g, <2>2, <2>7
    <3>2. a = t.addr => t.iScore = 0
      BY <3>1, <1>a DEF IInv, TransactionRecorded
    <3>3. \A p \in LiveEntries(t.hash) : p.addr = a => ~p.confirmed
      BY <1>d, <2>2, <2>7
    <3>4. paid[t.hash][a] = 0
      BY <3>3, <1>a DEF IInv, CandidatesRecorded
    <3> QED
      BY <3>2, <3>4, <2>3
  <2> QED
    BY <1>a, <1>f, <2>1, <2>6, <2>7 DEF IInv, TypeOK, CandidatesRecorded
<1>5. TransactionRecorded'
  BY DEF CommitClaim, IInv, TransactionRecorded, chainVars
<1>6. CommitPending'
  BY DEF CommitClaim, IInv, CommitPending, Exchange, Settled, chainVars
<1>7. CommitProgress'
  BY JobFields DEF CommitClaim, IInv, CommitProgress, Exchange, chainVars
<1>8. RollbackProgress'
  BY JobFields DEF CommitClaim, IInv, RollbackProgress, Exchange, BackupRange, chainVars
<1>9. BackupRange'
  BY DEF CommitClaim, IInv, BackupRange, Settled, chainVars
<1>10. BackupsReachBack'
  BY ReachBackSame DEF CommitClaim, IInv, dbVars, chainVars, blockVars
<1> QED
  BY <1>1, <1>2, <1>3, <1>4, <1>5, <1>6, <1>7, <1>8, <1>9, <1>10 DEF IInv

(* COMMIT_CLAIM with failure: an unconfirmed entry goes, and it had paid nothing. *)
LEMMA RevertClaimInv ==
    ASSUME IInv, NEW t, RevertClaim(t)
    PROVE  IInv'
<1>a. /\ t \in tx /\ t \in Transaction /\ t.hash \in started /\ t.hash \in Hash
      /\ t.addr \in Address /\ t.iScore \in Nat
      /\ job' = job /\ job = Idle /\ tx' = {} /\ started' = started /\ tip' = tip
      /\ committing = {} /\ committing' = {} /\ paid' = paid /\ nextTx' = nextTx
  BY DEF RevertClaim, Ready, IInv, TypeOK, Exchange, Transaction, Settled, chainVars
<1>b. \A c : LiveEntries(c) = BlockEntries(tip + 1, c) /\ LiveEntries(c)' = BlockEntries(tip + 1, c)'
  BY <1>a, JobFields DEF LiveEntries
<1>c. EntryOf(t) \subseteq preCommit /\ EntryOf(t) \subseteq LiveEntries(t.hash)
  BY <1>b DEF EntryOf, BlockEntries
<1>d. /\ \A p, q \in EntryOf(t) : p = q
      /\ t.iScore = 0 => EntryOf(t) = {}
      /\ \A p \in EntryOf(t) : p.iScore = t.iScore /\ p.addr = t.addr /\ ~p.confirmed
  BY <1>a DEF IInv, UniqueKeys, TransactionRecorded, EntryOf, BlockEntries
<1>e. \A q \in LiveEntries(t.hash) : q.addr = t.addr /\ EntryOf(t) # {} => q \in EntryOf(t)
  BY <1>b DEF IInv, UniqueKeys, EntryOf, BlockEntries
<1>1. TypeOK'
  BY DEF RevertClaim, IInv, TypeOK, chainVars
<1>2. Exchange'
  BY DEF RevertClaim, IInv, Exchange, Settled, chainVars
<1>3. UniqueKeys'
  BY DEF RevertClaim, IInv, UniqueKeys, chainVars
<1>4. CandidatesRecorded'
  <2>1. \A c : LiveEntries(c)' = LiveEntries(c) \ EntryOf(t)
    BY <1>a, <1>b DEF RevertClaim, BlockEntries
  <2> QED
    BY <1>a, <1>d, <2>1 DEF IInv, CandidatesRecorded
<1>5. TransactionRecorded'
  BY DEF RevertClaim, IInv, TransactionRecorded, chainVars
<1>6. CommitPending'
  BY DEF RevertClaim, IInv, CommitPending, Exchange, Settled, chainVars
<1>7. CommitProgress'
  BY JobFields DEF RevertClaim, IInv, CommitProgress, Exchange, chainVars
<1>8. RollbackProgress'
  BY JobFields DEF RevertClaim, IInv, RollbackProgress, Exchange, BackupRange, chainVars
<1>9. BackupRange'
  BY DEF RevertClaim, IInv, BackupRange, Settled, chainVars
<1>10. BackupsReachBack'
  BY ReachBackSame DEF RevertClaim, IInv, dbVars, chainVars, blockVars
<1> QED
  BY <1>1, <1>2, <1>3, <1>4, <1>5, <1>6, <1>7, <1>8, <1>9, <1>10 DEF IInv

(* COMMIT_BLOCK with failure. *)
LEMMA AbortBlockInv ==
    ASSUME IInv, NEW b \in Hash, AbortBlock(b)
    PROVE  IInv'
<1>1. TypeOK'
  BY ConstantsAssumption, JobTypes
  DEF AbortBlock, IInv, TypeOK, Phase, dbVars, chainVars, BlockEntries
<1>2. Exchange'
  BY JobFields
  DEF AbortBlock, IInv, Exchange, Settled, CommitPhases, RollbackPhases,
      ClaimRollbackPhases, dbVars, chainVars
<1>3. UniqueKeys'
  BY DEF AbortBlock, IInv, UniqueKeys, dbVars, chainVars
<1>4. CandidatesRecorded'
  <2>1. job.pcs = {} /\ job'.pcs = BlockEntries(tip + 1, b)
    BY JobFields DEF AbortBlock, Ready
  <2>2. \A c \in started' : LiveEntries(c)' = LiveEntries(c)
    BY <2>1 DEF AbortBlock, LiveEntries, BlockEntries, dbVars, chainVars
  <2> QED
    BY <2>2 DEF AbortBlock, IInv, CandidatesRecorded
<1>5. TransactionRecorded'
  BY DEF AbortBlock, IInv, TransactionRecorded, dbVars, chainVars
<1>6. CommitPending'
  BY DEF AbortBlock, IInv, CommitPending, BlockEntries, NotWritten, Unwritten,
         dbVars, chainVars
<1>7. CommitProgress'
  BY DEF AbortBlock, IInv, CommitProgress, Exchange, Settled, dbVars, chainVars
<1>8. RollbackProgress'
  BY JobFields DEF AbortBlock, IInv, RollbackProgress, dbVars, chainVars
<1>9. BackupRange'
  BY DEF AbortBlock, IInv, BackupRange, Settled, dbVars, chainVars
<1>10. BackupsReachBack'
  BY ReachBackSame DEF AbortBlock, IInv, dbVars, chainVars, blockVars
<1> QED
  BY <1>1, <1>2, <1>3, <1>4, <1>5, <1>6, <1>7, <1>8, <1>9, <1>10 DEF IInv

(* The new block's ledger is what its confirmed entries will add to the claim DB. *)
LEMMA DecideBlockInv ==
    ASSUME IInv, NEW b \in Hash, DecideBlock(b)
    PROVE  IInv'
<1>1. TypeOK'
  <2>1. tip + 1 \in Height /\ tip \in Height
    BY ConstantsAssumption DEF DecideBlock, IInv, TypeOK, Exchange, Height
  <2>2. \A a \in Address : ledger[tip][a] + paid[b][a] \in Nat
    <3>1. \A a \in Address : ledger[tip][a] \in Nat /\ paid[b][a] \in Nat
      BY <2>1 DEF IInv, TypeOK
    <3>2. \A x, y \in Nat : x + y \in Nat
      OBVIOUS
    <3> QED
      BY <3>1, <3>2, Zenon
  <2>3. ledger' \in [Height -> [Address -> Nat]]
    BY <2>1, <2>2 DEF DecideBlock, IInv, TypeOK
  <2>4. 1 \in 1 .. MaxTx + 1
    BY ConstantsAssumption
  <2>5. /\ paid' \in [Hash -> [Address -> Nat]] /\ nextTx' \in [Hash -> 1 .. MaxTx + 1]
        /\ tx' = {} /\ started' = {}
    BY <2>4 DEF DecideBlock, DropCandidates, NothingPaid
  <2> QED
    BY <2>1, <2>3, <2>5 DEF DecideBlock, IInv, TypeOK, dbVars
<1>2. Exchange'
  BY DEF DecideBlock, IInv, Exchange, Settled, dbVars, DropCandidates
<1>3. UniqueKeys'
  BY DEF DecideBlock, IInv, UniqueKeys, dbVars, DropCandidates
<1>4. CandidatesRecorded'
  BY DEF DecideBlock, IInv, CandidatesRecorded, dbVars, DropCandidates
<1>5. TransactionRecorded'
  BY DEF DecideBlock, IInv, TransactionRecorded, dbVars, DropCandidates
<1>6. CommitPending'
  <2>1. started # {} /\ Settled /\ job = Idle /\ tip \in Nat /\ cbInfo.last = tip
    BY DEF DecideBlock, Ready, IInv, Exchange, BackupRange, TypeOK, Height
  <2>2. /\ tip' = tip + 1 /\ committing' = {b} /\ tip + 1 \in Height
        /\ preCommit' = preCommit /\ claim' = claim /\ backup' = backup /\ cbInfo' = cbInfo
    BY ConstantsAssumption DEF DecideBlock, dbVars, IInv, Exchange, TypeOK, Height
  <2>3. \A a \in Address : /\ ledger'[tip + 1][a] = ledger[tip][a] + paid[b][a]
                           /\ ledger'[tip][a] = ledger[tip][a]
    BY <2>1, <2>2 DEF DecideBlock, IInv, TypeOK, Height
  <2>4. \A a \in Address : claim[a].iScore = ledger[tip][a] /\ claim[a].blockHeight <= tip
    BY SettledClaims, <2>1 DEF IInv
  <2>5. \A a \in Address : backup[tip][a] = NoBackup
    BY <2>1 DEF IInv, BackupRange, TypeOK
  <2>6. LiveEntries(b) = BlockEntries(tip + 1, b) /\ b \in started
    BY <2>1, JobFields DEF DecideBlock, LiveEntries
  <2>7. \A a \in Address :
           /\ \A p \in BlockEntries(tip + 1, b) : p.addr = a /\ p.confirmed => paid[b][a] = p.iScore
           /\ (\A p \in BlockEntries(tip + 1, b) : p.addr = a => ~p.confirmed) => paid[b][a] = 0
    BY <2>6 DEF IInv, CandidatesRecorded
  <2>8. /\ \A a \in Address : claim[a].blockHeight \in Nat /\ ledger[tip][a] \in Nat
        /\ tip' - 1 = tip /\ cbInfo'.last # tip' /\ cbInfo'.last = tip' - 1
    BY <2>1, <2>2 DEF IInv, TypeOK, ClaimData, Height
  <2>9. BlockEntries(tip, b)' = BlockEntries(tip + 1, b)
    BY <2>2 DEF BlockEntries
  <2> SUFFICES ASSUME NEW a \in Address
               PROVE  /\ claim'[a].blockHeight < tip'
                      /\ claim'[a].iScore = ledger'[tip' - 1][a]
                      /\ backup'[tip' - 1][a] = NoBackup
                      /\ \A p \in BlockEntries(tip, b)' : p.addr = a /\ p.confirmed
                            => ledger'[tip'][a] = ledger'[tip' - 1][a] + p.iScore
                      /\ (\A p \in BlockEntries(tip, b)' : p.addr = a => ~p.confirmed)
                            => ledger'[tip'][a] = ledger'[tip' - 1][a]
    BY <2>1, <2>2, <2>8 DEF CommitPending, Unwritten
  <2> QED
    BY <2>1, <2>2, <2>3, <2>4, <2>5, <2>7, <2>8, <2>9
<1>7. CommitProgress'
  BY JobFields DEF DecideBlock, IInv, CommitProgress, Ready, dbVars, DropCandidates
<1>8. RollbackProgress'
  BY JobFields
  DEF DecideBlock, IInv, RollbackProgress, Exchange, Settled, Ready, BackupRange,
      dbVars, DropCandidates
<1>9. BackupRange'
  <2>1. started # {} /\ Settled /\ cbInfo.last = tip /\ tip' = tip + 1 /\ tip \in Nat
    BY DEF DecideBlock, IInv, Exchange, BackupRange, TypeOK, Height
  <2>2. committing' # {} /\ backup' = backup /\ cbInfo' = cbInfo
    BY DEF DecideBlock, dbVars
  <2> QED
    BY <2>1, <2>2 DEF IInv, BackupRange, TypeOK, Height, Settled
<1>10. BackupsReachBack'
  <2>1. started # {} /\ Settled /\ cbInfo.last = tip /\ tip' = tip + 1 /\ tip \in Nat
    BY DEF DecideBlock, IInv, Exchange, BackupRange, TypeOK, Height
  <2>2. committing = {} /\ backup' = backup /\ cbInfo' = cbInfo /\ claim' = claim
    BY <2>1 DEF DecideBlock, Settled, dbVars
  <2>3. FirstRestorable = cbInfo.first /\ FirstRestorable' >= cbInfo.first
    BY <2>1, <2>2, ConstantsAssumption
    DEF FirstRestorable, HasGarbage, GarbageBlock, FirstBackup, IInv, TypeOK, Height
  <2> SUFFICES ASSUME NEW h \in Height, NEW a \in Address,
                      FirstRestorable' <= h, h <= tip', h <= cbInfo'.last
               PROVE  Restorable(h, a)'
    BY DEF BackupsReachBack
  <2>4. h <= tip /\ cbInfo.first <= h
    <3>1. FirstRestorable' \in Int /\ cbInfo.first \in Int /\ h \in Int
      BY <2>1, <2>2, ConstantsAssumption
      DEF FirstRestorable, HasGarbage, GarbageBlock, FirstBackup, IInv, TypeOK, Height
    <3> QED
      BY <3>1, <2>1, <2>2, <2>3
  <2>5. Restorable(h, a)
    BY <2>1, <2>2, <2>3, <2>4 DEF IInv, BackupsReachBack
  <2>6. ledger'[h][a] = ledger[h][a]
    BY <2>1, <2>4 DEF DecideBlock, IInv, TypeOK, Height
  <2> QED
    BY <2>2, <2>5, <2>6, RestorableSame
<1> QED
  BY <1>1, <1>2, <1>3, <1>4, <1>5, <1>6, <1>7, <1>8, <1>9, <1>10 DEF IInv

(* COMMIT_BLOCK starts, or starts again after a crash. *)
LEMMA CommitBlockInv ==
    ASSUME IInv, NEW b, CommitBlock(b)
    PROVE  IInv'
<1>0. committing # {} /\ ~rollingBack /\ started = {} /\ tx = {}
  BY NoCandidates
  DEF CommitBlock, IInv, Exchange, Settled, CommitPhases, RollbackPhases,
      ClaimRollbackPhases
<1>1. TypeOK'
  BY ConstantsAssumption, JobTypes
  DEF CommitBlock, IInv, TypeOK, Phase, dbVars, chainVars, blockVars, BlockEntries
<1>2. Exchange'
  BY <1>0, JobFields
  DEF CommitBlock, IInv, Exchange, Ready, RollbackPhases, ClaimRollbackPhases,
      dbVars, chainVars, blockVars
<1>3. UniqueKeys'
  BY DEF CommitBlock, IInv, UniqueKeys, dbVars, chainVars
<1>4. CandidatesRecorded'
  BY <1>0 DEF CommitBlock, IInv, CandidatesRecorded, dbVars, chainVars, blockVars
<1>5. TransactionRecorded'
  BY <1>0 DEF CommitBlock, IInv, TransactionRecorded, dbVars, chainVars, blockVars
<1>6. CommitPending'
  BY DEF CommitBlock, IInv, CommitPending, BlockEntries, NotWritten, Unwritten,
         dbVars, chainVars
<1>7. CommitProgress'
  <2>1. job'.phase = "write" /\ job'.pcs = BlockEntries(tip, b) /\ job'.saved = {}
    BY JobFields DEF CommitBlock
  <2>2. \A c \in committing : c = b
    BY DEF CommitBlock, IInv, Exchange
  <2>3. BlockEntries(tip, b)' = BlockEntries(tip, b) /\ committing' = committing
    BY DEF CommitBlock, BlockEntries, dbVars, chainVars
  <2> QED
    BY <2>1, <2>2, <2>3 DEF CommitProgress
<1>8. RollbackProgress'
  BY <1>0, JobFields DEF CommitBlock, IInv, RollbackProgress, dbVars, chainVars
<1>9. BackupRange'
  BY DEF CommitBlock, IInv, BackupRange, Settled, dbVars, chainVars
<1>10. BackupsReachBack'
  BY ReachBackSame DEF CommitBlock, IInv, dbVars, chainVars, blockVars
<1> QED
  BY <1>1, <1>2, <1>3, <1>4, <1>5, <1>6, <1>7, <1>8, <1>9, <1>10 DEF IInv

(* An entry that is not written is counted as done. *)
LEMMA SkipPreCommitInv ==
    ASSUME IInv, NEW p, SkipPreCommit(p)
    PROVE  IInv'
<1>0. committing # {} /\ ~rollingBack /\ started = {} /\ tx = {}
  BY NoCandidates
  DEF SkipPreCommit, IInv, Exchange, Settled, CommitPhases, RollbackPhases,
      ClaimRollbackPhases
<1>1. TypeOK'
  BY DEF SkipPreCommit, IInv, TypeOK, JobRecord, dbVars, chainVars, blockVars
<1>2. Exchange'
  BY JobFields, <1>0 DEF SkipPreCommit, IInv, Exchange, dbVars, chainVars, blockVars
<1>3. UniqueKeys'
  BY DEF SkipPreCommit, IInv, UniqueKeys, dbVars, chainVars
<1>4. CandidatesRecorded'
  BY <1>0 DEF SkipPreCommit, IInv, CandidatesRecorded, dbVars, chainVars, blockVars
<1>5. TransactionRecorded'
  BY <1>0 DEF SkipPreCommit, IInv, TransactionRecorded, dbVars, chainVars, blockVars
<1>6. CommitPending'
  BY DEF SkipPreCommit, IInv, CommitPending, BlockEntries, NotWritten, Unwritten,
         dbVars, chainVars
<1>7. CommitProgress'
  BY DEF SkipPreCommit, IInv, CommitProgress, BlockEntries, NotWritten, dbVars,
         chainVars
<1>8. RollbackProgress'
  BY DEF SkipPreCommit, IInv, RollbackProgress, dbVars, chainVars
<1>9. BackupRange'
  BY DEF SkipPreCommit, IInv, BackupRange, Settled, dbVars, chainVars
<1>10. BackupsReachBack'
  BY ReachBackSame DEF SkipPreCommit, IInv, dbVars, chainVars, blockVars
<1> QED
  BY <1>1, <1>2, <1>3, <1>4, <1>5, <1>6, <1>7, <1>8, <1>9, <1>10 DEF IInv

(* The backup of a claim: the old backups still determine the blocks before. *)
LEMMA BackupClaimInv ==
    ASSUME IInv, NEW p, BackupClaim(p)
    PROVE  IInv'
<1>0. committing # {} /\ ~rollingBack /\ started = {} /\ tx = {}
  BY NoCandidates
  DEF BackupClaim, IInv, Exchange, Settled, CommitPhases, RollbackPhases,
      ClaimRollbackPhases
<1>a. PICK b \in committing : \A c \in committing : b = c
  BY <1>0 DEF IInv, Exchange
<1>b. /\ job.phase = "write" /\ job.saved = {} /\ p \in job.pcs /\ p \in BlockEntries(tip, b)
      /\ ~NotWritten(p)
  BY <1>a DEF BackupClaim, IInv, CommitProgress
<1>c. p \in PreCommit /\ p.height = tip /\ p.hash = b /\ p.addr \in Address
  BY <1>b DEF IInv, TypeOK, BlockEntries, PreCommit
<1>d. tip \in Nat /\ tip > 0 /\ tip - 1 \in Height /\ tip \in Height
  BY <1>a, ConstantsAssumption DEF IInv, TypeOK, CommitPending, Height
<1>e. cbInfo.last = tip - 1 /\ Unwritten(p.addr)
  BY <1>a, <1>b, <1>c, <1>d
  DEF IInv, TypeOK, ClaimData, Height, CommitPending, NotWritten, Unwritten
<1>f. claim[p.addr] \in ClaimData /\ claim[p.addr] # NoBackup
  BY <1>c, ConstantsAssumption DEF IInv, TypeOK
<1>g. /\ backup' = [backup EXCEPT ![tip - 1][p.addr] = claim[p.addr]]
      /\ backup' \in [Height -> [Address -> ClaimData \cup {NoBackup}]]
  BY <1>c, <1>d, <1>f DEF BackupClaim, IInv, TypeOK
<1>h. /\ backup'[tip - 1][p.addr] = claim[p.addr]
      /\ \A h \in Height, a \in Address :
            h # tip - 1 \/ a # p.addr => backup'[h][a] = backup[h][a]
  BY <1>c, <1>d, <1>g DEF IInv, TypeOK
<1>i. /\ job'.phase = "write" /\ job'.pcs = job.pcs \ {p} /\ job'.saved = {p}
      /\ job' \in JobRecord
  BY <1>b, <1>c DEF BackupClaim, IInv, TypeOK, JobRecord
<1>j. /\ preCommit' = preCommit /\ claim' = claim /\ cbInfo' = cbInfo /\ tip' = tip
      /\ ledger' = ledger /\ committing' = committing
  BY DEF BackupClaim, chainVars
<1>1. TypeOK'
  BY <1>g, <1>i DEF BackupClaim, IInv, TypeOK, chainVars, blockVars
<1>2. Exchange'
  BY JobFields, <1>0 DEF BackupClaim, IInv, Exchange, dbVars, chainVars, blockVars
<1>3. UniqueKeys'
  BY DEF BackupClaim, IInv, UniqueKeys, chainVars
<1>4. CandidatesRecorded'
  BY <1>0 DEF BackupClaim, IInv, CandidatesRecorded, chainVars, blockVars
<1>5. TransactionRecorded'
  BY <1>0 DEF BackupClaim, IInv, TransactionRecorded, chainVars, blockVars
<1>6. CommitPending'
  <2>1. \A c : BlockEntries(tip, c)' = BlockEntries(tip, c)
    BY <1>j DEF BlockEntries
  <2>2. \A a \in Address : backup'[tip - 1][a] = backup[tip - 1][a] \/ backup'[tip - 1][a] = claim[a]
    BY <1>d, <1>h
  <2> QED
    BY <1>a, <1>e, <1>j, <2>1, <2>2 DEF IInv, CommitPending, NotWritten, Unwritten
<1>7. CommitProgress'
  <2>1. \A c : BlockEntries(tip, c)' = BlockEntries(tip, c)
    BY <1>j DEF BlockEntries
  <2>2. \A q : NotWritten(q)' = NotWritten(q)
    BY <1>j DEF NotWritten
  <2> QED
    BY <1>a, <1>b, <1>h, <1>i, <1>j, <2>1, <2>2 DEF IInv, CommitProgress
<1>8. RollbackProgress'
  BY DEF BackupClaim, IInv, RollbackProgress, chainVars
<1>9. BackupRange'
  <2>1. \A h \in Height : tip <= h => h # tip - 1
    BY <1>d DEF Height
  <2> QED
    BY <1>0, <1>h, <1>j, <2>1 DEF BackupClaim, IInv, BackupRange, Settled, chainVars
<1>10. BackupsReachBack'
  <2> SUFFICES ASSUME NEW h \in Height, NEW a \in Address,
                      FirstRestorable' <= h, h <= tip', h <= cbInfo'.last
               PROVE  Restorable(h, a)'
    BY DEF BackupsReachBack
  <2>1. FirstRestorable' = FirstRestorable
    BY <1>j DEF FirstRestorable, HasGarbage, GarbageBlock, FirstBackup
  <2>2. Restorable(h, a)
    BY <1>j, <2>1 DEF IInv, BackupsReachBack
  <2>3. h \in Nat /\ h <= tip - 1 /\ h .. MaxHeight \subseteq Height /\ tip - 1 \in h .. MaxHeight
    BY <1>d, <1>e, <1>j, ConstantsAssumption DEF Height
  <2>4. CASE a # p.addr \/ backup[tip - 1][a] # NoBackup
    <3>1. a = p.addr => backup'[tip - 1][a] = backup[tip - 1][a]
      BY <1>a, <1>e, <1>h, <2>4 DEF IInv, CommitPending
    <3>2. \A i \in h .. MaxHeight : backup'[i][a] = backup[i][a]
      BY <1>d, <1>h, <2>3, <3>1
    <3> QED
      BY <1>j, <2>2, <3>2, RestorableSame
  <2>5. CASE a = p.addr /\ backup[tip - 1][a] = NoBackup
    <3>1. ASSUME NEW i \in h .. MaxHeight, backup[i][a] # NoBackup
          PROVE  i < tip - 1
      <4>1. i \in Height /\ ~(tip <= i) /\ i # tip - 1
        BY <1>e, <1>d, <2>3, <2>5, <3>1 DEF IInv, BackupRange, Height
      <4> QED
        BY <4>1, <1>d DEF Height
    <3>2. CASE \A i \in h .. MaxHeight : backup[i][a] = NoBackup
      <4>1. claim[a].iScore = ledger[h][a] /\ claim[a].blockHeight <= h
        BY <2>2, <3>2 DEF Restorable
      <4>2a. \A j \in h .. (tip - 1) - 1 : j \in Height /\ j # tip - 1 /\ j \in h .. MaxHeight
        BY <1>d, <2>3, ConstantsAssumption DEF Height
      <4>2. \A j \in h .. (tip - 1) - 1 : backup'[j][a] = NoBackup
        BY <1>h, <3>2, <4>2a
      <4> QED
        BY <1>f, <1>h, <1>j, <2>3, <2>5, <4>1, <4>2 DEF Restorable
    <3>3. CASE \E i \in h .. MaxHeight : backup[i][a] # NoBackup
      <4>1. PICK i \in h .. MaxHeight :
               /\ backup[i][a] # NoBackup
               /\ \A j \in h .. i - 1 : backup[j][a] = NoBackup
               /\ backup[i][a].iScore = ledger[h][a] /\ backup[i][a].blockHeight <= h
        BY <2>2, <3>3 DEF Restorable
      <4>2. i < tip - 1
        BY <3>1, <4>1
      <4>3a. \A j \in h .. i : j \in Height /\ j # tip - 1
        BY <1>d, <2>3, <4>2, ConstantsAssumption DEF Height
      <4>3. \A j \in h .. i : backup'[j][a] = backup[j][a]
        BY <1>h, <4>3a
      <4>4. i \in h .. i /\ \A j \in h .. i - 1 : j \in h .. i
        BY <2>3
      <4> QED
        BY <1>j, <4>1, <4>3, <4>4 DEF Restorable
    <3> QED
      BY <3>2, <3>3
  <2> QED
    BY <2>4, <2>5
<1> QED
  BY <1>1, <1>2, <1>3, <1>4, <1>5, <1>6, <1>7, <1>8, <1>9, <1>10 DEF IInv

(* The claim DB reaches the ledger of the block; its backup was written before. *)
LEMMA WriteClaimInv ==
    ASSUME IInv, NEW p, WriteClaim(p)
    PROVE  IInv'
<1>0. committing # {} /\ ~rollingBack /\ started = {} /\ tx = {}
  BY NoCandidates
  DEF WriteClaim, IInv, Exchange, Settled, CommitPhases, RollbackPhases,
      ClaimRollbackPhases
<1>a. PICK b \in committing : \A c \in committing : b = c
  BY <1>0 DEF IInv, Exchange
<1>b. /\ job.phase = "write" /\ p \in job.saved /\ p \in BlockEntries(tip, b)
      /\ ~NotWritten(p) /\ p \notin job.pcs /\ \A q \in job.saved : q = p
      /\ backup[tip - 1][p.addr] = claim[p.addr]
  BY <1>a DEF WriteClaim, IInv, CommitProgress
<1>c. p \in PreCommit /\ p.height = tip /\ p.hash = b /\ p.addr \in Address /\ p.iScore \in Nat
  BY <1>b DEF IInv, TypeOK, BlockEntries, PreCommit
<1>d. tip \in Nat /\ tip > 0 /\ tip - 1 \in Height /\ tip \in Height
  BY <1>a, ConstantsAssumption DEF IInv, TypeOK, CommitPending, Height
<1>e. cbInfo.last = tip - 1 /\ Unwritten(p.addr) /\ p.confirmed
  <2>1. claim[p.addr].blockHeight \in Nat
    BY <1>c DEF IInv, TypeOK, ClaimData, Height
  <2>2. p.confirmed /\ p.iScore # 0 /\ ~(p.height <= claim[p.addr].blockHeight)
    BY <1>b DEF NotWritten
  <2> QED
    BY <1>a, <1>b, <1>c, <1>d, <2>1, <2>2 DEF IInv, CommitPending, Unwritten
<1>f. /\ claim'[p.addr] = [blockHeight |-> tip, iScore |-> claim[p.addr].iScore + p.iScore]
      /\ \A a \in Address : a # p.addr => claim'[a] = claim[a]
      /\ claim' \in [Address -> ClaimData]
  BY <1>c, <1>d DEF WriteClaim, IInv, TypeOK, ClaimData
<1>g. /\ job'.phase = "write" /\ job'.pcs = job.pcs /\ job'.saved = {}
      /\ job' \in JobRecord
  BY <1>b DEF WriteClaim, IInv, TypeOK, JobRecord
<1>h. /\ preCommit' = preCommit /\ backup' = backup /\ cbInfo' = cbInfo /\ tip' = tip
      /\ ledger' = ledger /\ committing' = committing
  BY DEF WriteClaim, chainVars
<1>i. \A c : BlockEntries(tip, c)' = BlockEntries(tip, c)
  BY <1>h DEF BlockEntries
<1>j. claim[p.addr] # NoBackup
  BY <1>c, ConstantsAssumption DEF IInv, TypeOK
<1>1. TypeOK'
  BY <1>f, <1>g DEF WriteClaim, IInv, TypeOK, chainVars, blockVars
<1>2. Exchange'
  BY JobFields, <1>0 DEF WriteClaim, IInv, Exchange, dbVars, chainVars, blockVars
<1>3. UniqueKeys'
  BY DEF WriteClaim, IInv, UniqueKeys, chainVars
<1>4. CandidatesRecorded'
  BY <1>0 DEF WriteClaim, IInv, CandidatesRecorded, chainVars, blockVars
<1>5. TransactionRecorded'
  BY <1>0 DEF WriteClaim, IInv, TransactionRecorded, chainVars, blockVars
<1>6. CommitPending'
  <2>1. claim'[p.addr].blockHeight = tip /\ claim'[p.addr].iScore = ledger[tip][p.addr]
    BY <1>a, <1>b, <1>c, <1>d, <1>e, <1>f DEF IInv, CommitPending
  <2>2. \A a \in Address : a # p.addr => Unwritten(a)' = Unwritten(a)
    BY <1>f, <1>h DEF Unwritten
  <2>3. ~Unwritten(p.addr)' /\ tip # tip - 1
    BY <1>d, <1>h, <2>1 DEF Unwritten
  <2>4. claim'[p.addr].blockHeight <= tip
    BY <1>d, <2>1
  <2> QED
    BY <1>a, <1>d, <1>e, <1>f, <1>h, <1>i, <2>1, <2>2, <2>3, <2>4
    DEF IInv, CommitPending
<1>7. CommitProgress'
  <2>1. \A q \in BlockEntries(tip, b) : q.addr = p.addr => q = p
    BY <1>b, <1>c DEF IInv, UniqueKeys, BlockEntries
  <2>2. NotWritten(p)'
    BY <1>c, <1>d, <1>f DEF NotWritten
  <2>3. \A q \in BlockEntries(tip, b) : q # p => NotWritten(q)' = NotWritten(q)
    BY <1>f, <2>1 DEF NotWritten, IInv, TypeOK, PreCommit, BlockEntries
  <2> QED
    BY <1>a, <1>b, <1>g, <1>h, <1>i, <2>2, <2>3 DEF IInv, CommitProgress
<1>8. RollbackProgress'
  BY DEF WriteClaim, IInv, RollbackProgress, chainVars
<1>9. BackupRange'
  BY DEF WriteClaim, IInv, BackupRange, Settled, chainVars
<1>10. BackupsReachBack'
  <2> SUFFICES ASSUME NEW h \in Height, NEW a \in Address,
                      FirstRestorable' <= h, h <= tip', h <= cbInfo'.last
               PROVE  Restorable(h, a)'
    BY DEF BackupsReachBack
  <2>1. FirstRestorable' = FirstRestorable
    BY <1>h DEF FirstRestorable, HasGarbage, GarbageBlock, FirstBackup
  <2>2. Restorable(h, a)
    BY <1>h, <2>1 DEF IInv, BackupsReachBack
  <2>3. CASE a # p.addr
    BY <1>f, <1>h, <2>2, <2>3, RestorableSame
  <2>4. CASE a = p.addr
    <3>1. tip - 1 \in h .. MaxHeight /\ backup[tip - 1][a] # NoBackup
      BY <1>b, <1>d, <1>e, <1>h, <1>j, <2>4 DEF Height
    <3> QED
      BY <1>h, <2>2, <3>1 DEF Restorable
  <2> QED
    BY <2>3, <2>4
<1> QED
  BY <1>1, <1>2, <1>3, <1>4, <1>5, <1>6, <1>7, <1>8, <1>9, <1>10 DEF IInv

(* Every entry of the block is in the claim DB. *)
LEMMA EndWriteInv ==
    ASSUME IInv, EndWrite
    PROVE  IInv'
<1>0. committing # {} /\ ~rollingBack /\ started = {} /\ tx = {}
  BY NoCandidates
  DEF EndWrite, IInv, Exchange, Settled, CommitPhases, RollbackPhases,
      ClaimRollbackPhases
<1>1. TypeOK'
  BY ConstantsAssumption, JobTypes
  DEF EndWrite, IInv, TypeOK, Phase, dbVars, chainVars, blockVars
<1>2. Exchange'
  BY <1>0, JobFields
  DEF EndWrite, IInv, Exchange, RollbackPhases, ClaimRollbackPhases, dbVars,
      chainVars, blockVars
<1>3. UniqueKeys'
  BY DEF EndWrite, IInv, UniqueKeys, dbVars, chainVars
<1>4. CandidatesRecorded'
  BY <1>0 DEF EndWrite, IInv, CandidatesRecorded, dbVars, chainVars, blockVars
<1>5. TransactionRecorded'
  BY <1>0 DEF EndWrite, IInv, TransactionRecorded, dbVars, chainVars, blockVars
<1>6. CommitPending'
  BY DEF EndWrite, IInv, CommitPending, BlockEntries, NotWritten, Unwritten, dbVars,
         chainVars
<1>7. CommitProgress'
  BY JobFields
  DEF EndWrite, IInv, CommitProgress, BlockEntries, NotWritten, dbVars, chainVars
<1>8. RollbackProgress'
  BY <1>0, JobFields DEF EndWrite, IInv, RollbackProgress, dbVars, chainVars
<1>9. BackupRange'
  BY DEF EndWrite, IInv, BackupRange, Settled, dbVars, chainVars
<1>10. BackupsReachBack'
  BY ReachBackSame DEF EndWrite, IInv, dbVars, chainVars, blockVars
<1> QED
  BY <1>1, <1>2, <1>3, <1>4, <1>5, <1>6, <1>7, <1>8, <1>9, <1>10 DEF IInv

(* No backup that a rollback may still need is dropped. *)
LEMMA GarbageCollectInv ==
    ASSUME IInv, GarbageCollect
    PROVE  IInv'
<1>0. committing # {} /\ ~rollingBack /\ started = {} /\ tx = {}
  BY NoCandidates
  DEF GarbageCollect, IInv, Exchange, Settled, CommitPhases, RollbackPhases,
      ClaimRollbackPhases
<1>1. TypeOK'
  BY ConstantsAssumption, JobTypes
  DEF GarbageCollect, IInv, TypeOK, Phase, dbVars, chainVars, blockVars
<1>2. Exchange'
  BY <1>0, JobFields
  DEF GarbageCollect, IInv, Exchange, RollbackPhases, ClaimRollbackPhases,
      chainVars, blockVars
<1>3. UniqueKeys'
  BY DEF GarbageCollect, IInv, UniqueKeys, chainVars
<1>4. CandidatesRecorded'
  BY <1>0 DEF GarbageCollect, IInv, CandidatesRecorded, chainVars, blockVars
<1>5. TransactionRecorded'
  BY <1>0 DEF GarbageCollect, IInv, TransactionRecorded, chainVars, blockVars
<1>6. CommitPending'
  BY DEF GarbageCollect, IInv, CommitPending, BlockEntries, NotWritten, Unwritten,
         TypeOK, chainVars
<1>7. CommitProgress'
  BY JobFields
  DEF GarbageCollect, IInv, CommitProgress, BlockEntries, NotWritten, chainVars
<1>8. RollbackProgress'
  BY <1>0, JobFields DEF GarbageCollect, IInv, RollbackProgress, chainVars
<1>9. BackupRange'
  BY DEF GarbageCollect, IInv, BackupRange, Settled, chainVars
<1>10. BackupsReachBack'
  <2> SUFFICES ASSUME NEW h \in Height, NEW a \in Address,
                      FirstRestorable' <= h, h <= tip', h <= cbInfo'.last
               PROVE  Restorable(h, a)'
    BY DEF BackupsReachBack

  <2>1. /\ claim' = claim /\ cbInfo' = cbInfo /\ tip' = tip /\ ledger' = ledger
        /\ committing' = committing
    BY DEF GarbageCollect, chainVars
  <2>2. FirstRestorable' = FirstRestorable
    BY <2>1 DEF FirstRestorable, HasGarbage, GarbageBlock, FirstBackup
  <2>3. Restorable(h, a)
    BY <2>1, <2>2 DEF IInv, BackupsReachBack
  <2>4. tip \in Int /\ h \in Int /\ MaxHeight \in Int /\ ClaimBackupPeriod \in Int
    BY ConstantsAssumption DEF IInv, TypeOK, Height
  <2>5. HasGarbage => h > GarbageBlock
    BY <1>0, <2>2, <2>4 DEF FirstRestorable, GarbageBlock
  <2>6. \A i \in h .. MaxHeight : i \in Height /\ ~(HasGarbage /\ i \in FirstBackup .. GarbageBlock)
    BY <2>4, <2>5 DEF Height, GarbageBlock, FirstBackup, IInv, TypeOK
  <2>7. \A i \in h .. MaxHeight : backup'[i] = backup[i]
    BY <2>6 DEF GarbageCollect
  <2> QED
    BY <2>1, <2>3, <2>7, RestorableSame
<1> QED
  BY <1>1, <1>2, <1>3, <1>4, <1>5, <1>6, <1>7, <1>8, <1>9, <1>10 DEF IInv

(* From here on the block can be rolled back to. *)
LEMMA WriteBackupInfoInv ==
    ASSUME IInv, WriteBackupInfo
    PROVE  IInv'
<1>0. committing # {} /\ ~rollingBack /\ started = {} /\ tx = {}
  BY NoCandidates
  DEF WriteBackupInfo, IInv, Exchange, Settled, CommitPhases, RollbackPhases,
      ClaimRollbackPhases
<1>a. PICK b \in committing : \A c \in committing : b = c
  BY <1>0 DEF IInv, Exchange
<1>b. /\ preCommit' = preCommit /\ claim' = claim /\ backup' = backup /\ tip' = tip
      /\ ledger' = ledger /\ committing' = committing /\ rollingBack' = rollingBack
  BY DEF WriteBackupInfo, chainVars
<1>c. /\ cbInfo'.first = (IF HasGarbage THEN GarbageBlock + 1 ELSE FirstBackup)
      /\ cbInfo'.last = (IF cbInfo.last < tip THEN tip ELSE cbInfo.last)
  BY DEF WriteBackupInfo
<1>d. /\ tip \in Nat /\ tip > 0 /\ tip - 1 \in Height /\ tip \in Height
      /\ cbInfo.first \in Nat /\ cbInfo.last \in Nat /\ ClaimBackupPeriod \in Nat
      /\ cbInfo.last \in {tip - 1, tip} /\ cbInfo.first <= tip
  BY <1>a, ConstantsAssumption DEF IInv, TypeOK, CommitPending, BackupRange, Height
<1>e. cbInfo'.last = tip
  BY <1>c, <1>d
<1>f. /\ cbInfo'.first \in Nat /\ cbInfo'.first >= FirstRestorable /\ cbInfo'.first <= tip
      /\ tip <= ClaimBackupPeriod + cbInfo'.first /\ cbInfo'.first # 0
  BY <1>0, <1>c, <1>d DEF HasGarbage, GarbageBlock, FirstBackup, FirstRestorable
<1>g. ~HasGarbage' /\ FirstRestorable' = cbInfo'.first
  BY <1>b, <1>d, <1>f DEF HasGarbage, FirstBackup, FirstRestorable
<1>h. \A p \in BlockEntries(tip, b) : NotWritten(p)
  BY <1>a DEF WriteBackupInfo, IInv, CommitProgress
<1>i. /\ BlockEntries(tip, b)' = BlockEntries(tip, b)
      /\ \A p : NotWritten(p)' = NotWritten(p)
  BY <1>b DEF BlockEntries, NotWritten
<1>j. job'.phase = "commitFlush" /\ job'.saved = {}
  BY JobFields DEF WriteBackupInfo
<1>1. TypeOK'
  <2>1. cbInfo' \in [first : Height, last : Height]
    <3>1. cbInfo'.first \in Height /\ cbInfo'.last \in Height
      BY <1>d, <1>e, <1>f, ConstantsAssumption DEF Height
    <3> QED
      BY <3>1 DEF WriteBackupInfo
  <2>2. job' \in JobRecord
    BY JobTypes DEF WriteBackupInfo, HeightEntries, IInv, TypeOK, Phase
  <2> QED
    BY <2>1, <2>2 DEF WriteBackupInfo, IInv, TypeOK, chainVars, blockVars
<1>2. Exchange'
  BY <1>0, JobFields
  DEF WriteBackupInfo, IInv, Exchange, RollbackPhases, ClaimRollbackPhases,
      chainVars, blockVars
<1>3. UniqueKeys'
  BY DEF WriteBackupInfo, IInv, UniqueKeys, chainVars
<1>4. CandidatesRecorded'
  BY <1>0 DEF WriteBackupInfo, IInv, CandidatesRecorded, chainVars, blockVars
<1>5. TransactionRecorded'
  BY <1>0 DEF WriteBackupInfo, IInv, TransactionRecorded, chainVars, blockVars
<1>6. CommitPending'
  <2>1. tip # tip - 1
    BY <1>d
  <2> QED
    BY <1>a, <1>b, <1>d, <1>e, <1>h, <1>i, <2>1 DEF CommitPending
<1>7. CommitProgress'
  BY <1>b, <1>e, <1>g, <1>j DEF CommitProgress
<1>8. RollbackProgress'
  BY <1>0, JobFields DEF WriteBackupInfo, IInv, RollbackProgress, chainVars
<1>9. BackupRange'
  <2>1. \A h \in Height, a \in Address : tip <= h => backup[h][a] = NoBackup
    BY <1>d DEF IInv, BackupRange, Height
  <2> QED
    BY <1>b, <1>d, <1>e, <1>f, <2>1 DEF BackupRange
<1>10. BackupsReachBack'
  <2> SUFFICES ASSUME NEW h \in Height, NEW a \in Address,
                      FirstRestorable' <= h, h <= tip', h <= cbInfo'.last
               PROVE  Restorable(h, a)'
    BY DEF BackupsReachBack

  <2>1. h \in Int /\ h <= tip /\ FirstRestorable <= h
    <3>1. FirstRestorable \in Int /\ h \in Int
      BY <1>d DEF FirstRestorable, GarbageBlock, Height
    <3> QED
      BY <1>b, <1>f, <1>g, <3>1
  <2>2. CASE h <= cbInfo.last
    BY <1>b, <2>1, <2>2, RestorableSame DEF IInv, BackupsReachBack
  <2>3. CASE ~(h <= cbInfo.last)
    <3>1. h = tip /\ cbInfo.last = tip - 1
      BY <1>d, <2>1, <2>3
    <3>2. \A i \in h .. MaxHeight : backup[i][a] = NoBackup
      BY <1>d, <3>1, ConstantsAssumption DEF IInv, BackupRange, Height
    <3>3. claim[a].blockHeight <= tip
      BY <1>a, <3>1 DEF IInv, CommitPending
    <3>4. claim[a].iScore = ledger[tip][a]
      <4>1. CASE ~Unwritten(a)
        BY <1>a, <3>1, <4>1 DEF IInv, CommitPending
      <4>2. CASE Unwritten(a)
        <5>1. /\ claim[a].iScore = ledger[tip - 1][a] /\ claim[a].iScore \in Nat
              /\ claim[a].blockHeight \in Nat
          BY <1>a, <3>1, <4>2 DEF IInv, TypeOK, ClaimData, Height, CommitPending
        <5>2. ASSUME NEW p \in BlockEntries(tip, b), p.addr = a, p.confirmed
              PROVE  ledger[tip][a] = ledger[tip - 1][a]
          <6>1. p.iScore = 0
            BY <1>d, <1>h, <4>2, <5>1, <5>2 DEF NotWritten, Unwritten, BlockEntries
          <6>2. ledger[tip][a] = ledger[tip - 1][a] + p.iScore
            BY <1>a, <3>1, <4>2, <5>2 DEF IInv, CommitPending
          <6> QED
            BY <5>1, <6>1, <6>2
        <5>3. CASE \A p \in BlockEntries(tip, b) : p.addr = a => ~p.confirmed
          BY <1>a, <3>1, <4>2, <5>1, <5>3 DEF IInv, CommitPending
        <5> QED
          BY <5>1, <5>2, <5>3
      <4> QED
        BY <4>1, <4>2
    <3> QED
      BY <1>b, <3>1, <3>2, <3>3, <3>4 DEF Restorable
  <2> QED
    BY <2>2, <2>3
<1> QED
  BY <1>1, <1>2, <1>3, <1>4, <1>5, <1>6, <1>7, <1>8, <1>9, <1>10 DEF IInv

(* The end of the flush of COMMIT_BLOCK. *)
LEMMA EndCommitFlushInv ==
    ASSUME IInv, EndCommitFlush
    PROVE  IInv'
<1>0. committing # {} /\ ~rollingBack /\ started = {} /\ tx = {}
  BY NoCandidates
  DEF EndCommitFlush, IInv, Exchange, Settled, CommitPhases, RollbackPhases,
      ClaimRollbackPhases
<1>1. TypeOK'
  BY ConstantsAssumption, JobTypes
  DEF EndCommitFlush, IInv, TypeOK, Phase, dbVars, chainVars, blockVars
<1>2. Exchange'
  BY <1>0, JobFields
  DEF EndCommitFlush, IInv, Exchange, RollbackPhases, ClaimRollbackPhases, dbVars,
      chainVars, blockVars
<1>3. UniqueKeys'
  BY DEF EndCommitFlush, IInv, UniqueKeys, dbVars, chainVars
<1>4. CandidatesRecorded'
  BY <1>0 DEF EndCommitFlush, IInv, CandidatesRecorded, dbVars, chainVars, blockVars
<1>5. TransactionRecorded'
  BY <1>0 DEF EndCommitFlush, IInv, TransactionRecorded, dbVars, chainVars, blockVars
<1>6. CommitPending'
  BY DEF EndCommitFlush, IInv, CommitPending, BlockEntries, NotWritten, Unwritten,
         dbVars, chainVars
<1>7. CommitProgress'
  BY JobFields
  DEF EndCommitFlush, IInv, CommitProgress, HasGarbage, FirstBackup, dbVars,
      chainVars
<1>8. RollbackProgress'
  BY <1>0, JobFields DEF EndCommitFlush, IInv, RollbackProgress, dbVars, chainVars
<1>9. BackupRange'
  BY DEF EndCommitFlush, IInv, BackupRange, Settled, dbVars, chainVars
<1>10. BackupsReachBack'
  BY ReachBackSame DEF EndCommitFlush, IInv, dbVars, chainVars, blockVars
<1> QED
  BY <1>1, <1>2, <1>3, <1>4, <1>5, <1>6, <1>7, <1>8, <1>9, <1>10 DEF IInv

(* The current block is recorded. *)
LEMMA SetCurrentBlockInfoInv ==
    ASSUME IInv, SetCurrentBlockInfo
    PROVE  IInv'
<1>0. committing # {} /\ ~rollingBack /\ started = {} /\ tx = {}
  BY NoCandidates
  DEF SetCurrentBlockInfo, IInv, Exchange, Settled, CommitPhases, RollbackPhases,
      ClaimRollbackPhases
<1>1. TypeOK'
  BY ConstantsAssumption, JobTypes
  DEF SetCurrentBlockInfo, IInv, TypeOK, Phase, dbVars, chainVars, blockVars, DBInfo
<1>2. Exchange'
  BY <1>0, JobFields
  DEF SetCurrentBlockInfo, IInv, Exchange, Settled, RollbackPhases,
      ClaimRollbackPhases, chainVars, blockVars
<1>3. UniqueKeys'
  BY DEF SetCurrentBlockInfo, IInv, UniqueKeys, chainVars
<1>4. CandidatesRecorded'
  BY <1>0 DEF SetCurrentBlockInfo, IInv, CandidatesRecorded, chainVars, blockVars
<1>5. TransactionRecorded'
  BY <1>0 DEF SetCurrentBlockInfo, IInv, TransactionRecorded, chainVars, blockVars
<1>6. CommitPending'
  BY DEF SetCurrentBlockInfo, IInv, CommitPending, BlockEntries, NotWritten,
         Unwritten, chainVars
<1>7. CommitProgress'
  BY JobFields
  DEF SetCurrentBlockInfo, IInv, CommitProgress, HasGarbage, FirstBackup, chainVars
<1>8. RollbackProgress'
  BY <1>0, JobFields DEF SetCurrentBlockInfo, IInv, RollbackProgress, chainVars
<1>9. BackupRange'
  BY DEF SetCurrentBlockInfo, IInv, BackupRange, Settled, chainVars
<1>10. BackupsReachBack'
  BY ReachBackSame DEF SetCurrentBlockInfo, IInv, dbVars, chainVars, blockVars
<1> QED
  BY <1>1, <1>2, <1>3, <1>4, <1>5, <1>6, <1>7, <1>8, <1>9, <1>10 DEF IInv

(* The answer: nothing is pending and nothing is left to collect. *)
LEMMA ReplyInv ==
    ASSUME IInv, Reply
    PROVE  IInv'
<1>0. ~Settled /\ started = {} /\ tx = {}
  BY NoCandidates
  DEF Reply, IInv, Exchange, Settled, CommitPhases, RollbackPhases,
      ClaimRollbackPhases
<1>1. TypeOK'
  BY ConstantsAssumption, JobTypes DEF Reply, IInv, TypeOK, dbVars, chainVars, blockVars
<1>2. Exchange'
  BY JobFields
  DEF Reply, IInv, Exchange, CommitPhases, RollbackPhases, ClaimRollbackPhases,
      dbVars, blockVars
<1>3. UniqueKeys'
  BY DEF Reply, IInv, UniqueKeys, dbVars
<1>4. CandidatesRecorded'
  BY <1>0 DEF Reply, IInv, CandidatesRecorded, dbVars, blockVars
<1>5. TransactionRecorded'
  BY <1>0 DEF Reply, IInv, TransactionRecorded, dbVars, blockVars
<1>6. CommitPending'
  BY DEF Reply, IInv, CommitPending, dbVars
<1>7. CommitProgress'
  BY DEF Reply, IInv, CommitProgress, dbVars
<1>8. RollbackProgress'
  BY JobFields DEF Reply, IInv, RollbackProgress, dbVars
<1>9. BackupRange'
  BY DEF Reply, IInv, BackupRange, Settled, CommitProgress, RollbackProgress,
         ClaimRollbackPhases, dbVars
<1>10. BackupsReachBack'
  <2> SUFFICES ASSUME NEW h \in Height, NEW a \in Address,
                      FirstRestorable' <= h, h <= tip', h <= cbInfo'.last
               PROVE  Restorable(h, a)'
    BY DEF BackupsReachBack

  <2>1. /\ claim' = claim /\ cbInfo' = cbInfo /\ tip' = tip /\ ledger' = ledger
        /\ backup' = backup /\ committing' = {}
    BY DEF Reply, dbVars
  <2>2. committing # {} => ~HasGarbage
    BY DEF Reply, IInv, CommitProgress
  <2>3. FirstRestorable' = FirstRestorable
    BY <2>1, <2>2 DEF FirstRestorable
  <2>4. Restorable(h, a)
    BY <2>1, <2>3 DEF IInv, BackupsReachBack
  <2> QED
    BY <2>1, <2>4, RestorableSame
<1> QED
  BY <1>1, <1>2, <1>3, <1>4, <1>5, <1>6, <1>7, <1>8, <1>9, <1>10 DEF IInv

(* IS goes back to a block the backups reach. *)
LEMMA DecideRollbackInv ==
    ASSUME IInv, NEW to \in Height, DecideRollback(to)
    PROVE  IInv'
<1>1. TypeOK'
  BY ConstantsAssumption, JobTypes
  DEF DecideRollback, IInv, TypeOK, dbVars, chainVars, DropCandidates, NothingPaid,
      RollbackAllowed, BackupsCover
<1>2. Exchange'
  BY DEF DecideRollback, IInv, Exchange, Settled, dbVars, DropCandidates
<1>3. UniqueKeys'
  BY DEF DecideRollback, IInv, UniqueKeys, dbVars, DropCandidates
<1>4. CandidatesRecorded'
  BY DEF DecideRollback, IInv, CandidatesRecorded, dbVars, DropCandidates
<1>5. TransactionRecorded'
  BY DEF DecideRollback, IInv, TransactionRecorded, dbVars, DropCandidates
<1>6. CommitPending'
  BY DEF DecideRollback, IInv, CommitPending, Settled, dbVars, DropCandidates
<1>7. CommitProgress'
  BY DEF DecideRollback, IInv, CommitProgress, Settled, dbVars, DropCandidates
<1>8. RollbackProgress'
  <2>1. cbInfo.last = tip /\ to < tip /\ tip' = to /\ cbInfo' = cbInfo /\ job' = job
        /\ job.phase = "idle" /\ tip \in Nat /\ to \in Nat
    BY JobFields DEF DecideRollback, Ready, IInv, BackupRange, dbVars, TypeOK, Height
  <2> QED
    BY <2>1 DEF RollbackProgress
<1>9. BackupRange'
  BY DEF DecideRollback, IInv, BackupRange, Settled, RollbackAllowed, BackupsCover, dbVars,
         DropCandidates
<1>10. BackupsReachBack'
  <2>1. cbInfo.last = tip /\ to < tip /\ tip' = to /\ tip \in Nat /\ to \in Nat
    BY DEF DecideRollback, IInv, BackupRange, TypeOK, Height
  <2>2. committing = {} /\ committing' = {} /\ ledger' = ledger
        /\ cbInfo' = cbInfo /\ backup' = backup /\ claim' = claim
    BY DEF DecideRollback, Settled, dbVars
  <2>3. FirstRestorable = cbInfo.first /\ FirstRestorable' = cbInfo.first
    BY <2>2 DEF FirstRestorable
  <2> SUFFICES ASSUME NEW h \in Height, NEW a \in Address,
                      FirstRestorable' <= h, h <= tip', h <= cbInfo'.last
               PROVE  Restorable(h, a)'
    BY DEF BackupsReachBack
  <2>4. Restorable(h, a)
    BY <2>1, <2>2, <2>3 DEF IInv, BackupsReachBack, Height
  <2> QED
    BY <2>2, <2>4, RestorableSame
<1> QED
  BY <1>1, <1>2, <1>3, <1>4, <1>5, <1>6, <1>7, <1>8, <1>9, <1>10 DEF IInv

(* ROLLBACK starts, or starts again after a crash. *)
LEMMA RollbackInv ==
    ASSUME IInv, Rollback
    PROVE  IInv'
<1>0. committing = {} /\ rollingBack /\ started = {} /\ tx = {}
  BY NoCandidates
  DEF Rollback, IInv, Exchange, Settled, CommitPhases, RollbackPhases,
      ClaimRollbackPhases
<1>1. TypeOK'
  BY ConstantsAssumption, JobTypes
  DEF Rollback, IInv, TypeOK, Phase, dbVars, chainVars, blockVars, AccountPhase
<1>2. Exchange'
  BY JobFields
  DEF Rollback, IInv, Exchange, Settled, Ready, CommitPhases, RollbackAllowed,
      BackupsCover, AccountPhase, dbVars, chainVars, blockVars
<1>3. UniqueKeys'
  BY DEF Rollback, IInv, UniqueKeys, dbVars, chainVars
<1>4. CandidatesRecorded'
  BY <1>0 DEF Rollback, IInv, CandidatesRecorded, dbVars, chainVars, blockVars
<1>5. TransactionRecorded'
  BY <1>0 DEF Rollback, IInv, TransactionRecorded, dbVars, chainVars, blockVars
<1>6. CommitPending'
  BY <1>0 DEF Rollback, IInv, CommitPending, dbVars, chainVars
<1>7. CommitProgress'
  BY <1>0 DEF Rollback, IInv, CommitProgress, dbVars, chainVars
<1>8. RollbackProgress'
  <2>1. /\ rollingBack' /\ tip' = tip /\ cbInfo' = cbInfo /\ backup' = backup /\ claim' = claim
        /\ tip \in Nat /\ cbInfo.last \in Nat /\ tip <= cbInfo.last
        /\ \A h : BackedUp(h)' = BackedUp(h)
    BY DEF Rollback, IInv, TypeOK, Height, RollbackProgress, BackedUp, dbVars, chainVars
  <2>2. CASE ~ClaimRollbackNeeded
    <3>1. job'.phase \in {"rename", "reply"} /\ cbInfo.last = tip
      BY <2>1, <2>2, JobFields DEF Rollback, AccountPhase, ClaimRollbackNeeded
    <3> QED
      BY <2>1, <3>1 DEF RollbackProgress
  <2>3. CASE ClaimRollbackNeeded
    <3>1. /\ job'.phase = "restore" /\ job'.cursor = cbInfo.last
          /\ job'.addrs = BackedUp(cbInfo.last)
      BY <2>3, JobFields DEF Rollback
    <3>2. \A h \in Height, a \in Address : h > cbInfo.last => backup[h][a] = NoBackup
      BY <2>1 DEF IInv, BackupRange, Height
    <3> QED
      BY <2>1, <2>3, <3>1, <3>2
      DEF RollbackProgress, ClaimRollbackPhases, ClaimRollbackNeeded
  <2> QED
    BY <2>2, <2>3
<1>9. BackupRange'
  BY DEF Rollback, IInv, BackupRange, Settled, dbVars, chainVars
<1>10. BackupsReachBack'
  BY ReachBackSame DEF Rollback, IInv, dbVars, chainVars, blockVars
<1> QED
  BY <1>1, <1>2, <1>3, <1>4, <1>5, <1>6, <1>7, <1>8, <1>9, <1>10 DEF IInv

(* A claim is restored; its backup is still there. *)
LEMMA RestoreClaimInv ==
    ASSUME IInv, NEW a, RestoreClaim(a)
    PROVE  IInv'
<1>0. committing = {} /\ rollingBack /\ started = {} /\ tx = {}
  BY NoCandidates
  DEF RestoreClaim, IInv, Exchange, Settled, CommitPhases, RollbackPhases,
      ClaimRollbackPhases
<1>a. /\ job.phase = "restore" /\ a \in job.addrs /\ a \in BackedUp(job.cursor)
      /\ job.cursor \in Height /\ tip <= job.cursor /\ a \in Address
      /\ backup[job.cursor][a] # NoBackup /\ backup[job.cursor][a] \in ClaimData
  BY DEF RestoreClaim, IInv, RollbackProgress, TypeOK, JobRecord, BackedUp
<1>b. /\ claim' = [claim EXCEPT ![a] = backup[job.cursor][a]] /\ backup' = backup
      /\ cbInfo' = cbInfo /\ tip' = tip /\ ledger' = ledger /\ committing' = committing
      /\ rollingBack' = rollingBack
  BY DEF RestoreClaim, chainVars
<1>c. /\ claim'[a] = backup[job.cursor][a]
      /\ \A x \in Address : x # a => claim'[x] = claim[x]
  BY <1>a, <1>b DEF IInv, TypeOK
<1>d. /\ job'.phase = "restore" /\ job'.addrs = job.addrs \ {a} /\ job'.cursor = job.cursor
      /\ job' \in JobRecord
  BY <1>a DEF RestoreClaim, IInv, TypeOK, JobRecord
<1>1. TypeOK'
  <2>1. claim' \in [Address -> ClaimData]
    BY <1>a, <1>b DEF IInv, TypeOK
  <2> QED
    BY <1>d, <2>1 DEF RestoreClaim, IInv, TypeOK, chainVars, blockVars
<1>2. Exchange'
  BY JobFields, <1>0 DEF RestoreClaim, IInv, Exchange, dbVars, chainVars, blockVars
<1>3. UniqueKeys'
  BY DEF RestoreClaim, IInv, UniqueKeys, chainVars
<1>4. CandidatesRecorded'
  BY <1>0 DEF RestoreClaim, IInv, CandidatesRecorded, chainVars, blockVars
<1>5. TransactionRecorded'
  BY <1>0 DEF RestoreClaim, IInv, TransactionRecorded, chainVars, blockVars
<1>6. CommitPending'
  BY <1>0 DEF RestoreClaim, IInv, CommitPending, chainVars
<1>7. CommitProgress'
  BY DEF RestoreClaim, IInv, CommitProgress, chainVars
<1>8. RollbackProgress'
  <2>1. BackedUp(job.cursor)' = BackedUp(job.cursor)
    BY <1>b, <1>d DEF BackedUp
  <2>2. BackedUp(job.cursor) \subseteq Address
    BY DEF BackedUp
  <2> QED
    BY <1>a, <1>b, <1>c, <1>d, <2>1, <2>2
    DEF IInv, RollbackProgress, ClaimRollbackPhases
<1>9. BackupRange'
  BY DEF RestoreClaim, IInv, BackupRange, Settled, chainVars
<1>10. BackupsReachBack'
  <2> SUFFICES ASSUME NEW h \in Height, NEW x \in Address,
                      FirstRestorable' <= h, h <= tip', h <= cbInfo'.last
               PROVE  Restorable(h, x)'
    BY DEF BackupsReachBack

  <2>1. FirstRestorable' = FirstRestorable
    BY <1>b DEF FirstRestorable, HasGarbage, GarbageBlock, FirstBackup
  <2>2. Restorable(h, x)
    BY <1>b, <2>1 DEF IInv, BackupsReachBack
  <2>3. CASE x # a
    BY <1>b, <1>c, <2>2, <2>3, RestorableSame
  <2>4. CASE x = a
    <3>1. job.cursor \in h .. MaxHeight
      BY <1>a, <1>b, ConstantsAssumption DEF IInv, TypeOK, Height
    <3> QED
      BY <1>a, <1>b, <2>2, <2>4, <3>1 DEF Restorable
  <2> QED
    BY <2>3, <2>4
<1> QED
  BY <1>1, <1>2, <1>3, <1>4, <1>5, <1>6, <1>7, <1>8, <1>9, <1>10 DEF IInv

(* The claims of one block are restored. *)
LEMMA EndRestoreInv ==
    ASSUME IInv, EndRestore
    PROVE  IInv'
<1>0. committing = {} /\ rollingBack /\ started = {} /\ tx = {}
  BY NoCandidates
  DEF EndRestore, IInv, Exchange, Settled, CommitPhases, RollbackPhases,
      ClaimRollbackPhases
<1>1. TypeOK'
  BY DEF EndRestore, IInv, TypeOK, Phase, BackedUp, RollbackProgress, TypeOK,
         JobRecord, dbVars, chainVars, blockVars
<1>2. Exchange'
  BY JobFields, <1>0
  DEF EndRestore, IInv, Exchange, CommitPhases, dbVars, chainVars, blockVars
<1>3. UniqueKeys'
  BY DEF EndRestore, IInv, UniqueKeys, dbVars, chainVars
<1>4. CandidatesRecorded'
  BY <1>0 DEF EndRestore, IInv, CandidatesRecorded, dbVars, chainVars, blockVars
<1>5. TransactionRecorded'
  BY <1>0 DEF EndRestore, IInv, TransactionRecorded, dbVars, chainVars, blockVars
<1>6. CommitPending'
  BY <1>0 DEF EndRestore, IInv, CommitPending, dbVars, chainVars
<1>7. CommitProgress'
  BY DEF EndRestore, IInv, CommitProgress, dbVars, chainVars
<1>8. RollbackProgress'
  BY DEF EndRestore, IInv, RollbackProgress, BackedUp, ClaimRollbackPhases, dbVars,
         chainVars
<1>9. BackupRange'
  BY DEF EndRestore, IInv, BackupRange, Settled, dbVars, chainVars
<1>10. BackupsReachBack'
  BY ReachBackSame DEF EndRestore, IInv, dbVars, chainVars, blockVars
<1> QED
  BY <1>1, <1>2, <1>3, <1>4, <1>5, <1>6, <1>7, <1>8, <1>9, <1>10 DEF IInv

(* A backup goes once its claim is restored. *)
LEMMA DropBackupInv ==
    ASSUME IInv, NEW a, DropBackup(a)
    PROVE  IInv'
<1>0. committing = {} /\ rollingBack /\ started = {} /\ tx = {}
  BY NoCandidates
  DEF DropBackup, IInv, Exchange, Settled, CommitPhases, RollbackPhases,
      ClaimRollbackPhases
<1>a. /\ job.phase = "drop" /\ a \in job.addrs /\ a \in Address
      /\ job.cursor \in Height /\ tip <= job.cursor /\ tip \in Height
      /\ claim[a] = backup[job.cursor][a] /\ backup[job.cursor][a] # NoBackup
  BY DEF DropBackup, IInv, RollbackProgress, TypeOK, JobRecord, BackedUp
<1>b. /\ claim' = claim /\ cbInfo' = cbInfo /\ tip' = tip /\ ledger' = ledger
      /\ committing' = committing /\ rollingBack' = rollingBack
      /\ backup' = [backup EXCEPT ![job.cursor][a] = NoBackup]
  BY DEF DropBackup, chainVars
<1>c. /\ backup'[job.cursor][a] = NoBackup
      /\ \A h \in Height, x \in Address :
            h # job.cursor \/ x # a => backup'[h][x] = backup[h][x]
      /\ backup' \in [Height -> [Address -> ClaimData \cup {NoBackup}]]
  BY <1>a, <1>b DEF IInv, TypeOK
<1>d. /\ job'.phase = "drop" /\ job'.addrs = job.addrs \ {a} /\ job'.cursor = job.cursor
      /\ job' \in JobRecord
  BY <1>a DEF DropBackup, IInv, TypeOK, JobRecord
<1>1. TypeOK'
  BY <1>c, <1>d DEF DropBackup, IInv, TypeOK, chainVars, blockVars
<1>2. Exchange'
  BY JobFields, <1>0 DEF DropBackup, IInv, Exchange, dbVars, chainVars, blockVars
<1>3. UniqueKeys'
  BY DEF DropBackup, IInv, UniqueKeys, chainVars
<1>4. CandidatesRecorded'
  BY <1>0 DEF DropBackup, IInv, CandidatesRecorded, chainVars, blockVars
<1>5. TransactionRecorded'
  BY <1>0 DEF DropBackup, IInv, TransactionRecorded, chainVars, blockVars
<1>6. CommitPending'
  BY <1>0 DEF DropBackup, IInv, CommitPending, chainVars
<1>7. CommitProgress'
  BY DEF DropBackup, IInv, CommitProgress, chainVars
<1>8. RollbackProgress'
  <2>1. \A x \in Address : x # a => backup'[job.cursor][x] = backup[job.cursor][x]
    BY <1>a, <1>c
  <2>2. BackedUp(job.cursor)' = BackedUp(job.cursor) \ {a}
    BY <1>a, <1>c, <1>d, <2>1 DEF BackedUp
  <2>3. job.addrs \subseteq Address
    BY DEF IInv, TypeOK, JobRecord
  <2>4. \A h \in Height, x \in Address : h > job.cursor => backup'[h][x] = NoBackup
    <3>1. \A h \in Height : h > job.cursor => h # job.cursor
      BY <1>a DEF Height
    <3> QED
      BY <1>a, <1>c, <3>1 DEF IInv, RollbackProgress
  <2> QED
    BY <1>a, <1>b, <1>d, <2>1, <2>2, <2>3, <2>4
    DEF IInv, RollbackProgress, ClaimRollbackPhases
<1>9. BackupRange'
  <2>1. \A h \in Height, x \in Address : backup'[h][x] = backup[h][x] \/ backup'[h][x] = NoBackup
    BY <1>c
  <2> QED
    BY <1>b, <2>1 DEF IInv, BackupRange, Settled
<1>10. BackupsReachBack'
  <2> SUFFICES ASSUME NEW h \in Height, NEW x \in Address,
                      FirstRestorable' <= h, h <= tip', h <= cbInfo'.last
               PROVE  Restorable(h, x)'
    BY DEF BackupsReachBack

  <2>1. FirstRestorable' = FirstRestorable
    BY <1>b DEF FirstRestorable, HasGarbage, GarbageBlock, FirstBackup
  <2>2. Restorable(h, x)
    BY <1>b, <2>1 DEF IInv, BackupsReachBack
  <2>3. /\ h \in Int /\ h .. MaxHeight \subseteq Height /\ job.cursor \in h .. MaxHeight
        /\ MaxHeight \in Int /\ job.cursor \in Int
    BY <1>a, <1>b, ConstantsAssumption DEF Height
  <2>4. CASE x # a
    BY <1>b, <1>c, <2>2, <2>3, <2>4, RestorableSame
  <2>5. CASE x = a
    <3>1. PICK i \in h .. MaxHeight :
             /\ backup[i][a] # NoBackup
             /\ \A j \in h .. i - 1 : backup[j][a] = NoBackup
             /\ backup[i][a].iScore = ledger[h][a] /\ backup[i][a].blockHeight <= h
      BY <1>a, <2>2, <2>3, <2>5 DEF Restorable
    <3>2. i <= job.cursor
      BY <2>3, <3>1, <1>a DEF IInv, RollbackProgress
    <3>3. CASE i = job.cursor
      <4>1. \A j \in h .. MaxHeight : j \in h .. i - 1 \/ j = i \/ j > job.cursor
        BY <2>3, <3>3
      <4>2. \A j \in h .. MaxHeight : backup'[j][a] = NoBackup
        BY <1>a, <1>c, <2>3, <3>1, <3>3, <4>1 DEF IInv, RollbackProgress
      <4> QED
        BY <1>a, <1>b, <2>5, <3>1, <3>3, <4>2 DEF Restorable
    <3>4. CASE i # job.cursor
      <4>1. i \in h .. i /\ \A j \in h .. i : j \in Height /\ j # job.cursor
        BY <2>3, <3>2, <3>4
      <4>2. \A j \in h .. i - 1 : j \in h .. i
        BY <2>3
      <4>3. \A j \in h .. i : backup'[j][a] = backup[j][a]
        BY <1>a, <1>c, <4>1
      <4> QED
        BY <1>b, <2>5, <3>1, <4>1, <4>2, <4>3 DEF Restorable
    <3> QED
      BY <3>3, <3>4
  <2> QED
    BY <2>4, <2>5
<1> QED
  BY <1>1, <1>2, <1>3, <1>4, <1>5, <1>6, <1>7, <1>8, <1>9, <1>10 DEF IInv

(* The next older block, or the end of the claim DB's rollback. *)
LEMMA EndDropInv ==
    ASSUME IInv, EndDrop
    PROVE  IInv'
<1>0. committing = {} /\ rollingBack /\ started = {} /\ tx = {}
  BY NoCandidates
  DEF EndDrop, IInv, Exchange, Settled, CommitPhases, RollbackPhases,
      ClaimRollbackPhases
<1>a. /\ job.phase = "drop" /\ job.addrs = {} /\ tip \in Nat /\ job.cursor \in Height
      /\ tip <= job.cursor /\ job.cursor <= cbInfo.last /\ BackedUp(job.cursor) = {}
      /\ cbInfo.last \in Nat /\ job.cursor \in Nat
  BY DEF EndDrop, IInv, RollbackProgress, TypeOK, JobRecord, Height
<1>b. tip < job.cursor => job.cursor - 1 \in Height
  BY <1>a, ConstantsAssumption DEF Height
<1>c. \A h \in Height, a \in Address : h >= job.cursor => backup[h][a] = NoBackup
  BY <1>a DEF IInv, RollbackProgress, BackedUp, Height
<1>1. TypeOK'
  <2>1. job' \in JobRecord
    BY <1>b, JobTypes DEF EndDrop, Phase
  <2> QED
    BY <2>1 DEF EndDrop, IInv, TypeOK, dbVars, chainVars, blockVars
<1>2. Exchange'
  BY <1>0, JobFields
  DEF EndDrop, IInv, Exchange, CommitPhases, dbVars, chainVars, blockVars
<1>3. UniqueKeys'
  BY DEF EndDrop, IInv, UniqueKeys, dbVars, chainVars
<1>4. CandidatesRecorded'
  BY <1>0 DEF EndDrop, IInv, CandidatesRecorded, dbVars, chainVars, blockVars
<1>5. TransactionRecorded'
  BY <1>0 DEF EndDrop, IInv, TransactionRecorded, dbVars, chainVars, blockVars
<1>6. CommitPending'
  BY <1>0 DEF EndDrop, IInv, CommitPending, dbVars, chainVars
<1>7. CommitProgress'
  BY JobFields DEF EndDrop, IInv, CommitProgress, dbVars, chainVars
<1>8. RollbackProgress'
  <2>1. /\ backup' = backup /\ claim' = claim /\ cbInfo' = cbInfo /\ tip' = tip
        /\ rollingBack' = rollingBack /\ \A h : BackedUp(h)' = BackedUp(h)
    BY DEF EndDrop, dbVars, chainVars, BackedUp
  <2>2. CASE tip < job.cursor
    <3>1. /\ job'.phase = "restore" /\ job'.cursor = job.cursor - 1
          /\ job'.addrs = BackedUp(job.cursor - 1)
      BY <2>2, JobFields DEF EndDrop
    <3>2. \A h \in Height : h > job.cursor - 1 => h >= job.cursor
      BY <1>a DEF Height
    <3>3. tip <= job.cursor - 1 /\ job.cursor - 1 <= cbInfo.last
      BY <1>a, <2>2
    <3> QED
      BY <1>c, <2>1, <3>1, <3>2, <3>3 DEF IInv, RollbackProgress, ClaimRollbackPhases
  <2>3. CASE ~(tip < job.cursor)
    <3>1. job'.phase = "rbInfo" /\ job.cursor = tip
      BY <1>a, <2>3, JobFields DEF EndDrop
    <3>2. \A h \in Height : tip <= h => h >= job.cursor
      BY <1>a, <3>1 DEF Height
    <3> QED
      BY <1>c, <2>1, <3>1, <3>2 DEF IInv, RollbackProgress, ClaimRollbackPhases
  <2> QED
    BY <2>2, <2>3
<1>9. BackupRange'
  BY DEF EndDrop, IInv, BackupRange, Settled, dbVars, chainVars
<1>10. BackupsReachBack'
  BY ReachBackSame DEF EndDrop, IInv, dbVars, chainVars, blockVars
<1> QED
  BY <1>1, <1>2, <1>3, <1>4, <1>5, <1>6, <1>7, <1>8, <1>9, <1>10 DEF IInv

(* The range of the backups ends at the chain's last block. *)
LEMMA RollbackBackupInfoInv ==
    ASSUME IInv, RollbackBackupInfo
    PROVE  IInv'
<1>0. committing = {} /\ rollingBack /\ started = {} /\ tx = {}
  BY NoCandidates
  DEF RollbackBackupInfo, IInv, Exchange, Settled, CommitPhases, RollbackPhases,
      ClaimRollbackPhases
<1>1. TypeOK'
  BY ConstantsAssumption, JobTypes
  DEF RollbackBackupInfo, IInv, TypeOK, Phase, dbVars, chainVars, blockVars
<1>2. Exchange'
  BY <1>0, JobFields
  DEF RollbackBackupInfo, IInv, Exchange, CommitPhases, chainVars, blockVars
<1>3. UniqueKeys'
  BY DEF RollbackBackupInfo, IInv, UniqueKeys, chainVars
<1>4. CandidatesRecorded'
  BY <1>0 DEF RollbackBackupInfo, IInv, CandidatesRecorded, chainVars, blockVars
<1>5. TransactionRecorded'
  BY <1>0 DEF RollbackBackupInfo, IInv, TransactionRecorded, chainVars, blockVars
<1>6. CommitPending'
  BY <1>0 DEF RollbackBackupInfo, IInv, CommitPending, chainVars
<1>7. CommitProgress'
  BY JobFields DEF RollbackBackupInfo, IInv, CommitProgress, chainVars
<1>8. RollbackProgress'
  <2>1. cbInfo'.last = tip /\ tip' = tip /\ tip \in Nat /\ job'.phase = "rbCurrent"
    BY JobFields DEF RollbackBackupInfo, IInv, TypeOK, Height, chainVars
  <2> QED
    BY <2>1 DEF RollbackProgress
<1>9. BackupRange'
  BY DEF RollbackBackupInfo, IInv, BackupRange, RollbackProgress, chainVars
<1>10. BackupsReachBack'
  BY <1>0, RestorableSame
  DEF RollbackBackupInfo, IInv, BackupsReachBack, FirstRestorable, RollbackProgress,
      ClaimRollbackPhases, TypeOK, Height, dbVars, chainVars, blockVars
<1> QED
  BY <1>1, <1>2, <1>3, <1>4, <1>5, <1>6, <1>7, <1>8, <1>9, <1>10 DEF IInv

(* The current block is rolled back. *)
LEMMA RollbackCurrentBlockInfoInv ==
    ASSUME IInv, RollbackCurrentBlockInfo
    PROVE  IInv'
<1>0. committing = {} /\ rollingBack /\ started = {} /\ tx = {}
  BY NoCandidates
  DEF RollbackCurrentBlockInfo, IInv, Exchange, Settled, CommitPhases,
      RollbackPhases, ClaimRollbackPhases
<1>1. TypeOK'
  BY ConstantsAssumption, JobTypes
  DEF RollbackCurrentBlockInfo, IInv, TypeOK, Phase, dbVars, chainVars, blockVars,
      DBInfo, AccountPhase
<1>2. Exchange'
  BY <1>0, JobFields
  DEF RollbackCurrentBlockInfo, IInv, Exchange, Settled, CommitPhases, AccountPhase,
      chainVars, blockVars
<1>3. UniqueKeys'
  BY DEF RollbackCurrentBlockInfo, IInv, UniqueKeys, chainVars
<1>4. CandidatesRecorded'
  BY <1>0 DEF RollbackCurrentBlockInfo, IInv, CandidatesRecorded, chainVars, blockVars
<1>5. TransactionRecorded'
  BY <1>0 DEF RollbackCurrentBlockInfo, IInv, TransactionRecorded, chainVars, blockVars
<1>6. CommitPending'
  BY <1>0 DEF RollbackCurrentBlockInfo, IInv, CommitPending, chainVars
<1>7. CommitProgress'
  BY <1>0 DEF RollbackCurrentBlockInfo, IInv, CommitProgress, chainVars
<1>8. RollbackProgress'
  BY JobFields
  DEF RollbackCurrentBlockInfo, IInv, RollbackProgress, ClaimRollbackPhases,
      AccountPhase, chainVars
<1>9. BackupRange'
  BY DEF RollbackCurrentBlockInfo, IInv, BackupRange, Settled, chainVars
<1>10. BackupsReachBack'
  BY ReachBackSame DEF RollbackCurrentBlockInfo, IInv, dbVars, chainVars, blockVars
<1> QED
  BY <1>1, <1>2, <1>3, <1>4, <1>5, <1>6, <1>7, <1>8, <1>9, <1>10 DEF IInv

(* rollbackAccountDB: the backup replaces the calculate DB. *)
LEMMA RenameAccountBackupInv ==
    ASSUME IInv, RenameAccountBackup
    PROVE  IInv'
<1>0. committing = {} /\ rollingBack /\ started = {} /\ tx = {}
  BY NoCandidates
  DEF RenameAccountBackup, IInv, Exchange, Settled, CommitPhases, RollbackPhases,
      ClaimRollbackPhases
<1>1. TypeOK'
  BY ConstantsAssumption, JobTypes
  DEF RenameAccountBackup, IInv, TypeOK, Phase, dbVars, chainVars, blockVars, DBInfo
<1>2. Exchange'
  BY <1>0, JobFields
  DEF RenameAccountBackup, IInv, Exchange, CommitPhases, chainVars, blockVars
<1>3. UniqueKeys'
  BY DEF RenameAccountBackup, IInv, UniqueKeys, chainVars
<1>4. CandidatesRecorded'
  BY <1>0 DEF RenameAccountBackup, IInv, CandidatesRecorded, chainVars, blockVars
<1>5. TransactionRecorded'
  BY <1>0 DEF RenameAccountBackup, IInv, TransactionRecorded, chainVars, blockVars
<1>6. CommitPending'
  BY <1>0 DEF RenameAccountBackup, IInv, CommitPending, chainVars
<1>7. CommitProgress'
  BY JobFields DEF RenameAccountBackup, IInv, CommitProgress, chainVars
<1>8. RollbackProgress'
  BY JobFields
  DEF RenameAccountBackup, IInv, RollbackProgress, ClaimRollbackPhases, chainVars
<1>9. BackupRange'
  BY DEF RenameAccountBackup, IInv, BackupRange, Settled, chainVars
<1>10. BackupsReachBack'
  BY ReachBackSame DEF RenameAccountBackup, IInv, dbVars, chainVars, blockVars
<1> QED
  BY <1>1, <1>2, <1>3, <1>4, <1>5, <1>6, <1>7, <1>8, <1>9, <1>10 DEF IInv

(* rollbackAccountDB: the account DBs swap roles. *)
LEMMA ToggleBackInv ==
    ASSUME IInv, ToggleBack
    PROVE  IInv'
<1>0. committing = {} /\ rollingBack /\ started = {} /\ tx = {}
  BY NoCandidates
  DEF ToggleBack, IInv, Exchange, Settled, CommitPhases, RollbackPhases,
      ClaimRollbackPhases
<1>1. TypeOK'
  <2>1. info' \in DBInfo
    <3>1. 1 - info.queryDB \in {0, 1} /\ tip \in Nat
      BY DEF IInv, TypeOK, DBInfo, Height
    <3> QED
      BY <3>1 DEF ToggleBack, Toggled, IInv, TypeOK, DBInfo
  <2>2. job' \in JobRecord
    BY JobTypes DEF ToggleBack, Phase
  <2> QED
    BY <2>1, <2>2 DEF ToggleBack, IInv, TypeOK, chainVars, blockVars
<1>2. Exchange'
  BY <1>0, JobFields DEF ToggleBack, IInv, Exchange, CommitPhases, chainVars, blockVars
<1>3. UniqueKeys'
  BY DEF ToggleBack, IInv, UniqueKeys, chainVars
<1>4. CandidatesRecorded'
  BY <1>0 DEF ToggleBack, IInv, CandidatesRecorded, chainVars, blockVars
<1>5. TransactionRecorded'
  BY <1>0 DEF ToggleBack, IInv, TransactionRecorded, chainVars, blockVars
<1>6. CommitPending'
  BY <1>0 DEF ToggleBack, IInv, CommitPending, chainVars
<1>7. CommitProgress'
  BY JobFields DEF ToggleBack, IInv, CommitProgress, chainVars
<1>8. RollbackProgress'
  BY JobFields DEF ToggleBack, IInv, RollbackProgress, ClaimRollbackPhases, chainVars
<1>9. BackupRange'
  BY DEF ToggleBack, IInv, BackupRange, Settled, chainVars
<1>10. BackupsReachBack'
  BY ReachBackSame DEF ToggleBack, IInv, dbVars, chainVars, blockVars
<1> QED
  BY <1>1, <1>2, <1>3, <1>4, <1>5, <1>6, <1>7, <1>8, <1>9, <1>10 DEF IInv

(* rollbackAccountDB: the calculation is undone. *)
LEMMA RollbackAccountDBBlockInfoInv ==
    ASSUME IInv, RollbackAccountDBBlockInfo
    PROVE  IInv'
<1>0. committing = {} /\ rollingBack /\ started = {} /\ tx = {}
  BY NoCandidates
  DEF RollbackAccountDBBlockInfo, IInv, Exchange, Settled, CommitPhases,
      RollbackPhases, ClaimRollbackPhases
<1>1. TypeOK'
  BY ConstantsAssumption, JobTypes
  DEF RollbackAccountDBBlockInfo, IInv, TypeOK, Phase, dbVars, chainVars, blockVars,
      DBInfo
<1>2. Exchange'
  BY <1>0, JobFields
  DEF RollbackAccountDBBlockInfo, IInv, Exchange, Settled, CommitPhases, chainVars,
      blockVars
<1>3. UniqueKeys'
  BY DEF RollbackAccountDBBlockInfo, IInv, UniqueKeys, chainVars
<1>4. CandidatesRecorded'
  BY <1>0 DEF RollbackAccountDBBlockInfo, IInv, CandidatesRecorded, chainVars, blockVars
<1>5. TransactionRecorded'
  BY <1>0
  DEF RollbackAccountDBBlockInfo, IInv, TransactionRecorded, chainVars, blockVars
<1>6. CommitPending'
  BY <1>0 DEF RollbackAccountDBBlockInfo, IInv, CommitPending, chainVars
<1>7. CommitProgress'
  BY <1>0 DEF RollbackAccountDBBlockInfo, IInv, CommitProgress, chainVars
<1>8. RollbackProgress'
  BY JobFields
  DEF RollbackAccountDBBlockInfo, IInv, RollbackProgress, ClaimRollbackPhases,
      chainVars
<1>9. BackupRange'
  BY DEF RollbackAccountDBBlockInfo, IInv, BackupRange, Settled, chainVars
<1>10. BackupsReachBack'
  BY ReachBackSame DEF RollbackAccountDBBlockInfo, IInv, dbVars, chainVars, blockVars
<1> QED
  BY <1>1, <1>2, <1>3, <1>4, <1>5, <1>6, <1>7, <1>8, <1>9, <1>10 DEF IInv

(* A calculation touches the account DBs and DBInfo only. *)
LEMMA CalculateInv ==
    ASSUME IInv, NEW reward \in [Address -> Rewards], Calculate(reward)
    PROVE  IInv'
<1>1. TypeOK'
  <2>1. QueryDB \in {0, 1} /\ CalcDB \in {0, 1}
    BY DEF QueryDB, CalcDB, IInv, TypeOK, DBInfo
  <2>2. \A a \in Address : /\ account[CalcDB][a].iScore \in Nat /\ reward[a] \in Nat
                           /\ account[CalcDB][a].iScore + reward[a] \in Nat
    <3>1. account[CalcDB] \in Accounts
      BY <2>1 DEF IInv, TypeOK
    <3>2. \A a \in Address : account[CalcDB][a].iScore \in Nat
      BY <3>1 DEF Accounts
    <3>3. \A a \in Address : reward[a] \in Nat
      BY ConstantsAssumption
    <3>4. \A x, y \in Nat : x + y \in Nat
      OBVIOUS
    <3> QED
      BY <3>2, <3>3, <3>4, Zenon
  <2>3. NoAccount \in [blockHeight : Height, iScore : Nat] /\ tip \in Height
    BY ConstantsAssumption DEF NoAccount, Height, IInv, TypeOK
  <2>4. account' \in [{0, 1} -> Accounts] /\ accBackup' \subseteq Accounts
    <3> DEFINE New(a) == IF account[CalcDB][a] = NoAccount /\ reward[a] = 0
                         THEN NoAccount
                         ELSE [blockHeight |-> tip,
                               iScore |-> account[CalcDB][a].iScore + reward[a]]
    <3>1. \A a \in Address : New(a) \in [blockHeight : Height, iScore : Nat]
      BY <2>2, <2>3
    <3>2. [a \in Address |-> New(a)] \in Accounts
      BY <3>1 DEF Accounts
    <3>3. /\ account' = [account EXCEPT ![QueryDB] = [a \in Address |-> New(a)]]
          /\ accBackup' = {account[QueryDB]}
      BY DEF Calculate
    <3> HIDE DEF New
    <3> QED
      BY <2>1, <3>2, <3>3 DEF IInv, TypeOK
  <2>5. Toggled(tip + 1) \in DBInfo
    <3>1. 1 - info.queryDB \in {0, 1} /\ tip + 1 \in Nat
      BY DEF IInv, TypeOK, DBInfo, Height
    <3> QED
      BY <3>1 DEF Toggled, IInv, TypeOK, DBInfo
  <2>6. info' \in DBInfo
    BY <2>3, <2>5 DEF Calculate, IInv, TypeOK, DBInfo
  <2> QED
    BY <2>4, <2>6 DEF Calculate, IInv, TypeOK, chainVars, blockVars
<1>2. Exchange'
  BY DEF Calculate, IInv, Exchange, Settled, chainVars, blockVars
<1>3. UniqueKeys'
  BY DEF Calculate, IInv, UniqueKeys, chainVars
<1>4. CandidatesRecorded'
  BY DEF Calculate, IInv, CandidatesRecorded, LiveEntries, BlockEntries, chainVars,
         blockVars
<1>5. TransactionRecorded'
  BY DEF Calculate, IInv, TransactionRecorded, EntryOf, BlockEntries, chainVars,
         blockVars
<1>6. CommitPending'
  BY DEF Calculate, IInv, CommitPending, BlockEntries, NotWritten, Unwritten, chainVars
<1>7. CommitProgress'
  BY DEF Calculate, IInv, CommitProgress, BlockEntries, NotWritten, HasGarbage,
         FirstBackup, chainVars
<1>8. RollbackProgress'
  BY DEF Calculate, IInv, RollbackProgress, BackedUp, chainVars
<1>9. BackupRange'
  BY DEF Calculate, IInv, BackupRange, chainVars
<1>10. BackupsReachBack'
  BY ReachBackSame DEF Calculate, IInv, dbVars, chainVars, blockVars
<1> QED
  BY <1>1, <1>2, <1>3, <1>4, <1>5, <1>6, <1>7, <1>8, <1>9, <1>10 DEF IInv

(* A crash loses the handler and the candidate blocks, no database. *)
LEMMA CrashInv ==
    ASSUME IInv, Crash
    PROVE  IInv'
<1>1. TypeOK'
  <2>1. 1 \in 1 .. MaxTx + 1
    BY ConstantsAssumption
  <2>2. /\ paid' \in [Hash -> [Address -> Nat]] /\ nextTx' \in [Hash -> 1 .. MaxTx + 1]
        /\ tx' = {} /\ started' = {}
    BY <2>1 DEF Crash, DropCandidates, NothingPaid
  <2> QED
    BY <2>2, JobTypes DEF Crash, IInv, TypeOK, dbVars, chainVars
<1>2. Exchange'
  BY JobFields
  DEF Crash, IInv, Exchange, CommitPhases, RollbackPhases, ClaimRollbackPhases,
      dbVars, chainVars, DropCandidates
<1>3. UniqueKeys'
  BY DEF Crash, IInv, UniqueKeys, dbVars, chainVars, DropCandidates
<1>4. CandidatesRecorded'
  BY DEF Crash, IInv, CandidatesRecorded, dbVars, chainVars, DropCandidates
<1>5. TransactionRecorded'
  BY DEF Crash, IInv, TransactionRecorded, dbVars, chainVars, DropCandidates
<1>6. CommitPending'
  BY DEF Crash, IInv, CommitPending, BlockEntries, NotWritten, Unwritten, dbVars,
         chainVars, DropCandidates
<1>7. CommitProgress'
  BY JobFields DEF Crash, IInv, CommitProgress, dbVars, chainVars, DropCandidates
<1>8. RollbackProgress'
  BY JobFields DEF Crash, IInv, RollbackProgress, dbVars, chainVars, DropCandidates
<1>9. BackupRange'
  BY DEF Crash, IInv, BackupRange, Settled, dbVars, chainVars, DropCandidates
<1>10. BackupsReachBack'
  BY ReachBackSame DEF Crash, IInv, dbVars, chainVars, blockVars
<1> QED
  BY <1>1, <1>2, <1>3, <1>4, <1>5, <1>6, <1>7, <1>8, <1>9, <1>10 DEF IInv

(* INIT flushes the entries of blocks the chain does not have. *)
LEMMA InitMsgInv ==
    ASSUME IInv, InitMsg
    PROVE  IInv'
<1>1. TypeOK'
  BY ConstantsAssumption, JobTypes
  DEF InitMsg, IInv, TypeOK, Phase, dbVars, chainVars, blockVars
<1>2. Exchange'
  BY JobFields
  DEF InitMsg, IInv, Exchange, CommitPhases, RollbackPhases, ClaimRollbackPhases,
      dbVars, chainVars, blockVars
<1>3. UniqueKeys'
  BY DEF InitMsg, IInv, UniqueKeys, dbVars, chainVars
<1>4. CandidatesRecorded'
  BY DEF InitMsg, IInv, Exchange, CandidatesRecorded, blockVars
<1>5. TransactionRecorded'
  BY DEF InitMsg, IInv, TransactionRecorded, EntryOf, BlockEntries, dbVars,
         chainVars, blockVars
<1>6. CommitPending'
  BY DEF InitMsg, IInv, CommitPending, BlockEntries, NotWritten, Unwritten, dbVars,
         chainVars
<1>7. CommitProgress'
  BY JobFields DEF InitMsg, IInv, CommitProgress, dbVars, chainVars
<1>8. RollbackProgress'
  BY JobFields DEF InitMsg, IInv, RollbackProgress, dbVars, chainVars
<1>9. BackupRange'
  BY DEF InitMsg, IInv, BackupRange, Settled, dbVars, chainVars
<1>10. BackupsReachBack'
  BY ReachBackSame DEF InitMsg, IInv, dbVars, chainVars, blockVars
<1> QED
  BY <1>1, <1>2, <1>3, <1>4, <1>5, <1>6, <1>7, <1>8, <1>9, <1>10 DEF IInv
(* The initial state: empty databases and an empty chain. *)
LEMMA InitInv == Init => IInv
<1> SUFFICES ASSUME Init PROVE IInv
  OBVIOUS
<1>1. 0 \in Height /\ 1 \in 1 .. MaxTx + 1
  BY ConstantsAssumption DEF Height
<1>2. TypeOK
  <2>1. NilClaim \in ClaimData /\ NoAccount \in [blockHeight : Height, iScore : Nat]
    BY <1>1 DEF NilClaim, NoAccount, ClaimData
  <2>2. account \in [{0, 1} -> Accounts] /\ accBackup \subseteq Accounts
    BY <2>1 DEF Init, Accounts
  <2>3. info \in DBInfo /\ cbInfo \in [first : Height, last : Height]
    BY <1>1 DEF Init, DBInfo
  <2> QED
    BY <1>1, <2>1, <2>2, <2>3, JobTypes DEF Init, TypeOK, NothingPaid
<1>3. Exchange /\ UniqueKeys /\ CandidatesRecorded /\ TransactionRecorded
  BY JobFields
  DEF Init, Exchange, UniqueKeys, CandidatesRecorded, TransactionRecorded, Settled,
      CommitPhases, RollbackPhases, ClaimRollbackPhases
<1>4. CommitPending /\ CommitProgress
  BY DEF Init, CommitPending, CommitProgress
<1>5. RollbackProgress /\ BackupRange
  BY JobFields DEF Init, RollbackProgress, BackupRange, ClaimRollbackPhases
<1>6. BackupsReachBack
  <2> SUFFICES ASSUME NEW h \in Height, NEW a \in Address, h <= tip
               PROVE  Restorable(h, a)
    BY DEF BackupsReachBack
  <2>1. h = 0 /\ \A i \in h .. MaxHeight : i \in Height
    BY DEF Init, Height
  <2>2. claim[a].iScore = 0 /\ claim[a].blockHeight = 0 /\ ledger[h][a] = 0
    BY DEF Init, NilClaim
  <2>3. \A i \in h .. MaxHeight : backup[i][a] = NoBackup
    BY <2>1 DEF Init
  <2> QED
    BY <2>1, <2>2, <2>3 DEF Restorable
<1> QED
  BY <1>2, <1>3, <1>4, <1>5, <1>6 DEF IInv

(* A step that changes no variable keeps every part of the invariant. *)
LEMMA StutterInv == ASSUME IInv, UNCHANGED vars PROVE IInv'
<1>1. TypeOK' /\ UniqueKeys' /\ Exchange'
  BY DEF IInv, TypeOK, UniqueKeys, Exchange, Settled,
         vars, dbVars, chainVars, blockVars
<1>2. CandidatesRecorded' /\ TransactionRecorded'
  BY DEF IInv, CandidatesRecorded, TransactionRecorded, LiveEntries, EntryOf,
         BlockEntries,
         vars, dbVars, chainVars, blockVars
<1>3. CommitPending' /\ CommitProgress'
  BY DEF IInv, CommitPending, CommitProgress, BlockEntries, NotWritten, Unwritten,
         HasGarbage,
         FirstBackup, vars, dbVars, chainVars, blockVars
<1>4. RollbackProgress' /\ BackupRange'
  BY DEF IInv, RollbackProgress, BackupRange, BackedUp, Settled, vars, dbVars, chainVars
<1>5. BackupsReachBack'
  BY ReachBackSame DEF IInv, vars, dbVars, chainVars
<1> QED
  BY <1>1, <1>2, <1>3, <1>4, <1>5 DEF IInv

(* Every step of RC and of IS keeps the invariant. *)
LEMMA NextInv == IInv /\ [Next]_vars => IInv'
<1> SUFFICES ASSUME IInv, [Next]_vars PROVE IInv'
  OBVIOUS
<1>1. CASE Invoke
  BY <1>1, StartBlockInv, AbortBlockInv, DoClaimInv, CommitClaimInv, RevertClaimInv
  DEF Invoke
<1>2. CASE \E b \in Hash : DecideBlock(b)
  BY <1>2, DecideBlockInv
<1>3. CASE \E to \in Height : DecideRollback(to)
  BY <1>3, DecideRollbackInv
<1>4. CASE \E reward \in [Address -> Rewards] : Calculate(reward)
  BY <1>4, CalculateInv
<1>5. CASE CommitStep
  BY <1>5, CommitBlockInv, SkipPreCommitInv, BackupClaimInv, WriteClaimInv,
     EndWriteInv, GarbageCollectInv,
     WriteBackupInfoInv, EndCommitFlushInv, SetCurrentBlockInfoInv
  DEF CommitStep
<1>6. CASE RollbackStep
  BY <1>6, RollbackInv, RestoreClaimInv, DropBackupInv, EndRestoreInv, EndDropInv,
     RollbackBackupInfoInv,
     RollbackCurrentBlockInfoInv, RenameAccountBackupInv, ToggleBackInv, RollbackAccountDBBlockInfoInv
  DEF RollbackStep
<1>7. CASE FlushStep
  BY <1>7, DeletePreCommitInv, EndFlushInv DEF FlushStep
<1>8. CASE Reply
  BY <1>8, ReplyInv
<1>9. CASE InitMsg
  BY <1>9, InitMsgInv
<1>10. CASE Crash
  BY <1>10, CrashInv
<1>11. CASE UNCHANGED vars
  BY <1>11, StutterInv
<1> QED
  BY <1>1, <1>2, <1>3, <1>4, <1>5, <1>6, <1>7, <1>8, <1>9, <1>10, <1>11
  DEF Next, Progress

-----------------------------------------------------------------------------
(* IInv is an invariant of the specification: it is inductive. *)
THEOREM Invariance == Spec => []IInv
<1>1. Init => IInv
  BY InitInv
<1>2. IInv /\ [Next]_vars => IInv'
  BY NextInv
<1> QED
  BY <1>1, <1>2, PTL DEF Spec

(* Every variable keeps its type: the entries of the preCommit, claim, claim *)
(* backup, management and account DBs are what db_claim.go, db_management.go *)
(* and db_account.go declare.                                                *)
THEOREM TypeCorrect == Spec => []TypeOK
<1>1. IInv => TypeOK
  BY DEF IInv
<1> QED
  BY <1>1, Invariance, PTL

(* With every request answered the claim DB says what the blocks of the chain *)
(* paid, for any number of accounts, candidate blocks, claims, crashes,       *)
(* repeated COMMIT_BLOCKs and rollbacks (writePreCommitToClaimDB,             *)
(* rollbackClaimDB, initPreCommit, flushPreCommit).                           *)
THEOREM ClaimsAreLedger == Spec => []ClaimDBIsLedger
<1>1. IInv => ClaimDBIsLedger
  BY SettledClaims DEF ClaimDBIsLedger
<1> QED
  BY <1>1, Invariance, PTL

(* At every moment, within every handler too, the backups determine what the *)
(* claim DB was at each block a rollback may go back to                      *)
(* (writePreCommitToClaimDB, garbageCollectClaimBackupDB, _rollbackClaimDB). *)
THEOREM RollbackPossible == Spec => []BackupsReachBack
<1>1. IInv => BackupsReachBack
  BY DEF IInv
<1> QED
  BY <1>1, Invariance, PTL

(* No step lets the chain run ahead of the current block by more than one. *)
LEMMA CurrentStep ==
    ASSUME IInv, CurrentReaches, [Next]_vars
    PROVE  CurrentReaches'
<1>1. /\ tip \in Nat /\ info.current \in Nat
      /\ started # {} => committing = {}
      /\ job.phase = "reply" \/ job.phase \in RollbackPhases => committing # {} \/ rollingBack
      /\ committing # {} => ~rollingBack
      /\ job.phase \in RollbackPhases => rollingBack
  BY DEF IInv, TypeOK, DBInfo, Height, Exchange, Settled
<1>2. ASSUME UNCHANGED <<tip, committing, info>>, job'.phase # "reply"
      PROVE  CurrentReaches'
  BY <1>2 DEF CurrentReaches
<1>3. CASE Invoke
  <2>1. ASSUME NEW b \in Hash, StartBlock(b) \/ AbortBlock(b) PROVE CurrentReaches'
    BY <1>2, <2>1, JobFields DEF StartBlock, AbortBlock, dbVars, chainVars
  <2>2. ASSUME NEW b \in Hash, NEW a \in Address, DoClaim(b, a) PROVE CurrentReaches'
    BY <1>2, <2>2, JobFields DEF DoClaim, Ready, chainVars
  <2>3. ASSUME NEW t \in tx, CommitClaim(t) \/ RevertClaim(t) PROVE CurrentReaches'
    BY <1>2, <2>3, JobFields DEF CommitClaim, RevertClaim, Ready, chainVars
  <2> QED
    BY <1>3, <2>1, <2>2, <2>3 DEF Invoke
<1>4. ASSUME NEW b \in Hash, DecideBlock(b) PROVE CurrentReaches'
  BY <1>1, <1>4, JobFields DEF DecideBlock, Ready, CurrentReaches, dbVars
<1>5. ASSUME NEW to \in Height, DecideRollback(to) PROVE CurrentReaches'
  BY <1>1, <1>5 DEF DecideRollback, Settled, CurrentReaches, dbVars, Height
<1>6. ASSUME NEW reward \in [Address -> Rewards], Calculate(reward) PROVE CurrentReaches'
  <2>1. info'.current = info.current
    BY <1>6 DEF Calculate, Toggled, IInv, TypeOK, DBInfo
  <2> QED
    BY <1>6, <2>1 DEF Calculate, CurrentReaches, chainVars
<1>7. CASE CommitStep
  <2>1. ASSUME NEW b \in committing, CommitBlock(b) PROVE CurrentReaches'
    BY <1>2, <2>1, JobFields DEF CommitBlock, dbVars, chainVars
  <2>2. ASSUME NEW p \in job.pcs, SkipPreCommit(p) \/ BackupClaim(p) PROVE CurrentReaches'
    BY <1>2, <2>2 DEF SkipPreCommit, BackupClaim, IInv, TypeOK, JobRecord, dbVars, chainVars
  <2>3. ASSUME NEW p \in job.saved, WriteClaim(p) PROVE CurrentReaches'
    BY <1>2, <2>3 DEF WriteClaim, IInv, TypeOK, JobRecord, chainVars
  <2>4. CASE EndWrite \/ GarbageCollect \/ WriteBackupInfo \/ EndCommitFlush
    BY <1>2, <2>4, JobFields
    DEF EndWrite, GarbageCollect, WriteBackupInfo, EndCommitFlush, dbVars, chainVars
  <2>5. CASE SetCurrentBlockInfo
    <3>1. info'.current = tip /\ tip' = tip
      BY <2>5 DEF SetCurrentBlockInfo, IInv, TypeOK, DBInfo, chainVars
    <3> QED
      BY <1>1, <3>1 DEF CurrentReaches
  <2> QED
    BY <1>7, <2>1, <2>2, <2>3, <2>4, <2>5 DEF CommitStep
<1>8. CASE RollbackStep
  <2>1. ASSUME rollingBack, UNCHANGED <<tip, committing>>, info'.current \in {info.current, tip}
        PROVE  CurrentReaches'
    BY <1>1, <2>1 DEF CurrentReaches
  <2>2. CASE Rollback \/ EndRestore \/ EndDrop \/ RollbackBackupInfo
    BY <1>1, <2>1, <2>2
    DEF Rollback, EndRestore, EndDrop, RollbackBackupInfo, RollbackPhases,
        ClaimRollbackPhases, dbVars, chainVars
  <2>3. ASSUME NEW a \in job.addrs, RestoreClaim(a) \/ DropBackup(a) PROVE CurrentReaches'
    BY <1>1, <2>1, <2>3
    DEF RestoreClaim, DropBackup, RollbackPhases, ClaimRollbackPhases, chainVars
  <2>4. CASE RollbackCurrentBlockInfo
    BY <1>1, <2>1, <2>4
    DEF RollbackCurrentBlockInfo, RollbackPhases, IInv, TypeOK, DBInfo, chainVars
  <2>5. CASE RenameAccountBackup
    BY <1>1, <2>1, <2>5 DEF RenameAccountBackup, RollbackPhases, chainVars
  <2>6. CASE ToggleBack
    <3>1. info'.current = info.current
      BY <2>6 DEF ToggleBack, Toggled, IInv, TypeOK, DBInfo
    <3> QED
      BY <1>1, <2>1, <2>6, <3>1 DEF ToggleBack, RollbackPhases, chainVars
  <2>7. CASE RollbackAccountDBBlockInfo
    <3>1. info'.current = info.current
      BY <2>7 DEF RollbackAccountDBBlockInfo, IInv, TypeOK, DBInfo
    <3> QED
      BY <1>1, <2>1, <2>7, <3>1 DEF RollbackAccountDBBlockInfo, RollbackPhases, chainVars
  <2> QED
    BY <1>8, <2>2, <2>3, <2>4, <2>5, <2>6, <2>7 DEF RollbackStep
<1>9. CASE FlushStep
  <2>1. ASSUME NEW p \in job.pcs, DeletePreCommit(p) PROVE CurrentReaches'
    <3>1. job'.phase = job.phase /\ job.phase # "reply"
      BY <2>1 DEF DeletePreCommit, IInv, TypeOK, JobRecord
    <3> QED
      BY <1>2, <2>1, <3>1 DEF DeletePreCommit, chainVars
  <2>2. CASE EndFlush
    BY <1>2, <2>2, JobFields DEF EndFlush, dbVars, chainVars
  <2> QED
    BY <1>9, <2>1, <2>2 DEF FlushStep
<1>10. CASE Reply
  BY <1>1, <1>10 DEF Reply, CurrentReaches, dbVars
<1>11. CASE InitMsg \/ Crash
  BY <1>2, <1>11, JobFields DEF InitMsg, Crash, dbVars, chainVars
<1>12. CASE UNCHANGED vars
  BY <1>12 DEF CurrentReaches, vars, dbVars, chainVars
<1> QED
  BY <1>3, <1>4, <1>5, <1>6, <1>7, <1>8, <1>9, <1>10, <1>11, <1>12 DEF Next, Progress

(* However RC and IS went down, within a COMMIT_BLOCK or a ROLLBACK or between *)
(* them, DoInit accepts the INIT that IS sends when it is back.                *)
THEOREM RestartsAccepted == Spec => []RestartAccepted
<1>1. Init => CurrentReaches
  BY DEF Init, CurrentReaches
<1>2. IInv /\ CurrentReaches /\ [Next]_vars => CurrentReaches'
  BY CurrentStep
<1>3. CurrentReaches => RestartAccepted
  BY DEF CurrentReaches, RestartAccepted
<1> QED
  BY <1>1, <1>2, <1>3, Invariance, PTL DEF Spec

-----------------------------------------------------------------------------
(* No account is paid more than the query DB has for it, and the backups     *)
(* reach back as far as a rollback may: AccountInv and FirstReaches are      *)
(* inductive on top of IInv.                                                 *)

(* The numbers the account invariants compare. *)
LEMMA AccountTypes ==
    ASSUME TypeOK
    PROVE  /\ tip \in Nat /\ tip \in Height
           /\ info.calcDone \in Nat /\ info.prevCalcDone \in Nat /\ info.toggleBH \in Nat
           /\ info.calcDone \in Height /\ info.queryDB \in {0, 1}
           /\ \A a \in Address : QueryAccount(a).iScore \in Nat
           /\ \A a \in Address : account[CalcDB][a].iScore \in Nat
           /\ \A old \in accBackup, a \in Address : old[a].iScore \in Nat
           /\ \A h \in Height, a \in Address : ledger[h][a] \in Nat
           /\ \A b \in Hash, a \in Address : paid[b][a] \in Nat
           /\ started \subseteq Hash
           /\ Term \in Nat /\ Term > 0
<1>1. info \in DBInfo /\ tip \in Height /\ Height \subseteq Nat
  BY ConstantsAssumption DEF TypeOK, Height
<1>2. info.queryDB \in {0, 1} /\ 1 - info.queryDB \in {0, 1}
  BY <1>1 DEF DBInfo
<1>3. \A db \in {0, 1}, a \in Address : account[db][a].iScore \in Nat
  BY DEF TypeOK, Accounts
<1>4. \A old \in accBackup, a \in Address : old[a].iScore \in Nat
  BY DEF TypeOK, Accounts
<1>5. \A a \in Address : /\ QueryAccount(a).iScore \in Nat
                         /\ account[CalcDB][a].iScore \in Nat
  BY <1>2, <1>3 DEF QueryAccount, QueryDB, CalcDB
<1>6. /\ \A h \in Height, a \in Address : ledger[h][a] \in Nat
      /\ \A b \in Hash, a \in Address : paid[b][a] \in Nat
      /\ started \subseteq Hash
  BY DEF TypeOK
<1>7. /\ info.calcDone \in Nat /\ info.prevCalcDone \in Nat /\ info.toggleBH \in Nat
      /\ info.calcDone \in Height
  BY <1>1 DEF DBInfo
<1> QED
  BY <1>1, <1>2, <1>4, <1>5, <1>6, <1>7, ConstantsAssumption

(* Steps that leave the chain, the accounts and the calculations alone, and *)
(* at most drop candidate blocks, disturb nothing but the handler's phase.  *)
LEMMA AccountFrame ==
    ASSUME AccountInv,
           UNCHANGED <<tip, ledger, account, accBackup, rollingBack>>,
           info'.calcDone = info.calcDone, info'.prevCalcDone = info.prevCalcDone,
           info'.queryDB = info.queryDB, info'.toggleBH = info.toggleBH,
           \A b \in started' : b \in started /\ paid'[b] = paid[b],
           \A t \in tx' : t \in tx /\ paid'[t.hash] = paid[t.hash],
           job'.phase \in {"rename", "toggle", "calcDone"} => tip <= info.calcDone,
           job'.phase \in {"toggle", "calcDone"} => accBackup = {},
           job'.phase = "calcDone" => info.toggleBH = tip,
           job'.phase = "reply" => ~AccountRollback
    PROVE  AccountInv'
<1>1. AccountRollback' = AccountRollback /\ CalcDB' = CalcDB
      /\ \A a : QueryAccount(a)' = QueryAccount(a)
  BY DEF AccountRollback, CalcDB, QueryAccount, QueryDB
<1>2. LedgerGrows'
  BY DEF AccountInv, LedgerGrows
<1>3. Calculations'
  BY <1>1 DEF AccountInv, Calculations
<1>4. AccountsCover'
  BY <1>1 DEF AccountInv, AccountsCover
<1>5. CandidatesCovered'
  BY <1>1 DEF AccountInv, CandidatesCovered
<1> QED
  BY <1>2, <1>3, <1>4, <1>5 DEF AccountInv

(* START_BLOCK: the new candidate block has paid nothing. *)
LEMMA StartBlockAccounts ==
    ASSUME IInv, AccountInv, NEW b \in Hash, StartBlock(b)
    PROVE  AccountInv'
<1> USE AccountTypes, JobFields
<1>1. /\ TypeOK /\ started \subseteq Hash
      /\ UNCHANGED <<tip, ledger, account, accBackup, rollingBack, info, tx>>
      /\ started' = started \cup {b} /\ job'.phase = "flush"
      /\ tip < info.calcDone + Term /\ tx = {}
  BY DEF StartBlock, IInv, TypeOK, dbVars, chainVars
<1>2. \A c \in Hash, a \in Address : paid'[c][a] = IF c = b THEN 0 ELSE paid[c][a]
  BY <1>1 DEF StartBlock, TypeOK
<1>3. \A a : QueryAccount(a)' = QueryAccount(a) /\ CalcDB' = CalcDB
      /\ AccountRollback' = AccountRollback
  BY <1>1 DEF AccountRollback, CalcDB, QueryAccount, QueryDB
<1>4. LedgerGrows'
  BY <1>1 DEF AccountInv, LedgerGrows
<1>5. Calculations'
  BY <1>1, <1>3 DEF AccountInv, Calculations
<1>6. AccountsCover'
  BY <1>1, <1>3 DEF AccountInv, AccountsCover
<1>7. CandidatesCovered'
  <2>1. ASSUME NEW c \in started', NEW a \in Address
        PROVE  ledger[tip][a] + paid'[c][a] <= QueryAccount(a).iScore
    <3>1. c \in Hash /\ ledger[tip][a] <= QueryAccount(a).iScore
      BY <1>1, <2>1 DEF AccountInv, AccountsCover
    <3>2. CASE c = b
      BY <1>1, <1>2, <3>1, <3>2
    <3>3. CASE c # b
      BY <1>1, <1>2, <2>1, <3>1, <3>3 DEF AccountInv, CandidatesCovered
    <3> QED
      BY <3>2, <3>3
  <2> QED
    BY <1>1, <1>3, <2>1 DEF CandidatesCovered
<1> QED
  BY <1>4, <1>5, <1>6, <1>7 DEF AccountInv

(* CLAIM is answered with at most what the query DB has and the claim DB, *)
(* that is the ledger, has not: and only once for a candidate block.      *)
LEMMA DoClaimAccounts ==
    ASSUME IInv, AccountInv, NEW b \in Hash, NEW a \in Address, DoClaim(b, a)
    PROVE  AccountInv'
<1> USE AccountTypes
<1>1. /\ TypeOK /\ job = Idle /\ b \in started /\ Settled
      /\ UNCHANGED <<tip, ledger, account, accBackup, rollingBack, info, started, paid, job>>
  BY DEF DoClaim, Ready, IInv, Exchange, chainVars
<1> DEFINE iScore == ClaimableIScore(b, a)
<1>2. \A t \in tx' : t.hash = b /\ t.addr = a /\ t.iScore = iScore
  BY DEF DoClaim
<1>3. ledger[tip][a] + paid[b][a] + iScore <= QueryAccount(a).iScore
  <2>1. iScore \in Nat /\ ledger[tip][a] \in Nat /\ paid[b][a] \in Nat
        /\ QueryAccount(a).iScore \in Nat
    BY <1>1, ClaimableType
  <2>2. CASE iScore = 0
    BY <1>1, <2>1, <2>2 DEF AccountInv, CandidatesCovered
  <2>3. CASE iScore # 0
    <3>1. claim[a].iScore = ledger[tip][a]
      BY <1>1, SettledClaims
    <3>2. iScore <= QueryAccount(a).iScore - ledger[tip][a]
      BY <1>1, <2>3, <3>1, ClaimableType DEF Unclaimed
    <3>3. \A p \in LiveEntries(b) : p.addr # a
      BY <1>1, <2>3, ClaimableType DEF AlreadyClaimedInBlock, LiveEntries
    <3>4. paid[b][a] = 0
      BY <1>1, <3>3 DEF IInv, CandidatesRecorded
    <3> QED
      BY <2>1, <3>2, <3>4
  <2> QED
    BY <2>2, <2>3
<1>4. /\ \A c : QueryAccount(c)' = QueryAccount(c)
      /\ CalcDB' = CalcDB /\ AccountRollback' = AccountRollback
  BY <1>1 DEF AccountRollback, CalcDB, QueryAccount, QueryDB
<1>5. LedgerGrows' /\ Calculations' /\ AccountsCover'
  BY <1>1, <1>4 DEF AccountInv, LedgerGrows, Calculations, AccountsCover
<1>6. CandidatesCovered'
  BY <1>1, <1>2, <1>3, <1>4 DEF AccountInv, CandidatesCovered
<1> QED
  BY <1>5, <1>6 DEF AccountInv

(* COMMIT_CLAIM pays what CLAIM answered. *)
LEMMA CommitClaimAccounts ==
    ASSUME IInv, AccountInv, NEW t \in tx, CommitClaim(t)
    PROVE  AccountInv'
<1> USE AccountTypes
<1>1. /\ TypeOK /\ t \in Transaction /\ t.hash \in Hash /\ t.addr \in Address /\ t.iScore \in Nat
      /\ UNCHANGED <<tip, ledger, account, accBackup, rollingBack, info, started, job>>
      /\ tx' = {} /\ started \subseteq Hash
  BY DEF CommitClaim, IInv, TypeOK, Transaction, chainVars
<1>2. \A b \in Hash, a \in Address :
         paid'[b][a] = IF b = t.hash /\ a = t.addr THEN paid[b][a] + t.iScore ELSE paid[b][a]
  BY <1>1 DEF CommitClaim, TypeOK
<1>3. /\ \A c : QueryAccount(c)' = QueryAccount(c)
      /\ CalcDB' = CalcDB /\ AccountRollback' = AccountRollback
  BY <1>1 DEF AccountRollback, CalcDB, QueryAccount, QueryDB
<1>4. LedgerGrows' /\ Calculations' /\ AccountsCover'
  BY <1>1, <1>3 DEF AccountInv, LedgerGrows, Calculations, AccountsCover
<1>5. ASSUME NEW b \in started, NEW a \in Address
      PROVE  ledger[tip][a] + paid'[b][a] <= QueryAccount(a).iScore
  <2>1. b \in Hash
    BY <1>1
  <2>2. CASE b = t.hash /\ a = t.addr
    <3>1. /\ ledger[tip][a] + paid[b][a] + t.iScore <= QueryAccount(a).iScore
          /\ ledger[tip][a] \in Nat /\ paid[b][a] \in Nat
      BY <1>1, <2>1, <2>2 DEF AccountInv, CandidatesCovered
    <3> QED
      BY <1>1, <1>2, <2>1, <2>2, <3>1
  <2>3. CASE ~(b = t.hash /\ a = t.addr)
    BY <1>2, <2>1, <2>3 DEF AccountInv, CandidatesCovered
  <2> QED
    BY <2>2, <2>3
<1>6. CandidatesCovered'
  BY <1>1, <1>3, <1>5 DEF CandidatesCovered
<1> QED
  BY <1>4, <1>6 DEF AccountInv

(* The next block of the chain pays what its candidate paid. *)
LEMMA DecideBlockAccounts ==
    ASSUME IInv, AccountInv, NEW b \in Hash, DecideBlock(b)
    PROVE  AccountInv'
<1> USE AccountTypes, JobFields
<1>0. /\ TypeOK /\ tip \in Nat /\ tip \in Height /\ job = Idle
      /\ UNCHANGED <<account, accBackup, rollingBack, info, job>>
      /\ tip' = tip + 1 /\ started' = {} /\ tx' = {}
      /\ b \in started
  BY DEF DecideBlock, DropCandidates, Ready, IInv, dbVars
<1>1. /\ TypeOK /\ tip \in Nat /\ tip \in Height /\ tip + 1 \in Height /\ job = Idle
      /\ UNCHANGED <<account, accBackup, rollingBack, info, job>>
      /\ tip' = tip + 1 /\ started' = {} /\ tx' = {}
      /\ b \in started /\ ~rollingBack /\ ~AccountRollback /\ ~AccountRollback'
      /\ tip < info.calcDone + Term
  <2>1. Settled /\ tip < MaxHeight
    BY <1>0 DEF IInv, Exchange
  <2>2. ~rollingBack /\ ~AccountRollback /\ ~AccountRollback'
    BY <1>0, <2>1 DEF Settled, AccountRollback
  <2>3. tip < info.calcDone + Term
    BY <1>0 DEF AccountInv, Calculations
  <2>4. tip + 1 \in Height
    BY <1>0, <2>1, ConstantsAssumption DEF Height
  <2> QED
    BY <1>0, <2>2, <2>3, <2>4
<1>2. /\ \A h \in Height : h # tip + 1 => ledger'[h] = ledger[h]
      /\ \A a \in Address : ledger'[tip + 1][a] = ledger[tip][a] + paid[b][a]
  BY <1>1 DEF DecideBlock, TypeOK
<1>3. /\ \A c : QueryAccount(c)' = QueryAccount(c)
      /\ CalcDB' = CalcDB
  BY <1>1 DEF CalcDB, QueryAccount, QueryDB
<1>4. LedgerGrows'
  <2> SUFFICES ASSUME NEW h \in Height, NEW k \in Height, NEW a \in Address,
                      h <= k, k <= tip + 1
               PROVE  ledger'[h][a] <= ledger'[k][a]
    BY <1>1 DEF LedgerGrows
  <2>1. h \in Nat /\ k \in Nat /\ ledger[tip][a] \in Nat /\ paid[b][a] \in Nat
        /\ ledger[h][a] \in Nat
    BY <1>1 DEF Height
  <2>2. CASE k <= tip
    BY <1>1, <1>2, <2>1, <2>2 DEF AccountInv, LedgerGrows
  <2>3. CASE k = tip + 1 /\ h = tip + 1
    BY <1>1, <1>2, <2>1, <2>3
  <2>4. CASE k = tip + 1 /\ h # tip + 1
    <3>1. h <= tip
      BY <1>1, <2>1, <2>4
    <3>2. ledger[h][a] <= ledger[tip][a]
      <4>1. tip \in Height /\ tip <= tip
        BY <1>1
      <4> QED
        BY <3>1, <4>1 DEF AccountInv, LedgerGrows
    <3> QED
      BY <1>2, <2>1, <2>4, <3>2
  <2> QED
    BY <1>1, <2>1, <2>2, <2>3, <2>4
<1>5. Calculations'
  BY <1>1 DEF AccountInv, Calculations
<1>6. AccountsCover'
  <2>1. ASSUME NEW a \in Address PROVE ledger'[tip + 1][a] <= QueryAccount(a).iScore
    BY <1>1, <1>2 DEF AccountInv, CandidatesCovered
  <2>2. info.calcDone \in Height /\ info.calcDone # tip + 1
    BY <1>1 DEF AccountInv, Calculations
  <2>3. ledger'[info.calcDone] = ledger[info.calcDone]
    BY <1>2, <2>2
  <2> QED
    BY <1>1, <1>3, <2>1, <2>3 DEF AccountInv, AccountsCover
<1>7. CandidatesCovered'
  BY <1>1 DEF CandidatesCovered
<1> QED
  BY <1>4, <1>5, <1>6, <1>7 DEF AccountInv

(* IS goes back to a block: the accounts cover what the chain up to it has *)
(* paid, and so does the backup when the last calculation is undone.       *)
LEMMA DecideRollbackAccounts ==
    ASSUME IInv, AccountInv, NEW to \in Height, DecideRollback(to)
    PROVE  AccountInv'
<1> USE AccountTypes, JobFields
<1>1. /\ TypeOK /\ tip \in Nat /\ tip \in Height /\ to \in Nat /\ job = Idle
      /\ UNCHANGED <<account, accBackup, info, job, ledger>>
      /\ tip' = to /\ started' = {} /\ tx' = {} /\ rollingBack' /\ ~rollingBack
      /\ to < tip /\ info.prevCalcDone < to /\ ~AccountRollback
  BY DEF DecideRollback, DropCandidates, Ready, IInv, Settled, TypeOK, Height, dbVars,
         AccountRollback, RollbackAllowed
<1>2. /\ \A c : QueryAccount(c)' = QueryAccount(c)
      /\ CalcDB' = CalcDB
      /\ AccountRollback' <=> to <= info.calcDone
  BY <1>1 DEF CalcDB, QueryAccount, QueryDB, AccountRollback
<1>3. LedgerGrows'
  BY <1>1 DEF AccountInv, LedgerGrows, Height
<1>4. Calculations'
  <2>1. to <= info.calcDone => accBackup # {}
    BY <1>1 DEF AccountInv, Calculations
  <2>2. /\ accBackup # {} => /\ info.calcDone = info.prevCalcDone + Term
                             /\ info.toggleBH = info.calcDone + 1
        /\ tip <= info.calcDone + Term /\ info.toggleBH <= info.calcDone + Term
        /\ accBackup = {} => info.calcDone = info.prevCalcDone
    BY <1>1 DEF AccountInv, Calculations
  <2>3. /\ to > info.calcDone => info.calcDone <= to /\ to <= info.calcDone + Term
    BY <1>1, <2>2
  <2> QED
    BY <1>1, <1>2, <2>1, <2>2, <2>3 DEF Calculations
<1>5. AccountsCover'
  <2> SUFFICES ASSUME NEW a \in Address PROVE AccountsCover!(a)'
    BY DEF AccountsCover
  <2>1. ledger[to][a] <= ledger[tip][a] /\ ledger[to][a] \in Nat
    BY <1>1 DEF AccountInv, LedgerGrows
  <2>2. /\ ledger[tip][a] <= QueryAccount(a).iScore
        /\ QueryAccount(a).iScore <= account[CalcDB][a].iScore
        /\ \A old \in accBackup : /\ old[a].iScore <= QueryAccount(a).iScore
                                  /\ ledger[info.calcDone][a] <= old[a].iScore
    BY <1>1 DEF AccountInv, AccountsCover
  <2>3. info.calcDone <= tip
    BY <1>1 DEF AccountInv, Calculations
  <2>4. to <= info.calcDone => ledger[to][a] <= ledger[info.calcDone][a] /\ accBackup # {}
    BY <1>1, <2>3 DEF AccountInv, LedgerGrows, Calculations
  <2>5. /\ ledger[tip][a] \in Nat /\ ledger[info.calcDone][a] \in Nat
        /\ QueryAccount(a).iScore \in Nat
        /\ \A old \in accBackup : old[a].iScore \in Nat
    BY <1>1
  <2>6. ledger[to][a] <= QueryAccount(a).iScore
    BY <2>1, <2>2, <2>5
  <2>7. \A old \in accBackup : to <= info.calcDone => ledger[to][a] <= old[a].iScore
    BY <2>1, <2>2, <2>4, <2>5
  <2> QED
    BY <1>1, <1>2, <2>2, <2>4, <2>6, <2>7
<1>6. CandidatesCovered'
  BY <1>1 DEF CandidatesCovered
<1> QED
  BY <1>3, <1>4, <1>5, <1>6 DEF AccountInv

(* ROLLBACK goes on to the account DBs only below the last calculation. *)
LEMMA RollbackAccounts ==
    ASSUME IInv, AccountInv, Rollback \/ RollbackCurrentBlockInfo
    PROVE  AccountInv'
<1> USE JobFields
<1>1. /\ UNCHANGED <<tip, ledger, account, accBackup, rollingBack, started, paid, tx>>
      /\ job' = Job(AccountPhase) \/ job'.phase = "restore"
  BY DEF Rollback, RollbackCurrentBlockInfo, dbVars, chainVars, blockVars
<1>2. /\ info'.calcDone = info.calcDone /\ info'.prevCalcDone = info.prevCalcDone
      /\ info'.queryDB = info.queryDB /\ info'.toggleBH = info.toggleBH
  BY DEF Rollback, RollbackCurrentBlockInfo, dbVars, IInv, TypeOK, DBInfo
<1>3. CASE job'.phase = "restore"
  BY <1>1, <1>2, <1>3, AccountFrame
<1>4. CASE tip <= info.calcDone /\ job'.phase = "rename"
  BY <1>1, <1>2, <1>4, AccountFrame
<1>5. CASE ~(tip <= info.calcDone) /\ job'.phase = "reply"
  BY <1>1, <1>2, <1>5, AccountFrame DEF AccountRollback
<1> QED
  BY <1>1, <1>3, <1>4, <1>5 DEF AccountPhase

(* The renamed account DB is put back: it becomes the calculate DB, still *)
(* covering what was paid up to the block IS went back to.                *)
LEMMA RenameAccounts ==
    ASSUME IInv, AccountInv, RenameAccountBackup
    PROVE  AccountInv'
<1> USE AccountTypes, JobFields
<1>1. /\ TypeOK /\ rollingBack /\ tip <= info.calcDone /\ AccountRollback
      /\ UNCHANGED <<tip, ledger, rollingBack, info, started, paid, tx>>
      /\ accBackup' = {} /\ job'.phase = "toggle"
  BY DEF RenameAccountBackup, IInv, Exchange, RollbackPhases, AccountInv, Calculations,
         AccountRollback, chainVars, blockVars
<1>2. /\ AccountRollback' /\ QueryDB' = QueryDB /\ CalcDB' = CalcDB
      /\ QueryDB \in {0, 1} /\ CalcDB \in {0, 1} /\ QueryDB # CalcDB
  <2>1. info.queryDB \in {0, 1}
    BY <1>1
  <2> QED
    BY <1>1, <2>1 DEF AccountRollback, QueryDB, CalcDB
<1>3. account'[QueryDB] = account[QueryDB]
  BY <1>1, <1>2 DEF RenameAccountBackup, TypeOK
<1>4. \A a : QueryAccount(a)' = QueryAccount(a)
  BY <1>2, <1>3 DEF QueryAccount
<1>5. LedgerGrows'
  BY <1>1 DEF AccountInv, LedgerGrows
<1>6. Calculations'
  BY <1>1, <1>2 DEF AccountInv, Calculations
<1>7. AccountsCover'
  <2> SUFFICES ASSUME NEW a \in Address PROVE AccountsCover!(a)'
    BY DEF AccountsCover
  <2>1. ledger[tip][a] <= QueryAccount(a).iScore
    BY DEF AccountInv, AccountsCover
  <2>2. CASE accBackup = {} /\ account' = account
    BY <1>1, <1>2, <1>4, <2>1, <2>2 DEF AccountInv, AccountsCover
  <2>3. ASSUME NEW old \in accBackup, account' = [account EXCEPT ![CalcDB] = old]
        PROVE  AccountsCover!(a)'
    <3>1. account'[CalcDB] = old
      BY <1>1, <1>2, <2>3 DEF TypeOK
    <3>2. old[a].iScore <= QueryAccount(a).iScore /\ ledger[tip][a] <= old[a].iScore
      BY <1>1 DEF AccountInv, AccountsCover
    <3>3. info.toggleBH # tip
      <4>1. info.toggleBH = info.calcDone + 1
        BY DEF AccountInv, Calculations
      <4> QED
        BY <1>1, <4>1
    <3> QED
      BY <1>1, <1>2, <1>4, <2>1, <3>1, <3>2, <3>3
  <2> QED
    BY <2>2, <2>3 DEF RenameAccountBackup
<1>8. CandidatesCovered'
  BY <1>1, <1>4 DEF AccountInv, CandidatesCovered
<1> QED
  BY <1>5, <1>6, <1>7, <1>8 DEF AccountInv

(* Toggling back, once: the DB that was put back answers claims again. *)
LEMMA ToggleBackAccounts ==
    ASSUME IInv, AccountInv, ToggleBack
    PROVE  AccountInv'
<1> USE AccountTypes, JobFields
<1>1. /\ TypeOK /\ rollingBack /\ tip <= info.calcDone /\ AccountRollback /\ accBackup = {}
      /\ UNCHANGED <<tip, ledger, rollingBack, account, accBackup, started, paid, tx>>
      /\ job'.phase = "calcDone"
  BY DEF ToggleBack, IInv, Exchange, RollbackPhases, AccountInv, Calculations,
         AccountRollback, chainVars, blockVars
<1>2. started = {} /\ tx = {}
  BY <1>1, NoCandidates DEF IInv, Settled
<1>3. CASE info.toggleBH = tip
  <2>1. info' = info
    BY <1>3 DEF ToggleBack, Toggled
  <2> QED
    BY <1>1, <1>2, <1>3, <2>1, AccountFrame
<1>4. CASE info.toggleBH # tip
  <2>1. /\ info'.calcDone = info.calcDone /\ info'.prevCalcDone = info.prevCalcDone
        /\ info'.toggleBH = tip /\ info'.queryDB = 1 - info.queryDB
    BY <1>1, <1>4 DEF ToggleBack, Toggled, TypeOK, DBInfo
  <2>2. AccountRollback' /\ QueryDB' = CalcDB /\ CalcDB' = QueryDB
    <3>1. info.queryDB \in {0, 1}
      BY <1>1
    <3> QED
      BY <1>1, <2>1, <3>1 DEF AccountRollback, QueryDB, CalcDB
  <2>3. \A a : QueryAccount(a)' = account[CalcDB][a] /\ account[CalcDB]'[a] = QueryAccount(a)
    BY <1>1, <2>2 DEF QueryAccount
  <2>4. LedgerGrows'
    BY <1>1 DEF AccountInv, LedgerGrows
  <2>5. Calculations'
    BY <1>1, <1>2, <2>1, <2>2 DEF AccountInv, Calculations
  <2>6. AccountsCover'
    BY <1>1, <1>4, <2>1, <2>2, <2>3 DEF AccountInv, AccountsCover
  <2>7. CandidatesCovered'
    BY <1>1, <1>2 DEF CandidatesCovered
  <2> QED
    BY <2>4, <2>5, <2>6, <2>7 DEF AccountInv
<1> QED
  BY <1>3, <1>4

(* The calculation is undone: the one before it is the last one again. *)
LEMMA UndoneAccounts ==
    ASSUME IInv, AccountInv, RollbackAccountDBBlockInfo
    PROVE  AccountInv'
<1> USE AccountTypes, JobFields
<1>1. /\ TypeOK /\ rollingBack /\ tip <= info.calcDone /\ AccountRollback /\ accBackup = {}
      /\ UNCHANGED <<tip, ledger, rollingBack, account, accBackup, started, paid, tx>>
      /\ job'.phase = "reply" /\ info.toggleBH = tip
      /\ info.prevCalcDone < tip /\ info.calcDone = info.prevCalcDone + Term
  BY DEF RollbackAccountDBBlockInfo, IInv, Exchange, RollbackPhases, AccountInv, Calculations,
         AccountRollback, chainVars, blockVars
<1>2. started = {} /\ tx = {}
  BY <1>1, NoCandidates DEF IInv, Settled
<1>3. /\ info'.calcDone = info.prevCalcDone /\ info'.prevCalcDone = info.prevCalcDone
      /\ info'.toggleBH = tip /\ info'.queryDB = info.queryDB
  BY <1>1 DEF RollbackAccountDBBlockInfo, TypeOK, DBInfo
<1>4. /\ ~AccountRollback' /\ CalcDB' = CalcDB
      /\ \A a : QueryAccount(a)' = QueryAccount(a)
  BY <1>1, <1>3 DEF AccountRollback, QueryDB, CalcDB, QueryAccount
<1>5. LedgerGrows'
  BY <1>1 DEF AccountInv, LedgerGrows
<1>6. Calculations'
  BY <1>1, <1>2, <1>3, <1>4 DEF Calculations
<1>7. AccountsCover'
  BY <1>1, <1>3, <1>4 DEF AccountInv, AccountsCover
<1>8. CandidatesCovered'
  BY <1>1, <1>2 DEF CandidatesCovered
<1> QED
  BY <1>5, <1>6, <1>7, <1>8 DEF AccountInv

(* CALCULATE: the calculate DB, which has at least what the query DB has, *)
(* answers claims from now on, and the old query DB is kept.              *)
LEMMA CalculateAccounts ==
    ASSUME IInv, AccountInv, NEW reward \in [Address -> Rewards], Calculate(reward)
    PROVE  AccountInv'
<1> USE AccountTypes, JobFields
<1>1. /\ TypeOK /\ ~rollingBack /\ tip = info.calcDone + Term /\ job = Idle
      /\ UNCHANGED <<tip, ledger, rollingBack, started, paid, tx, job>>
      /\ accBackup' = {account[QueryDB]}
  BY DEF Calculate, Ready, Settled, IInv, chainVars, blockVars
<1>2. started = {} /\ tx = {}
  <2>1. started = {}
    BY <1>1 DEF AccountInv, Calculations
  <2> QED
    BY <2>1 DEF IInv, Exchange
<1>3. ~AccountRollback /\ ~AccountRollback'
  BY <1>1 DEF AccountRollback
<1>4. info.toggleBH # tip + 1
  <2>1. info.toggleBH <= tip
    BY <1>1, <1>3 DEF AccountInv, Calculations
  <2> QED
    BY <1>1, <2>1
<1>5. /\ info'.calcDone = tip /\ info'.prevCalcDone = info.calcDone
      /\ info'.toggleBH = tip + 1 /\ info'.queryDB = 1 - info.queryDB
  <2>1. info \in DBInfo
    BY <1>1 DEF TypeOK
  <2>2. Toggled(tip + 1) = [info EXCEPT !.queryDB = 1 - @, !.toggleBH = tip + 1]
    BY <1>4 DEF Toggled
  <2> QED
    BY <2>1, <2>2 DEF Calculate, DBInfo
<1>6. /\ QueryDB' = CalcDB /\ CalcDB' = QueryDB
      /\ QueryDB \in {0, 1} /\ CalcDB \in {0, 1} /\ QueryDB # CalcDB
  <2>1. info.queryDB \in {0, 1}
    BY <1>1
  <2> QED
    BY <1>1, <1>5, <2>1 DEF QueryDB, CalcDB
<1>7. account'[CalcDB] = account[CalcDB]
  BY <1>1, <1>6 DEF Calculate, TypeOK
<1>8. ASSUME NEW a \in Address
      PROVE  /\ QueryAccount(a)' = account[CalcDB][a]
             /\ account[CalcDB][a].iScore <= account'[QueryDB][a].iScore
  <2>1. QueryAccount(a)' = account[CalcDB][a]
    BY <1>6, <1>7 DEF QueryAccount
  <2>2. account'[QueryDB][a] = IF account[CalcDB][a] = NoAccount /\ reward[a] = 0
                               THEN NoAccount
                               ELSE [blockHeight |-> tip,
                                     iScore |-> account[CalcDB][a].iScore + reward[a]]
    BY <1>1, <1>6 DEF Calculate, TypeOK
  <2>3. reward[a] \in Nat /\ account[CalcDB][a].iScore \in Nat
    BY <1>1, ConstantsAssumption
  <2>4. account[CalcDB][a].iScore <= account'[QueryDB][a].iScore
    <3>1. CASE account[CalcDB][a] = NoAccount /\ reward[a] = 0
      BY <2>2, <2>3, <3>1
    <3>2. CASE ~(account[CalcDB][a] = NoAccount /\ reward[a] = 0)
      <4>1. account'[QueryDB][a].iScore = account[CalcDB][a].iScore + reward[a]
        BY <2>2, <3>2
      <4> QED
        BY <2>3, <4>1
    <3> QED
      BY <3>1, <3>2
  <2> QED
    BY <2>1, <2>4
<1>9. LedgerGrows'
  BY <1>1 DEF AccountInv, LedgerGrows
<1>10. Calculations'
  <2>1. tip <= tip + Term /\ tip + 1 <= tip + Term
    BY <1>1
  <2>2. job'.phase = "idle"
    BY <1>1
  <2> QED
    <3>1. accBackup' # {} /\ started' = {} /\ ~rollingBack' /\ tip' = tip
      BY <1>1, <1>2
    <3>2. ~AccountRollback'
      BY <1>3
    <3> HIDE AccountTypes, JobFields
    <3> QED
      BY <1>1, <1>5, <2>1, <2>2, <3>1, <3>2 DEF Calculations
<1>11. AccountsCover'
  <2> SUFFICES ASSUME NEW a \in Address PROVE AccountsCover!(a)'
    BY DEF AccountsCover
  <2>1. /\ ledger[tip][a] <= QueryAccount(a).iScore
        /\ QueryAccount(a).iScore <= account[CalcDB][a].iScore
        /\ ledger[tip][a] \in Nat /\ QueryAccount(a).iScore \in Nat
        /\ account[CalcDB][a].iScore \in Nat
    BY <1>1, <1>3 DEF AccountInv, AccountsCover
  <2>2. ledger[tip][a] <= account[CalcDB][a].iScore
    BY <2>1
  <2>3. \A old \in accBackup' : old[a] = QueryAccount(a)
    BY <1>1 DEF QueryAccount
  <2> QED
    BY <1>1, <1>3, <1>5, <1>6, <1>8, <2>1, <2>2, <2>3
<1>12. CandidatesCovered'
  BY <1>1, <1>2 DEF CandidatesCovered
<1> QED
  BY <1>9, <1>10, <1>11, <1>12 DEF AccountInv

(* The answer ends a rollback, which has undone the calculation if it had to. *)
LEMMA ReplyAccounts ==
    ASSUME IInv, AccountInv, Reply
    PROVE  AccountInv'
<1>1. /\ UNCHANGED <<tip, ledger, account, accBackup, info, started, paid, tx>>
      /\ ~rollingBack' /\ job'.phase = "idle"
  BY JobFields DEF Reply, dbVars, blockVars
<1>2. ~AccountRollback /\ ~AccountRollback'
  BY <1>1 DEF Reply, AccountInv, Calculations, AccountRollback
<1>3. CalcDB' = CalcDB /\ \A a : QueryAccount(a)' = QueryAccount(a)
  BY <1>1 DEF CalcDB, QueryAccount, QueryDB
<1>4. LedgerGrows' /\ CandidatesCovered'
  BY <1>1, <1>3 DEF AccountInv, LedgerGrows, CandidatesCovered
<1>5. Calculations'
  BY <1>1, <1>2 DEF AccountInv, Calculations
<1>6. AccountsCover'
  BY <1>1, <1>2, <1>3 DEF AccountInv, AccountsCover
<1> QED
  BY <1>4, <1>5, <1>6 DEF AccountInv

(* Every step of RC and of IS keeps the accounts ahead of the ledger. *)
LEMMA AccountStep ==
    ASSUME IInv, AccountInv, [Next]_vars
    PROVE  AccountInv'
<1> USE JobFields
<1>1. job \in JobRecord
  BY DEF IInv, TypeOK
<1>2. ASSUME UNCHANGED <<tip, ledger, account, accBackup, rollingBack, info>>,
             job'.phase \notin {"rename", "toggle", "calcDone", "reply"},
             UNCHANGED <<started, paid, tx>> \/ (started' = {} /\ tx' = {})
      PROVE  AccountInv'
  BY <1>2, AccountFrame
<1>3. CASE Invoke
  <2>1. ASSUME NEW b \in Hash, AbortBlock(b) PROVE AccountInv'
    BY <2>1, AccountFrame DEF AbortBlock, dbVars, chainVars
  <2>2. ASSUME NEW t \in tx, RevertClaim(t) PROVE AccountInv'
    BY <2>2, AccountFrame DEF RevertClaim, Ready, chainVars
  <2> QED
    BY <1>3, <2>1, <2>2, StartBlockAccounts, DoClaimAccounts, CommitClaimAccounts DEF Invoke
<1>4. CASE CommitStep
  <2>1. ASSUME NEW b \in committing, CommitBlock(b) PROVE AccountInv'
    BY <1>2, <2>1 DEF CommitBlock, dbVars, chainVars, blockVars
  <2>2. ASSUME NEW p \in job.pcs, SkipPreCommit(p) \/ BackupClaim(p) PROVE AccountInv'
    <3>1. job'.phase = "write"
      BY <1>1, <2>2 DEF SkipPreCommit, BackupClaim, JobRecord
    <3> QED
      BY <1>2, <2>2, <3>1 DEF SkipPreCommit, BackupClaim, dbVars, chainVars, blockVars
  <2>3. ASSUME NEW p \in job.saved, WriteClaim(p) PROVE AccountInv'
    <3>1. job'.phase = "write"
      BY <1>1, <2>3 DEF WriteClaim, JobRecord
    <3> QED
      BY <1>2, <2>3, <3>1 DEF WriteClaim, chainVars, blockVars
  <2>4. CASE EndWrite \/ GarbageCollect \/ WriteBackupInfo \/ EndCommitFlush
    BY <1>2, <2>4
    DEF EndWrite, GarbageCollect, WriteBackupInfo, EndCommitFlush, dbVars, chainVars, blockVars
  <2>5. CASE SetCurrentBlockInfo
    <3>1. ~AccountRollback
      BY <2>5 DEF SetCurrentBlockInfo, IInv, Exchange, CommitPhases, AccountRollback
    <3>2. /\ info'.calcDone = info.calcDone /\ info'.prevCalcDone = info.prevCalcDone
          /\ info'.queryDB = info.queryDB /\ info'.toggleBH = info.toggleBH
      BY <2>5 DEF SetCurrentBlockInfo, IInv, TypeOK, DBInfo
    <3> QED
      BY <2>5, <3>1, <3>2, AccountFrame DEF SetCurrentBlockInfo, chainVars, blockVars
  <2> QED
    BY <1>4, <2>1, <2>2, <2>3, <2>4, <2>5 DEF CommitStep
<1>5. CASE RollbackStep
  <2>1. ASSUME NEW a \in job.addrs, RestoreClaim(a) \/ DropBackup(a) PROVE AccountInv'
    <3>1. job'.phase = job.phase /\ job.phase \in {"restore", "drop"}
      BY <1>1, <2>1 DEF RestoreClaim, DropBackup, JobRecord
    <3> QED
      BY <1>2, <2>1, <3>1 DEF RestoreClaim, DropBackup, chainVars, blockVars
  <2>2. CASE EndRestore
    <3>1. job'.phase = "drop"
      BY <1>1, <2>2 DEF EndRestore, JobRecord
    <3> QED
      BY <1>2, <2>2, <3>1 DEF EndRestore, dbVars, chainVars, blockVars
  <2>3. CASE EndDrop
    BY <1>2, <2>3 DEF EndDrop, dbVars, chainVars, blockVars
  <2>4. CASE RollbackBackupInfo
    BY <1>2, <2>4 DEF RollbackBackupInfo, chainVars, blockVars
  <2> QED
    BY <1>5, <2>1, <2>2, <2>3, <2>4, RollbackAccounts, RenameAccounts, ToggleBackAccounts,
       UndoneAccounts
    DEF RollbackStep
<1>6. CASE FlushStep
  <2>1. ASSUME NEW p \in job.pcs, DeletePreCommit(p) PROVE AccountInv'
    <3>1. job'.phase = job.phase /\ job.phase \in {"flush", "commitFlush"}
      BY <1>1, <2>1 DEF DeletePreCommit, JobRecord
    <3> QED
      BY <1>2, <2>1, <3>1 DEF DeletePreCommit, chainVars, blockVars
  <2>2. CASE EndFlush
    BY <1>2, <2>2 DEF EndFlush, dbVars, chainVars, blockVars
  <2> QED
    BY <1>6, <2>1, <2>2 DEF FlushStep
<1>7. CASE InitMsg \/ Crash
  BY <1>2, <1>7 DEF InitMsg, Crash, DropCandidates, dbVars, chainVars, blockVars
<1>8. CASE UNCHANGED vars
  <2>1. UNCHANGED <<tip, ledger, account, accBackup, rollingBack, info, started, paid, tx, job>>
    BY <1>8 DEF vars, dbVars, chainVars, blockVars
  <2> QED
    BY <2>1, AccountFrame DEF AccountInv, Calculations
<1> QED
  BY <1>3, <1>4, <1>5, <1>6, <1>7, <1>8, DecideBlockAccounts, DecideRollbackAccounts,
     CalculateAccounts, ReplyAccounts
  DEF Next, Progress

(* AccountInv is an invariant of the specification. *)
THEOREM AccountsInvariance == Spec => []AccountInv
<1>1. Init => AccountInv
  <2> SUFFICES ASSUME Init PROVE AccountInv
    OBVIOUS
  <2>1. /\ tip = 0 /\ started = {} /\ tx = {} /\ accBackup = {} /\ ~rollingBack
        /\ job.phase = "idle" /\ info.calcDone = 0 /\ info.prevCalcDone = 0
        /\ info.toggleBH = 0 /\ info.queryDB = 1
    BY JobFields DEF Init
  <2>2. 0 \in Height /\ Term \in Nat
    BY ConstantsAssumption DEF Height
  <2>3. \A h \in Height, a \in Address : ledger[h][a] = 0
    BY DEF Init
  <2>4. \A a \in Address : QueryAccount(a).iScore = 0 /\ account[CalcDB][a].iScore = 0
    <3>1. QueryDB \in {0, 1} /\ CalcDB \in {0, 1}
      BY <2>1 DEF QueryDB, CalcDB
    <3>2. \A db \in {0, 1}, a \in Address : account[db][a].iScore = 0
      BY DEF Init, NoAccount
    <3> QED
      BY <3>1, <3>2 DEF QueryAccount
  <2>5. LedgerGrows /\ CandidatesCovered
    BY <2>1, <2>3 DEF LedgerGrows, CandidatesCovered
  <2>6. Calculations
    BY <2>1, <2>2 DEF Calculations, AccountRollback
  <2>7. AccountsCover
    <3>1. \A a \in Address : ledger[tip][a] = 0
      BY <2>1, <2>2, <2>3
    <3> QED
      <4>1. ~AccountRollback
        BY <2>1 DEF AccountRollback
      <4>2. \A a \in Address : /\ ledger[tip][a] <= QueryAccount(a).iScore
                               /\ QueryAccount(a).iScore <= account[CalcDB][a].iScore
        <5>1. 0 <= 0
          OBVIOUS
        <5> QED
          BY <2>4, <3>1, <5>1, Zenon
      <4> QED
        BY <2>1, <4>1, <4>2 DEF AccountsCover
  <2> QED
    BY <2>5, <2>6, <2>7 DEF AccountInv
<1>2. IInv /\ AccountInv /\ [Next]_vars => AccountInv'
  BY AccountStep
<1> QED
  BY <1>1, <1>2, Invariance, PTL DEF Spec

(* No account is ever paid more I-Score than the query DB has for it, whatever *)
(* was calculated, rolled back or interrupted by a crash, and for every unit,  *)
(* term and backup period (DoClaim, toggleAccountDB, rollbackAccountDB).       *)
THEOREM NobodyOverpaid == Spec => []NeverOverpaid
<1>1. AccountInv => NeverOverpaid
  BY DEF AccountInv, AccountsCover, CandidatesCovered, NeverOverpaid
<1> QED
  BY <1>1, AccountsInvariance, PTL

-----------------------------------------------------------------------------
(* What the code's constants satisfy: a backup is kept for one block less *)
(* than two terms (ClaimBackupPeriod = 43120*2 - 1).                      *)
PeriodCoversTerms == ClaimBackupPeriod >= 2 * Term - 1

(* Every step leaves backups back to the calculation before the last one: the *)
(* chain is at most two terms ahead of it when garbage is collected.          *)
LEMMA FirstStep ==
    ASSUME PeriodCoversTerms, IInv, AccountInv, FirstReaches, [Next]_vars
    PROVE  FirstReaches'
<1>1. /\ TypeOK /\ cbInfo \in [first : Height, last : Height] /\ Height \subseteq Nat
      /\ cbInfo.first \in Nat /\ cbInfo.last \in Nat
      /\ tip \in Nat /\ info.calcDone \in Nat /\ info.prevCalcDone \in Nat
      /\ Term \in Nat /\ ClaimBackupPeriod \in Nat
  BY AccountTypes, ConstantsAssumption DEF IInv, TypeOK, Height
<1>2. ASSUME cbInfo' = cbInfo, info'.prevCalcDone = info.prevCalcDone
      PROVE  FirstReaches'
  BY <1>2 DEF FirstReaches
<1>3. CASE Invoke
  BY <1>2, <1>3
  DEF Invoke, StartBlock, AbortBlock, DoClaim, CommitClaim, RevertClaim, dbVars
<1>4. ASSUME NEW b \in Hash, DecideBlock(b) PROVE FirstReaches'
  BY <1>2, <1>4 DEF DecideBlock, dbVars
<1>5. ASSUME NEW to \in Height, DecideRollback(to) PROVE FirstReaches'
  BY <1>2, <1>5 DEF DecideRollback, dbVars
<1>6. ASSUME NEW reward \in [Address -> Rewards], Calculate(reward) PROVE FirstReaches'
  <2>1. info'.prevCalcDone = info.calcDone /\ cbInfo' = cbInfo
    BY <1>1, <1>6 DEF Calculate, Toggled, TypeOK, DBInfo
  <2>2. info.prevCalcDone <= info.calcDone
    <3>1. ~AccountRollback
      BY <1>6 DEF Calculate, Settled, AccountRollback
    <3> QED
      BY <1>1, <3>1 DEF AccountInv, Calculations
  <2> QED
    BY <1>1, <2>1, <2>2 DEF FirstReaches
<1>7. CASE CommitStep
  <2>1. CASE WriteBackupInfo
    <3>1. /\ info' = info /\ tip > 0 /\ cbInfo.last \in {tip - 1, tip} /\ ~AccountRollback
      <4>1. committing # {} /\ ~rollingBack
        BY <2>1 DEF WriteBackupInfo, IInv, Exchange, CommitPhases
      <4>2. info' = info /\ ~AccountRollback
        BY <2>1, <4>1 DEF WriteBackupInfo, AccountRollback
      <4> QED
        BY <4>1, <4>2 DEF IInv, CommitPending
    <3>2. tip <= info.prevCalcDone + 2 * Term
      BY <1>1, <3>1 DEF AccountInv, Calculations
    <3>3. /\ cbInfo'.first = IF HasGarbage THEN GarbageBlock + 1 ELSE FirstBackup
          /\ cbInfo'.last = IF cbInfo.last < tip THEN tip ELSE cbInfo.last
      BY <2>1 DEF WriteBackupInfo
    <3>4. FirstBackup \in Nat /\ FirstBackup > 0 /\ FirstBackup <= info.prevCalcDone + 1
      <4>1. CASE cbInfo.first = 0
        BY <1>1, <3>1, <4>1 DEF FirstBackup, FirstReaches
      <4>2. CASE cbInfo.first # 0
        BY <1>1, <4>2 DEF FirstBackup, FirstReaches
      <4> QED
        BY <4>1, <4>2
    <3>5. CASE HasGarbage
      <4>1. cbInfo'.first = tip - ClaimBackupPeriod
        BY <1>1, <3>3, <3>5 DEF GarbageBlock
      <4>2. tip > ClaimBackupPeriod + FirstBackup
        BY <3>5 DEF HasGarbage
      <4>3. ClaimBackupPeriod >= 2 * Term - 1
        BY DEF PeriodCoversTerms
      <4> QED
        BY <1>1, <3>1, <3>2, <3>4, <4>1, <4>2, <4>3 DEF FirstReaches
    <3>6. CASE ~HasGarbage
      BY <1>1, <3>1, <3>3, <3>4, <3>6 DEF FirstReaches
    <3> QED
      BY <3>5, <3>6
  <2>2. CASE SetCurrentBlockInfo
    BY <1>1, <1>2, <2>2 DEF SetCurrentBlockInfo, TypeOK, DBInfo
  <2> QED
    BY <1>2, <1>7, <2>1, <2>2
    DEF CommitStep, CommitBlock, SkipPreCommit, BackupClaim, WriteClaim, EndWrite,
        GarbageCollect, EndCommitFlush, dbVars
<1>8. CASE RollbackStep
  <2>1. CASE RollbackBackupInfo
    <3>1. cbInfo'.first = cbInfo.first /\ cbInfo'.last = tip /\ info' = info
      BY <1>1, <2>1 DEF RollbackBackupInfo
    <3>2. tip <= cbInfo.last
      BY <2>1 DEF RollbackBackupInfo, IInv, Exchange, RollbackPhases, ClaimRollbackPhases,
                  RollbackProgress
    <3> QED
      BY <1>1, <3>1, <3>2 DEF FirstReaches
  <2>2. CASE RollbackCurrentBlockInfo \/ RollbackAccountDBBlockInfo
    BY <1>1, <1>2, <2>2
    DEF RollbackCurrentBlockInfo, RollbackAccountDBBlockInfo, TypeOK, DBInfo
  <2>3. CASE ToggleBack
    BY <1>1, <1>2, <2>3 DEF ToggleBack, Toggled, TypeOK, DBInfo
  <2> QED
    BY <1>2, <1>8, <2>1, <2>2, <2>3
    DEF RollbackStep, Rollback, RestoreClaim, EndRestore, DropBackup, EndDrop,
        RenameAccountBackup, dbVars
<1>9. CASE FlushStep \/ Reply \/ InitMsg \/ Crash
  BY <1>2, <1>9 DEF FlushStep, DeletePreCommit, EndFlush, Reply, InitMsg, Crash, dbVars
<1>10. CASE UNCHANGED vars
  BY <1>2, <1>10 DEF vars, dbVars
<1> QED
  BY <1>3, <1>4, <1>5, <1>6, <1>7, <1>8, <1>9, <1>10 DEF Next, Progress

(* Keeping the claim backups for one block less than two terms, as RC does, *)
(* is enough: a ROLLBACK the account DBs can do, to a block of the chain,   *)
(* is never refused for want of a claim backup, however often blocks were   *)
(* committed again and rollbacks repeated (writeClaimBackupInfo,            *)
(* checkRollback).                                                          *)
THEOREM PeriodSuffices ==
    ASSUME PeriodCoversTerms PROVE Spec => []BackupsCoverRollback
<1>1. Init => FirstReaches
  BY DEF Init, FirstReaches
<1>2. IInv /\ AccountInv /\ FirstReaches /\ [Next]_vars => FirstReaches'
  BY FirstStep
<1>3. IInv /\ FirstReaches => BackupsCoverRollback
  <2> SUFFICES ASSUME IInv, FirstReaches, NEW to \in 1 .. tip, info.prevCalcDone < to
               PROVE  cbInfo.first <= to
    BY DEF BackupsCoverRollback, BackupsCover
  <2>1. tip \in Nat /\ info.prevCalcDone \in Nat /\ cbInfo.first \in Nat
    BY AccountTypes DEF IInv, TypeOK, Height
  <2> QED
    BY <2>1 DEF FirstReaches
<1> QED
  BY <1>1, <1>2, <1>3, Invariance, AccountsInvariance, PTL DEF Spec

-----------------------------------------------------------------------------
(* A query that runs beside the handlers neither hides I-Score nor offers  *)
(* again what its transaction was paid.  The invariant says what a query   *)
(* has read so far against what the databases say now; it rests on the     *)
(* invariants above.                                                       *)

(* What the block being committed paid is what its confirmed entries say, *)
(* from IS's decision to the last flush.                                  *)
CommittedPaid ==
    \A b \in committing : \A p \in BlockEntries(tip, b) :
        p.confirmed => ledger[tip][p.addr] = ledger[tip - 1][p.addr] + p.iScore

Reads == {"preCommit", "claim", "db", "account", "answer"}
QueryRecord ==
    [phase : Reads, addr : Address, tx : SUBSET PreCommit, claimed : Nat, db : {0, 1},
     account : [blockHeight : Height, iScore : Nat], low : Int,
     fate : {"pending", "committed", "gone"}, rolledBack : BOOLEAN, closed : BOOLEAN]

(* What was read so far is consistent with what the databases say now. *)
ReadsHold(q) ==
    /\ q.phase \in {"db", "account", "answer"} => q.claimed <= claim[q.addr].iScore
    /\ q.phase = "account" /\ ~q.closed => q.db = QueryDB
    /\ q.phase = "answer" /\ ~q.closed => q.low <= q.account.iScore - q.claimed

(* The block of the transaction is in the chain, and its entry leaves the *)
(* preCommit DB only after the claim DB has it.                           *)
ClaimCounted(q, p) ==
    /\ 0 < p.height /\ p.height <= tip
    /\ ledger[p.height][q.addr] = ledger[p.height - 1][q.addr] + p.iScore
    /\ Found(p) \/ p.height <= cbInfo.last
    /\ q.phase # "preCommit" => p.height <= cbInfo.last
    /\ q.phase \in {"db", "account", "answer"} => ledger[p.height][q.addr] <= q.claimed

QueryInv ==
    /\ query \subseteq QueryRecord
    /\ \A q \in query :
          /\ \A p \in q.tx : p.addr = q.addr
          /\ \A p, o \in q.tx : p = o
          /\ q.low <= Unclaimed(q.addr)
          /\ rollingBack => q.rolledBack
          /\ q.fate = "pending" => \A p \in q.tx : Found(p) /\ q.phase = "preCommit"
          /\ ~q.rolledBack => ReadsHold(q)
          /\ ~q.rolledBack /\ q.fate = "committed" => \A p \in q.tx : ClaimCounted(q, p)

-----------------------------------------------------------------------------
(* Claim's steps as a query sees them. *)

(* The claim DB has what the chain paid up to every block whose COMMIT_BLOCK *)
(* has written its range of backups.                                         *)
LEMMA ClaimHasChain ==
    ASSUME IInv, LedgerGrows, ~rollingBack,
           NEW h \in Height, h <= tip, h <= cbInfo.last, NEW a \in Address
    PROVE  ledger[h][a] <= claim[a].iScore
<1>1. /\ tip \in Nat /\ tip \in Height /\ h \in Nat /\ cbInfo.last \in Nat
      /\ ClaimBackupPeriod \in Nat
      /\ \A k \in Height : ledger[k][a] \in Nat
  BY ConstantsAssumption DEF IInv, TypeOK, Height
<1>2. ledger[h][a] <= ledger[tip][a]
  BY <1>1 DEF LedgerGrows
<1>3. CASE committing = {}
  <2>1. claim[a].iScore = ledger[tip][a]
    BY <1>3, SettledClaims DEF Settled
  <2> QED
    BY <1>2, <2>1
<1>4. CASE committing # {} /\ cbInfo.last = tip
  <2>1. cbInfo.first <= tip /\ \A k \in Height : tip <= k => backup[k][a] = NoBackup
    BY <1>1, <1>4 DEF IInv, BackupRange
  <2>2. FirstRestorable <= tip
    BY <1>1, <2>1 DEF FirstRestorable, GarbageBlock
  <2>3. Restorable(tip, a)
    BY <1>1, <1>4, <2>2 DEF IInv, BackupsReachBack
  <2>4. \A i \in tip .. MaxHeight : backup[i][a] = NoBackup
    BY <1>1, <2>1, ConstantsAssumption DEF Height
  <2>5. claim[a].iScore = ledger[tip][a]
    BY <2>3, <2>4 DEF Restorable
  <2> QED
    BY <1>2, <2>5
<1>5. CASE committing # {} /\ cbInfo.last = tip - 1
  <2>1. tip > 0 /\ claim[a].iScore \in {ledger[tip][a], ledger[tip - 1][a]}
    BY <1>5 DEF IInv, CommitPending
  <2>2. tip - 1 \in Height /\ h <= tip - 1
    BY <1>1, <1>5, <2>1, ConstantsAssumption DEF Height
  <2>3. ledger[h][a] <= ledger[tip - 1][a]
    BY <1>1, <2>2 DEF LedgerGrows
  <2> QED
    BY <1>2, <2>1, <2>3
<1> QED
  BY <1>3, <1>4, <1>5 DEF IInv, CommitPending

(* A decided block paid what its candidate's entries say, and no entry is *)
(* added to the preCommit DB before it is answered.                       *)
LEMMA CommittedPaidStep ==
    ASSUME IInv, CommittedPaid, [Next]_vars
    PROVE  CommittedPaid'
<1>1. ASSUME \/ committing' = {}
             \/ /\ committing' = committing /\ tip' = tip /\ ledger' = ledger
                /\ preCommit' \subseteq preCommit
      PROVE  CommittedPaid'
  BY <1>1 DEF CommittedPaid, BlockEntries
<1>2. started # {} \/ tx # {} => committing = {}
  BY DEF IInv, Exchange, Settled
<1>3. ASSUME NEW b \in Hash, DecideBlock(b) PROVE CommittedPaid'
  <2>1. /\ committing' = {b} /\ tip' = tip + 1 /\ preCommit' = preCommit
        /\ b \in started /\ job = Idle /\ tip \in Nat /\ tip \in Height /\ tip < MaxHeight
    BY <1>3 DEF DecideBlock, Ready, IInv, TypeOK, Exchange, dbVars, Height
  <2>2. tip + 1 \in Height
    BY <2>1, ConstantsAssumption DEF Height
  <2>3. /\ ledger'[tip] = ledger[tip]
        /\ \A a \in Address : ledger'[tip + 1][a] = ledger[tip][a] + paid[b][a]
    BY <1>3, <2>1, <2>2 DEF DecideBlock, IInv, TypeOK
  <2>4. ASSUME NEW p \in BlockEntries(tip + 1, b), p.confirmed
        PROVE  p.addr \in Address /\ paid[b][p.addr] = p.iScore
    <3>1. p \in LiveEntries(b) /\ p \in PreCommit
      BY <2>1, <2>4, JobFields DEF LiveEntries, BlockEntries, IInv, TypeOK
    <3> QED
      BY <2>1, <2>4, <3>1 DEF IInv, CandidatesRecorded, PreCommit
  <2>5. tip' - 1 = tip
    BY <2>1
  <2> QED
    BY <2>1, <2>3, <2>4, <2>5 DEF CommittedPaid, BlockEntries
<1>4. CASE Invoke
  BY <1>1, <1>2, <1>4
  DEF Invoke, StartBlock, AbortBlock, DoClaim, CommitClaim, RevertClaim, dbVars, chainVars
<1>5. ASSUME NEW to \in Height, DecideRollback(to) PROVE CommittedPaid'
  BY <1>1, <1>5 DEF DecideRollback, Settled
<1>6. ASSUME NEW reward \in [Address -> Rewards], Calculate(reward) PROVE CommittedPaid'
  BY <1>1, <1>6 DEF Calculate, chainVars
<1>7. CASE CommitStep
  BY <1>1, <1>7
  DEF CommitStep, CommitBlock, SkipPreCommit, BackupClaim, WriteClaim, EndWrite,
      GarbageCollect, WriteBackupInfo, EndCommitFlush, SetCurrentBlockInfo, dbVars, chainVars
<1>8. CASE RollbackStep
  BY <1>1, <1>8
  DEF RollbackStep, Rollback, RestoreClaim, EndRestore, DropBackup, EndDrop,
      RollbackBackupInfo, RollbackCurrentBlockInfo, RenameAccountBackup, ToggleBack,
      RollbackAccountDBBlockInfo, dbVars, chainVars
<1>9. CASE FlushStep \/ Reply \/ InitMsg \/ Crash
  BY <1>1, <1>9
  DEF FlushStep, DeletePreCommit, EndFlush, Reply, InitMsg, Crash, dbVars, chainVars
<1>10. CASE UNCHANGED vars
  BY <1>1, <1>10 DEF vars, dbVars, chainVars
<1> QED
  BY <1>3, <1>4, <1>5, <1>6, <1>7, <1>8, <1>9, <1>10 DEF Next, Progress

(* What a step does that is not part of a rollback: claims only grow, the     *)
(* query DB changes only with a calculation, and no entry of a block that the *)
(* claim DB does not have yet is deleted.                                     *)
Forward ==
    /\ \A a \in Address : claim[a].iScore <= claim'[a].iScore
    /\ info'.calcDone > info.calcDone \/ (QueryDB' = QueryDB /\ account' = account)
    /\ tip <= tip'
    /\ \A h \in Height : h <= tip => ledger'[h] = ledger[h]
    /\ cbInfo.last <= cbInfo'.last
    /\ \A e \in preCommit : e.height <= tip /\ cbInfo'.last < e.height => e \in preCommit'

(* Every step that is not part of a rollback is such a step. *)
LEMMA ForwardStep ==
    ASSUME IInv, AccountInv, [Next]_vars, ~rollingBack, ~rollingBack'
    PROVE  Forward
<1>1. /\ tip \in Nat /\ cbInfo.last \in Nat /\ cbInfo \in [first : Height, last : Height]
      /\ \A a \in Address : claim[a].iScore \in Nat
      /\ preCommit \subseteq PreCommit /\ \A e \in PreCommit : e.height \in Nat
      /\ info \in DBInfo
  BY DEF IInv, TypeOK, Height, ClaimData, PreCommit
<1>2. ASSUME UNCHANGED <<claim, account, tip, ledger, cbInfo>>, info'.queryDB = info.queryDB,
             \A e \in preCommit : e.height <= tip /\ cbInfo.last < e.height => e \in preCommit'
      PROVE  Forward
  <2>1. \A a \in Address : claim[a].iScore <= claim'[a].iScore
    BY <1>1, <1>2
  <2> QED
    BY <1>1, <1>2, <2>1 DEF Forward, QueryDB
<1>3. ASSUME committing = {} PROVE cbInfo.last = tip
  BY <1>3 DEF IInv, BackupRange, Settled
<1>4. ASSUME committing = {} PROVE \A e \in preCommit : ~(e.height <= tip /\ cbInfo.last < e.height)
  BY <1>1, <1>3, <1>4
<1>5. job.phase \notin RollbackPhases
  BY DEF IInv, Exchange
<1>6. started # {} \/ tx # {} => committing = {}
  BY DEF IInv, Exchange, Settled
<1>7. CASE Invoke
  BY <1>2, <1>4, <1>6, <1>7
  DEF Invoke, StartBlock, AbortBlock, DoClaim, CommitClaim, RevertClaim, dbVars, chainVars
<1>8. ASSUME NEW b \in Hash, DecideBlock(b) PROVE Forward
  <2>1. /\ tip' = tip + 1 /\ UNCHANGED <<claim, account, cbInfo, info, preCommit>>
        /\ \A h \in Height : h # tip + 1 => ledger'[h] = ledger[h]
    BY <1>8 DEF DecideBlock, dbVars, IInv, TypeOK
  <2>2. \A h \in Height : h <= tip => h # tip + 1
    BY <1>1 DEF Height
  <2>3. \A a \in Address : claim[a].iScore <= claim'[a].iScore
    BY <1>1, <2>1
  <2> QED
    BY <1>1, <2>1, <2>2, <2>3 DEF Forward, QueryDB
<1>9. ASSUME NEW to \in Height, DecideRollback(to) PROVE Forward
  BY <1>9 DEF DecideRollback
<1>10. ASSUME NEW reward \in [Address -> Rewards], Calculate(reward) PROVE Forward
  <2>1. /\ UNCHANGED <<claim, cbInfo, tip, ledger, preCommit>>
        /\ info'.calcDone = tip /\ tip = info.calcDone + Term
    BY <1>1, <1>10 DEF Calculate, Toggled, DBInfo, chainVars
  <2>2. info'.calcDone > info.calcDone
    BY <2>1, AccountTypes DEF IInv
  <2>3. \A a \in Address : claim[a].iScore <= claim'[a].iScore
    BY <1>1, <2>1
  <2> QED
    BY <1>1, <2>1, <2>2, <2>3 DEF Forward
<1>11. CASE CommitStep
  <2>1. ASSUME NEW p \in job.saved, WriteClaim(p) PROVE Forward
    <3>1. p \in PreCommit /\ claim \in [Address -> ClaimData]
      BY <2>1 DEF IInv, TypeOK, JobRecord
    <3>2. p.iScore \in Nat /\ p.addr \in Address
      BY <3>1 DEF PreCommit
    <3>3. \A a \in Address : claim'[a].iScore = IF a = p.addr THEN claim[a].iScore + p.iScore
                                                ELSE claim[a].iScore
      BY <2>1, <3>1 DEF WriteClaim
    <3>4. \A a \in Address : claim[a].iScore <= claim'[a].iScore
      BY <1>1, <3>2, <3>3
    <3> QED
      BY <1>1, <2>1, <3>4 DEF WriteClaim, Forward, QueryDB, chainVars
  <2>2. CASE WriteBackupInfo
    <3>1. UNCHANGED <<claim, account, info, tip, ledger, preCommit>>
      BY <2>2 DEF WriteBackupInfo, chainVars
    <3>2. cbInfo'.last = IF cbInfo.last < tip THEN tip ELSE cbInfo.last
      BY <2>2 DEF WriteBackupInfo
    <3>3. \A a \in Address : claim[a].iScore <= claim'[a].iScore
      BY <1>1, <3>1
    <3> QED
      BY <1>1, <3>1, <3>2, <3>3 DEF Forward, QueryDB
  <2>3. CASE SetCurrentBlockInfo
    BY <1>1, <1>2, <2>3 DEF SetCurrentBlockInfo, DBInfo, chainVars
  <2> QED
    BY <1>2, <1>11, <2>1, <2>2, <2>3
    DEF CommitStep, CommitBlock, SkipPreCommit, BackupClaim, EndWrite, GarbageCollect,
        EndCommitFlush, dbVars, chainVars
<1>12. CASE RollbackStep
  <2>1. ~rollingBack /\ job.phase \notin RollbackPhases
    BY <1>5
  <2> QED
    BY <1>12, <2>1
    DEF RollbackStep, Rollback, RestoreClaim, EndRestore, DropBackup, EndDrop,
        RollbackBackupInfo, RollbackCurrentBlockInfo, RenameAccountBackup, ToggleBack,
        RollbackAccountDBBlockInfo, RollbackPhases, ClaimRollbackPhases
<1>13. CASE FlushStep
  <2>1. ASSUME NEW p \in job.pcs, DeletePreCommit(p) PROVE Forward
    <3>1. ASSUME committing # {} PROVE p.height > tip \/ cbInfo.last = tip
      BY <2>1, <3>1 DEF DeletePreCommit, IInv, CommitProgress
    <3>2. \A e \in preCommit : e.height <= tip /\ cbInfo.last < e.height => e \in preCommit'
      BY <1>1, <1>4, <2>1, <3>1 DEF DeletePreCommit
    <3> QED
      BY <1>2, <2>1, <3>2 DEF DeletePreCommit, chainVars
  <2>2. CASE EndFlush
    BY <1>2, <2>2 DEF EndFlush, dbVars, chainVars
  <2> QED
    BY <1>13, <2>1, <2>2 DEF FlushStep
<1>14. CASE Reply \/ InitMsg \/ Crash
  BY <1>2, <1>14 DEF Reply, InitMsg, Crash, dbVars, chainVars
<1>15. CASE UNCHANGED vars
  BY <1>2, <1>15 DEF vars, dbVars, chainVars
<1> QED
  BY <1>7, <1>8, <1>9, <1>10, <1>11, <1>12, <1>13, <1>14, <1>15 DEF Next, Progress

-----------------------------------------------------------------------------
(* The reads of a query. *)

(* A query goes on to the next database and keeps what it has read. *)
LEMMA AfterRead ==
    ASSUME NEW q \in QueryRecord
    PROVE  /\ q.phase = "preCommit" => After(q) = [q EXCEPT !.phase = "claim"]
           /\ q.phase = "claim" => After(q) = [q EXCEPT !.phase = "db"]
           /\ q.phase = "db" => After(q) = [q EXCEPT !.phase = "account"]
           /\ q.phase = "account" => After(q) = [q EXCEPT !.phase = "answer"]
BY DEF After, NextRead

(* While nothing changes the databases, every read keeps the invariant. *)
LEMMA QueryReads ==
    ASSUME IInv, AccountInv, QueryInv, QueryStep
    PROVE  QueryInv'
<1> DEFINE Good(q) == /\ \A p \in q.tx : p.addr = q.addr
                      /\ \A p, o \in q.tx : p = o
                      /\ q.low <= Unclaimed(q.addr)
                      /\ rollingBack => q.rolledBack
                      /\ q.fate = "pending" => \A p \in q.tx : Found(p) /\ q.phase = "preCommit"
                      /\ ~q.rolledBack => ReadsHold(q)
                      /\ ~q.rolledBack /\ q.fate = "committed" =>
                            \A p \in q.tx : ClaimCounted(q, p)
<1>1. UNCHANGED vars
  BY DEF QueryStep, StartQuery, SearchPreCommit, ReadClaim, GetQueryDB, ReadAccount,
         AnswerQuery
<1>2. ASSUME query' \subseteq QueryRecord, \A q \in query' : Good(q)
      PROVE  QueryInv'
  <2>1. UNCHANGED <<claim, rollingBack, info, tip, ledger, cbInfo, preCommit, account>>
    BY <1>1 DEF vars, dbVars, chainVars
  <2>2. \A q : /\ Unclaimed(q.addr)' = Unclaimed(q.addr)
               /\ ReadsHold(q)' = ReadsHold(q)
               /\ \A p : Found(p)' = Found(p) /\ ClaimCounted(q, p)' = ClaimCounted(q, p)
    BY <2>1 DEF Unclaimed, QueryAccount, QueryDB, ReadsHold, ClaimCounted, Found
  <2> QED
    BY <1>2, <2>1, <2>2 DEF QueryInv
<1>3. \A q \in query : q \in QueryRecord /\ Good(q)
  BY DEF QueryInv
<1>4. /\ \A a \in Address : /\ claim[a].iScore \in Nat /\ QueryAccount(a).iScore \in Nat
                            /\ Unclaimed(a) = QueryAccount(a).iScore - claim[a].iScore
      /\ info.queryDB \in {0, 1} /\ rollingBack \in BOOLEAN /\ preCommit \subseteq PreCommit
      /\ \A db \in {0, 1}, a \in Address : account[db][a] \in [blockHeight : Height, iScore : Nat]
  BY AccountTypes DEF IInv, TypeOK, ClaimData, Unclaimed, Accounts
<1>5. ASSUME NEW a \in Address, NEW t \in SUBSET preCommit, StartQuery(a, t),
             \A p \in t : p.addr = a, \A p, o \in t : p = o
      PROVE  QueryInv'
  <2> DEFINE q == [phase |-> NextRead["start"], addr |-> a, tx |-> t,
                   claimed |-> 0, db |-> 0, account |-> NoAccount,
                   low |-> Unclaimed(a), fate |-> "pending",
                   rolledBack |-> rollingBack, closed |-> FALSE]
  <2>1. query' = {q} /\ NextRead["start"] = "preCommit"
    BY <1>5 DEF StartQuery, NextRead
  <2>2. q \in QueryRecord
    <3>1. Unclaimed(a) \in Int /\ NoAccount \in [blockHeight : Height, iScore : Nat]
      BY <1>4, ConstantsAssumption DEF NoAccount, Height
    <3> QED
      BY <1>4, <2>1, <3>1 DEF QueryRecord, Reads
  <2>3. \A p \in t : Found(p)
    BY <1>4 DEF Found
  <2>4. Unclaimed(a) <= Unclaimed(a)
    BY <1>4
  <2>5. /\ q.phase = "preCommit" /\ q.addr = a /\ q.tx = t /\ q.low = Unclaimed(a)
        /\ q.fate = "pending" /\ q.rolledBack = rollingBack
    BY <2>1
  <2> HIDE DEF q
  <2>6. ReadsHold(q)
    BY <2>5 DEF ReadsHold
  <2>7. Good(q)
    BY <1>5, <2>3, <2>4, <2>5, <2>6
  <2> QED
    BY <1>2, <2>1, <2>2, <2>7
<1>6. ASSUME NEW q \in At("preCommit"), SearchPreCommit(q) PROVE QueryInv'
  <2>1. q \in query /\ q.phase = "preCommit" /\ q \in QueryRecord /\ Good(q)
    BY <1>3, <1>6 DEF At
  <2>2. CASE \E p \in q.tx : Found(p)
    BY <1>2, <1>6, <2>2 DEF SearchPreCommit
  <2>3. CASE \A p \in q.tx : ~Found(p)
    <3> DEFINE r == [q EXCEPT !.phase = "claim"]
    <3>1. query' = {r}
      BY <1>6, <2>1, <2>3, AfterRead DEF SearchPreCommit
    <3>2. /\ r \in QueryRecord /\ r.phase = "claim" /\ r.addr = q.addr /\ r.tx = q.tx
          /\ r.low = q.low /\ r.fate = q.fate /\ r.rolledBack = q.rolledBack
      BY <2>1 DEF QueryRecord, Reads
    <3> HIDE DEF r
    <3>3. ReadsHold(r)
      BY <3>2 DEF ReadsHold
    <3>4. ASSUME ~q.rolledBack, q.fate = "committed", NEW p \in q.tx PROVE ClaimCounted(r, p)
      BY <2>1, <2>3, <3>2, <3>4 DEF ClaimCounted
    <3>5. Good(r)
      BY <2>1, <2>3, <3>2, <3>3, <3>4
    <3> QED
      BY <1>2, <3>1, <3>2, <3>5
  <2> QED
    BY <2>2, <2>3
<1>7. ASSUME NEW q \in At("claim"), ReadClaim(q) PROVE QueryInv'
  <2>1. q \in query /\ q.phase = "claim" /\ q \in QueryRecord /\ Good(q) /\ q.addr \in Address
        /\ q.tx \subseteq PreCommit
    BY <1>3, <1>7 DEF At, QueryRecord
  <2> DEFINE c == claim[q.addr].iScore
             s == [q EXCEPT !.claimed = c]
             r == [s EXCEPT !.phase = "db"]
  <2>2. s \in QueryRecord /\ s.phase = "claim"
    BY <1>4, <2>1 DEF QueryRecord
  <2>3. query' = {r}
    BY <1>7, <2>2, AfterRead DEF ReadClaim
  <2>4. /\ r \in QueryRecord /\ r.phase = "db" /\ r.addr = q.addr /\ r.tx = q.tx
        /\ r.low = q.low /\ r.fate = q.fate /\ r.rolledBack = q.rolledBack
        /\ r.claimed = claim[q.addr].iScore
    BY <1>4, <2>1, <2>2 DEF QueryRecord, Reads
  <2> HIDE DEF r
  <2>5. ReadsHold(r)
    BY <1>4, <2>1, <2>4 DEF ReadsHold
  <2>6. ASSUME ~q.rolledBack, q.fate = "committed", NEW p \in q.tx PROVE ClaimCounted(r, p)
    <3>1. ClaimCounted(q, p) /\ p.height \in Height /\ ~rollingBack
      BY <2>1, <2>6 DEF PreCommit
    <3>2. p.height <= tip /\ p.height <= cbInfo.last
      BY <2>1, <3>1 DEF ClaimCounted
    <3>3. ledger[p.height][q.addr] <= claim[q.addr].iScore
      BY <2>1, <3>1, <3>2, ClaimHasChain DEF AccountInv
    <3> QED
      BY <2>1, <2>4, <3>1, <3>2, <3>3 DEF ClaimCounted
  <2>7. Good(r)
    BY <2>1, <2>4, <2>5, <2>6
  <2> QED
    BY <1>2, <2>3, <2>4, <2>7
<1>8. ASSUME NEW q \in At("db"), GetQueryDB(q) PROVE QueryInv'
  <2>1. q \in query /\ q.phase = "db" /\ q \in QueryRecord /\ Good(q)
    BY <1>3, <1>8 DEF At
  <2> DEFINE s == [q EXCEPT !.db = QueryDB]
             r == [s EXCEPT !.phase = "account"]
  <2>2. s \in QueryRecord /\ s.phase = "db"
    BY <1>4, <2>1 DEF QueryRecord, QueryDB
  <2>3. query' = {r}
    BY <1>8, <2>2, AfterRead DEF GetQueryDB
  <2>4. /\ r \in QueryRecord /\ r.phase = "account" /\ r.addr = q.addr /\ r.tx = q.tx
        /\ r.low = q.low /\ r.fate = q.fate /\ r.rolledBack = q.rolledBack
        /\ r.claimed = q.claimed /\ r.db = QueryDB
    BY <1>4, <2>1, <2>2 DEF QueryRecord, Reads
  <2> HIDE DEF r
  <2>5. ~q.rolledBack => ReadsHold(r)
    BY <2>1, <2>4 DEF ReadsHold
  <2>6. ASSUME ~q.rolledBack, q.fate = "committed", NEW p \in q.tx PROVE ClaimCounted(r, p)
    BY <2>1, <2>4, <2>6 DEF ClaimCounted
  <2>7. Good(r)
    BY <2>1, <2>4, <2>5, <2>6
  <2> QED
    BY <1>2, <2>3, <2>4, <2>7
<1>9. ASSUME NEW q \in At("account"), ReadAccount(q) PROVE QueryInv'
  <2>1. q \in query /\ q.phase = "account" /\ q \in QueryRecord /\ Good(q)
        /\ q.addr \in Address /\ q.db \in {0, 1} /\ q.claimed \in Nat /\ q.low \in Int
    BY <1>3, <1>9 DEF At, QueryRecord
  <2> DEFINE ia == IF q.closed THEN NoAccount ELSE account[q.db][q.addr]
             s == [q EXCEPT !.account = ia]
             r == [s EXCEPT !.phase = "answer"]
  <2>2. ia \in [blockHeight : Height, iScore : Nat]
    BY <1>4, <2>1, ConstantsAssumption DEF NoAccount, Height
  <2>3. ~q.closed => ia = account[q.db][q.addr]
    OBVIOUS
  <2>4. s \in QueryRecord /\ s.phase = "account"
    BY <2>1, <2>2 DEF QueryRecord
  <2>5. query' = {r}
    BY <1>9, <2>4, AfterRead DEF ReadAccount
  <2>6. /\ r \in QueryRecord /\ r.phase = "answer" /\ r.addr = q.addr /\ r.tx = q.tx
        /\ r.low = q.low /\ r.fate = q.fate /\ r.rolledBack = q.rolledBack
        /\ r.claimed = q.claimed /\ r.account = ia /\ r.closed = q.closed
    BY <2>1, <2>2, <2>4 DEF QueryRecord, Reads
  <2> HIDE DEF r, ia
  <2>7. ASSUME ~q.rolledBack PROVE ReadsHold(r)
    <3>1. q.claimed <= claim[q.addr].iScore /\ (~q.closed => q.db = QueryDB)
      BY <2>1, <2>7 DEF ReadsHold
    <3>2. ASSUME ~q.closed PROVE q.low <= ia.iScore - q.claimed
      <4>1. ia = QueryAccount(q.addr)
        BY <2>3, <3>1, <3>2 DEF QueryAccount
      <4>2. q.low <= QueryAccount(q.addr).iScore - claim[q.addr].iScore
        BY <1>4, <2>1
      <4> QED
        BY <1>4, <2>1, <3>1, <4>1, <4>2
    <3> QED
      BY <2>6, <3>1, <3>2 DEF ReadsHold
  <2>8. ASSUME ~q.rolledBack, q.fate = "committed", NEW p \in q.tx PROVE ClaimCounted(r, p)
    BY <2>1, <2>6, <2>8 DEF ClaimCounted
  <2>9. Good(r)
    BY <2>1, <2>6, <2>7, <2>8
  <2> QED
    BY <1>2, <2>5, <2>6, <2>9
<1>10. ASSUME NEW q \in At("answer"), AnswerQuery(q) PROVE QueryInv'
  BY <1>2, <1>10 DEF AnswerQuery
<1>11. ASSUME NEW a \in QueryAddress, StartQuery(a, {}) PROVE QueryInv'
  BY <1>5, <1>11, QueryAssumption
<1>12. ASSUME NEW p \in preCommit, p.addr \in QueryAddress, StartQuery(p.addr, {p})
       PROVE  QueryInv'
  BY <1>5, <1>12, QueryAssumption
<1> QED
  BY <1>6, <1>7, <1>8, <1>9, <1>10, <1>11, <1>12 DEF QueryStep

-----------------------------------------------------------------------------
(* The steps of the handlers between two reads. *)

(* The smaller of two numbers. *)
LEMMA MinOfTwo ==
    ASSUME NEW x \in Int, NEW y \in Int
    PROVE  /\ Min({x, y}) \in Int /\ Min({x, y}) <= x /\ Min({x, y}) <= y
<1>1. \E m \in {x, y} : \A n \in {x, y} : m <= n
  <2>1. CASE x <= y
    BY <2>1
  <2>2. CASE y <= x
    BY <2>2
  <2> QED
    BY <2>1, <2>2
<1> QED
  BY <1>1 DEF Min

(* What happens to a query while a handler takes a step. *)
LEMMA ObservedFields ==
    ASSUME NEW q \in QueryRecord, Unclaimed(q.addr)' \in Int, rollingBack' \in BOOLEAN
    PROVE  /\ Observed(q) \in QueryRecord
           /\ Observed(q).phase = q.phase /\ Observed(q).addr = q.addr
           /\ Observed(q).tx = q.tx /\ Observed(q).claimed = q.claimed
           /\ Observed(q).db = q.db /\ Observed(q).account = q.account
           /\ Observed(q).low <= q.low /\ Observed(q).low <= Unclaimed(q.addr)'
           /\ Observed(q).rolledBack <=> q.rolledBack \/ rollingBack'
           /\ Observed(q).closed <=> \/ q.closed
                                     \/ /\ q.phase = "account"
                                        /\ job.phase = "rename" \/ info'.calcDone > info.calcDone
           /\ q.fate # "pending" => Observed(q).fate = q.fate
           /\ q.fate = "pending" /\ Observed(q).fate = "pending" =>
                 \A p \in q.tx : \E r \in q.tx : Found(r)'
           /\ q.fate = "pending" /\ Observed(q).fate = "committed" =>
                 \E p \in q.tx : /\ tip' = p.height /\ committing' = {p.hash}
                                 /\ Confirm(p) \in preCommit
<1> DEFINE low == Min({q.low, Unclaimed(q.addr)'})
           fate == IF q.fate # "pending" \/ q.tx = {} THEN q.fate
                   ELSE IF \E p \in q.tx : /\ tip' = p.height /\ committing' = {p.hash}
                                           /\ Confirm(p) \in preCommit
                        THEN "committed"
                   ELSE IF \E p \in q.tx : Found(p)' THEN "pending" ELSE "gone"
           rolled == q.rolledBack \/ rollingBack'
           closed == q.closed \/ /\ q.phase = "account"
                                 /\ job.phase = "rename" \/ info'.calcDone > info.calcDone
<1>1. Observed(q) = [q EXCEPT !.low = low, !.fate = fate, !.rolledBack = rolled,
                              !.closed = closed]
  BY DEF Observed
<1>2. low \in Int /\ low <= q.low /\ low <= Unclaimed(q.addr)'
  BY MinOfTwo DEF QueryRecord
<1>3. /\ fate \in {"pending", "committed", "gone"}
      /\ q.fate # "pending" => fate = q.fate
      /\ q.fate = "pending" /\ fate = "pending" => \A p \in q.tx : \E r \in q.tx : Found(r)'
      /\ q.fate = "pending" /\ fate = "committed" =>
            \E p \in q.tx : /\ tip' = p.height /\ committing' = {p.hash}
                            /\ Confirm(p) \in preCommit
  BY Zenon DEF QueryRecord
<1>4. rolled \in BOOLEAN /\ closed \in BOOLEAN
  BY DEF QueryRecord
<1> HIDE DEF low, fate
<1>5. PICK r \in BOOLEAN : r <=> rolled
  BY <1>4
<1>6. PICK c \in BOOLEAN : c <=> closed
  BY <1>4
<1>7. rolled = r /\ closed = c
  BY <1>4, <1>5, <1>6
<1>8. Observed(q) = [q EXCEPT !.low = low, !.fate = fate, !.rolledBack = r, !.closed = c]
  BY <1>1, <1>7
<1> HIDE DEF rolled, closed
<1>9. /\ Observed(q) \in QueryRecord
      /\ Observed(q).phase = q.phase /\ Observed(q).addr = q.addr
      /\ Observed(q).tx = q.tx /\ Observed(q).claimed = q.claimed
      /\ Observed(q).db = q.db /\ Observed(q).account = q.account
      /\ Observed(q).low = low /\ Observed(q).fate = fate
      /\ Observed(q).rolledBack = r /\ Observed(q).closed = c
  BY <1>2, <1>3, <1>8 DEF QueryRecord
<1> QED
  BY <1>2, <1>3, <1>5, <1>6, <1>9 DEF rolled, closed

(* A transaction whose block IS takes into the chain was paid, and its entry *)
(* is there until the claim DB has it.                                       *)
LEMMA ObserveCommitted ==
    ASSUME IInv, CommittedPaid, IInv', CommittedPaid', QueryInv, Forward, Next,
           NEW q \in query, ~q.rolledBack, ~rollingBack', NEW p \in q.tx, q.fate = "pending",
           tip' = p.height, committing' = {p.hash}, Confirm(p) \in preCommit
    PROVE  /\ 0 < p.height
           /\ ledger'[p.height][q.addr] = ledger'[p.height - 1][q.addr] + p.iScore
           /\ Found(p)' \/ p.height <= cbInfo'.last
<1>1. /\ p \in PreCommit /\ q \in QueryRecord /\ p.addr = q.addr /\ ~rollingBack
      /\ tip \in Nat /\ tip' \in Nat /\ cbInfo'.last \in Nat
  <2>1. /\ tip \in Height /\ tip' \in Height /\ cbInfo' \in [first : Height, last : Height]
    BY DEF IInv, TypeOK
  <2>2. p \in PreCommit /\ q \in QueryRecord /\ p.addr = q.addr /\ ~rollingBack
    BY DEF QueryInv, QueryRecord
  <2> QED
    BY <2>1, <2>2 DEF Height
<1> DEFINE e == Confirm(p)
<1>2. /\ e \in preCommit /\ e.confirmed /\ e.height = p.height /\ e.hash = p.hash
      /\ e.addr = p.addr /\ e.txIndex = p.txIndex /\ e.iScore = p.iScore
  BY <1>1, ConfirmFields
<1> HIDE DEF e
<1>3. 0 < p.height
  BY <1>1 DEF IInv, CommitPending
<1>4. CASE e \in preCommit'
  <2>1. e \in BlockEntries(tip, p.hash)'
    BY <1>2, <1>4 DEF BlockEntries
  <2>2. ledger'[p.height][q.addr] = ledger'[p.height - 1][q.addr] + p.iScore
    BY <1>1, <1>2, <2>1 DEF CommittedPaid
  <2>3. Found(p)'
    BY <1>2, <1>4 DEF Found
  <2> QED
    BY <1>3, <2>2, <2>3
<1>5. CASE e \notin preCommit'
  <2>1. committing' = committing /\ tip' = tip /\ ledger' = ledger
    <3>1. PICK x : DeletePreCommit(x) \/ (\E t \in tx : CommitClaim(t) \/ RevertClaim(t))
      BY <1>2, <1>5
      DEF Next, Invoke, StartBlock, AbortBlock, DoClaim, DecideBlock, DecideRollback, Calculate,
          Progress, CommitStep, CommitBlock, SkipPreCommit, BackupClaim, WriteClaim, EndWrite,
          GarbageCollect, WriteBackupInfo, EndCommitFlush, SetCurrentBlockInfo,
          RollbackStep, Rollback, RestoreClaim, EndRestore, DropBackup, EndDrop,
          RollbackBackupInfo, RollbackCurrentBlockInfo, RenameAccountBackup, ToggleBack,
          RollbackAccountDBBlockInfo, FlushStep, EndFlush, Reply, InitMsg, Crash, dbVars
    <3> QED
      BY <3>1 DEF DeletePreCommit, CommitClaim, RevertClaim, chainVars
  <2>2. e \in BlockEntries(tip, p.hash) /\ p.hash \in committing
    BY <1>2, <2>1 DEF BlockEntries
  <2>3. ledger'[p.height][q.addr] = ledger'[p.height - 1][q.addr] + p.iScore
    BY <1>1, <1>2, <2>1, <2>2 DEF CommittedPaid
  <2>4. p.height <= cbInfo'.last
    BY <1>1, <1>2, <1>5, <2>1 DEF Forward
  <2> QED
    BY <1>3, <2>3, <2>4
<1> QED
  BY <1>4, <1>5

(* No step of a handler spoils what a query has read. *)
LEMMA QueryObserves ==
    ASSUME IInv, AccountInv, CommittedPaid, IInv', CommittedPaid', QueryInv, Next, Observe
    PROVE  QueryInv'
<1>1. CASE query' = {}
  BY <1>1 DEF QueryInv
<1>2. CASE query' = {Observed(q) : q \in query}
  <2>0. /\ rollingBack' \in BOOLEAN /\ tip \in Nat /\ tip' \in Nat
        /\ cbInfo.last \in Nat /\ cbInfo'.last \in Nat
        /\ \A a \in Address : claim[a].iScore \in Nat /\ claim'[a].iScore \in Nat
        /\ \A a \in Address : Unclaimed(a)' \in Int /\ Unclaimed(a) \in Int
    <3>1. \A a \in Address : QueryAccount(a).iScore \in Nat /\ claim[a].iScore \in Nat
      BY AccountTypes DEF IInv, TypeOK, ClaimData
    <3>2. \A a \in Address : QueryAccount(a)'.iScore \in Nat /\ claim'[a].iScore \in Nat
      <4>1. info' \in DBInfo /\ account' \in [{0, 1} -> Accounts]
            /\ claim' \in [Address -> ClaimData]
        BY DEF IInv, TypeOK
      <4> QED
        BY <4>1 DEF QueryAccount, QueryDB, DBInfo, Accounts, ClaimData
    <3>3. \A a \in Address : Unclaimed(a)' \in Int /\ Unclaimed(a) \in Int
      BY <3>1, <3>2 DEF Unclaimed
    <3>4. /\ rollingBack' \in BOOLEAN /\ tip \in Height /\ tip' \in Height
          /\ cbInfo.last \in Height /\ cbInfo'.last \in Height
      BY DEF IInv, TypeOK
    <3> QED
      BY <3>1, <3>2, <3>3, <3>4 DEF Height
  <2>1. ASSUME NEW q \in query, NEW r, r = Observed(q)
        PROVE  /\ r \in QueryRecord
               /\ \A p \in r.tx : p.addr = r.addr
               /\ \A p, o \in r.tx : p = o
               /\ r.low <= Unclaimed(r.addr)'
               /\ rollingBack' => r.rolledBack
               /\ r.fate = "pending" => \A p \in r.tx : Found(p)' /\ r.phase = "preCommit"
               /\ ~r.rolledBack => ReadsHold(r)'
               /\ ~r.rolledBack /\ r.fate = "committed" =>
                     \A p \in r.tx : ClaimCounted(r, p)'
    <3>1. /\ q \in QueryRecord /\ q.addr \in Address /\ q.tx \subseteq PreCommit
          /\ q.claimed \in Nat /\ q.low \in Int /\ q.account.iScore \in Nat
      BY DEF QueryInv, QueryRecord
    <3>2. /\ \A p \in q.tx : p.addr = q.addr
          /\ \A p, o \in q.tx : p = o
          /\ q.low <= Unclaimed(q.addr)
          /\ rollingBack => q.rolledBack
          /\ q.fate = "pending" => \A p \in q.tx : Found(p) /\ q.phase = "preCommit"
          /\ ~q.rolledBack => ReadsHold(q)
          /\ ~q.rolledBack /\ q.fate = "committed" => \A p \in q.tx : ClaimCounted(q, p)
      BY DEF QueryInv
    <3>3. /\ r \in QueryRecord
          /\ r.phase = q.phase /\ r.addr = q.addr /\ r.tx = q.tx /\ r.claimed = q.claimed
          /\ r.db = q.db /\ r.account = q.account /\ r.low \in Int
          /\ r.low <= q.low /\ r.low <= Unclaimed(q.addr)'
          /\ r.rolledBack <=> q.rolledBack \/ rollingBack'
          /\ r.closed <=> \/ q.closed
                          \/ /\ q.phase = "account"
                             /\ job.phase = "rename" \/ info'.calcDone > info.calcDone
          /\ q.fate # "pending" => r.fate = q.fate
          /\ q.fate = "pending" /\ r.fate = "pending" =>
                \A p \in q.tx : \E x \in q.tx : Found(x)'
          /\ q.fate = "pending" /\ r.fate = "committed" =>
                \E p \in q.tx : /\ tip' = p.height /\ committing' = {p.hash}
                                /\ Confirm(p) \in preCommit
      BY <2>0, <2>1, <3>1, ObservedFields DEF QueryRecord
    <3>4. ASSUME ~r.rolledBack
          PROVE  Forward /\ ~q.rolledBack /\ ~rollingBack /\ ~rollingBack'
      BY <3>2, <3>3, <3>4, ForwardStep
    <3>5. ASSUME ~r.rolledBack PROVE ReadsHold(r)'
      <4>1. r.phase \in {"db", "account", "answer"} => r.claimed <= claim'[r.addr].iScore
        <5>1. claim[q.addr].iScore <= claim'[q.addr].iScore
          BY <3>1, <3>4, <3>5 DEF Forward
        <5>2. q.phase \in {"db", "account", "answer"} => q.claimed <= claim[q.addr].iScore
          BY <3>2, <3>4, <3>5 DEF ReadsHold
        <5> QED
          BY <2>0, <3>1, <3>3, <5>1, <5>2
      <4>2. r.phase = "account" /\ ~r.closed => r.db = QueryDB'
        BY <3>2, <3>3, <3>4, <3>5 DEF Forward, ReadsHold
      <4>3. ASSUME r.phase = "answer", ~r.closed PROVE r.low <= r.account.iScore - r.claimed
        <5>1. q.low <= q.account.iScore - q.claimed
          BY <3>2, <3>3, <3>4, <3>5, <4>3 DEF ReadsHold
        <5> QED
          BY <3>1, <3>3, <5>1
      <4> QED
        BY <4>1, <4>2, <4>3 DEF ReadsHold
    <3>6. ASSUME ~r.rolledBack, r.fate = "committed", NEW p \in r.tx PROVE ClaimCounted(r, p)'
      <4>1. p \in q.tx /\ p \in PreCommit /\ p.height \in Nat /\ p.height \in Height
        BY <3>1, <3>3, <3>6 DEF PreCommit, Height
      <4>2. CASE q.fate = "committed"
        <5>1. ClaimCounted(q, p)
          BY <3>2, <3>4, <3>6, <4>1, <4>2
        <5>2. p.height <= tip /\ 0 < p.height /\ p.height - 1 \in Height /\ p.height - 1 <= tip
          <6>1. p.height <= tip /\ 0 < p.height
            BY <5>1 DEF ClaimCounted
          <6> QED
            BY <2>0, <4>1, <6>1, ConstantsAssumption DEF Height
        <5>3. ledger'[p.height] = ledger[p.height] /\ ledger'[p.height - 1] = ledger[p.height - 1]
          BY <3>4, <3>6, <4>1, <5>2 DEF Forward
        <5>4. tip <= tip' /\ cbInfo.last <= cbInfo'.last
          BY <3>4, <3>6 DEF Forward
        <5>5. Found(p)' \/ p.height <= cbInfo'.last
          <6>1. CASE p.height <= cbInfo.last
            BY <2>0, <4>1, <5>4, <6>1
          <6>2. CASE Found(p) /\ ~(p.height <= cbInfo'.last)
            <7>1. PICK e \in preCommit : /\ e.height = p.height /\ e.hash = p.hash
                                         /\ e.addr = p.addr /\ e.txIndex = p.txIndex
              BY <6>2 DEF Found
            <7>2. cbInfo'.last < e.height /\ e.height <= tip
              BY <2>0, <4>1, <5>2, <6>2, <7>1
            <7>3. e \in preCommit'
              BY <3>4, <3>6, <7>2 DEF Forward
            <7> QED
              BY <7>1, <7>3 DEF Found
          <6> QED
            BY <5>1, <6>1, <6>2 DEF ClaimCounted
        <5>6. r.phase # "preCommit" => p.height <= cbInfo'.last
          <6>1. r.phase # "preCommit" => p.height <= cbInfo.last
            BY <3>3, <5>1 DEF ClaimCounted
          <6> QED
            BY <2>0, <4>1, <5>4, <6>1
        <5>7. p.height <= tip'
          BY <2>0, <4>1, <5>2, <5>4
        <5> QED
          BY <3>3, <5>1, <5>2, <5>3, <5>5, <5>6, <5>7 DEF ClaimCounted
      <4>3. CASE q.fate # "committed"
        <5>1. q.fate = "pending" /\ q.phase = "preCommit"
          BY <3>2, <3>3, <3>6, <4>1, <4>3
        <5>2. PICK x \in q.tx : /\ tip' = x.height /\ committing' = {x.hash}
                                /\ Confirm(x) \in preCommit
          BY <3>3, <3>6, <5>1
        <5>3. x = p
          BY <3>2, <4>1, <5>2
        <5>4. /\ 0 < p.height
              /\ ledger'[p.height][q.addr] = ledger'[p.height - 1][q.addr] + p.iScore
              /\ Found(p)' \/ p.height <= cbInfo'.last
          BY <3>4, <3>6, <4>1, <5>1, <5>2, <5>3, ObserveCommitted
        <5> QED
          BY <2>0, <3>3, <5>1, <5>2, <5>3, <5>4 DEF ClaimCounted
      <4> QED
        BY <4>2, <4>3
    <3>7. ASSUME r.fate = "pending", NEW p \in r.tx PROVE Found(p)' /\ r.phase = "preCommit"
      <4>1. q.fate = "pending" /\ p \in q.tx
        BY <3>3, <3>7
      <4>2. PICK x \in q.tx : Found(x)'
        BY <3>3, <3>7, <4>1
      <4>3. x = p
        BY <3>2, <4>1, <4>2
      <4> QED
        BY <3>2, <3>3, <4>1, <4>2, <4>3
    <3> QED
      BY <3>2, <3>3, <3>5, <3>6, <3>7
  <2>2. \A r \in query' : \E q \in query : r = Observed(q)
    BY <1>2
  <2> QED
    BY <2>1, <2>2 DEF QueryInv
<1> QED
  BY <1>1, <1>2 DEF Observe

-----------------------------------------------------------------------------
(* A query leaves the databases alone: whatever holds of Claim holds beside it. *)
LEMMA QueryIsReader == QSpec => Spec
<1>1. QInit => Init
  BY DEF QInit
<1>2. [QNext]_qVars => [Next]_vars
  BY DEF QNext, QueryStep, StartQuery, SearchPreCommit, ReadClaim, GetQueryDB, ReadAccount,
         AnswerQuery, qVars
<1> QED
  BY <1>1, <1>2, PTL DEF QSpec, Spec

(* QueryInv is an invariant of queries beside the handlers of Claim. *)
THEOREM QueryInvariance == QSpec => [](QueryInv /\ CommittedPaid)
<1>1. QInit => QueryInv /\ CommittedPaid
  BY DEF QInit, Init, QueryInv, CommittedPaid
<1>2. ASSUME IInv, AccountInv, CommittedPaid, IInv', QueryInv, [QNext]_qVars
      PROVE  QueryInv' /\ CommittedPaid'
  <2>1. [Next]_vars
    BY <1>2
    DEF QNext, QueryStep, StartQuery, SearchPreCommit, ReadClaim, GetQueryDB, ReadAccount,
        AnswerQuery, qVars
  <2>2. CommittedPaid'
    BY <1>2, <2>1, CommittedPaidStep
  <2>3. CASE QueryStep
    BY <1>2, <2>2, <2>3, QueryReads
  <2>4. CASE Next /\ Observe
    BY <1>2, <2>2, <2>4, QueryObserves
  <2>5. CASE UNCHANGED qVars
    <3>1. UNCHANGED <<query, claim, rollingBack, info, tip, ledger, cbInfo, preCommit, account>>
      BY <2>5 DEF qVars, vars, dbVars, chainVars
    <3>2. \A q : /\ Unclaimed(q.addr)' = Unclaimed(q.addr)
                 /\ ReadsHold(q)' = ReadsHold(q)
                 /\ \A p : Found(p)' = Found(p) /\ ClaimCounted(q, p)' = ClaimCounted(q, p)
      BY <3>1 DEF Unclaimed, QueryAccount, QueryDB, ReadsHold, ClaimCounted, Found
    <3>3. QueryInv'
      BY <1>2, <3>1, <3>2 DEF QueryInv
    <3> QED
      BY <2>2, <3>3
  <2> QED
    BY <1>2, <2>2, <2>3, <2>4, <2>5 DEF QNext
<1>3. IInv /\ AccountInv /\ IInv' /\ (QueryInv /\ CommittedPaid) /\ [QNext]_qVars
         => (QueryInv /\ CommittedPaid)'
  BY <1>2
<1>4. QSpec => []IInv /\ []AccountInv
  BY QueryIsReader, Invariance, AccountsInvariance, PTL
<1> QED
  BY <1>1, <1>3, <1>4, PTL DEF QSpec

(* Whatever is committed and calculated between the reads of DoQuery, its      *)
(* answer is at least what could be claimed at some moment meanwhile: the claim *)
(* DB is read before the query DB, and claims only grow.                        *)
THEOREM QueriesHideNothing == QSpec => []QueryHidesNothing
<1>1. QueryInv => QueryHidesNothing
  <2> SUFFICES ASSUME QueryInv, NEW q \in At("answer"), ~q.rolledBack, ~q.closed
               PROVE  QueryIScore(q) >= q.low
    BY DEF QueryHidesNothing
  <2>1. q \in query /\ q.phase = "answer"
    BY DEF At
  <2>2. /\ q.low \in Int /\ q.claimed \in Nat /\ q.account.iScore \in Nat
        /\ q.low <= q.account.iScore - q.claimed
    BY <2>1 DEF QueryInv, QueryRecord, ReadsHold
  <2>3. CASE q.account = NoAccount
    BY <2>2, <2>3 DEF QueryIScore, NoAccount
  <2>4. CASE q.account # NoAccount
    BY <2>2, <2>4 DEF QueryIScore
  <2> QED
    BY <2>3, <2>4
<1> QED
  BY <1>1, QueryInvariance, PTL

(* A query about a claim transaction of a committed block counts what it was  *)
(* paid: COMMIT_BLOCK deletes the preCommit entry only after the claim DB has *)
(* it, and DoQuery looks for the entry first.                                 *)
THEOREM QueriesCountTheirClaim == QSpec => []QueryCountsItsClaim
<1>1. QueryInv /\ IInv => QueryCountsItsClaim
  <2> SUFFICES ASSUME QueryInv, IInv, NEW q \in At("answer"), q.fate = "committed",
                      ~q.rolledBack, NEW p \in q.tx
               PROVE  q.claimed >= p.iScore + ledger[p.height - 1][q.addr]
    BY DEF QueryCountsItsClaim
  <2>1. q \in query /\ q.phase = "answer"
    BY DEF At
  <2>2. /\ q.claimed \in Nat /\ q.addr \in Address /\ p \in PreCommit
        /\ ClaimCounted(q, p)
    BY <2>1 DEF QueryInv, QueryRecord
  <2>3. /\ p.iScore \in Nat /\ p.height \in Height /\ 0 < p.height
        /\ ledger[p.height][q.addr] = ledger[p.height - 1][q.addr] + p.iScore
        /\ ledger[p.height][q.addr] <= q.claimed
    BY <2>1, <2>2 DEF ClaimCounted, PreCommit
  <2>4. ledger[p.height - 1][q.addr] \in Nat
    <3>1. p.height - 1 \in Height
      BY <2>3, ConstantsAssumption DEF Height
    <3> QED
      BY <2>2, <3>1 DEF IInv, TypeOK
  <2> QED
    BY <2>2, <2>3, <2>4
<1>2. QSpec => []IInv
  BY QueryIsReader, Invariance, PTL
<1> QED
  BY <1>1, <1>2, QueryInvariance, PTL
=============================================================================
