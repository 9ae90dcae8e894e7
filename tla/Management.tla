----------------------------- MODULE Management -----------------------------
(***************************************************************************)
(* The lists the Reward Calculator (RC) keeps between calculations: the    *)
(* governance variables (GV), the Main/Sub P-Rep lists and the P-Rep       *)
(* candidates.                                                             *)
(*                                                                         *)
(* Each is kept in memory and in the management DB, is extended by the     *)
(* IISS data of every CALCULATE, is cut at the old end, and the first two  *)
(* are cut at the new end by a ROLLBACK.  A start of the process loads     *)
(* what the DB has.  The entries decide how much every block of a term     *)
(* pays, so memory, DB and chain must not drift apart, whatever a crash    *)
(* interrupts and a reload repeats.                                        *)
(***************************************************************************)
EXTENDS Reward

CONSTANTS
    GVValue,            \* contents of a governance variable
    PRepValue,          \* contents of a P-Rep list
    None,               \* no entry
    Address,            \* addresses of P-Rep candidates
    Registered,         \* the block a candidate registers in
    Unregistered,       \* the block it unregisters in, 0 for never
    Term,               \* blocks of a term
    GVBlocks,           \* blocks in which a governance variable may be recorded
    PRepBlocks,         \* blocks in which a new P-Rep list is recorded
    MaxHeight,          \* bound: the highest block
    MaxCrashes          \* bound: crashes of a behaviour

Height == 0 .. MaxHeight
NoCandidate == [start |-> 0, end |-> 0]

ASSUME ManagementAssumption ==
    /\ MaxHeight \in Nat /\ Term \in Nat \ {0} /\ MaxCrashes \in Nat
    /\ Registered \in [Address -> Nat \ {0}] /\ Unregistered \in [Address -> Nat]
    /\ \A a \in Address : Unregistered[a] # 0 => Registered[a] < Unregistered[a]
    /\ GVBlocks \subseteq Height /\ PRepBlocks \subseteq Height
    /\ None \notin GVValue \cup PRepValue

VARIABLES
    gv, prep, candidate,        \* Context.GV, PRep and PRepCandidates
    gvDB, prepDB, candidateDB,  \* their buckets of the management DB
    info,                       \* DBInfo: CalcDone, PrevCalcDone, Calculating
    calc,                       \* the goroutine that calculates
    rollback,                   \* the ROLLBACK handler: its next step
    crashes,
    \* ICON Service (external)
    tip,                        \* last block of the chain
    chain                       \* what each block of the chain recorded

memory == <<gv, prep, candidate>>
dbs == <<gvDB, prepDB, candidateDB>>
isVars == <<tip, chain>>
vars == <<memory, dbs, info, calc, rollback, crashes, isVars>>

Idle == [phase |-> "idle", height |-> 0, quit |-> FALSE,
         gvs |-> <<>>, preps |-> <<>>, txs |-> {}]
UpdatePhases == {"gv", "prep", "candidate"}
TermEnd(h) == h - (h % Term)
IsCalculating == info.calculating > info.calcDone

-----------------------------------------------------------------------------
(* Lists of entries, and the writes of a bucket. *)

\* a set of numbers in order
Rank(S, x) == Cardinality({y \in S : y <= x})
Ascending(S) == [i \in 1 .. Cardinality(S) |-> CHOOSE x \in S : Rank(S, x) = i]
Descending(S) == [i \in 1 .. Cardinality(S) |-> Ascending(S)[Cardinality(S) + 1 - i]]

Entry(h, v) == [blockHeight |-> h, value |-> v]
\* a write; a delete writes None
Write(h, v) == [key |-> h, value |-> v]
Sets(entries) == [i \in DOMAIN entries |-> Write(entries[i].blockHeight, entries[i].value)]

\* a bucket after the first n of some writes
Written(db, writes, n) ==
    [k \in DOMAIN db |->
        LET to == {i \in 1 .. n : writes[i].key = k}
        IN  IF to = {} THEN db[k] ELSE writes[Max(to)].value]

\* Mutant: the first key is loaded even when it was deleted
LoadDeleted(db) ==
    LET keys == Ascending({h \in DOMAIN db : db[h] # None} \cup {Min(DOMAIN db)})
    IN  [i \in DOMAIN keys |-> Entry(keys[i], db[keys[i]])]

\* the entries of a bucket by block height
Load(db) ==
    LET keys == Ascending({h \in DOMAIN db : db[h] # None})
    IN  [i \in DOMAIN keys |-> Entry(keys[i], db[keys[i]])]

LoadGovernanceVariable(db) == Load(db)
LoadPRep(db) == Load(db)
\* a map: by address
LoadPRepCandidate(db) == db

\* the entries of the IISS data of the term that ends at h, by block height
IISSEntries(field, h) == [b \in (h - Term) .. (h - 1) |-> chain[b][field]]

-----------------------------------------------------------------------------
(* Deleting old values: all but the newest entry that is not younger than  *)
(* the calculation before the last one.                                    *)

\* Mutant: the entries the running calculation starts from go as well
OldByCalcDone(list) == {i \in DOMAIN list : list[i].blockHeight <= info.calcDone}

Old(list) == {i \in DOMAIN list : list[i].blockHeight <= info.prevCalcDone}
WithoutOld(list) ==
    IF Old(list) = {} THEN list ELSE SubSeq(list, Max(Old(list)), Len(list))
\* the deletes, from the newest to the oldest
DeleteOld(list) ==
    LET old == IF Old(list) = {} THEN <<>>
               ELSE Descending(Old(list) \ {Max(Old(list))})
    IN  [i \in DOMAIN old |-> Write(list[old[i]].blockHeight, None)]

\* Mutant: every governance variable is appended
AllGV(list, iiss) == Load(iiss)

\* the governance variables of the IISS data, which come by block height, that
\* are newer than the last one
NewGV(list, iiss) ==
    Load([b \in {b \in DOMAIN iiss : list = <<>> \/ list[Len(list)].blockHeight < b} |-> iiss[b]])

GVWrites ==
    LET new == NewGV(gv, calc.gvs) IN Sets(new) \o DeleteOld(gv \o new)
PRepWrites == Sets(Load(calc.preps)) \o DeleteOld(prep \o Load(calc.preps))

-----------------------------------------------------------------------------
(* P-Rep candidates: register and unregister transactions in order. *)

\* Mutant: a candidate that unregisters is removed
RemoveOnUnregister(c, tx) ==
    IF tx.type = "unreg" THEN NoCandidate
    ELSE IF c = NoCandidate THEN [c EXCEPT !.start = tx.blockHeight] ELSE c

\* the candidate after a transaction
AfterTX(c, tx) ==
    IF tx.type = "reg" THEN (IF c = NoCandidate THEN [c EXCEPT !.start = tx.blockHeight] ELSE c)
    ELSE IF c # NoCandidate /\ c.end = 0 THEN [c EXCEPT !.end = tx.blockHeight] ELSE c

\* the transactions of the term that ends at h
IISSTXs(h) ==
    LET txs == {[addr |-> a, type |-> "reg", blockHeight |-> Registered[a]] : a \in Address}
                 \cup {[addr |-> a, type |-> "unreg", blockHeight |-> Unregistered[a]] : a \in Address}
    IN  {t \in txs : t.blockHeight \in (h - Term + 1) .. h}

-----------------------------------------------------------------------------
Init ==
    /\ gv = <<>> /\ prep = <<>> /\ candidate = [a \in Address |-> NoCandidate]
    /\ gvDB = [h \in Height |-> None]
    /\ prepDB = [h \in Height |-> None]
    /\ candidateDB = candidate
    /\ info = [calcDone |-> 0, prevCalcDone |-> 0, calculating |-> 0]
    /\ calc = Idle
    /\ rollback = "idle"
    /\ crashes = 0
    /\ tip = 0
    /\ \E g \in GVValue, p \in PRepValue :
          chain = [h \in Height |-> IF h = 0 THEN [gv |-> g, prep |-> p]
                                    ELSE [gv |-> None, prep |-> None]]

\* a calculation that is about to update the lists with the IISS data of h
Loaded(h) ==
    [Idle EXCEPT !.phase = "gv", !.height = h, !.gvs = IISSEntries("gv", h),
                 !.preps = IISSEntries("prep", h), !.txs = IISSTXs(h)]

\* CALCULATE for the term that is over: refused while one is calculated
Calculate ==
    /\ calc = Idle /\ rollback = "idle" /\ ~IsCalculating
    /\ info.calcDone < TermEnd(tip)
    /\ calc' = Loaded(TermEnd(tip))
    /\ info' = [info EXCEPT !.calculating = TermEnd(tip)]
    /\ UNCHANGED <<memory, dbs, rollback, crashes, isVars>>

UpdateGovernanceVariable ==
    /\ calc.phase = "gv"
    /\ gv' = WithoutOld(gv \o NewGV(gv, calc.gvs))
    /\ gvDB' = Written(gvDB, GVWrites, Len(GVWrites))
    /\ calc' = [calc EXCEPT !.phase = "prep"]
    /\ UNCHANGED <<prep, candidate, prepDB, candidateDB, info, rollback, crashes, isVars>>

UpdatePRep ==
    /\ calc.phase = "prep"
    /\ prep' = WithoutOld(prep \o Load(calc.preps))
    /\ prepDB' = Written(prepDB, PRepWrites, Len(PRepWrites))
    /\ calc' = [calc EXCEPT !.phase = "candidate"]
    /\ UNCHANGED <<gv, candidate, gvDB, candidateDB, info, rollback, crashes, isVars>>

\* one transaction of the iteration, in the order of blocks
UpdatePRepCandidate ==
    /\ calc.phase = "candidate"
    /\ \E tx \in calc.txs :
          /\ \A t \in calc.txs : tx.blockHeight <= t.blockHeight
          /\ LET c == AfterTX(candidate[tx.addr], tx)
             IN  /\ candidate' = [candidate EXCEPT ![tx.addr] = c]
                 /\ candidateDB' = IF c = candidate[tx.addr] THEN candidateDB
                                   ELSE [candidateDB EXCEPT ![tx.addr] = c]
          /\ calc' = [calc EXCEPT !.txs = @ \ {tx}]
    /\ UNCHANGED <<gv, prep, gvDB, prepDB, info, rollback, crashes, isVars>>

EndPRepCandidate ==
    /\ calc.phase = "candidate" /\ calc.txs = {}
    /\ calc' = [calc EXCEPT !.phase = "rewards"]
    /\ UNCHANGED <<memory, dbs, info, rollback, crashes, isVars>>

\* every block is paid; or a ROLLBACK canceled the calculation, which leaves
\* Calculating as it is
EndCalculation ==
    /\ calc.phase = "rewards"
    /\ info' = IF calc.quit THEN info
               ELSE [info EXCEPT !.prevCalcDone = info.calcDone, !.calcDone = calc.height]
    /\ calc' = Idle
    /\ UNCHANGED <<memory, dbs, rollback, crashes, isVars>>

-----------------------------------------------------------------------------
(* ROLLBACK to tip, which checkRollback accepts. *)

DecideRollback(to) ==
    /\ rollback = "idle"
    /\ info.prevCalcDone < to /\ to < tip
    /\ to > info.calcDone \/ calc = Idle
    /\ tip' = to
    /\ chain' = [h \in Height |-> IF h > to THEN [gv |-> None, prep |-> None] ELSE chain[h]]
    /\ rollback' = "info"
    /\ UNCHANGED <<memory, dbs, info, calc, crashes>>

\* notifyRollback, and the account DBs' part; a ROLLBACK in the moment in which
\* the calculation updates the lists is left out
RollbackAccountDB ==
    /\ rollback = "info"
    /\ calc.phase \notin UpdatePhases
    /\ calc' = IF calc = Idle THEN calc ELSE [calc EXCEPT !.quit = TRUE]
    /\ info' = IF tip > info.calcDone THEN info
               ELSE [info EXCEPT !.calcDone = info.prevCalcDone,
                                 !.calculating = info.prevCalcDone]
    /\ rollback' = "gv"
    /\ UNCHANGED <<memory, dbs, crashes, isVars>>

Newer(list) == {i \in DOMAIN list : list[i].blockHeight > tip}
WithoutNewer(list) ==
    IF Newer(list) = {} THEN list ELSE SubSeq(list, 1, Min(Newer(list)) - 1)
DeleteNewer(list) ==
    LET new == Descending(Newer(list))
    IN  [i \in DOMAIN new |-> Write(list[new[i]].blockHeight, None)]

RollbackGV ==
    /\ rollback = "gv"
    /\ gv' = WithoutNewer(gv)
    /\ gvDB' = Written(gvDB, DeleteNewer(gv), Len(DeleteNewer(gv)))
    /\ rollback' = "prep"
    /\ UNCHANGED <<prep, candidate, prepDB, candidateDB, info, calc, crashes, isVars>>

RollbackPRep ==
    /\ rollback = "prep"
    /\ prep' = WithoutNewer(prep)
    /\ prepDB' = Written(prepDB, DeleteNewer(prep), Len(DeleteNewer(prep)))
    /\ rollback' = "idle"
    /\ UNCHANGED <<gv, candidate, gvDB, candidateDB, info, calc, crashes, isVars>>

-----------------------------------------------------------------------------
(* The chain grows, and the process dies and starts again. *)

AddBlock(g, p) ==
    /\ rollback = "idle" /\ tip < MaxHeight
    /\ tip + 1 < info.calcDone + 2 * Term \* IS stops without CALCULATE_DONE
    /\ tip' = tip + 1
    /\ chain' = [chain EXCEPT ![tip + 1] =
                    [gv |-> IF tip + 1 \in GVBlocks THEN g ELSE None,
                     prep |-> IF tip + 1 \in PRepBlocks THEN p ELSE None]]
    /\ UNCHANGED <<memory, dbs, info, calc, rollback, crashes>>

\* the management DB after a crash: any number of the writes of the step that
\* was being done had been made
Interrupted(db, step, writes) ==
    IF step THEN {Written(db, writes, n) : n \in 0 .. Len(writes)} ELSE {db}

\* NewContext loads what the DB has; reloadIISSData starts the calculation that
\* was not finished, if its IISS data is still there; IS repeats the ROLLBACK
Restart ==
    /\ crashes < MaxCrashes
    /\ crashes' = crashes + 1
    /\ \E d \in Interrupted(gvDB, calc.phase = "gv", GVWrites) :
          gvDB' \in Interrupted(d, rollback = "gv", DeleteNewer(gv))
    /\ \E d \in Interrupted(prepDB, calc.phase = "prep", PRepWrites) :
          prepDB' \in Interrupted(d, rollback = "prep", DeleteNewer(prep))
    /\ candidateDB' = candidateDB
    /\ gv' = LoadGovernanceVariable(gvDB')
    /\ prep' = LoadPRep(prepDB')
    /\ candidate' = LoadPRepCandidate(candidateDB')
    /\ IF info.calculating # info.calcDone /\ info.calculating <= tip
       THEN calc' = Loaded(info.calculating) /\ info' = info
       ELSE calc' = Idle /\ info' = [info EXCEPT !.calculating = info.calcDone]
    /\ rollback' = IF rollback = "idle" THEN "idle" ELSE "info"
    /\ UNCHANGED isVars

-----------------------------------------------------------------------------
Next ==
    \/ Calculate \/ UpdateGovernanceVariable \/ UpdatePRep \/ UpdatePRepCandidate
    \/ EndPRepCandidate \/ EndCalculation
    \/ \E to \in Height : DecideRollback(to)
    \/ RollbackAccountDB \/ RollbackGV \/ RollbackPRep
    \/ \E g \in GVValue \cup {None}, p \in PRepValue : AddBlock(g, p)
    \/ Restart

Spec == Init /\ [][Next]_vars

-----------------------------------------------------------------------------
(* Properties. *)

EntryOf(values) == [blockHeight : Height, value : values]

\* Every variable has its type.
ManagementTypeOK ==
    /\ \A i \in DOMAIN gv : gv[i] \in EntryOf(GVValue)
    /\ \A i \in DOMAIN prep : prep[i] \in EntryOf(PRepValue)
    /\ candidate \in [Address -> [start : Height, end : Height]]
    /\ gvDB \in [Height -> GVValue \cup {None}]
    /\ prepDB \in [Height -> PRepValue \cup {None}]
    /\ info \in [calcDone : Height, prevCalcDone : Height, calculating : Height]
    /\ tip \in Height
    /\ chain \in [Height -> [gv : GVValue \cup {None}, prep : PRepValue \cup {None}]]

\* what the chain has in force for a block: the last entry recorded before it
InForce(field, b) ==
    LET recorded == {h \in Height : h < b /\ chain[h][field] # None}
    IN  Entry(Max(recorded), chain[Max(recorded)][field])

\* the entries of a list that pay for block b of the calculation
Paying(list, b) ==
    {i \in DOMAIN list : b \in Period(list, i, info.calcDone, calc.height)}

Rewarding == calc.phase = "rewards" /\ ~calc.quit /\ rollback = "idle"
TermBlocks == info.calcDone + 1 .. calc.height

\* Every block of a term is paid for once, with the governance variable the chain
\* had in force, and block producers get the same one: whatever was deleted as
\* old, rolled back, half written before a crash or delivered again
\* (UpdateGovernanceVariable, RollbackManagementDB, getGVByBlockHeight).
GVInForce ==
    Rewarding => \A b \in TermBlocks :
        /\ \E i \in DOMAIN gv : Paying(gv, b) = {i} /\ gv[i] = InForce("gv", b)
        /\ GVByBlockHeight(gv, b) = InForce("gv", b)

\* P-Rep rewards are paid once for every block, from the list in force, although
\* UpdatePRep appends a list again that is delivered again.
PRepRewardOnce ==
    Rewarding => \A b \in TermBlocks :
        \E i \in DOMAIN prep : Paying(prep, b) = {i} /\ prep[i] = InForce("prep", b)

\* A restart at any time gives the governance variables and candidates that were
\* in memory, in the same order (LoadGovernanceVariable, LoadPRepCandidate).
MemoryIsDB ==
    gv = LoadGovernanceVariable(gvDB) /\ candidate = LoadPRepCandidate(candidateDB)

\* Delegations to a candidate are rewarded in the blocks it is registered in,
\* although ROLLBACK leaves the candidates as they are and the transactions are
\* delivered again (UpdatePRepCandidate, calculateDelegationReward).
CandidateBlocksMatchChain ==
    Rewarding => \A a \in Address :
        (IF candidate[a] = NoCandidate THEN {}
         ELSE CandidateBlocks(candidate[a], info.calcDone, calc.height)) =
            {b \in TermBlocks : /\ b > Registered[a]
                                /\ Unregistered[a] # 0 => b <= Unregistered[a]}
=============================================================================
