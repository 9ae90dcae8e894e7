------------------------------- MODULE Query -------------------------------
(***************************************************************************)
(* QUERY beside the claims.                                                *)
(*                                                                         *)
(* A QUERY runs in a goroutine of its own.  It looks for the transaction   *)
(* it was given in the preCommit DB, reads the claim DB, takes a handle of *)
(* the query DB and reads the account there; nothing stops the handlers of *)
(* Claim between two of these reads.  The answer is the I-Score that is    *)
(* left to claim: it must not hide what could be claimed all the time, nor *)
(* offer again what the transaction was paid.                              *)
(***************************************************************************)
EXTENDS Claim, FiniteSetsExt

CONSTANTS
    QueryAddress    \* the accounts queries ask for

ASSUME QueryAssumption == QueryAddress \subseteq Address

VARIABLES
    query           \* the goroutine that answers QUERY, {} or {it}

qVars == <<vars, query>>

\* Mutant: the claim DB is read before the preCommit DB
ClaimFirst == [start |-> "claim", claim |-> "preCommit", preCommit |-> "db",
               db |-> "account", account |-> "answer"]

\* Mutant: the claim DB is read after the query DB
ClaimLast == [start |-> "preCommit", preCommit |-> "db", db |-> "account",
              account |-> "claim", claim |-> "answer"]

\* the order of the reads of DoQuery
NextRead == [start |-> "preCommit", preCommit |-> "claim", claim |-> "db",
             db |-> "account", account |-> "answer"]

QInit == Init /\ query = {}

At(phase) == {q \in query : q.phase = phase}
After(q) == [q EXCEPT !.phase = NextRead[@]]

\* the preCommit entry of the transaction p is about
Found(p) == \E e \in preCommit : /\ e.height = p.height /\ e.hash = p.hash
                                 /\ e.addr = p.addr /\ e.txIndex = p.txIndex

\* QUERY for an account, with the transaction of t = {p} or with none; low is
\* the least that could be claimed since then
StartQuery(a, t) ==
    /\ up /\ query = {}
    /\ query' = {[phase |-> NextRead["start"], addr |-> a, tx |-> t,
                  claimed |-> 0, db |-> 0, account |-> NoAccount,
                  low |-> Unclaimed(a), fate |-> "pending",
                  rolledBack |-> rollingBack, closed |-> FALSE]}
    /\ UNCHANGED vars

\* findPreCommit: the transaction is answered with 0
SearchPreCommit(q) ==
    /\ query' = IF \E p \in q.tx : Found(p) THEN {} ELSE {After(q)}
    /\ UNCHANGED vars

ReadClaim(q) ==
    /\ query' = {After([q EXCEPT !.claimed = claim[q.addr].iScore])}
    /\ UNCHANGED vars

\* getQueryDB: the handle that is used from now on
GetQueryDB(q) ==
    /\ query' = {After([q EXCEPT !.db = QueryDB])}
    /\ UNCHANGED vars

\* a handle that was closed since it was taken reads nothing, and the error is
\* not looked at
ReadAccount(q) ==
    /\ query' = {After([q EXCEPT !.account = IF q.closed THEN NoAccount
                                             ELSE account[q.db][q.addr]])}
    /\ UNCHANGED vars

\* the I-Score of the answer
QueryIScore(q) ==
    IF q.account = NoAccount THEN 0 ELSE q.account.iScore - q.claimed

AnswerQuery(q) ==
    /\ query' = {}
    /\ UNCHANGED vars

\* what the handlers do to a query that is being answered: IS takes the block of
\* its transaction into the chain or drops it, rolls back, or the account DBs are closed by
\* resetAccountDB or rollbackAccountDB; a crash loses it
Observed(q) ==
    [q EXCEPT
        !.low = Min({@, Unclaimed(q.addr)'}),
        !.fate = IF @ # "pending" \/ q.tx = {} THEN @
                 ELSE IF \E p \in q.tx : /\ tip' = p.height /\ committing' = {p.hash}
                                         /\ Confirm(p) \in preCommit
                      THEN "committed"
                 ELSE IF \E p \in q.tx : Found(p)' THEN "pending" ELSE "gone",
        !.rolledBack = @ \/ rollingBack',
        !.closed = @ \/ /\ q.phase = "account"
                        /\ job.phase = "rename" \/ info'.calcDone > info.calcDone]

QueryStep ==
    \/ \E a \in QueryAddress : StartQuery(a, {})
    \/ \E p \in preCommit : p.addr \in QueryAddress /\ StartQuery(p.addr, {p})
    \/ \E q \in At("preCommit") : SearchPreCommit(q)
    \/ \E q \in At("claim") : ReadClaim(q)
    \/ \E q \in At("db") : GetQueryDB(q)
    \/ \E q \in At("account") : ReadAccount(q)
    \/ \E q \in At("answer") : AnswerQuery(q)

Observe == query' = IF up' THEN {Observed(q) : q \in query} ELSE {}

QNext ==
    \/ QueryStep
    \/ Next /\ Observe

QSpec == QInit /\ [][QNext]_qVars

-----------------------------------------------------------------------------
(* Properties. *)

\* A query never hides I-Score: whatever is committed and calculated between its
\* reads, the answer is at least what could be claimed at some moment while it
\* was answered, so never negative (DoQuery reads the claim DB before the query
\* DB; ROLLBACK and a closed account DB apart).
QueryHidesNothing ==
    \A q \in At("answer") : ~q.rolledBack /\ ~q.closed => QueryIScore(q) >= q.low

\* A query about a claim transaction of a block that IS committed does not offer
\* what the transaction was paid, although COMMIT_BLOCK moves the claim from the
\* preCommit DB to the claim DB meanwhile (DoQuery, writePreCommitToClaimDB,
\* flushPreCommit).
QueryCountsItsClaim ==
    \A q \in At("answer") : q.fate = "committed" /\ ~q.rolledBack =>
        \A p \in q.tx : q.claimed >= p.iScore + ledger[p.height - 1][q.addr]
=============================================================================
