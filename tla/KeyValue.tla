------------------------------ MODULE KeyValue ------------------------------
(***************************************************************************)
(* What a database with a write-back layer promises its clients.           *)
(*                                                                         *)
(* Clients read and write the buckets of one store, view, whatever of it   *)
(* is in memory and whatever is stored.  Writes reach the stored copy,     *)
(* base, in any order and at any time; once the layer is committed they    *)
(* reach it at once.  What was not stored is lost only at a restart, or    *)
(* bucket by bucket after it was given up.                                 *)
(***************************************************************************)
CONSTANTS BucketID, Key, Value, Absent

VARIABLES
    view,           \* what clients read
    base,           \* what is stored
    givingUp,       \* what was not stored is being given up
    committed,      \* every write is stored at once
    durable,        \* the stored copy survives a restart
    reply           \* the answer to the last write or commit

kvVars == <<view, base, givingUp, committed, durable, reply>>

Empty == [i \in BucketID |-> [k \in Key |-> Absent]]

Init ==
    /\ view = Empty /\ base = Empty
    /\ givingUp = FALSE
    /\ committed = FALSE
    /\ durable \in BOOLEAN
    /\ reply = "ok"

\* v = Absent deletes the key
Write(i, k, v) ==
    /\ view' = [view EXCEPT ![i][k] = v]
    /\ base' \in {base, [base EXCEPT ![i][k] = v]}
    /\ committed => base' = view'
    /\ reply' = "ok"
    /\ UNCHANGED <<givingUp, committed, durable>>

\* a write, or a commit, fails and changes nothing
Refuse ==
    /\ reply' = "error"
    /\ UNCHANGED <<view, base, givingUp, committed, durable>>

Persist(i, k) ==
    /\ base' = [base EXCEPT ![i][k] = view[i][k]]
    /\ UNCHANGED <<view, givingUp, committed, durable, reply>>

GiveUp ==
    /\ ~givingUp
    /\ givingUp' = TRUE
    /\ UNCHANGED <<view, base, committed, durable, reply>>

Discard(i) ==
    /\ givingUp
    /\ view' = [view EXCEPT ![i] = base[i]]
    /\ UNCHANGED <<base, givingUp, committed, durable, reply>>

Commit ==
    /\ view = base
    /\ givingUp' = FALSE /\ committed' = TRUE
    /\ reply' = "ok"
    /\ UNCHANGED <<view, base, durable>>

Restart ==
    /\ base' = IF durable THEN base ELSE Empty
    /\ view' = base'
    /\ givingUp' = FALSE /\ committed' = FALSE
    /\ reply' = "ok"
    /\ UNCHANGED durable

Next ==
    \/ \E i \in BucketID, k \in Key :
          \/ \E v \in Value \cup {Absent} : Write(i, k, v)
          \/ Persist(i, k)
    \/ \E i \in BucketID : Discard(i)
    \/ GiveUp \/ Refuse \/ Commit \/ Restart

Spec == Init /\ [][Next]_kvVars
=============================================================================
