---------------------------- MODULE MCCalculate ----------------------------
(* Small instances of Calculate: two accounts in two shards. *)
EXTENDS Calculate, TLC
CONSTANTS a1, a2, s1, s2

MCShardOf == (a1 :> s1) @@ (a2 :> s2)

\* in some terms only a1 earns, by two delegations and a block; in others a2
\* delegates, a1 produces blocks and both are P-Reps
MCIISSData ==
    {[txs |-> <<[addr |-> a1, block |-> 1, delegation |-> 1],
                [addr |-> a1, block |-> 2, delegation |-> 2]>>,
      producers |-> {a1}, preps |-> {}],
     [txs |-> <<[addr |-> a2, block |-> 1, delegation |-> 2]>>,
      producers |-> {a1}, preps |-> {a1, a2}]}

\* the same every term
MCOneIISSData ==
    {[txs |-> <<[addr |-> a1, block |-> 1, delegation |-> 1]>>,
      producers |-> {a2}, preps |-> {}]}

\* in some terms only a1 earns, in others only a2
MCSparseIISSData ==
    {[txs |-> <<[addr |-> a1, block |-> 1, delegation |-> 1]>>, producers |-> {}, preps |-> {}],
     [txs |-> <<>>, producers |-> {a2}, preps |-> {}]}
=============================================================================
