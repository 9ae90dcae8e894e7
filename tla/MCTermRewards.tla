--------------------------- MODULE MCTermRewards ---------------------------
(* A small instance of TermRewards: a term of four blocks, an account that   *)
(* delegates, a P-Rep that registers in the term and one that leaves in it.  *)
EXTENDS TermRewards, TLC
CONSTANTS a1, p1, p2

MCCandidate == (p1 :> [start |-> 0, end |-> 5]) @@ (p2 :> [start |-> 3, end |-> 0])

GV(h, rep, incentive) ==
    [blockHeight |-> h, rewardRep |-> rep, incentive |-> incentive, mainPReps |-> 1]
MCGVLists == {<<GV(2, 3, 1)>>, <<GV(1, 3, 1), GV(4, 5, 2)>>}

PReps(h, d1, d2) ==
    [blockHeight |-> h, delegated |-> (p1 :> d1) @@ (p2 :> d2), total |-> d1 + d2]
MCPRepLists == {<<PReps(2, 3, 4)>>, <<PReps(1, 0, 0), PReps(4, 5, 1)>>,
                <<PReps(2, 11, 2), [blockHeight |-> 4, delegated |-> (p2 :> 1), total |-> 1]>>}

MCDelegations == {(p1 :> 1), (p1 :> 3), (p1 :> 2) @@ (p2 :> 5)}

TX(a, h, d) == [addr |-> a, blockHeight |-> h, delegation |-> d]
MCTXLists == {<<>>, <<TX(a1, 3, (p2 :> 7)), TX(a1, 5, (p1 :> 4))>>,
              <<TX(p2, 4, (p1 :> 3)), TX(a1, 6, (p2 :> 4))>>}

BP(h, g, vs) == [blockHeight |-> h, generator |-> g, validators |-> vs]
MCBlockLists == {<<BP(3, p1, {p2, a1})>>, <<BP(4, p1, {}), BP(5, p2, {p1, p2, a1})>>}
=============================================================================
