------------------------------- MODULE Reward -------------------------------
(***************************************************************************)
(* How the Reward Calculator splits a term among the entries of a list.    *)
(*                                                                         *)
(* Governance variables and P-Rep lists are lists of entries with the      *)
(* block height they were recorded at; an entry is in force from the block *)
(* after its height to the height of the next one.  Delegation rewards,    *)
(* P-Rep rewards and block produce rewards all walk such a list.           *)
(***************************************************************************)
EXTENDS Integers, Sequences, FiniteSetsExt

\* Mutant: a period reaches to the end whatever follows
PeriodToEnd(list, i, start, end) ==
    (Max({start, list[i].blockHeight}) + 1) .. end

\* the blocks of start+1 .. end that the i-th entry of a list is used for: the
\* loop of calculateDelegationReward, calculatePRepReward and setPRepReward
Period(list, i, start, end) ==
    LET s == Max({start, list[i].blockHeight})
        e == IF i < Len(list) /\ list[i + 1].blockHeight < end
             THEN list[i + 1].blockHeight ELSE end
    IN  (s + 1) .. e

\* getGVByBlockHeight: the entries before a height, the last of which is used
Before(list, height) == {i \in DOMAIN list : list[i].blockHeight < height}
GVByBlockHeight(list, height) == list[Max(Before(list, height))]

-----------------------------------------------------------------------------
(* The rewards. *)

\* adjust start and end with P-Rep candidate; an end of 0 is "not unregistered"
From(candidate, start) == Max({start, candidate.start})
To(candidate, end) == IF candidate.end # 0 /\ candidate.end < end THEN candidate.end ELSE end
CandidateBlocks(candidate, start, end) == From(candidate, start) + 1 .. To(candidate, end)

\* calculateDelegationReward: amount * period * RewardRep / rewardDivider for
\* every governance variable
DelegationPeriod(list, i, candidate, start, end) ==
    Cardinality(Period(list, i, From(candidate, start), To(candidate, end)))
DelegationReward(amount, list, candidate, start, end, divider) ==
    SumFunction([i \in DOMAIN list |->
        (amount * DelegationPeriod(list, i, candidate, start, end) * list[i].rewardRep)
            \div divider])

\* setReward of a governance variable
BlockProduceReward(gv) == (gv.incentive * gv.mainPReps * 1000) \div 2
PRepReward(gv) == gv.incentive * 100 * 1000

\* setPRepReward: what one P-Rep of a list earns in the blocks start+1 .. end
PRepShare(delegated, total, list, start, end) ==
    SumFunction([i \in DOMAIN list |->
        (Cardinality(Period(list, i, start, end)) * PRepReward(list[i]) * delegated) \div total])
=============================================================================
