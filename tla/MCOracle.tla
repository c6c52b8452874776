------------------------------ MODULE MCOracle ------------------------------
(* Instances of Oracle for TLC: stakes, reports and genesis states. *)
EXTENDS Oracle

MCTokens == [v \in Validators |-> IF v = 1 THEN 3 ELSE 2]
MCBigTokens == [v \in Validators |-> IF v = 1 THEN 5 ELSE 2]
MCBank == [a \in Accounts |-> 0]
MCNoRewards == [id \in {} |-> 0]
MCDelegations == {<<2, 4>>}

Everywhere(rate) == [p \in Pairs |-> rate]
\* Two rates that are far apart.
MCReports == {Everywhere(100), Everywhere(300)}
\* Reports on one pair or on both.
MCPartialReports ==
    {Everywhere(100), Everywhere(0), [p \in {1} |-> 100], [p \in {2} |-> 300]}

\* Two rewards that are still to be paid, one of them over two periods.
MCRewards == [id \in {1, 2} |-> [periods |-> id, coins |-> 3]]
MCFundedBank == [a \in Accounts |-> IF a = "oracle" THEN 9 ELSE 0]
=============================================================================
