--------------------------- MODULE MCScenarioBuild ---------------------------
(* Scenarios of three calls, over numbers that are zero, small, and too     *)
(* large; three users already overflow the funds.                           *)
EXTENDS ScenarioBuild

MCOwnWallets ==
    {<<>>, <<Account(7, 3), Account(8, 1)>>, <<Account(7, 3), Account(8, 1), Account(7, 2)>>}
MCGivenIds == {<<1, 2>>, <<1, 1>>, <<1>>}

\* WalletConfig::uniform hands out all funds, at least one token to every user, and
\* to no two users amounts that differ by more than one.
ASSUME UniformIsFair ==
    \A users \in 1..5 : \A funds \in users..13 :
        LET value == [k \in 1..users |-> Uniform(funds, users)[k].value]
        IN  /\ SumFunction(value) = funds
            /\ \A i, j \in 1..users : 0 < value[i] /\ value[i] - value[j] \in -1..1
=============================================================================
