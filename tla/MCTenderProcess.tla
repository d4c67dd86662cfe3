---------------------------- MODULE MCTenderProcess ----------------------------
(* Lists of outputs for model checking TenderProcess with two kinds of them:  *)
(* each kind once; one of them twice; one of them and an output of another    *)
(* process. The kinds are alike, so their order is not varied.                *)
EXTENDS TenderProcess, TLC

MCLists == {<<1, 2>>, <<1, 1>>, <<2, Foreign>>}

\* Sessions differ in nothing but their state; keys are chosen whoever calls.
SessionsAreAlike == Permutations(Sessions)
================================================================================
