-------------------------- MODULE MCVolsyncVerify --------------------------
(* VolsyncVerify with two targets: a daily one and the monthly R2 sample.  *)
EXTENDS VolsyncVerify, TLC

CONSTANTS t1, t2

DailyOrMonthly == {<<t1>>, <<t1, t2>>}
DailyOnly == {<<t1>>}

MCSymmetry == Permutations(Manual) \union Permutations(Jobs \ Manual)
=============================================================================
