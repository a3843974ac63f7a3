------------------------------- MODULE MCCron -------------------------------
(* Cron on a full store of six keys, for TLC: with a limit of five, a      *)
(* round may end at its limit, or after fewer deletions than a quarter of  *)
(* it although there was one.                                              *)
EXTENDS Cron

CONSTANTS o1, o2, o3, o4, o5, o6, v1

MCObjs == {o1, o2, o3, o4, o5, o6}
MCKeys == 1..6
MCVals == {v1}
MCTimes == {1, 2}
MCDurs == {-1, 1}
MCFilled == {<<o1, o2, o3, o4, o5, o6>>}
MCStartDeadlines == {Never, 1, 2}
=============================================================================
