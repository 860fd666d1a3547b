--------------------------- MODULE MCCronHistory ---------------------------
(***************************************************************************)
(* Constants for TLC, as in MCCronScheduler.                               *)
(***************************************************************************)
EXTENDS CronHistory, TLC

CONSTANTS Minutely, TwoMinutely, Never

MCCronNext ==
    [e \in CronExprs |->
        [t \in 0..MaxTime |->
            CASE e = Minutely    -> {t + 1}
              [] e = TwoMinutely -> {2 * (t \div 2 + 1)}
              [] e = Never       -> {}]]

Symmetry == Permutations(JobIds) \cup Permutations(Clients)
=============================================================================
