-------------------------- MODULE MCCronScheduler --------------------------
(***************************************************************************)
(* Constants for TLC.  Two cron expressions: one fires every minute, one   *)
(* every second minute (at the even times); a third, "30 February", never  *)
(* fires.                                                                  *)
(***************************************************************************)
EXTENDS CronScheduler, TLC

CONSTANTS Minutely, TwoMinutely, Never

MCCronNext ==
    [e \in CronExprs |->
        [t \in 0..MaxTime |->
            CASE e = Minutely    -> {t + 1}
              [] e = TwoMinutely -> {2 * (t \div 2 + 1)}
              [] e = Never       -> {}]]

Symmetry == Permutations(JobIds)
=============================================================================
