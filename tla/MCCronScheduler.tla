-------------------------- MODULE MCCronScheduler --------------------------
(* Small instances of CronScheduler for TLC: one workflow owner w with one *)
(* recurring trigger r1, and one release plan p with one one-shot trigger  *)
(* o1.                                                                     *)
EXTENDS CronScheduler, TLC

CONSTANTS w, p, r1, o1

MCOwners == {w, p}
MCRecurringIds == {r1}
MCOneShotIds == {o1}
MCOwnerOf == (r1 :> w) @@ (o1 :> p)
=============================================================================
