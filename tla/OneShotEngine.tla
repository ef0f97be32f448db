--------------------------- MODULE OneShotEngine ---------------------------
(***************************************************************************)
(* What the cron service's one-shot engine promises its users, stated      *)
(* without the messages, the fetches and aslan that drive it: each tag     *)
(* holds at most one armed instant, never one already past; when the clock *)
(* passes an armed instant the action runs exactly once; a late action     *)
(* runs only at a (re)arming, at most once per incarnation, and only when  *)
(* it is late by at most the grace window; a new incarnation starts with   *)
(* nothing armed.  CronScheduler is shown to implement it through the      *)
(* mapping sched <- the instants with a gocron job, fired <- firings.      *)
(***************************************************************************)
EXTENDS Naturals, FiniteSets

CONSTANTS OneShotIds, MaxTime, Grace, MaxRestarts

Instants == 0..MaxTime
Incarnations == 1..MaxRestarts

\* The content of one tag: nothing, or a single instant.
Slots == {{}} \cup {{a} : a \in Instants}

VARIABLES
    now,    \* the clock
    inc,    \* current incarnation
    sched,  \* the armed instants of each tag
    fired   \* runs of each tag's action per instant and incarnation

vars == <<now, inc, sched, fired>>

Init ==
    /\ now = 0
    /\ inc = 1
    /\ sched = [t \in OneShotIds |-> {}]
    /\ fired = [t \in OneShotIds |-> [a \in Instants |-> [k \in Incarnations |-> 0]]]

\* A tag may be re-armed only for an instant still ahead.
Armable(s) == \A a \in s : a >= now

\* The late actions that may run now: within the window, not yet run in
\* this incarnation.
LateOK == {p \in OneShotIds \X Instants :
             p[2] < now /\ now - p[2] <= Grace /\ fired[p[1]][p[2]][inc] = 0}

\* Registrations and removals: some tags change their slot, each to an
\* instant still ahead or to nothing, and some late actions run at once.
Rearm ==
    /\ sched' \in [OneShotIds -> Slots]
    /\ \A t \in OneShotIds : sched'[t] = sched[t] \/ Armable(sched'[t])
    /\ \E L \in SUBSET LateOK :
          fired' = [t \in OneShotIds |-> [a \in Instants |-> [k \in Incarnations |->
                      fired[t][a][k] + (IF k = inc /\ <<t, a>> \in L THEN 1 ELSE 0)]]]
    /\ UNCHANGED <<now, inc>>

\* The clock moves on and every action armed for the tick that ends runs once.
Tick ==
    /\ now < MaxTime
    /\ now' = now + 1
    /\ fired' = [t \in OneShotIds |-> [a \in Instants |-> [k \in Incarnations |->
                   fired[t][a][k] + (IF a = now /\ k = inc /\ now \in sched[t] THEN 1 ELSE 0)]]]
    /\ sched' = [t \in OneShotIds |-> sched[t] \ {now}]
    /\ UNCHANGED inc

\* A new process starts with an empty engine.
NewIncarnation ==
    /\ inc < MaxRestarts
    /\ \A t \in OneShotIds : sched[t] = {}
    /\ inc' = inc + 1
    /\ UNCHANGED <<now, sched, fired>>

Next == Rearm \/ Tick \/ NewIncarnation

Spec == Init /\ [][Next]_vars
=============================================================================
