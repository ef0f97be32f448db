---------------------------- MODULE MCCronString ----------------------------
(***************************************************************************)
(* Checks convertCronString against what the spec says a descriptor        *)
(* means: "daily" or a weekday at a clock time, or every N minutes or      *)
(* hours.  Each initial state is one descriptor the schedule form can      *)
(* store; nothing changes after it.                                        *)
(***************************************************************************)
EXTENDS CronString

\* Stored clock times (as split parts) and interval counts.
Clocks == {<<9, 30>>, <<23, 5>>, <<9>>}
Numbers == {1, 15, 7, 90}

VARIABLE job

Descriptors ==
    [kind : {"timing"}, time : Clocks, frequency : Weekdays \cup {"day"},
     number : {1}]
    \cup [kind : {"gap"}, time : {<<>>}, frequency : {"minutes", "hours"},
          number : Numbers]

Init == job \in Descriptors
Next == UNCHANGED job

\* The reference meaning of a descriptor, from the spec's wording.
ClockMinute(t) == t[1] * 60 + t[2]

\* Firings exactly every p minutes from a first firing inside the first p.
EverySpaced(F, p) ==
    \E first \in 0..(p - 1) :
        F = {m \in Week : m >= first /\ (m - first) % p = 0}

Meets(j, F) ==
    CASE j.kind = "timing" /\ Len(j.time) # 2 -> F = {}
      [] j.frequency = "day"      -> F = {d * 1440 + ClockMinute(j.time) : d \in 0..6}
      [] j.frequency \in Weekdays -> F = {DowOf[j.frequency] * 1440 + ClockMinute(j.time)}
      [] j.frequency = "minutes"  -> EverySpaced(F, j.number)
      [] j.frequency = "hours"    -> EverySpaced(F, j.number * 60)

\* A trigger saved with a schedule descriptor fires at exactly the minutes
\* the descriptor names (daily or weekly at its clock time, or every N
\* minutes or hours), as registered by updateCronjob and at startup by
\* registerCronjob, and a malformed clock time registers nothing.
CronStringAsDescribed ==
    LET c == LiveCron(job)
    IN  /\ Meets(job, IF c.err THEN {} ELSE Firings(c.fields))
        /\ Meets(job, Firings(StartupCron(job)))
=============================================================================
