----------------------------- MODULE CronString -----------------------------
(***************************************************************************)
(* How the cron service turns a schedule descriptor into the cron string   *)
(* it registers with cronlib (convertCronString and its two callers), and  *)
(* which minutes of a week that string then fires at.  A descriptor is a   *)
(* record: the kind ("timing" for a clock time on a day or weekday, "gap"  *)
(* for every N minutes or hours), the clock time as the parts that         *)
(* strings.Split(time, ":") returns (each read as its number), the         *)
(* frequency and the interval count.  The cron string is kept as the       *)
(* sequence of its whitespace-separated fields, which is all cronlib's     *)
(* parser reads of it; a field is "any", a step "every n" or a value.      *)
(***************************************************************************)
EXTENDS Naturals, Sequences

Weekdays == {"monday", "tuesday", "wednesday", "thursday", "friday",
             "saturday", "sunday"}
\* The day-of-week number written for each weekday frequency.
DowOf == [f \in Weekdays |->
            CASE f = "sunday" -> 0 [] f = "monday" -> 1 [] f = "tuesday" -> 2
              [] f = "wednesday" -> 3 [] f = "thursday" -> 4
              [] f = "friday" -> 5 [] f = "saturday" -> 6]

AnyF == [k |-> "any", n |-> 0]
Step(n) == [k |-> "step", n |-> n]
Val(v) == [k |-> "val", n |-> v]

\* What the switch on the frequency appends after "0 " and the clock time.
FrequencyFields(frequency, number) ==
    CASE frequency = "day"      -> <<Step(1), AnyF, AnyF>>
      [] frequency \in Weekdays -> <<AnyF, AnyF, Val(DowOf[frequency])>>
      [] frequency = "minutes"  -> <<Step(number), AnyF, AnyF, AnyF, AnyF>>
      [] frequency = "hours"    -> <<Val(0), Step(number), AnyF, AnyF, AnyF>>
      [] OTHER                  -> <<>>

\* convertCronString: "0 ", then "MM HH " for a clock-time kind (an error
\* when the time does not split into exactly two parts), then the
\* frequency's fields.
ConvertCronString(jobType, time, frequency, number) ==
    IF jobType = "timing" /\ Len(time) # 2
    THEN [err |-> TRUE, fields |-> <<>>]
    ELSE [err |-> FALSE,
          fields |-> <<Val(0)>>
                     \o (IF jobType = "timing" THEN <<Val(time[2]), Val(time[1])>>
                                               ELSE <<>>)
                     \o FrequencyFields(frequency, number)]

ConvertFixedTimeToCron(job) ==
    ConvertCronString(job.kind, job.time, job.frequency, job.number)

\* The cron string updateCronjob registers for a fixed-time or fixed-gap
\* job; a conversion error aborts the update, so nothing is registered.
LiveCron(job) == ConvertFixedTimeToCron(job)

\* The string registerCronjob builds at startup for the same job: the
\* error is dropped and the empty string is handed to cronlib.
StartupCron(job) ==
    LET c == ConvertCronString(job.kind, job.time, job.frequency, job.number)
    IN  IF c.err THEN <<>> ELSE c.fields

(***************************************************************************)
(* cronlib's parser (seconds first): six fields, values within each        *)
(* field's range, steps of at least one; a step starts at the field's      *)
(* minimum and restarts each period.  The week below starts on a Sunday    *)
(* at 00:00 and is the first week of a January.                            *)
(***************************************************************************)
Lo == <<0, 0, 0, 1, 1, 0>>
Hi == <<59, 59, 23, 31, 12, 6>>

FieldOK(f, i) == \/ f.k = "any"
                 \/ f.k = "step" /\ f.n >= 1
                 \/ f.k = "val" /\ Lo[i] <= f.n /\ f.n <= Hi[i]

Parses(fields) == Len(fields) = 6 /\ \A i \in 1..6 : FieldOK(fields[i], i)

Matches(f, i, x) == \/ f.k = "any"
                    \/ f.k = "step" /\ (x - Lo[i]) % f.n = 0
                    \/ f.k = "val" /\ x = f.n

Week == 0..(7 * 1440 - 1)

\* The time fields of minute m of the week (the seconds field is 0).
TimeOf(m) == <<0, m % 60, (m \div 60) % 24, m \div 1440 + 1, 1, m \div 1440>>

\* The minutes of the week at which a parsed cron string fires.
Firings(fields) ==
    IF Parses(fields)
    THEN {m \in Week : \A i \in 1..6 : Matches(fields[i], i, TimeOf(m)[i])}
    ELSE {}
=============================================================================
