------------------------- MODULE CronString_proofs -------------------------
(***************************************************************************)
(* Proofs about the cron strings convertCronString builds for a clock-time *)
(* schedule (cronjob_handler.go), for every clock time rather than the     *)
(* few that MCCronString enumerates: a daily or weekday schedule at a      *)
(* valid HH:MM registers, at runtime and at startup alike, a string that   *)
(* fires exactly at that clock time on the days it names, and a time that  *)
(* does not split into two parts registers nothing on either path.         *)
(***************************************************************************)
EXTENDS CronString, SequenceTheorems, TLAPS

\* A clock-time descriptor, as the job's Schedule record carries it.
Timing(h, mi, frequency, n) ==
    [kind |-> "timing", time |-> <<h, mi>>, frequency |-> frequency, number |-> n]

\* The fields of "0 MM HH */1 * *" and of "0 MM HH * * D".
DailyFields(h, mi) == <<Val(0), Val(mi), Val(h), Step(1), AnyF, AnyF>>
WeekdayFields(h, mi, dow) == <<Val(0), Val(mi), Val(h), AnyF, AnyF, Val(dow)>>

\* The minutes of the week a description of the schedule names.
DailyMinutes(h, mi) == {d * 1440 + h * 60 + mi : d \in 0..6}
WeekdayMinutes(h, mi, dow) == {dow * 1440 + h * 60 + mi}

-----------------------------------------------------------------------------
\* The string convertCronString writes piecewise ("0 ", then "MM HH ", then
\* the frequency's three fields) is the six-field string.
LEMMA ConcatSix ==
    ASSUME NEW a, NEW b, NEW c, NEW d, NEW e, NEW f
    PROVE  <<a>> \o <<b, c>> \o <<d, e, f>> = <<a, b, c, d, e, f>>
<1>. DEFINE S == {a, b, c, d, e, f}
<1>1. /\ <<a>> \in Seq(S) /\ <<b, c>> \in Seq(S) /\ <<d, e, f>> \in Seq(S)
      /\ <<a, b, c>> \in Seq(S) /\ <<a, b, c, d, e, f>> \in Seq(S)
  OBVIOUS
<1>2. <<a>> \o <<b, c>> = <<a, b, c>>
  <2>1. /\ <<a>> \o <<b, c>> \in Seq(S)
        /\ Len(<<a>> \o <<b, c>>) = 3
        /\ \A i \in 1..3 : (<<a>> \o <<b, c>>)[i] = <<a, b, c>>[i]
    BY <1>1, ConcatProperties
  <2>. QED  BY <1>1, <2>1, SeqEqual, ZenonT(60)
<1>3. /\ <<a, b, c>> \o <<d, e, f>> \in Seq(S)
      /\ Len(<<a, b, c>> \o <<d, e, f>>) = 6
      /\ \A i \in 1..6 : (<<a, b, c>> \o <<d, e, f>>)[i] = <<a, b, c, d, e, f>>[i]
  BY <1>1, ConcatProperties
<1>. QED  BY <1>1, <1>2, <1>3, SeqEqual, ZenonT(60)

\* The day-of-week number written for each weekday frequency is a day of
\* cronlib's week.
LEMMA DowRange == \A f \in Weekdays : DowOf[f] \in 0..6
BY DEF DowOf, Weekdays

\* convertCronString for a daily clock-time schedule writes "0 MM HH */1 * *"
\* and no error, so updateCronjob and registerCronjob register the same string.
LEMMA DailyConversion ==
    ASSUME NEW h, NEW mi, NEW n
    PROVE  /\ LiveCron(Timing(h, mi, "day", n))
                = [err |-> FALSE, fields |-> DailyFields(h, mi)]
           /\ StartupCron(Timing(h, mi, "day", n)) = DailyFields(h, mi)
<1>1. FrequencyFields("day", n) = <<Step(1), AnyF, AnyF>>
  BY DEF FrequencyFields, Weekdays
<1>2. ConvertCronString("timing", <<h, mi>>, "day", n)
        = [err |-> FALSE, fields |-> <<Val(0)>> \o <<Val(mi), Val(h)>>
                                     \o FrequencyFields("day", n)]
  BY DEF ConvertCronString
<1>3. ConvertCronString("timing", <<h, mi>>, "day", n)
        = [err |-> FALSE, fields |-> DailyFields(h, mi)]
  <2>1. <<Val(0)>> \o <<Val(mi), Val(h)>> \o <<Step(1), AnyF, AnyF>> = DailyFields(h, mi)
    BY ConcatSix DEF DailyFields
  <2>. QED  BY <1>1, <1>2, <2>1
<1>. QED  BY <1>3 DEF LiveCron, StartupCron, ConvertFixedTimeToCron, Timing

\* The same for a weekday schedule: "0 MM HH * * D" with D its number.
LEMMA WeekdayConversion ==
    ASSUME NEW h, NEW mi, NEW n, NEW f \in Weekdays
    PROVE  /\ LiveCron(Timing(h, mi, f, n))
                = [err |-> FALSE, fields |-> WeekdayFields(h, mi, DowOf[f])]
           /\ StartupCron(Timing(h, mi, f, n)) = WeekdayFields(h, mi, DowOf[f])
<1>1. FrequencyFields(f, n) = <<AnyF, AnyF, Val(DowOf[f])>>
  BY DEF FrequencyFields, Weekdays
<1>2. ConvertCronString("timing", <<h, mi>>, f, n)
        = [err |-> FALSE, fields |-> <<Val(0)>> \o <<Val(mi), Val(h)>>
                                     \o FrequencyFields(f, n)]
  BY DEF ConvertCronString
<1>3. ConvertCronString("timing", <<h, mi>>, f, n)
        = [err |-> FALSE, fields |-> WeekdayFields(h, mi, DowOf[f])]
  <2>1. <<Val(0)>> \o <<Val(mi), Val(h)>> \o <<AnyF, AnyF, Val(DowOf[f])>> = WeekdayFields(h, mi, DowOf[f])
    BY ConcatSix DEF WeekdayFields
  <2>. QED  BY <1>1, <1>2, <2>1
<1>. QED  BY <1>3 DEF LiveCron, StartupCron, ConvertFixedTimeToCron, Timing
\* cronlib accepts "0 MM HH */1 * *" for every valid clock time.
LEMMA DailyParses ==
    ASSUME NEW h \in 0..23, NEW mi \in 0..59
    PROVE  Parses(DailyFields(h, mi))
BY DEF Parses, FieldOK, Lo, Hi, Val, Step, AnyF, DailyFields

\* ... and "0 MM HH * * D" for every valid clock time and day number.
LEMMA WeekdayParses ==
    ASSUME NEW h \in 0..23, NEW mi \in 0..59, NEW dow \in 0..6
    PROVE  Parses(WeekdayFields(h, mi, dow))
BY DEF Parses, FieldOK, Lo, Hi, Val, AnyF, WeekdayFields

\* Minute m of the week is at clock time HH:MM exactly when it is that
\* time on one of the seven days.
LEMMA ClockTimeOfWeek ==
    ASSUME NEW h \in 0..23, NEW mi \in 0..59, NEW m \in Week
    PROVE  (m % 60 = mi /\ (m \div 60) % 24 = h)
             <=> m \in DailyMinutes(h, mi)
<1>0. m \in 0..10079
  BY SMTT(120) DEF Week
<1>1. ASSUME m % 60 = mi, (m \div 60) % 24 = h
      PROVE  m \in DailyMinutes(h, mi)
  <2>1. m \div 1440 \in 0..6
    BY <1>0, SMTT(30)
  <2>2. m = (m \div 60) * 60 + mi
    BY <1>0, <1>1
  <2>3. m \div 60 = ((m \div 60) \div 24) * 24 + h
    BY <1>0, <1>1
  <2>4. (m \div 60) \div 24 = m \div 1440
    BY <1>0
  <2>5. m = (m \div 1440) * 1440 + h * 60 + mi
    BY <1>0, <2>2, <2>3, <2>4
  <2>6. \E d \in 0..6 : m = d * 1440 + h * 60 + mi
    BY <1>0, <2>1, <2>5
  <2>. QED  BY <2>6, ZenonT(60) DEF DailyMinutes
<1>2. ASSUME NEW d \in 0..6, m = d * 1440 + h * 60 + mi
      PROVE  m % 60 = mi /\ (m \div 60) % 24 = h
  <2>1. m \div 60 = d * 24 + h
    BY <1>2
  <2>. QED  BY <1>2, <2>1
<1>. QED  BY <1>1, <1>2 DEF DailyMinutes

\* The minutes DailyMinutes names all lie in the week.
LEMMA DailyMinutesInWeek ==
    ASSUME NEW h \in 0..23, NEW mi \in 0..59
    PROVE  DailyMinutes(h, mi) \subseteq Week
BY DEF DailyMinutes, Week

\* A minute of the week lies on the day the offset it is at names.
LEMMA DayOfDailyMinute ==
    ASSUME NEW h \in 0..23, NEW mi \in 0..59, NEW d \in 0..6
    PROVE  (d * 1440 + h * 60 + mi) \div 1440 = d
BY SMTT(30)

\* "0 MM HH */1 * *" fires at HH:MM on each of the seven days and at no
\* other minute of the week.
LEMMA DailyFirings ==
    ASSUME NEW h \in 0..23, NEW mi \in 0..59
    PROVE  Firings(DailyFields(h, mi)) = DailyMinutes(h, mi)
<1>. DEFINE F == DailyFields(h, mi)
<1>1. Parses(F)
  BY DailyParses
<1>2. ASSUME NEW m \in Week
      PROVE  (\A i \in 1..6 : Matches(F[i], i, TimeOf(m)[i]))
               <=> (m % 60 = mi /\ (m \div 60) % 24 = h)
  <2>1. m \in 0..10079
    BY DEF Week
  <2>2. TimeOf(m) = <<0, m % 60, (m \div 60) % 24, m \div 1440 + 1, 1, m \div 1440>>
    BY DEF TimeOf
  <2>3. (m \div 1440 + 1 - 1) % 1 = 0
    BY <2>1
  <2>4. Matches(F[1], 1, TimeOf(m)[1])
    BY <2>2 DEF Matches, DailyFields, Val
  <2>5. Matches(F[2], 2, TimeOf(m)[2]) <=> m % 60 = mi
    BY <2>2 DEF Matches, DailyFields, Val
  <2>6. Matches(F[3], 3, TimeOf(m)[3]) <=> (m \div 60) % 24 = h
    BY <2>2 DEF Matches, DailyFields, Val
  <2>7. Matches(F[4], 4, TimeOf(m)[4])
    BY <2>1, <2>2, <2>3 DEF Matches, Lo, DailyFields, Step
  <2>8. Matches(F[5], 5, TimeOf(m)[5]) /\ Matches(F[6], 6, TimeOf(m)[6])
    BY DEF Matches, DailyFields, AnyF
  <2>. QED  BY <2>4, <2>5, <2>6, <2>7, <2>8
<1>3. \A m \in Week : (\A i \in 1..6 : Matches(F[i], i, TimeOf(m)[i]))
                        <=> m \in DailyMinutes(h, mi)
  BY <1>2, ClockTimeOfWeek
<1>. QED  BY <1>1, <1>3, DailyMinutesInWeek DEF Firings

\* "0 MM HH * * D" fires at HH:MM on day D and at no other minute.
LEMMA WeekdayFirings ==
    ASSUME NEW h \in 0..23, NEW mi \in 0..59, NEW dow \in 0..6
    PROVE  Firings(WeekdayFields(h, mi, dow)) = WeekdayMinutes(h, mi, dow)
<1>. DEFINE F == WeekdayFields(h, mi, dow)
<1>1. Parses(F)
  BY WeekdayParses
<1>2. ASSUME NEW m \in Week
      PROVE  (\A i \in 1..6 : Matches(F[i], i, TimeOf(m)[i]))
               <=> (m % 60 = mi /\ (m \div 60) % 24 = h /\ m \div 1440 = dow)
  <2>1. TimeOf(m) = <<0, m % 60, (m \div 60) % 24, m \div 1440 + 1, 1, m \div 1440>>
    BY DEF TimeOf
  <2>2. Matches(F[1], 1, TimeOf(m)[1])
    BY <2>1 DEF Matches, WeekdayFields, Val
  <2>3. Matches(F[2], 2, TimeOf(m)[2]) <=> m % 60 = mi
    BY <2>1 DEF Matches, WeekdayFields, Val
  <2>4. Matches(F[3], 3, TimeOf(m)[3]) <=> (m \div 60) % 24 = h
    BY <2>1 DEF Matches, WeekdayFields, Val
  <2>5. Matches(F[4], 4, TimeOf(m)[4]) /\ Matches(F[5], 5, TimeOf(m)[5])
    BY DEF Matches, WeekdayFields, AnyF
  <2>6. Matches(F[6], 6, TimeOf(m)[6]) <=> m \div 1440 = dow
    BY <2>1 DEF Matches, WeekdayFields, Val
  <2>. QED  BY <2>2, <2>3, <2>4, <2>5, <2>6
<1>3. ASSUME NEW m \in Week
      PROVE  (m % 60 = mi /\ (m \div 60) % 24 = h /\ m \div 1440 = dow)
               <=> m = dow * 1440 + h * 60 + mi
  <2>1. ASSUME m % 60 = mi, (m \div 60) % 24 = h, m \div 1440 = dow
        PROVE  m = dow * 1440 + h * 60 + mi
    <3>1. PICK d \in 0..6 : m = d * 1440 + h * 60 + mi
      BY <2>1, ClockTimeOfWeek DEF DailyMinutes
    <3>2. d = dow
      BY <2>1, <3>1, DayOfDailyMinute
    <3>. QED  BY <3>1, <3>2
  <2>2. ASSUME m = dow * 1440 + h * 60 + mi
        PROVE  m % 60 = mi /\ (m \div 60) % 24 = h /\ m \div 1440 = dow
    <3>1. m \in DailyMinutes(h, mi)
      BY <2>2 DEF DailyMinutes
    <3>2. m % 60 = mi /\ (m \div 60) % 24 = h
      BY <3>1, ClockTimeOfWeek
    <3>. QED  BY <2>2, <3>2, DayOfDailyMinute
  <2>. QED  BY <2>1, <2>2
<1>4. dow * 1440 + h * 60 + mi \in Week
  BY SMTT(120) DEF Week
<1>. QED  BY <1>1, <1>2, <1>3, <1>4 DEF Firings, WeekdayMinutes

-----------------------------------------------------------------------------
(***************************************************************************)
(* The results.  They hold for every clock time a schedule can carry, and  *)
(* whatever interval count the descriptor happens to hold.                 *)
(***************************************************************************)

\* A daily schedule at a valid HH:MM: updateCronjob registers a string with
\* no conversion error, and both it and the string registerCronjob builds
\* at startup fire at HH:MM on each of the seven days and at no other
\* minute of the week (cronjob_handler.go, convertCronString, FrequencyDay).
THEOREM DailyScheduleFiresDaily ==
    ASSUME NEW h \in 0..23, NEW mi \in 0..59, NEW n
    PROVE  LET j == Timing(h, mi, "day", n)
           IN  /\ ~LiveCron(j).err
               /\ Firings(LiveCron(j).fields) = DailyMinutes(h, mi)
               /\ Firings(StartupCron(j)) = DailyMinutes(h, mi)
BY DailyConversion, DailyFirings

\* A weekday schedule at a valid HH:MM: both registration paths fire at
\* HH:MM on that weekday (the day-of-week number the switch writes) and at
\* no other minute of the week.
THEOREM WeekdayScheduleFiresOnItsDay ==
    ASSUME NEW h \in 0..23, NEW mi \in 0..59, NEW n, NEW f \in Weekdays
    PROVE  LET j == Timing(h, mi, f, n)
           IN  /\ ~LiveCron(j).err
               /\ Firings(LiveCron(j).fields) = WeekdayMinutes(h, mi, DowOf[f])
               /\ Firings(StartupCron(j)) = WeekdayMinutes(h, mi, DowOf[f])
<1>1. DowOf[f] \in 0..6
  BY DowRange
<1>2. Firings(WeekdayFields(h, mi, DowOf[f])) = WeekdayMinutes(h, mi, DowOf[f])
  BY <1>1, WeekdayFirings
<1>. QED  BY <1>2, WeekdayConversion

\* A clock-time schedule whose time does not split into two parts at ":":
\* updateCronjob gets the conversion error and registers nothing, and the
\* empty string registerCronjob hands to cronlib at startup never fires.
THEOREM MalformedTimeNeverFires ==
    ASSUME NEW t \in Seq(Nat), Len(t) # 2, NEW frequency, NEW n
    PROVE  LET j == [kind |-> "timing", time |-> t, frequency |-> frequency,
                     number |-> n]
           IN  /\ LiveCron(j).err
               /\ Firings(StartupCron(j)) = {}
<1>1. ConvertCronString("timing", t, frequency, n) = [err |-> TRUE, fields |-> <<>>]
  BY DEF ConvertCronString
<1>2. ~Parses(<<>>)
  BY DEF Parses
<1>. QED  BY <1>1, <1>2 DEF LiveCron, ConvertFixedTimeToCron, StartupCron, Firings

=============================================================================
