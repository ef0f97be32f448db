--------------------- MODULE CronScheduler_refinement ---------------------
(***************************************************************************)
(* Proof that the cron service implements the one-shot engine's promise,   *)
(* OneShotEngine, under the mapping of CronScheduler's OSE: the armed      *)
(* instants of a tag are those with a gocron job, the runs are firings.    *)
(* It rests on OneShotInv (CronScheduler_proofs) and on one more fact:     *)
(* a tag never holds jobs for two instants.                                *)
(***************************************************************************)
EXTENDS CronScheduler_proofs

USE ConstantsAssumption DEF Ids

\* The armed instants of each tag, as the refinement mapping sees them.
Sched == [t \in OneShotIds |-> {a \in Instants : oneshot[t][a] > 0}]

\* A gocron tag holds jobs for one instant at most: every registration path
\* (RemoveByTags then NewJob, RecoverOneShotEntry) replaces the tag's jobs.
SingleSlot ==
    \A t \in OneShotIds, a1, a2 \in Instants :
        oneshot[t][a1] > 0 /\ oneshot[t][a2] > 0 => a1 = a2

\* The invariant the refinement rests on.
RInv == OneShotInv /\ SingleSlot

-----------------------------------------------------------------------------
(* SingleSlot is preserved.                                                *)

\* An entry armed for one instant, or for none, keeps SingleSlot.
LEMMA OneInstantEntry ==
    ASSUME NEW e \in [Instants -> Nat], NEW b,
           \A a \in Instants : e[a] > 0 => a = b
    PROVE  \A a1, a2 \in Instants : e[a1] > 0 /\ e[a2] > 0 => a1 = a2
OBVIOUS

\* Every step keeps each gocron tag to one instant at most.
LEMMA NextSingleSlot == RInv /\ [Next]_vars => SingleSlot'
<1> SUFFICES ASSUME RInv, [Next]_vars PROVE SingleSlot'
  OBVIOUS
<1>0. TypeOK /\ TypeOK'
  BY NextTypeOK DEF RInv, OneShotInv
<1>1. CASE JoinList
  <2> DEFINE OS == {j \in lf.jobs : j.id \in OneShotIds}
             Listed(t) == \E j \in OS : j.id = t
             RecOf(t) == CHOOSE j \in OS : j.id = t
  <2>1. oneshot' = [t \in OneShotIds |->
                     IF Listed(t) THEN RecoverOneShotEntry(RecOf(t)) ELSE oneshot[t]]
    BY <1>1 DEF JoinList, RegisterCronjobs
  <2>2. ASSUME NEW t \in OneShotIds, Listed(t)
        PROVE  \A a \in Instants : oneshot'[t][a] > 0 => a = RecOf(t).at
    BY <2>1, <2>2 DEF RecoverOneShotEntry, NoJob
  <2>3. ASSUME NEW t \in OneShotIds, ~Listed(t)
        PROVE  oneshot'[t] = oneshot[t]
    BY <2>1, <2>3
  <2>4. oneshot' \in [OneShotIds -> [Instants -> Nat]]
    BY <1>0 DEF TypeOK
  <2>5. ASSUME NEW t \in OneShotIds
        PROVE  \A a1, a2 \in Instants :
                   oneshot'[t][a1] > 0 /\ oneshot'[t][a2] > 0 => a1 = a2
    <3>1. CASE Listed(t)
      BY <2>2, <2>4, <3>1, OneInstantEntry
    <3>2. CASE ~Listed(t)
      <4>1. SingleSlot
        BY DEF RInv
      <4>. QED  BY <2>3, <3>2, <4>1 DEF SingleSlot
    <3>. QED  BY <3>1, <3>2
  <2>6. QED BY <2>5 DEF SingleSlot
<1>2. CASE Tick
  <2>1. oneshot' = [t \in OneShotIds |-> [oneshot[t] EXCEPT ![now] = 0]]
    BY <1>2 DEF Tick
  <2>2. ASSUME NEW t \in OneShotIds, NEW a \in Instants
        PROVE  oneshot'[t][a] > 0 => oneshot[t][a] > 0
    BY <1>0, <2>1 DEF TypeOK
  <2>3. QED BY <2>2 DEF SingleSlot, RInv
<1>3. CASE HandleMessage
  <2>1. PICK i \in Deliverable :
            /\ i \in DOMAIN inbox
            /\ IF inbox[i].type = "enable" THEN UpdateCronjob(inbox[i])
                                           ELSE StopCronjob(inbox[i])
    BY <1>3 DEF HandleMessage
  <2> DEFINE m == inbox[i]
  <2>2. m \in Msg
    BY <2>1, <1>0 DEF TypeOK
  <2>3. ASSUME NEW t \in OneShotIds, NEW a1 \in Instants, NEW a2 \in Instants,
               oneshot'[t][a1] > 0, oneshot'[t][a2] > 0
        PROVE  a1 = a2
    <3>1. CASE m.type = "enable" /\ \E j \in m.jobs : j.id = t
      <4> DEFINE J == CHOOSE j \in m.jobs : j.id = t
      <4>1. oneshot'[t] = RegisterReleasePlanJob(oneshot[t], J)
        BY <2>1, <3>1 DEF UpdateCronjob
      <4>2. \A a \in Instants : oneshot'[t][a] > 0 => a = J.at
        BY <4>1 DEF RegisterReleasePlanJob, NoJob
      <4>3. QED BY <2>3, <4>2
    <3>2. CASE m.type = "enable" /\ ~\E j \in m.jobs : j.id = t
      <4>1. oneshot'[t] = oneshot[t]
        BY <2>1, <3>2 DEF UpdateCronjob
      <4>2. QED BY <2>3, <4>1 DEF RInv, SingleSlot
    <3>3. CASE m.type # "enable"
      <4>1. oneshot'[t] = IF t \in IdsOf(m.owner) THEN NoJob ELSE oneshot[t]
        BY <2>1, <3>3 DEF StopCronjob, StopLocal
      <4>2. QED BY <2>3, <4>1 DEF RInv, SingleSlot, NoJob
    <3>4. QED BY <3>1, <3>2, <3>3
  <2>4. QED BY <2>3 DEF SingleSlot
<1>4. CASE JoinFailsafe
  <2>1. {j \in ff.jobs : j.id \in OneShotIds} = {}
    BY DEF RInv, OneShotInv, FailsafeShape
  <2>2. oneshot' = oneshot
    BY <1>4, <2>1 DEF JoinFailsafe, RegisterCronjobs, TypeOK, RInv, OneShotInv
  <2>3. QED BY <2>2 DEF RInv, SingleSlot
<1>5. CASE InitTimeoutFatal \/ Crash
  BY <1>5 DEF InitTimeoutFatal, Crash, Wipe, SingleSlot, NoJob
<1>6. CASE ~JoinList /\ ~Tick /\ ~HandleMessage /\ ~JoinFailsafe /\ ~InitTimeoutFatal
           /\ ~Crash
  <2>1. oneshot' = oneshot
    BY <1>6 DEF Next, vars, FetchList, FetchFailsafe, SaveEnable, SaveDisable, Restart,
                Finished
  <2>2. QED BY <2>1 DEF RInv, SingleSlot
<1>7. QED BY <1>1, <1>2, <1>3, <1>4, <1>5, <1>6

\* Initially no tag holds any instant.
LEMMA InitSingleSlot == Init => SingleSlot
BY DEF Init, SingleSlot, NoJob

\* RInv holds in every state of the cron service.
LEMMA RInvHolds == Spec => []RInv
<1>1. Init => RInv
  BY InitOneShotInv, InitSingleSlot DEF RInv
<1>2. RInv /\ [Next]_vars => RInv'
  BY NextOneShotInv, NextSingleSlot DEF RInv
<1>3. QED BY <1>1, <1>2, PTL DEF Spec

-----------------------------------------------------------------------------
(* Each step of the cron service is a step of the one-shot engine.         *)

\* A set of instants with at most one element is a slot.
LEMMA SingleIsSlot ==
    ASSUME NEW S \in SUBSET Instants, \A a1, a2 \in S : a1 = a2
    PROVE  S \in OSE!Slots
<1>1. CASE S = {}
  BY <1>1 DEF OSE!Slots
<1>2. CASE S # {}
  <2>1. PICK a \in S : TRUE
    BY <1>2
  <2>2. S = {a}
    BY <2>1
  <2>3. QED BY <2>2 DEF OSE!Slots, OSE!Instants, Instants
<1>3. QED BY <1>1, <1>2

\* After any step, every tag holds a slot armed for an instant not passed.
LEMMA SchedShape ==
    ASSUME RInv'
    PROVE  /\ Sched' \in [OneShotIds -> OSE!Slots]
           /\ \A t \in OneShotIds : \A a \in Sched'[t] : a >= now'
<1>1. ASSUME NEW t \in OneShotIds
      PROVE  Sched'[t] \in OSE!Slots
  <2>1. \A a1, a2 \in Sched'[t] : a1 = a2
    BY DEF Sched, RInv, SingleSlot
  <2>2. Sched'[t] \in SUBSET Instants
    BY DEF Sched
  <2>3. QED BY <2>1, <2>2, SingleIsSlot
<1>2. ASSUME NEW t \in OneShotIds, NEW a \in Sched'[t]
      PROVE  a >= now'
  <2>1. a \in Instants /\ oneshot'[t][a] > 0
    BY DEF Sched
  <2>2. oneshot'[t][a] \in {0, 1}
    BY <2>1 DEF RInv, OneShotInv, EntryInv
  <2>3. oneshot'[t][a] = 1
    BY <2>1, <2>2
  <2>4. QED BY <2>1, <2>3 DEF RInv, OneShotInv, EntryInv
<1>3. QED BY <1>1, <1>2 DEF Sched

\* A step that rearms tags without moving the clock or the incarnation, and
\* runs the late actions L at once, is a Rearm step.
LEMMA RearmStep ==
    ASSUME RInv', now' = now, incarnation' = incarnation,
           NEW L \in SUBSET OSE!LateOK,
           firings' = [t \in OneShotIds |-> [a \in Instants |-> [k \in Incarnations |->
                         firings[t][a][k] + (IF k = incarnation /\ <<t, a>> \in L
                                             THEN 1 ELSE 0)]]]
    PROVE  OSE!Rearm
<1>1. /\ Sched' \in [OneShotIds -> OSE!Slots]
      /\ \A t \in OneShotIds : OSE!Armable(Sched'[t])
  BY SchedShape DEF OSE!Armable
<1>2. \E LL \in SUBSET OSE!LateOK :
          firings' = [t \in OneShotIds |-> [a \in OSE!Instants |-> [k \in OSE!Incarnations |->
                        firings[t][a][k] + (IF k = incarnation /\ <<t, a>> \in LL
                                            THEN 1 ELSE 0)]]]
  <2>1. OSE!Instants = Instants /\ OSE!Incarnations = Incarnations
    BY DEF OSE!Instants, OSE!Incarnations, Instants, Incarnations
  <2>2. QED BY <2>1
<1>3. QED BY <1>1, <1>2 DEF OSE!Rearm, Sched

\* A step that changes neither the clock, the incarnation, the gocron
\* engine nor the runs is a stutter of the one-shot engine.
LEMMA EngineStutter ==
    ASSUME UNCHANGED <<now, incarnation, oneshot, firings>>
    PROVE  UNCHANGED OSE!vars
BY DEF OSE!vars

\* A step that leaves the runs alone, the clock and the incarnation too, is
\* a Rearm step that runs nothing late.
LEMMA RearmNothingLate ==
    ASSUME TypeOK, RInv', UNCHANGED <<now, incarnation, firings>>
    PROVE  OSE!Rearm
<1>1. firings' = [t \in OneShotIds |-> [a \in Instants |-> [k \in Incarnations |->
                    firings[t][a][k] + (IF k = incarnation /\ <<t, a>> \in {} THEN 1 ELSE 0)]]]
  BY DEF TypeOK
<1>2. {} \in SUBSET OSE!LateOK
  OBVIOUS
<1>3. QED BY <1>1, <1>2, RearmStep

\* The first select of startup rearms the listed release plans and runs at
\* once those late by at most the grace window: a Rearm step whose late runs
\* are new in the incarnation.
LEMMA JoinListRefines ==
    ASSUME RInv, RInv', JoinList
    PROVE  OSE!Rearm
<1> DEFINE OS == {j \in lf.jobs : j.id \in OneShotIds}
           Fired(t, a) == [id |-> t, at |-> a] \in OS /\ FiresNow([id |-> t, at |-> a])
           L == {p \in OneShotIds \X Instants : Fired(p[1], p[2])}
<1> HIDE DEF Fired
<1>1. /\ phase = "init" /\ joined = 0
      /\ UNCHANGED <<now, incarnation>>
  BY DEF JoinList
<1>2. firings' = [t \in OneShotIds |-> [a \in Instants |-> [k \in Incarnations |->
                   firings[t][a][k] + (IF k = incarnation /\ Fired(t, a) THEN 1 ELSE 0)]]]
  BY DEF JoinList, RegisterCronjobs, Fired
<1>3. firings' = [t \in OneShotIds |-> [a \in Instants |-> [k \in Incarnations |->
                   firings[t][a][k] + (IF k = incarnation /\ <<t, a>> \in L THEN 1 ELSE 0)]]]
  BY <1>2
<1>4. ASSUME NEW p \in L
      PROVE  p \in OSE!LateOK
  <2>1. PICK t \in OneShotIds, a \in Instants : p = <<t, a>> /\ Fired(t, a)
    OBVIOUS
  <2>2. a < now /\ now - a <= Grace
    BY <2>1, Zenon DEF Fired, FiresNow
  <2>3. firings[t][a][incarnation] = 0
    BY <1>1 DEF RInv, OneShotInv, EntryInv
  <2>4. QED BY <2>1, <2>2, <2>3 DEF OSE!LateOK, OSE!Instants, Instants
<1>5. QED BY <1>1, <1>3, <1>4, RearmStep

\* The clock moves on: gocron runs the job of the tick that ends, which is
\* the one armed instant of its tag when there is one.
LEMMA TickRefines ==
    ASSUME RInv, Tick
    PROVE  OSE!Tick
<1>1. /\ now < MaxTime /\ now' = now + 1 /\ UNCHANGED incarnation
      /\ firings' = [t \in OneShotIds |-> [a \in Instants |-> [k \in Incarnations |->
                       IF a = now /\ k = incarnation THEN firings[t][a][k] + oneshot[t][a]
                       ELSE firings[t][a][k]]]]
      /\ oneshot' = [t \in OneShotIds |-> [oneshot[t] EXCEPT ![now] = 0]]
  BY DEF Tick
<1>2. TypeOK /\ now \in Instants
  BY DEF RInv, OneShotInv, TypeOK
<1>3. ASSUME NEW t \in OneShotIds
      PROVE  oneshot[t][now] = IF now \in Sched[t] THEN 1 ELSE 0
  <2>1. oneshot[t][now] \in {0, 1}
    BY <1>2 DEF RInv, OneShotInv, EntryInv
  <2>2. QED BY <1>2, <2>1 DEF Sched
<1>4. firings' = [t \in OneShotIds |-> [a \in Instants |-> [k \in Incarnations |->
                   firings[t][a][k] + (IF a = now /\ k = incarnation /\ now \in Sched[t]
                                       THEN 1 ELSE 0)]]]
  <2>1. ASSUME NEW t \in OneShotIds, NEW a \in Instants, NEW k \in Incarnations
        PROVE  (IF a = now /\ k = incarnation THEN firings[t][a][k] + oneshot[t][a]
                ELSE firings[t][a][k])
               = firings[t][a][k] + (IF a = now /\ k = incarnation /\ now \in Sched[t]
                                     THEN 1 ELSE 0)
    <3>1. firings[t][a][k] \in Nat
      BY <1>2 DEF TypeOK
    <3>2. QED BY <3>1, <1>3
  <2>2. QED BY <1>1, <2>1
<1>5. Sched' = [t \in OneShotIds |-> Sched[t] \ {now}]
  BY <1>1, <1>2 DEF Sched, TypeOK
<1>6. QED BY <1>1, <1>4, <1>5 DEF OSE!Tick, OSE!Instants, OSE!Incarnations, Instants,
                                   Incarnations, Sched

\* A restart begins a new incarnation with an empty engine: the process was
\* down, and a down process holds no gocron job.
LEMMA RestartRefines ==
    ASSUME RInv, Restart
    PROVE  OSE!NewIncarnation
<1>1. /\ phase = "down" /\ incarnation < MaxRestarts
      /\ incarnation' = incarnation + 1
      /\ UNCHANGED <<now, oneshot, firings>>
  BY DEF Restart
<1>2. \A t \in OneShotIds : Sched[t] = {}
  BY <1>1 DEF RInv, OneShotInv, EntryInv, Sched
<1>3. QED BY <1>1, <1>2 DEF OSE!NewIncarnation, Sched

\* Every step of the cron service is a step of the one-shot engine or leaves
\* the engine's state alone.
LEMMA StepRefines == RInv /\ RInv' /\ [Next]_vars => [OSE!Next]_OSE!vars
<1> SUFFICES ASSUME RInv, RInv', [Next]_vars PROVE [OSE!Next]_OSE!vars
  OBVIOUS
<1>0. TypeOK
  BY DEF RInv, OneShotInv
<1>1. CASE JoinList
  BY <1>1, JoinListRefines DEF OSE!Next
<1>2. CASE Tick
  BY <1>2, TickRefines DEF OSE!Next
<1>3. CASE Restart
  BY <1>3, RestartRefines DEF OSE!Next
<1>4. CASE HandleMessage \/ InitTimeoutFatal \/ Crash
  <2>1. UNCHANGED <<now, incarnation, firings>>
    BY <1>4 DEF HandleMessage, InitTimeoutFatal, Crash
  <2>2. QED BY <1>0, <2>1, RearmNothingLate DEF OSE!Next
<1>5. CASE JoinFailsafe
  \* The failsafe list holds no release plan.
  <2>1. {j \in ff.jobs : j.id \in OneShotIds} = {}
    BY DEF RInv, OneShotInv, FailsafeShape
  <2>2. UNCHANGED <<now, incarnation, oneshot, firings>>
    <3>1. RegisterCronjobs(ff.jobs) /\ UNCHANGED <<now, incarnation>>
      BY <1>5 DEF JoinFailsafe
    <3>2. oneshot' = oneshot
      <4>1. oneshot \in [OneShotIds -> [Instants -> Nat]]
        BY <1>0 DEF TypeOK
      <4>2. QED BY <3>1, <4>1, <2>1 DEF RegisterCronjobs
    <3>3. firings' = firings
      <4>1. firings \in [OneShotIds -> [Instants -> [Incarnations -> Nat]]]
        BY <1>0 DEF TypeOK
      <4>2. QED BY <3>1, <4>1, <2>1 DEF RegisterCronjobs
    <3>4. QED BY <3>1, <3>2, <3>3
  <2>3. QED BY <2>2, EngineStutter
<1>6. CASE ~JoinList /\ ~Tick /\ ~Restart /\ ~HandleMessage /\ ~InitTimeoutFatal /\ ~Crash
           /\ ~JoinFailsafe
  <2>1. UNCHANGED <<now, incarnation, oneshot, firings>>
    BY <1>6 DEF Next, vars, FetchList, FetchFailsafe, SaveEnable, SaveDisable, Finished
  <2>2. QED BY <2>1, EngineStutter
<1>7. QED BY <1>1, <1>2, <1>3, <1>4, <1>5, <1>6

\* The cron service implements the one-shot engine, for every value of the
\* constants: the gocron engine of registerReleasePlanJob, registerCronjob and
\* stopCronjob holds one instant per tag, never a passed one, runs an armed
\* action once when its instant passes, and runs a late one from the 30s
\* recovery window only once per incarnation and only within the window.
THEOREM Refinement == Spec => ImplementsOneShotEngine
<1>1. Init => OSE!Init
  BY DEF Init, OSE!Init, Sched, NoJob, OSE!Instants, OSE!Incarnations, Instants, Incarnations
<1>2. QED BY <1>1, RInvHolds, StepRefines, PTL DEF Spec, ImplementsOneShotEngine, OSE!Spec

=============================================================================
