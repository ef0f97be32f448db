------------------------ MODULE CronScheduler_proofs ------------------------
(***************************************************************************)
(* Proofs about CronScheduler for every value of its constants.            *)
(***************************************************************************)
EXTENDS CronScheduler, TLAPS

USE ConstantsAssumption DEF Ids

-----------------------------------------------------------------------------
(* Lemmas on the operators the model is built from.                        *)

\* Removing the k-th message of the inbox leaves a sequence of messages.
LEMMA RemoveAtType ==
    ASSUME NEW S, NEW s \in Seq(S), NEW k \in 1..Len(s)
    PROVE  RemoveAt(s, k) \in Seq(S)
BY DEF RemoveAt

\* The lists aslan serves are sets of trigger records.
LEMMA ListsType ==
    ASSUME TypeOK
    PROVE  EnabledList \subseteq TriggerRec /\ FailsafeList \subseteq TriggerRec
BY DEF TypeOK, EnabledList, FailsafeList, TriggerRec, Ids, Instants

\* Registering a list of trigger records keeps both engines and the
\* execution counts well typed.
LEMMA RegisterCronjobsType ==
    ASSUME TypeOK, NEW L \in SUBSET TriggerRec, RegisterCronjobs(L)
    PROVE  /\ recurring' \subseteq RecurringIds
           /\ oneshot' \in [OneShotIds -> [Instants -> Nat]]
           /\ firings' \in [OneShotIds -> [Instants -> [Incarnations -> Nat]]]
<1> DEFINE OS == {j \in L : j.id \in OneShotIds}
<1>1. recurring' \subseteq RecurringIds
  BY DEF RegisterCronjobs, TypeOK
<1>2. ASSUME NEW t \in OneShotIds, \E j \in OS : j.id = t
      PROVE  RecoverOneShotEntry(CHOOSE j \in OS : j.id = t) \in [Instants -> Nat]
  BY <1>2 DEF RecoverOneShotEntry, NoJob, TriggerRec
<1>3. oneshot' \in [OneShotIds -> [Instants -> Nat]]
  BY <1>2 DEF RegisterCronjobs, TypeOK, NoJob
<1>4. firings' \in [OneShotIds -> [Instants -> [Incarnations -> Nat]]]
  <2>1. firings \in [OneShotIds -> [Instants -> [Incarnations -> Nat]]]
    BY DEF TypeOK
  <2>2. QED BY <2>1 DEF RegisterCronjobs
<1>5. QED BY <1>1, <1>3, <1>4

\* Both halves of the local stop, the real one and its variants, keep the
\* engines well typed.
LEMMA StopLocalType ==
    ASSUME TypeOK, NEW ids, StopLocal(ids)
    PROVE  recurring' \subseteq RecurringIds /\ oneshot' \in [OneShotIds -> [Instants -> Nat]]
BY DEF StopLocal, TypeOK, NoJob

\* updateCronjob keeps both engines well typed and leaves aslan's collection alone.
LEMMA UpdateCronjobType ==
    ASSUME TypeOK, NEW m \in Msg, UpdateCronjob(m)
    PROVE  recurring' \subseteq RecurringIds /\ oneshot' \in [OneShotIds -> [Instants -> Nat]]
           /\ cronDB' = cronDB
<1>1. ASSUME NEW t \in OneShotIds, \E j \in m.jobs : j.id = t
      PROVE  RegisterReleasePlanJob(oneshot[t], CHOOSE j \in m.jobs : j.id = t)
               \in [Instants -> Nat]
  BY <1>1 DEF RegisterReleasePlanJob, NoJob, Msg, TriggerRec
<1>2. QED BY <1>1 DEF UpdateCronjob, RegisterRecurring, TypeOK

-----------------------------------------------------------------------------
(* Type correctness.                                                       *)

\* The initial state is well typed.
LEMMA InitTypeOK == Init => TypeOK
BY DEF Init, TypeOK, Fetch, NoJob, Instants, Incarnations

\* Every step of the cron service, aslan, the clock and crashes keeps the state well typed.
LEMMA NextTypeOK == TypeOK /\ [Next]_vars => TypeOK'
<1> SUFFICES ASSUME TypeOK, [Next]_vars PROVE TypeOK'
  OBVIOUS
<1>1. CASE FetchList
  BY <1>1, ListsType DEF FetchList, TypeOK, Fetch
<1>2. CASE FetchFailsafe
  BY <1>2, ListsType DEF FetchFailsafe, TypeOK, Fetch
<1>3. CASE JoinList
  BY <1>3, RegisterCronjobsType DEF JoinList, TypeOK, Fetch
<1>4. CASE JoinFailsafe
  BY <1>4, RegisterCronjobsType DEF JoinFailsafe, TypeOK, Fetch
<1>5. CASE InitTimeoutFatal
  BY <1>5 DEF InitTimeoutFatal, Wipe, TypeOK, NoJob
<1>6. CASE HandleMessage
  <2>1. PICK k \in Deliverable :
            /\ k \in DOMAIN inbox
            /\ IF inbox[k].type = "enable" THEN UpdateCronjob(inbox[k]) ELSE StopCronjob(inbox[k])
            /\ inbox' = RemoveAt(inbox, k)
    BY <1>6 DEF HandleMessage
  <2>2. k \in 1..Len(inbox) /\ inbox[k] \in Msg
    BY <2>1 DEF TypeOK
  <2>3. inbox' \in Seq(Msg)
    BY <2>1, <2>2, RemoveAtType DEF TypeOK
  <2>4. recurring' \subseteq RecurringIds /\ oneshot' \in [OneShotIds -> [Instants -> Nat]]
        /\ cronDB' \in [Ids -> [enabled : BOOLEAN, at : Instants]]
    <3>1. CASE inbox[k].type = "enable"
      BY <2>1, <2>2, <3>1, UpdateCronjobType DEF TypeOK
    <3>2. CASE inbox[k].type # "enable"
      <4>1. StopCronjob(inbox[k])
        BY <2>1, <3>2
      <4>2. StopLocal(IdsOf(inbox[k].owner))
        BY <4>1 DEF StopCronjob
      <4>3. cronDB' \in [Ids -> [enabled : BOOLEAN, at : Instants]]
        <5>1. [i \in Ids |-> IF OwnerOf[i] = inbox[k].owner
                             THEN [enabled |-> FALSE, at |-> cronDB[i].at]
                             ELSE cronDB[i]] \in [Ids -> [enabled : BOOLEAN, at : Instants]]
          BY DEF TypeOK
        <5>2. QED BY <4>1, <5>1 DEF StopCronjob, TypeOK
      <4>4. QED BY <4>2, <4>3, StopLocalType
    <3>3. QED BY <3>1, <3>2
  <2>5. QED BY <1>6, <2>3, <2>4 DEF HandleMessage, TypeOK
<1>7. ASSUME NEW o \in Owners, NEW a \in Instants, SaveEnable(o, a)
      PROVE  TypeOK'
  BY <1>7 DEF SaveEnable, TypeOK, Msg, TriggerRec, IdsOf
<1>8. ASSUME NEW o \in Owners, SaveDisable(o)
      PROVE  TypeOK'
  BY <1>8 DEF SaveDisable, TypeOK, Msg, TriggerRec
<1>9. CASE Tick
  <2>1. now \in Instants /\ now' \in Instants
    BY <1>9 DEF Tick, TypeOK, Instants
  <2>2. firings' \in [OneShotIds -> [Instants -> [Incarnations -> Nat]]]
    BY <1>9 DEF Tick, TypeOK
  <2>3. oneshot' \in [OneShotIds -> [Instants -> Nat]]
    BY <1>9, <2>1 DEF Tick, TypeOK
  <2>4. QED BY <1>9, <2>1, <2>2, <2>3 DEF Tick, TypeOK
<1>10. CASE Crash
  BY <1>10 DEF Crash, Wipe, TypeOK, NoJob
<1>11. CASE Restart
  <2>1. incarnation' \in Incarnations
    BY <1>11 DEF Restart, TypeOK, Incarnations
  <2>2. lf' \in Fetch /\ ff' \in Fetch /\ joined' \in {0, 1} /\ initStart' \in Instants
    BY <1>11 DEF Restart, TypeOK, Fetch
  <2>3. phase' \in {"init", "running", "down"}
    BY <1>11 DEF Restart
  <2>4. UNCHANGED <<now, def, cronDB, inbox, recurring, oneshot, firings, saves>>
    BY <1>11 DEF Restart
  <2>5. QED BY <2>1, <2>2, <2>3, <2>4 DEF TypeOK
<1>12. CASE Finished
  BY <1>12 DEF Finished, vars, TypeOK
<1>13. CASE UNCHANGED vars
  BY <1>13 DEF vars, TypeOK
<1>14. QED BY <1>1, <1>2, <1>3, <1>4, <1>5, <1>6, <1>7, <1>8, <1>9, <1>10,
              <1>11, <1>12, <1>13 DEF Next

\* Every reachable state of the cron service is well typed.
THEOREM TypeCorrect == Spec => []TypeOK
BY InitTypeOK, NextTypeOK, PTL DEF Spec

-----------------------------------------------------------------------------
(* No double firing of a one-shot action within an incarnation.            *)

\* The failsafe list a fetch goroutine holds names recurring triggers only.
FailsafeShape == \A j \in ff.jobs : j.id \in RecurringIds

\* The gocron entry of tag t for instant a, in the current incarnation: at
\* most one job, for an instant not yet passed and whose action has not
\* run; an action that ran did so for a passed instant; before the first
\* select of an incarnation and while the process is down nothing is
\* registered, and before the first select nothing has run.
EntryInv(t, a) ==
    /\ oneshot[t][a] \in {0, 1}
    /\ oneshot[t][a] = 1 => a >= now /\ firings[t][a][incarnation] = 0
    /\ firings[t][a][incarnation] = 1 => a < now
    /\ (phase = "down" \/ (phase = "init" /\ joined = 0)) => oneshot[t][a] = 0
    /\ (phase = "init" /\ joined = 0) => firings[t][a][incarnation] = 0

\* An action ran at most once per incarnation, and later incarnations have
\* run nothing.
FiringsInv(t, a, k) ==
    /\ firings[t][a][k] <= 1
    /\ k > incarnation => firings[t][a][k] = 0

\* The inductive invariant behind OneShotNoDoubleFire.
OneShotInv ==
    /\ TypeOK
    /\ FailsafeShape
    /\ \A t \in OneShotIds, a \in Instants : EntryInv(t, a)
    /\ \A t \in OneShotIds, a \in Instants, k \in Incarnations : FiringsInv(t, a, k)

\* The initial state satisfies OneShotInv: nothing registered, nothing run.
LEMMA InitOneShotInv == Init => OneShotInv
BY InitTypeOK DEF Init, OneShotInv, FailsafeShape, EntryInv, FiringsInv, NoJob, Instants,
                  Incarnations

\* A step that changes none of the variables EntryInv and FiringsInv read
\* preserves them.
LEMMA OneShotInvFrame ==
    ASSUME OneShotInv,
           UNCHANGED <<now, phase, incarnation, joined, oneshot, firings>>
    PROVE  /\ \A t \in OneShotIds, a \in Instants : EntryInv(t, a)'
           /\ \A t \in OneShotIds, a \in Instants, k \in Incarnations : FiringsInv(t, a, k)'
BY DEF OneShotInv, EntryInv, FiringsInv

\* The failsafe list fetched at startup names recurring triggers only.
LEMMA FailsafeListShape ==
    \A j \in FailsafeList : j.id \in RecurringIds
BY DEF FailsafeList

\* The first select registers the enabled list in an incarnation where
\* nothing is registered or has run: an instant it registers is not passed,
\* and one it runs at once is passed, so no action both runs and stays
\* registered.
LEMMA JoinListOneShotInv ==
    ASSUME OneShotInv, JoinList
    PROVE  /\ \A t \in OneShotIds, a \in Instants : EntryInv(t, a)'
           /\ \A t \in OneShotIds, a \in Instants, k \in Incarnations : FiringsInv(t, a, k)'
<1> DEFINE L == lf.jobs
           OS == {j \in L : j.id \in OneShotIds}
           Listed(t) == \E j \in OS : j.id = t
           RecOf(t) == CHOOSE j \in OS : j.id = t
           Fired(t, a) == [id |-> t, at |-> a] \in OS /\ FiresNow([id |-> t, at |-> a])
<1> HIDE DEF Fired
<1>1. /\ phase = "init" /\ joined = 0 /\ joined' = 1
      /\ UNCHANGED <<now, phase, incarnation>>
  BY DEF JoinList
<1>5. oneshot' = [t \in OneShotIds |->
                   IF Listed(t) THEN RecoverOneShotEntry(RecOf(t)) ELSE oneshot[t]]
  BY DEF JoinList, RegisterCronjobs
<1>6. firings' = [t \in OneShotIds |-> [a \in Instants |-> [k \in Incarnations |->
                   firings[t][a][k] + (IF k = incarnation /\ Fired(t, a) THEN 1 ELSE 0)]]]
  BY DEF JoinList, RegisterCronjobs, Fired
<1>0. ASSUME NEW t \in OneShotIds, NEW a \in Instants, Fired(t, a)
      PROVE  a < now
  <2>1. [id |-> t, at |-> a].at < now
    BY <1>0, Zenon DEF Fired, FiresNow
  <2>2. QED BY <2>1
<1>2. ASSUME NEW t \in OneShotIds, NEW a \in Instants
      PROVE  EntryInv(t, a)'
  <2>1. oneshot[t][a] = 0 /\ firings[t][a][incarnation] = 0
    BY <1>1 DEF OneShotInv, EntryInv
  <2>2. firings'[t][a][incarnation] = IF Fired(t, a) THEN 1 ELSE 0
    BY <1>6, <2>1 DEF OneShotInv, TypeOK
  <2>3. CASE Listed(t)
    <3>1. RecOf(t) \in OS /\ RecOf(t).id = t
      BY <2>3
    <3>2. RecOf(t).at \in Instants
      BY <3>1 DEF OneShotInv, TypeOK, Fetch, TriggerRec
    <3>3. oneshot'[t][a] = IF RecOf(t).at >= now /\ a = RecOf(t).at THEN 1 ELSE 0
      BY <1>5, <2>3, <3>2 DEF RecoverOneShotEntry, NoJob
    <3>4. oneshot'[t][a] = 1 => ~Fired(t, a)
      <4>1. oneshot'[t][a] = 1 => a >= now
        BY <3>3
      <4>2. Fired(t, a) => a < now
        BY <1>0
      <4>3. a \in Nat /\ now \in Nat
        BY DEF OneShotInv, TypeOK, Instants
      <4>4. QED BY <4>1, <4>2, <4>3
    <3>5. QED BY <1>0, <1>1, <2>2, <3>3, <3>4 DEF EntryInv
  <2>4. CASE ~Listed(t)
    <3>1. oneshot'[t][a] = 0
      BY <1>5, <2>1, <2>4
    <3>2. QED BY <1>0, <1>1, <2>2, <3>1 DEF EntryInv
  <2>5. QED BY <2>3, <2>4
<1>3. ASSUME NEW t \in OneShotIds, NEW a \in Instants, NEW k \in Incarnations
      PROVE  FiringsInv(t, a, k)'
  <2>1. firings[t][a][incarnation] = 0 /\ incarnation \in Incarnations
    BY <1>1 DEF OneShotInv, EntryInv, TypeOK
  <2>2. k \in Nat /\ incarnation \in Nat
    BY <2>1 DEF Incarnations
  <2>3. CASE k = incarnation
    <3>1. firings'[t][a][k] = IF Fired(t, a) THEN 1 ELSE 0
      BY <1>6, <2>1, <2>3
    <3>2. firings'[t][a][k] \in {0, 1}
      BY <3>1, Zenon
    <3>3. QED BY <1>1, <2>2, <2>3, <3>2 DEF FiringsInv
  <2>4. CASE k # incarnation
    <3>1. firings'[t][a][k] = firings[t][a][k]
      BY <1>6, <2>4 DEF OneShotInv, TypeOK
    <3>2. QED BY <1>1, <3>1 DEF OneShotInv, FiringsInv
  <2>5. QED BY <2>3, <2>4
<1>4. QED BY <1>2, <1>3

\* The clock moves on: the job due in this tick runs, for the first time in
\* the incarnation, and is removed.
LEMMA TickOneShotInv ==
    ASSUME OneShotInv, Tick
    PROVE  /\ \A t \in OneShotIds, a \in Instants : EntryInv(t, a)'
           /\ \A t \in OneShotIds, a \in Instants, k \in Incarnations : FiringsInv(t, a, k)'
<1>1. /\ now' = now + 1
      /\ UNCHANGED <<phase, incarnation, joined>>
      /\ firings' = [t \in OneShotIds |-> [a \in Instants |-> [k \in Incarnations |->
                       IF a = now /\ k = incarnation THEN firings[t][a][k] + oneshot[t][a]
                       ELSE firings[t][a][k]]]]
      /\ oneshot' = [t \in OneShotIds |-> [oneshot[t] EXCEPT ![now] = 0]]
  BY DEF Tick
<1>2. ASSUME NEW t \in OneShotIds, NEW a \in Instants
      PROVE  EntryInv(t, a)' /\ firings'[t][a][incarnation] <= 1
  <2>1. EntryInv(t, a) /\ now \in Instants /\ incarnation \in Incarnations
    BY DEF OneShotInv, TypeOK
  <2>2. CASE a = now
    <3>1. oneshot'[t][a] = 0
      BY <1>1, <2>2 DEF OneShotInv, TypeOK
    <3>2. firings'[t][a][incarnation] = firings[t][a][incarnation] + oneshot[t][a]
      BY <1>1, <2>1, <2>2
    <3>3. oneshot[t][a] \in {0, 1} /\ (oneshot[t][a] = 1 => firings[t][a][incarnation] = 0)
      BY <2>1 DEF EntryInv
    <3>4. firings[t][a][incarnation] \in Nat /\ firings[t][a][incarnation] <= 1
      BY <2>1 DEF OneShotInv, TypeOK, FiringsInv
    <3>5. (phase = "init" /\ joined = 0) => firings'[t][a][incarnation] = 0
      BY <2>1, <3>2 DEF EntryInv
    <3>6. firings'[t][a][incarnation] <= 1
      BY <3>2, <3>3, <3>4
    <3>7. firings'[t][a][incarnation] = 1 => a < now'
      BY <1>1, <2>1, <2>2 DEF Instants
    <3>8. QED BY <1>1, <3>1, <3>5, <3>6, <3>7 DEF EntryInv
  <2>3. CASE a # now
    <3>1. oneshot'[t][a] = oneshot[t][a]
      BY <1>1, <2>3 DEF OneShotInv, TypeOK
    <3>2. firings'[t][a][incarnation] = firings[t][a][incarnation]
      BY <1>1, <2>1, <2>3
    <3>3. firings[t][a][incarnation] <= 1
      BY <2>1 DEF OneShotInv, FiringsInv
    <3>4. QED BY <1>1, <2>1, <2>3, <3>1, <3>2, <3>3, SMTT(120) DEF EntryInv, OneShotInv, TypeOK, Instants
  <2>4. QED BY <2>2, <2>3
<1>3. ASSUME NEW t \in OneShotIds, NEW a \in Instants, NEW k \in Incarnations
      PROVE  FiringsInv(t, a, k)'
  <2>1. CASE k = incarnation
    <3>1. firings'[t][a][k] <= 1
      BY <1>2, <2>1
    <3>2. k \in Nat
      BY DEF Incarnations
    <3>3. QED BY <1>1, <2>1, <3>1, <3>2 DEF FiringsInv
  <2>2. CASE k # incarnation
    <3>1. firings'[t][a][k] = firings[t][a][k]
      BY <1>1, <2>2
    <3>2. QED BY <1>1, <3>1 DEF OneShotInv, FiringsInv
  <2>3. QED BY <2>1, <2>2
<1>4. QED BY <1>2, <1>3

\* A message registers a release plan only for an instant not yet passed,
\* which has not run in this incarnation, and a disable only removes jobs.
LEMMA HandleMessageOneShotInv ==
    ASSUME OneShotInv, HandleMessage
    PROVE  /\ \A t \in OneShotIds, a \in Instants : EntryInv(t, a)'
           /\ \A t \in OneShotIds, a \in Instants, k \in Incarnations : FiringsInv(t, a, k)'
<1>1. /\ phase = "running"
      /\ UNCHANGED <<now, phase, incarnation, joined, firings>>
  BY DEF HandleMessage
<1>2. PICK i \in Deliverable :
          /\ i \in DOMAIN inbox
          /\ IF inbox[i].type = "enable" THEN UpdateCronjob(inbox[i]) ELSE StopCronjob(inbox[i])
  BY DEF HandleMessage
<1> DEFINE m == inbox[i]
<1>3. m \in Msg
  BY <1>2 DEF OneShotInv, TypeOK
<1>4. ASSUME NEW t \in OneShotIds, NEW a \in Instants
      PROVE  /\ oneshot'[t][a] \in {0, 1}
             /\ oneshot'[t][a] = 1 => a >= now /\ firings[t][a][incarnation] = 0
  <2>1. /\ EntryInv(t, a) /\ FiringsInv(t, a, incarnation)
        /\ firings[t][a][incarnation] \in Nat /\ now \in Nat /\ a \in Nat
    BY DEF OneShotInv, TypeOK, Instants
  <2>2. firings[t][a][incarnation] = 1 => a < now
    BY <2>1 DEF EntryInv
  <2>3. CASE m.type = "enable" /\ \E j \in m.jobs : j.id = t
    <3> DEFINE J == CHOOSE j \in m.jobs : j.id = t
    <3>1. J \in m.jobs /\ J.at \in Instants
      BY <1>3, <2>3 DEF Msg, TriggerRec
    <3>2. oneshot'[t] = RegisterReleasePlanJob(oneshot[t], J)
      BY <1>2, <2>3 DEF UpdateCronjob
    <3>3. oneshot'[t][a] = IF J.at < now THEN 0 ELSE IF a = J.at THEN 1 ELSE 0
      BY <3>2 DEF RegisterReleasePlanJob, NoJob
    <3>4. QED BY <2>1, <2>2, <3>1, <3>3 DEF FiringsInv, Instants
  <2>4. CASE m.type = "enable" /\ ~\E j \in m.jobs : j.id = t
    <3>1. oneshot'[t] = oneshot[t]
      BY <1>2, <2>4 DEF UpdateCronjob
    <3>2. QED BY <2>1, <3>1 DEF EntryInv
  <2>5. CASE m.type # "enable"
    <3>1. oneshot'[t] = IF t \in IdsOf(m.owner) THEN NoJob ELSE oneshot[t]
      BY <1>2, <2>5 DEF StopCronjob, StopLocal
    <3>2. QED BY <2>1, <3>1 DEF EntryInv, NoJob
  <2>6. QED BY <2>3, <2>4, <2>5
<1>5. QED BY <1>1, <1>4 DEF OneShotInv, EntryInv, FiringsInv

\* Every step keeps OneShotInv.
LEMMA NextOneShotInv == OneShotInv /\ [Next]_vars => OneShotInv'
<1> SUFFICES ASSUME OneShotInv, [Next]_vars PROVE OneShotInv'
  OBVIOUS
<1> DEFINE Entries == \A t \in OneShotIds, a \in Instants : EntryInv(t, a)
           Firings == \A t \in OneShotIds, a \in Instants, k \in Incarnations : FiringsInv(t, a, k)
<1>1. TypeOK'
  BY NextTypeOK DEF OneShotInv
<1>2. FailsafeShape'
  <2>1. CASE FetchFailsafe
    BY <2>1, FailsafeListShape DEF FetchFailsafe, FailsafeShape
  <2>2. CASE Restart
    BY <2>2 DEF Restart, FailsafeShape
  <2>3. CASE ~FetchFailsafe /\ ~Restart
    BY <2>3 DEF OneShotInv, FailsafeShape, Next, vars, FetchList, JoinList, JoinFailsafe,
                InitTimeoutFatal, HandleMessage, SaveEnable, SaveDisable, Tick, Crash, Finished
  <2>4. QED BY <2>1, <2>2, <2>3
<1>3. Entries' /\ Firings'
  <2>1. CASE JoinList
    BY <2>1, JoinListOneShotInv
  <2>2. CASE Tick
    BY <2>2, TickOneShotInv
  <2>3. CASE HandleMessage
    BY <2>3, HandleMessageOneShotInv
  <2>4. CASE JoinFailsafe
    \* The failsafe list holds no release plan: nothing is registered or run.
    <3>1. {j \in ff.jobs : j.id \in OneShotIds} = {}
      BY DEF OneShotInv, FailsafeShape
    <3>2. oneshot' = oneshot /\ firings' = firings
      BY <2>4, <3>1 DEF JoinFailsafe, RegisterCronjobs, OneShotInv, TypeOK
    <3>3. joined = 1 /\ phase' = "running" /\ UNCHANGED <<now, incarnation>>
      BY <2>4 DEF JoinFailsafe
    <3>4. QED BY <3>2, <3>3 DEF OneShotInv, EntryInv, FiringsInv
  <2>5. CASE InitTimeoutFatal \/ Crash
    \* The process exits: the engines are wiped and nothing runs.
    <3>1. /\ phase' = "down" /\ oneshot' = [t \in OneShotIds |-> NoJob]
          /\ UNCHANGED <<now, incarnation, joined, firings>>
      BY <2>5 DEF InitTimeoutFatal, Crash, Wipe
    <3>2. QED BY <3>1 DEF OneShotInv, EntryInv, FiringsInv, NoJob
  <2>6. CASE Restart
    \* A new incarnation, which has run nothing, starts with empty engines.
    <3>1. /\ phase = "down" /\ phase' = "init" /\ joined' = 0
          /\ incarnation' = incarnation + 1 /\ incarnation' \in Incarnations
          /\ UNCHANGED <<now, oneshot, firings>>
      BY <2>6 DEF Restart, Incarnations, OneShotInv, TypeOK
    <3>2. incarnation \in Nat
      BY DEF OneShotInv, TypeOK, Incarnations
    <3>3. ASSUME NEW t \in OneShotIds, NEW a \in Instants
          PROVE  oneshot[t][a] = 0 /\ firings[t][a][incarnation + 1] = 0
      BY <3>1, <3>2 DEF OneShotInv, EntryInv, FiringsInv
    <3>4. ASSUME NEW t \in OneShotIds, NEW a \in Instants, NEW k \in Incarnations
          PROVE  FiringsInv(t, a, k)'
      <4>1. k \in Nat
        BY DEF Incarnations
      <4>2. QED BY <3>1, <3>2, <4>1 DEF OneShotInv, FiringsInv
    <3>5. QED BY <3>1, <3>3, <3>4 DEF EntryInv
  <2>7. CASE ~JoinList /\ ~Tick /\ ~HandleMessage /\ ~JoinFailsafe /\ ~InitTimeoutFatal
              /\ ~Crash /\ ~Restart
    <3>1. UNCHANGED <<now, phase, incarnation, joined, oneshot, firings>>
      BY <2>7 DEF Next, vars, FetchList, FetchFailsafe, SaveEnable, SaveDisable, Finished
    <3>2. QED BY <3>1, OneShotInvFrame
  <2>8. QED BY <2>1, <2>2, <2>3, <2>4, <2>5, <2>6, <2>7
<1>4. QED BY <1>1, <1>2, <1>3 DEF OneShotInv

\* Within one incarnation of the cron service, the release-plan action of a
\* one-shot trigger runs at most once for a given instant, for every value
\* of the constants: registerReleasePlanJob and registerCronjob remove the
\* tag's gocron job before adding one, a job is added only for an instant
\* not yet passed, and startup runs a late instant at once only in an
\* incarnation that has run nothing yet.
THEOREM NoDoubleFire == Spec => []OneShotNoDoubleFire
<1>1. OneShotInv => OneShotNoDoubleFire
  BY DEF OneShotInv, FiringsInv, OneShotNoDoubleFire
<1>2. QED BY <1>1, InitOneShotInv, NextOneShotInv, PTL DEF Spec

=============================================================================
