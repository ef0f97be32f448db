--------------------------- MODULE CronScheduler ---------------------------
(***************************************************************************)
(* The cron service of the platform (cronjob_handler.go): two scheduling   *)
(* engines, the recurring cronlib engine keyed by trigger id and the       *)
(* one-shot gocron engine keyed by tag, filled at startup from two         *)
(* concurrent fetches (InitExistedCronjob) and kept up to date by enable / *)
(* disable messages from aslan (HandleMessage).  The remote side is aslan: *)
(* the owner's own schedule setting (def) and its cronjob collection       *)
(* (cronDB), which the cron service reads at startup and writes only      *)
(* through the disable call of stopCronjob.  The process can crash at any *)
(* time; both engines live in memory only.                                 *)
(*                                                                         *)
(* Time is a discrete clock.  A one-shot instant a stands for a moment     *)
(* strictly inside the tick (a, a+1): the engine fires it when the clock   *)
(* moves from a to a+1, "scheduleTime.Before(now)" is a < now, and a       *)
(* lateness of at most Grace ticks is now - a <= Grace.                    *)
(***************************************************************************)
EXTENDS Naturals, Sequences, FiniteSets

CONSTANTS
    Owners,        \* owning entities: workflows, tests, environments, release plans
    RecurringIds,  \* ids of cron-expression triggers (cronlib engine)
    OneShotIds,    \* ids of absolute-instant triggers (gocron engine, release plans)
    OwnerOf,       \* the owner of each trigger
    LegacyIds,     \* recurring triggers of the legacy WorkflowCronjob type
    MaxTime,       \* last value of the clock
    Grace,         \* recovery grace window of a late one-shot, in ticks (30s)
    InitTimeout,   \* InitializeThreshold, in ticks
    MaxSaves,      \* bound on the schedule saves made in aslan
    MaxRestarts,   \* bound on process incarnations
    RemoteFails,   \* whether a call to aslan may fail
    InOrder        \* whether aslan's messages are delivered in the order sent

Ids == RecurringIds \cup OneShotIds
Instants == 0..MaxTime
Incarnations == 1..MaxRestarts

ASSUME ConstantsAssumption ==
    /\ RecurringIds \cap OneShotIds = {}
    /\ OwnerOf \in [Ids -> Owners]
    /\ LegacyIds \subseteq RecurringIds
    /\ MaxTime \in Nat /\ Grace \in Nat /\ InitTimeout \in Nat
    /\ MaxSaves \in Nat /\ MaxRestarts \in Nat \ {0}
    /\ RemoteFails \in BOOLEAN /\ InOrder \in BOOLEAN

IdsOf(o) == {i \in Ids : OwnerOf[i] = o}

\* All triggers of an owner live in one engine (the message's ScheduleType).
OneShotOwner(o) == IdsOf(o) \subseteq OneShotIds

\* A trigger as carried by a message or returned by a list call.
TriggerRec == [id : Ids, at : Instants]

Msg == [type : {"enable", "disable"}, owner : Owners, jobs : SUBSET TriggerRec]

Fetch == [st : {"pending", "failed", "sent"}, jobs : SUBSET TriggerRec]

NoJob == [a \in Instants |-> 0]

VARIABLES
    now,          \* the clock
    def,          \* aslan: each owner's schedule setting (the user's intent)
    cronDB,       \* aslan: the cronjob collection the cron service lists
    inbox,        \* messages sent by aslan, not yet consumed
    phase,        \* "init" (InitExistedCronjob), "running", or "down"
    incarnation,  \* current process incarnation
    initStart,    \* clock when the current incarnation started (time.After)
    lf,           \* the goroutine fetching the enabled list
    ff,           \* the goroutine fetching the failsafe list
    joined,       \* how many of the two selects have completed
    recurring,    \* ids registered in the cronlib engine
    oneshot,      \* gocron engine: number of jobs per tag and instant
    firings,      \* executions of one-shot actions per tag, instant, incarnation
    saves         \* schedule saves made so far

vars == <<now, def, cronDB, inbox, phase, incarnation, initStart, lf, ff,
          joined, recurring, oneshot, firings, saves>>

TypeOK ==
    /\ now \in Instants
    /\ def \in [Owners -> [on : BOOLEAN, at : Instants]]
    /\ cronDB \in [Ids -> [enabled : BOOLEAN, at : Instants]]
    /\ inbox \in Seq(Msg)
    /\ phase \in {"init", "running", "down"}
    /\ incarnation \in Incarnations
    /\ initStart \in Instants
    /\ lf \in Fetch /\ ff \in Fetch
    /\ joined \in {0, 1}
    /\ recurring \subseteq RecurringIds
    /\ oneshot \in [OneShotIds -> [Instants -> Nat]]
    /\ firings \in [OneShotIds -> [Instants -> [Incarnations -> Nat]]]
    /\ saves \in 0..MaxSaves

-----------------------------------------------------------------------------
(* Mutations of the code below, each a plausible bug, used to show that    *)
(* the properties can fail.                                                *)

\* registerCronjob without the 30s bound: any late one-shot starts at once.
FiresNowAnyLateness(j) == j.at < now

\* registerReleasePlanJob without RemoveByTags before NewJob.
RegisterReleasePlanJobNoRemove(entry, j) ==
    IF j.at < now THEN entry ELSE [entry EXCEPT ![j.at] = @ + 1]

\* stopCronjob that only stops the gocron engine (schedule type ignored).
StopLocalUnixStampOnly(ids) ==
    /\ recurring' = recurring
    /\ oneshot' = [t \in OneShotIds |-> IF t \in ids THEN NoJob ELSE oneshot[t]]

\* registerCronjob without the scheduleTime.Before(time.Now()) branch: a
\* listed release plan is armed for its instant even when it has passed.
RecoverOneShotEntryAnyInstant(j) == [a \in Instants |-> IF a = j.at THEN 1 ELSE 0]

\* The failsafe goroutine of InitExistedCronjob without its send on
\* failsafeChan: the call succeeds and the list is dropped.
FetchFailsafeWithoutSend ==
    /\ phase = "init" /\ ff.st = "pending"
    /\ ff' = [st |-> "failed", jobs |-> {}]
    /\ UNCHANGED <<now, def, cronDB, inbox, phase, incarnation, initStart, lf,
                   joined, recurring, oneshot, firings, saves>>

\* updateCronjob that registers every job in cronlib whatever its schedule type.
UpdateCronjobIgnoringScheduleType(m) ==
    /\ recurring' = recurring \cup {j.id : j \in m.jobs}
    /\ oneshot' = oneshot
    /\ cronDB' = cronDB

-----------------------------------------------------------------------------
(* Lists served by aslan.                                                  *)

\* GET /cron/cronjob: every enabled cronjob with its schedule.
EnabledList == {[id |-> i, at |-> cronDB[i].at] : i \in {j \in Ids : cronDB[j].enabled}}

\* GET /cron/cronjob/failsafe: the triggers of the owners whose schedule is enabled.
FailsafeList == {[id |-> i, at |-> 0] : i \in {j \in RecurringIds : def[OwnerOf[j]].on}}

-----------------------------------------------------------------------------
(* registerCronjob, the startup registration of one listed trigger.        *)

\* A late one-shot is started immediately when it is late by at most 30s.
FiresNow(j) == j.at < now /\ now - j.at <= Grace

\* The gocron entry of a listed one-shot after RemoveByTags and NewJob.
RecoverOneShotEntry(j) ==
    IF j.at >= now THEN [a \in Instants |-> IF a = j.at THEN 1 ELSE 0] ELSE NoJob

\* registerCronjob called for every trigger of list L; a failed registration
\* is logged and skipped.  Legacy workflow triggers are not registered.
RegisterCronjobs(L) ==
    LET OS == {j \in L : j.id \in OneShotIds}
        Listed(t) == \E j \in OS : j.id = t
        RecOf(t) == CHOOSE j \in OS : j.id = t
    IN
    /\ recurring' = recurring \cup {j.id : j \in {k \in L : k.id \in RecurringIds \ LegacyIds}}
    /\ oneshot' = [t \in OneShotIds |->
                     IF Listed(t) THEN RecoverOneShotEntry(RecOf(t)) ELSE oneshot[t]]
    /\ firings' = [t \in OneShotIds |-> [a \in Instants |-> [k \in Incarnations |->
                     firings[t][a][k] +
                       (IF k = incarnation /\ [id |-> t, at |-> a] \in OS
                           /\ FiresNow([id |-> t, at |-> a]) THEN 1 ELSE 0)]]]

-----------------------------------------------------------------------------
(* Startup: InitExistedCronjob.                                            *)

Wipe ==
    /\ recurring' = {}
    /\ oneshot' = [t \in OneShotIds |-> NoJob]

\* The goroutine fetching the enabled list; after its retries are used up
\* it returns without sending.
FetchList ==
    /\ phase = "init" /\ lf.st = "pending"
    /\ \/ lf' = [st |-> "sent", jobs |-> EnabledList]
       \/ RemoteFails /\ lf' = [st |-> "failed", jobs |-> {}]
    /\ UNCHANGED <<now, def, cronDB, inbox, phase, incarnation, initStart, ff,
                   joined, recurring, oneshot, firings, saves>>

FetchFailsafe ==
    /\ phase = "init" /\ ff.st = "pending"
    /\ \/ ff' = [st |-> "sent", jobs |-> FailsafeList]
       \/ RemoteFails /\ ff' = [st |-> "failed", jobs |-> {}]
    /\ UNCHANGED <<now, def, cronDB, inbox, phase, incarnation, initStart, lf,
                   joined, recurring, oneshot, firings, saves>>

\* First select: the enabled list arrived; register it.
JoinList ==
    /\ phase = "init" /\ joined = 0 /\ lf.st = "sent"
    /\ RegisterCronjobs(lf.jobs)
    /\ joined' = 1
    /\ UNCHANGED <<now, def, cronDB, inbox, phase, incarnation, initStart, lf, ff, saves>>

\* Second select: the failsafe list arrived; register it and start serving.
JoinFailsafe ==
    /\ phase = "init" /\ joined = 1 /\ ff.st = "sent"
    /\ RegisterCronjobs(ff.jobs)
    /\ phase' = "running"
    /\ UNCHANGED <<now, def, cronDB, inbox, incarnation, initStart, lf, ff, joined, saves>>

\* Either select takes the shared timer once it has fired (even when the
\* list is also ready, select picks at random): log.Fatalf, the process exits.
InitTimeoutFatal ==
    /\ phase = "init" /\ now >= initStart + InitTimeout
    /\ phase' = "down"
    /\ Wipe
    /\ UNCHANGED <<now, def, cronDB, inbox, incarnation, initStart, lf, ff,
                   joined, firings, saves>>

-----------------------------------------------------------------------------
(* Live messages: HandleMessage.                                           *)

\* registerReleasePlanJob: the tag's jobs (entry) are removed by RemoveByTags,
\* then NewJob adds one unless the instant has passed.
RegisterReleasePlanJob(entry, j) ==
    IF j.at < now THEN NoJob ELSE [a \in Instants |-> IF a = j.at THEN 1 ELSE 0]

\* registerWorkFlowJob, registerTestJob, registerWorkFlowV4Job and their
\* environment variants: UpdateJobModel puts (or replaces) each id's job in
\* the cronlib engine.
RegisterRecurring(ids) == recurring \cup ids

\* updateCronjob: register every job of the message in its engine.
UpdateCronjob(m) ==
    /\ recurring' = RegisterRecurring({j.id : j \in {k \in m.jobs : k.id \in RecurringIds}})
    /\ oneshot' = [t \in OneShotIds |->
                     IF \E j \in m.jobs : j.id = t
                     THEN RegisterReleasePlanJob(oneshot[t], CHOOSE j \in m.jobs : j.id = t)
                     ELSE oneshot[t]]
    /\ UNCHANGED cronDB

\* The local half of stopCronjob: stop every listed trigger in the engine
\* named by the message's schedule type.
StopLocal(ids) ==
    /\ recurring' = recurring \ ids
    /\ oneshot' = [t \in OneShotIds |-> IF t \in ids THEN NoJob ELSE oneshot[t]]

\* stopCronjob: list the owner's cronjobs, stop them locally, then ask aslan
\* to disable them; a failed disable call is only logged.
StopCronjob(m) ==
    /\ StopLocal(IdsOf(m.owner))
    /\ \/ cronDB' = [i \in Ids |-> IF OwnerOf[i] = m.owner
                                   THEN [enabled |-> FALSE, at |-> cronDB[i].at]
                                   ELSE cronDB[i]]
       \/ RemoteFails /\ UNCHANGED cronDB

\* The message a delivery takes from the inbox.
Deliverable == IF InOrder THEN {1} ELSE DOMAIN inbox

RemoveAt(s, k) == [n \in 1..(Len(s) - 1) |-> IF n < k THEN s[n] ELSE s[n + 1]]

HandleMessage ==
    /\ phase = "running"
    /\ \E k \in Deliverable :
          LET m == inbox[k] IN
          /\ k \in DOMAIN inbox
          /\ IF m.type = "enable" THEN UpdateCronjob(m) ELSE StopCronjob(m)
          /\ inbox' = RemoveAt(inbox, k)
    /\ UNCHANGED <<now, def, phase, incarnation, initStart, lf, ff, joined, firings, saves>>

-----------------------------------------------------------------------------
(* aslan: a user saves an owner's schedule; aslan updates its records and  *)
(* sends the message.  An enable writes the cronjob collection at once; a  *)
(* disable leaves it to the cron service's disable call.                   *)

SaveEnable(o, a) ==
    /\ saves < MaxSaves
    /\ a >= now
    /\ OneShotOwner(o) \/ a = 0
    /\ def' = [def EXCEPT ![o] = [on |-> TRUE, at |-> a]]
    /\ cronDB' = [i \in Ids |-> IF OwnerOf[i] = o THEN [enabled |-> TRUE, at |-> a] ELSE cronDB[i]]
    /\ inbox' = Append(inbox, [type |-> "enable", owner |-> o,
                               jobs |-> {[id |-> i, at |-> a] : i \in IdsOf(o)}])
    /\ saves' = saves + 1
    /\ UNCHANGED <<now, phase, incarnation, initStart, lf, ff, joined, recurring, oneshot, firings>>

SaveDisable(o) ==
    /\ saves < MaxSaves
    /\ def' = [def EXCEPT ![o] = [on |-> FALSE, at |-> def[o].at]]
    /\ inbox' = Append(inbox, [type |-> "disable", owner |-> o, jobs |-> {}])
    /\ saves' = saves + 1
    /\ UNCHANGED <<now, cronDB, phase, incarnation, initStart, lf, ff, joined, recurring, oneshot, firings>>

-----------------------------------------------------------------------------
(* Time, crashes and restarts.                                             *)

\* The clock moves on; gocron runs every one-shot job due in this tick.
Tick ==
    /\ now < MaxTime
    /\ now' = now + 1
    /\ firings' = [t \in OneShotIds |-> [a \in Instants |-> [k \in Incarnations |->
                     IF a = now /\ k = incarnation THEN firings[t][a][k] + oneshot[t][a]
                     ELSE firings[t][a][k]]]]
    /\ oneshot' = [t \in OneShotIds |-> [oneshot[t] EXCEPT ![now] = 0]]
    /\ UNCHANGED <<def, cronDB, inbox, phase, incarnation, initStart, lf, ff,
                   joined, recurring, saves>>

Crash ==
    /\ phase # "down"
    /\ phase' = "down"
    /\ Wipe
    /\ UNCHANGED <<now, def, cronDB, inbox, incarnation, initStart, lf, ff,
                   joined, firings, saves>>

Restart ==
    /\ phase = "down" /\ incarnation < MaxRestarts
    /\ phase' = "init"
    /\ incarnation' = incarnation + 1
    /\ initStart' = now
    /\ lf' = [st |-> "pending", jobs |-> {}]
    /\ ff' = [st |-> "pending", jobs |-> {}]
    /\ joined' = 0
    /\ UNCHANGED <<now, def, cronDB, inbox, recurring, oneshot, firings, saves>>

\* The model's bounds are exhausted: the clock is at its end.
Finished == now = MaxTime /\ UNCHANGED vars

-----------------------------------------------------------------------------
Init ==
    /\ now = 0
    /\ def = [o \in Owners |-> [on |-> FALSE, at |-> 0]]
    /\ cronDB = [i \in Ids |-> [enabled |-> FALSE, at |-> 0]]
    /\ inbox = <<>>
    /\ phase = "init"
    /\ incarnation = 1
    /\ initStart = 0
    /\ lf = [st |-> "pending", jobs |-> {}]
    /\ ff = [st |-> "pending", jobs |-> {}]
    /\ joined = 0
    /\ recurring = {}
    /\ oneshot = [t \in OneShotIds |-> NoJob]
    /\ firings = [t \in OneShotIds |-> [a \in Instants |-> [k \in Incarnations |-> 0]]]
    /\ saves = 0

Next ==
    \/ FetchList \/ FetchFailsafe \/ JoinList \/ JoinFailsafe \/ InitTimeoutFatal
    \/ HandleMessage
    \/ \E o \in Owners, a \in Instants : SaveEnable(o, a)
    \/ \E o \in Owners : SaveDisable(o)
    \/ Tick \/ Crash \/ Restart
    \/ Finished

Spec == Init /\ [][Next]_vars

\* The fairness the code gives: the two fetch goroutines, the main goroutine
\* blocked in each select of InitExistedCronjob, and the message consumer
\* calling HandleMessage are runnable until they act, and the Go scheduler
\* runs every runnable goroutine.  Nothing forces the clock, the fatal
\* timeout, a save, a crash or a restart to happen.
FairSpec ==
    /\ Spec
    /\ WF_vars(FetchList) /\ WF_vars(FetchFailsafe)
    /\ WF_vars(JoinList) /\ WF_vars(JoinFailsafe)
    /\ WF_vars(HandleMessage)

-----------------------------------------------------------------------------
(* Properties.                                                             *)

\* Nothing is left to process: the service runs and the inbox is empty.
Quiescent == phase = "running" /\ inbox = <<>>

\* Once every message has been handled, a recurring trigger is registered
\* in the cronlib engine exactly when its owner's schedule is enabled in
\* aslan (updateCronjob / stopCronjob / InitExistedCronjob agree).
RecurringAgreesWithIntent ==
    Quiescent =>
        \A i \in RecurringIds : (i \in recurring) <=> def[OwnerOf[i]].on

\* Once every message has been handled, a release plan whose schedule is
\* enabled for an instant still ahead has exactly that instant registered
\* in the gocron engine, and nothing else is registered for it.
OneShotAgreesWithIntent ==
    Quiescent =>
        \A t \in OneShotIds :
            LET d == def[OwnerOf[t]] IN
            /\ (d.on /\ d.at >= now) => oneshot[t][d.at] > 0
            /\ \A a \in Instants : oneshot[t][a] > 0 => d.on /\ a = d.at

\* Every behaviour settles: from some point on the process is either down
\* for good, or running with every message handled and the cronlib engine
\* holding exactly the recurring triggers of the owners whose schedule is
\* enabled in aslan.  Startup completes on its own when aslan answers
\* (InitExistedCronjob), and the consumer drains the queue (HandleMessage).
EventuallyConverges ==
    <>[](\/ phase = "down"
         \/ /\ Quiescent
            /\ \A i \in RecurringIds : (i \in recurring) <=> def[OwnerOf[i]].on)

\* Within one process incarnation, the release-plan action of a one-shot
\* trigger runs at most once for a given instant (registerReleasePlanJob and
\* registerCronjob remove the old gocron job before adding one).
OneShotNoDoubleFire ==
    \A t \in OneShotIds, a \in Instants, k \in Incarnations : firings[t][a][k] <= 1

\* Across restarts too, the release-plan action for a given instant runs at
\* most once (the 30s recovery window is meant for a schedule missed during
\* a restart, cronjob_handler.go:428-431).
OneShotAtMostOnce ==
    /\ OneShotNoDoubleFire
    /\ \A t \in OneShotIds, a \in Instants, k1, k2 \in Incarnations :
          k1 # k2 => firings[t][a][k1] = 0 \/ firings[t][a][k2] = 0

\* The cron service implements the one-shot engine's promise (OneShotEngine):
\* every gocron tag holds at most one instant, never a past one, and its
\* release-plan action runs exactly once when the clock passes it, or at most
\* once per incarnation from the 30s recovery window (registerCronjob,
\* registerReleasePlanJob, stopCronjob and the crash all keep it).
OSE == INSTANCE OneShotEngine WITH
          inc <- incarnation,
          sched <- [t \in OneShotIds |-> {a \in Instants : oneshot[t][a] > 0}],
          fired <- firings

ImplementsOneShotEngine == OSE!Spec

========================================================================
