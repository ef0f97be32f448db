------------------------ MODULE CronScheduler_intent ------------------------
(***************************************************************************)
(* Proof that the cronlib engine agrees with the users' schedule settings  *)
(* once every message is handled (RecurringAgreesWithIntent), for every    *)
(* instance in which aslan's messages arrive in the order sent, calls to  *)
(* aslan do not fail and no trigger is of the legacy WorkflowCronjob type: *)
(* the constants of the cron_converge run.  Each hypothesis is needed:     *)
(* cron_resurrect (a failed disable call) and cron_legacy (a legacy       *)
(* trigger) violate the property, and so do reordered messages.            *)
(*                                                                         *)
(* The argument follows each owner.  While a message of the owner is       *)
(* pending, its last one carries the owner's current setting, and handling *)
(* it (in order) leaves the engine as the setting says.  While none is     *)
(* pending, the engine agrees with the setting when the service runs, a    *)
(* disabled owner's cronjobs are disabled in aslan, and what the startup   *)
(* fetches saw agrees with the setting: the enabled list names only        *)
(* enabled owners' triggers, the failsafe list names exactly them.         *)
(***************************************************************************)
EXTENDS CronScheduler_proofs

USE ConstantsAssumption DEF Ids

\* The run's constants: in-order delivery, reliable calls, no legacy triggers.
Reliable == InOrder = TRUE /\ RemoteFails = FALSE /\ LegacyIds = {}

\* A message of owner o waits in the inbox.
Pending(o) == \E n \in DOMAIN inbox : inbox[n].owner = o

\* Message n is the last message of owner o in the inbox.
LastOf(o, n) == /\ inbox[n].owner = o
                /\ \A m \in DOMAIN inbox : m > n => inbox[m].owner # o

\* List L names trigger i.
InList(L, i) == \E j \in L : j.id = i

\* A message names its owner's triggers only, and an enable names all of them.
MsgOK(m) == /\ \A j \in m.jobs : OwnerOf[j.id] = m.owner
            /\ m.type = "enable" => \A i \in IdsOf(m.owner) : InList(m.jobs, i)

MsgsOK == \A n \in DOMAIN inbox : MsgOK(inbox[n])

\* The last pending message of an owner carries the owner's setting.
LastAgrees ==
    \A o \in Owners, n \in DOMAIN inbox :
        LastOf(o, n) => (inbox[n].type = "enable" <=> def[o].on)

\* The engine is empty while the process is down and until the first select.
WipedBeforeJoin == (phase = "down" \/ (phase = "init" /\ joined = 0)) => recurring = {}

\* Recurring trigger i, whose owner has no pending message, is where its
\* owner's setting says, in aslan's collection, in the engine and in the
\* lists fetched at startup.
Settled(i) ==
    LET on == def[OwnerOf[i]].on IN
    /\ ~on => ~cronDB[i].enabled
    /\ phase = "running" => (i \in recurring <=> on)
    /\ (phase = "init" /\ joined = 1 /\ i \in recurring) => on
    /\ (phase = "init" /\ lf.st = "sent" /\ InList(lf.jobs, i)) => on
    /\ (phase = "init" /\ ff.st = "sent") => (InList(ff.jobs, i) <=> on)

AllSettled == \A i \in RecurringIds : ~Pending(OwnerOf[i]) => Settled(i)

\* The inductive invariant.
IntentInv == TypeOK /\ MsgsOK /\ LastAgrees /\ WipedBeforeJoin /\ AllSettled

-----------------------------------------------------------------------------

\* The initial state satisfies IntentInv: nothing enabled, nothing pending.
LEMMA InitIntent == Init => IntentInv
<1> SUFFICES ASSUME Init PROVE IntentInv
  OBVIOUS
<1>1. TypeOK
  BY InitTypeOK
<1>2. DOMAIN inbox = {}
  BY DEF Init
<1>3. MsgsOK /\ LastAgrees /\ WipedBeforeJoin
  BY <1>2 DEF Init, MsgsOK, LastAgrees, WipedBeforeJoin
<1>4. AllSettled
  BY DEF Init, AllSettled, Settled
<1>5. QED BY <1>1, <1>3, <1>4 DEF IntentInv

\* A step that leaves the settings, the collection, the inbox, the startup
\* state and the cronlib engine alone keeps the invariant.
LEMMA IntentFrame ==
    ASSUME IntentInv, TypeOK',
           UNCHANGED <<def, cronDB, inbox, phase, joined, lf, ff, recurring>>
    PROVE  IntentInv'
BY DEF IntentInv, MsgsOK, MsgOK, LastAgrees, LastOf, WipedBeforeJoin, AllSettled,
       Settled, Pending, InList

\* What leaves the inbox and the settings alone keeps the message conjuncts.
LEMMA InboxFrame ==
    ASSUME IntentInv, UNCHANGED <<def, inbox>>
    PROVE  /\ MsgsOK' /\ LastAgrees'
           /\ \A o \in Owners : Pending(o)' = Pending(o)
BY DEF IntentInv, MsgsOK, MsgOK, LastAgrees, LastOf, Pending, InList

\* The fetch of the enabled list (it cannot fail): a trigger of an owner
\* with no pending message is listed only when its cronjob is enabled,
\* hence only when the owner's schedule is.
LEMMA FetchListIntent ==
    ASSUME Reliable, IntentInv, TypeOK', FetchList
    PROVE  IntentInv'
<1>1. lf' = [st |-> "sent", jobs |-> EnabledList]
      /\ UNCHANGED <<def, cronDB, inbox, phase, joined, ff, recurring>>
  BY DEF FetchList, Reliable
<1>2. \A i \in RecurringIds : InList(EnabledList, i) => cronDB[i].enabled
  BY DEF EnabledList, InList
<1>3. AllSettled'
  BY <1>1, <1>2 DEF IntentInv, AllSettled, Settled, Pending
<1>4. QED BY <1>1, <1>3, InboxFrame DEF IntentInv, WipedBeforeJoin

\* The fetch of the failsafe list names exactly the triggers of the owners
\* whose schedule is enabled.
LEMMA FetchFailsafeIntent ==
    ASSUME Reliable, IntentInv, TypeOK', FetchFailsafe
    PROVE  IntentInv'
<1>1. ff' = [st |-> "sent", jobs |-> FailsafeList]
      /\ UNCHANGED <<def, cronDB, inbox, phase, joined, lf, recurring>>
  BY DEF FetchFailsafe, Reliable
<1>2. \A i \in RecurringIds : InList(FailsafeList, i) <=> def[OwnerOf[i]].on
  <2> SUFFICES ASSUME NEW i \in RecurringIds
               PROVE  InList(FailsafeList, i) <=> def[OwnerOf[i]].on
    OBVIOUS
  <2>1. InList(FailsafeList, i) => def[OwnerOf[i]].on
    BY DEF FailsafeList, InList
  <2>2. def[OwnerOf[i]].on => [id |-> i, at |-> 0] \in FailsafeList
    BY DEF FailsafeList
  <2>3. QED BY <2>1, <2>2 DEF InList
<1>3. AllSettled'
  BY <1>1, <1>2 DEF IntentInv, AllSettled, Settled, Pending
<1>4. QED BY <1>1, <1>3, InboxFrame DEF IntentInv, WipedBeforeJoin

\* The first select registers the enabled list into an empty engine.
LEMMA JoinListIntent ==
    ASSUME Reliable, IntentInv, TypeOK', JoinList
    PROVE  IntentInv'
<1>1. /\ phase = "init" /\ joined = 0 /\ lf.st = "sent" /\ joined' = 1
      /\ recurring' = recurring \cup
            {j.id : j \in {k \in lf.jobs : k.id \in RecurringIds \ LegacyIds}}
      /\ UNCHANGED <<def, cronDB, inbox, phase, lf, ff>>
  BY DEF JoinList, RegisterCronjobs
<1>2. recurring = {}
  BY <1>1 DEF IntentInv, WipedBeforeJoin
<1>3. \A i \in recurring' : InList(lf.jobs, i)
  BY <1>1, <1>2 DEF InList
<1>4. AllSettled'
  BY <1>1, <1>3 DEF IntentInv, AllSettled, Settled, Pending
<1>5. QED BY <1>1, <1>4, InboxFrame DEF IntentInv, WipedBeforeJoin

\* The second select adds the failsafe list and starts serving: the engine
\* then holds a settled trigger exactly when its owner's schedule is on.
LEMMA JoinFailsafeIntent ==
    ASSUME Reliable, IntentInv, TypeOK', JoinFailsafe
    PROVE  IntentInv'
<1>1. /\ phase = "init" /\ joined = 1 /\ ff.st = "sent" /\ phase' = "running"
      /\ recurring' = recurring \cup
            {j.id : j \in {k \in ff.jobs : k.id \in RecurringIds \ LegacyIds}}
      /\ UNCHANGED <<def, cronDB, inbox, joined, lf, ff>>
  BY DEF JoinFailsafe, RegisterCronjobs
<1>2. \A i \in RecurringIds : i \in recurring' <=> (i \in recurring \/ InList(ff.jobs, i))
  BY <1>1 DEF Reliable, InList
<1>3. AllSettled'
  BY <1>1, <1>2 DEF IntentInv, AllSettled, Settled, Pending
<1>4. QED BY <1>1, <1>3, InboxFrame DEF IntentInv, WipedBeforeJoin

\* The fatal timeout and a crash wipe both engines.
LEMMA DownIntent ==
    ASSUME IntentInv, TypeOK', InitTimeoutFatal \/ Crash
    PROVE  IntentInv'
<1>1. phase' = "down" /\ recurring' = {}
      /\ UNCHANGED <<def, cronDB, inbox, joined, lf, ff>>
  BY DEF InitTimeoutFatal, Crash, Wipe
<1>2. AllSettled'
  BY <1>1 DEF IntentInv, AllSettled, Settled, Pending
<1>3. QED BY <1>1, <1>2, InboxFrame DEF IntentInv, WipedBeforeJoin

\* A restart starts from the wiped engine with both fetches pending.
LEMMA RestartIntent ==
    ASSUME IntentInv, TypeOK', Restart
    PROVE  IntentInv'
<1>1. /\ phase = "down" /\ phase' = "init" /\ joined' = 0
      /\ lf'.st = "pending" /\ ff'.st = "pending"
      /\ UNCHANGED <<def, cronDB, inbox, recurring>>
  BY DEF Restart
<1>2. recurring = {}
  BY <1>1 DEF IntentInv, WipedBeforeJoin
<1>3. AllSettled'
  BY <1>1 DEF IntentInv, AllSettled, Settled, Pending
<1>4. QED BY <1>1, <1>2, <1>3, InboxFrame DEF IntentInv, WipedBeforeJoin

\* A save in aslan: the owner's setting becomes d, a message M that carries
\* it is appended, and only the owner's cronjobs may change in aslan.
LEMMA AppendIntent ==
    ASSUME IntentInv, TypeOK', NEW o \in Owners, NEW M \in Msg, NEW d,
           M.owner = o, MsgOK(M), M.type = "enable" <=> d.on,
           def' = [def EXCEPT ![o] = d],
           inbox' = Append(inbox, M),
           \A i \in Ids : OwnerOf[i] # o => cronDB'[i] = cronDB[i],
           UNCHANGED <<phase, joined, lf, ff, recurring>>
    PROVE  IntentInv'
<1> DEFINE L == Len(inbox)
<1>1. /\ inbox \in Seq(Msg) /\ DOMAIN inbox' = 1..(L + 1)
      /\ \A n \in 1..L : inbox'[n] = inbox[n]
      /\ inbox'[L + 1] = M
  BY DEF IntentInv, TypeOK
<1>2. MsgsOK'
  BY <1>1 DEF IntentInv, MsgsOK
<1>3. \A x \in Owners : x # o => (Pending(x)' <=> Pending(x))
  BY <1>1 DEF Pending
<1>4. LastAgrees'
  <2> SUFFICES ASSUME NEW x \in Owners, NEW n \in DOMAIN inbox', LastOf(x, n)'
               PROVE  inbox'[n].type = "enable" <=> def'[x].on
    BY DEF LastAgrees
  <2>1. CASE n = L + 1
    BY <1>1, <2>1 DEF LastOf, IntentInv, TypeOK
  <2>2. CASE n # L + 1
    <3>1. n \in 1..L /\ L + 1 > n
      BY <1>1, <2>2
    <3>2. x # o
      BY <1>1, <3>1 DEF LastOf
    <3>3. LastOf(x, n)
      BY <1>1, <3>1 DEF LastOf
    <3>4. QED BY <1>1, <3>1, <3>2, <3>3 DEF IntentInv, LastAgrees, TypeOK
  <2>3. QED BY <2>1, <2>2
<1>5. AllSettled'
  <2> SUFFICES ASSUME NEW i \in RecurringIds, ~Pending(OwnerOf[i])'
               PROVE  Settled(i)'
    BY DEF AllSettled
  <2>1. OwnerOf[i] # o
    BY <1>1 DEF Pending
  <2>2. Settled(i)
    BY <1>3, <2>1 DEF IntentInv, AllSettled
  <2>3. def'[OwnerOf[i]] = def[OwnerOf[i]] /\ cronDB'[i] = cronDB[i]
    BY <2>1 DEF IntentInv, TypeOK
  <2>4. QED BY <2>2, <2>3 DEF Settled
<1>6. QED BY <1>2, <1>4, <1>5 DEF IntentInv, WipedBeforeJoin

\* Enabling an owner's schedule in aslan (its cronjobs enabled at once).
LEMMA SaveEnableIntent ==
    ASSUME IntentInv, TypeOK', NEW o \in Owners, NEW a \in Instants, SaveEnable(o, a)
    PROVE  IntentInv'
<1> DEFINE M == [type |-> "enable", owner |-> o,
                 jobs |-> {[id |-> i, at |-> a] : i \in IdsOf(o)}]
<1>1. M \in Msg
  <2>1. {[id |-> i, at |-> a] : i \in IdsOf(o)} \subseteq TriggerRec
    BY DEF TriggerRec, IdsOf
  <2>2. QED BY <2>1 DEF Msg
<1>2. MsgOK(M)
  <2>1. \A j \in M.jobs : OwnerOf[j.id] = o
    BY DEF IdsOf
  <2>2. \A i \in IdsOf(o) : InList(M.jobs, i)
    <3> SUFFICES ASSUME NEW i \in IdsOf(o) PROVE InList(M.jobs, i)
      OBVIOUS
    <3>1. [id |-> i, at |-> a] \in M.jobs
      OBVIOUS
    <3>2. QED BY <3>1 DEF InList
  <2>3. QED BY <2>1, <2>2 DEF MsgOK
<1>4. \A i \in Ids : OwnerOf[i] # o => cronDB'[i] = cronDB[i]
  BY DEF SaveEnable
<1>5. QED BY <1>1, <1>2, <1>4, AppendIntent DEF SaveEnable

\* Disabling an owner's schedule in aslan (its cronjobs left to the service).
LEMMA SaveDisableIntent ==
    ASSUME IntentInv, TypeOK', NEW o \in Owners, SaveDisable(o)
    PROVE  IntentInv'
<1> DEFINE M == [type |-> "disable", owner |-> o, jobs |-> {}]
<1>1. M \in Msg /\ MsgOK(M)
  BY DEF Msg, MsgOK
<1>2. QED BY <1>1, AppendIntent DEF SaveDisable

\* Taking the first message off the inbox shifts the others down by one.
LEMMA RemoveFirst ==
    ASSUME NEW S, NEW s \in Seq(S), Len(s) >= 1
    PROVE  /\ DOMAIN RemoveAt(s, 1) = 1..(Len(s) - 1)
           /\ \A n \in 1..(Len(s) - 1) : RemoveAt(s, 1)[n] = s[n + 1]
BY DEF RemoveAt

\* The consumer handles the first message (delivery is in order).  When it
\* is its owner's last, the owner's triggers end up where the owner's
\* setting says: registered for an enable, stopped in the engine and
\* disabled in aslan (the call does not fail) for a disable.  The other
\* owners' triggers are not touched.
LEMMA HandleMessageIntent ==
    ASSUME Reliable, IntentInv, TypeOK', HandleMessage
    PROVE  IntentInv'
<1> DEFINE m == inbox[1]
           o == m.owner
           L == Len(inbox)
<1>1. /\ phase = "running" /\ 1 \in DOMAIN inbox
      /\ IF m.type = "enable" THEN UpdateCronjob(m) ELSE StopCronjob(m)
      /\ inbox' = RemoveAt(inbox, 1)
      /\ UNCHANGED <<def, phase, joined, lf, ff>>
  BY DEF HandleMessage, Deliverable, Reliable
<1>2. /\ inbox \in Seq(Msg) /\ L >= 1 /\ m \in Msg /\ o \in Owners /\ MsgOK(m)
      /\ DOMAIN inbox' = 1..(L - 1)
      /\ \A n \in 1..(L - 1) : inbox'[n] = inbox[n + 1]
  <2>1. inbox \in Seq(Msg) /\ L >= 1
    BY <1>1 DEF IntentInv, TypeOK
  <2>2. m \in Msg /\ MsgOK(m)
    BY <1>1, <2>1 DEF IntentInv, MsgsOK
  <2>3. o \in Owners
    BY <2>2 DEF Msg
  <2>4. /\ DOMAIN inbox' = 1..(L - 1)
        /\ \A n \in 1..(L - 1) : inbox'[n] = inbox[n + 1]
    BY <1>1, <2>1, RemoveFirst
  <2>5. QED BY <2>1, <2>2, <2>3, <2>4
<1>3. MsgsOK'
  BY <1>2 DEF IntentInv, MsgsOK
\* An owner left with no pending message either sent this one as its last,
\* or had none pending before.
<1>4. ASSUME NEW x \in Owners, ~Pending(x)'
      PROVE  /\ x = o => LastOf(o, 1)
             /\ x # o => ~Pending(x)
  <2>1. \A n \in 2..L : inbox[n].owner # x
    <3> SUFFICES ASSUME NEW n \in 2..L PROVE inbox[n].owner # x
      OBVIOUS
    <3>1. n - 1 \in 1..(L - 1) /\ inbox'[n - 1] = inbox[n]
      BY <1>2
    <3>2. QED BY <1>4, <3>1, <1>2 DEF Pending
  <2>2. QED BY <1>2, <2>1 DEF LastOf, Pending
<1>5. LastAgrees'
  <2> SUFFICES ASSUME NEW x \in Owners, NEW n \in DOMAIN inbox', LastOf(x, n)'
               PROVE  inbox'[n].type = "enable" <=> def'[x].on
    BY DEF LastAgrees
  <2>1. n \in 1..(L - 1) /\ inbox'[n] = inbox[n + 1]
    BY <1>2
  <2>2. LastOf(x, n + 1)
    <3>1. inbox[n + 1].owner = x
      BY <2>1 DEF LastOf
    <3>2. ASSUME NEW k \in DOMAIN inbox, k > n + 1 PROVE inbox[k].owner # x
      <4>1. k - 1 \in DOMAIN inbox' /\ k - 1 > n /\ inbox'[k - 1] = inbox[k]
        BY <1>2, <2>1, <3>2
      <4>2. QED BY <4>1 DEF LastOf
    <3>3. QED BY <3>1, <3>2 DEF LastOf
  <2>3. QED BY <1>1, <1>2, <2>1, <2>2 DEF IntentInv, LastAgrees
\* What the handler does to the cronlib engine and to aslan's collection.
<1>6. \A i \in RecurringIds :
         /\ OwnerOf[i] = o /\ m.type = "enable" => i \in recurring'
         /\ OwnerOf[i] = o /\ m.type # "enable" => i \notin recurring' /\ ~cronDB'[i].enabled
         /\ OwnerOf[i] # o => (i \in recurring' <=> i \in recurring) /\ cronDB'[i] = cronDB[i]
  <2> SUFFICES ASSUME NEW i \in RecurringIds
               PROVE  /\ OwnerOf[i] = o /\ m.type = "enable" => i \in recurring'
                      /\ OwnerOf[i] = o /\ m.type # "enable" =>
                            i \notin recurring' /\ ~cronDB'[i].enabled
                      /\ OwnerOf[i] # o =>
                            (i \in recurring' <=> i \in recurring) /\ cronDB'[i] = cronDB[i]
    OBVIOUS
  <2>1. CASE m.type = "enable"
    <3>1. /\ recurring' = recurring \cup {j.id : j \in {k \in m.jobs : k.id \in RecurringIds}}
          /\ cronDB' = cronDB
      BY <1>1, <2>1 DEF UpdateCronjob, RegisterRecurring
    <3>2. OwnerOf[i] = o => InList(m.jobs, i)
      BY <1>2, <2>1 DEF MsgOK, IdsOf
    <3>3. \A j \in m.jobs : OwnerOf[j.id] = o
      BY <1>2 DEF MsgOK
    <3>4. QED BY <2>1, <3>1, <3>2, <3>3 DEF InList
  <2>2. CASE m.type # "enable"
    <3>1. /\ recurring' = recurring \ IdsOf(o)
          /\ cronDB' = [x \in Ids |-> IF OwnerOf[x] = o
                                      THEN [enabled |-> FALSE, at |-> cronDB[x].at]
                                      ELSE cronDB[x]]
      BY <1>1, <2>2 DEF StopCronjob, StopLocal, Reliable
    <3>2. QED BY <2>2, <3>1 DEF IdsOf
  <2>3. QED BY <2>1, <2>2
<1>7. AllSettled'
  <2> SUFFICES ASSUME NEW i \in RecurringIds, ~Pending(OwnerOf[i])'
               PROVE  Settled(i)'
    BY DEF AllSettled
  <2>0. OwnerOf[i] \in Owners
    OBVIOUS
  <2>1. CASE OwnerOf[i] = o
    <3>1. m.type = "enable" <=> def[o].on
      BY <1>2, <2>0, <2>1, <1>4 DEF IntentInv, LastAgrees
    <3>2. QED BY <1>1, <1>6, <2>1, <3>1 DEF Settled
  <2>2. CASE OwnerOf[i] # o
    <3>1. Settled(i)
      BY <1>4, <2>0, <2>2 DEF IntentInv, AllSettled
    <3>2. QED BY <1>1, <1>6, <2>2, <3>1 DEF Settled
  <2>3. QED BY <2>1, <2>2
<1>8. QED BY <1>1, <1>3, <1>5, <1>7 DEF IntentInv, WipedBeforeJoin

\* Every step keeps IntentInv under the run's constants.
LEMMA NextIntent ==
    ASSUME Reliable, IntentInv, [Next]_vars
    PROVE  IntentInv'
<1>0. TypeOK'
  BY NextTypeOK DEF IntentInv
<1>1. CASE FetchList
  BY <1>0, <1>1, FetchListIntent
<1>2. CASE FetchFailsafe
  BY <1>0, <1>2, FetchFailsafeIntent
<1>3. CASE JoinList
  BY <1>0, <1>3, JoinListIntent
<1>4. CASE JoinFailsafe
  BY <1>0, <1>4, JoinFailsafeIntent
<1>5. CASE InitTimeoutFatal \/ Crash
  BY <1>0, <1>5, DownIntent
<1>6. CASE HandleMessage
  BY <1>0, <1>6, HandleMessageIntent
<1>7. ASSUME NEW o \in Owners, NEW a \in Instants, SaveEnable(o, a)
      PROVE  IntentInv'
  BY <1>0, <1>7, SaveEnableIntent
<1>8. ASSUME NEW o \in Owners, SaveDisable(o)
      PROVE  IntentInv'
  BY <1>0, <1>8, SaveDisableIntent
<1>9. CASE Restart
  BY <1>0, <1>9, RestartIntent
<1>10. CASE Tick \/ Finished \/ UNCHANGED vars
  <2>1. UNCHANGED <<def, cronDB, inbox, phase, joined, lf, ff, recurring>>
    BY <1>10 DEF Tick, Finished, vars
  <2>2. QED BY <1>0, <2>1, IntentFrame
<1>11. QED BY <1>1, <1>2, <1>3, <1>4, <1>5, <1>6, <1>7, <1>8, <1>9, <1>10 DEF Next

\* With messages handled in the order aslan sent them, calls to aslan that
\* do not fail and no legacy workflow triggers, whenever the service runs
\* with every message handled, the cronlib engine holds exactly the
\* recurring triggers of the owners whose schedule is enabled: updateCronjob,
\* stopCronjob and the two lists of InitExistedCronjob agree, across crashes
\* and restarts.
THEOREM IntentAgreement ==
    ASSUME Reliable
    PROVE  Spec => []RecurringAgreesWithIntent
<1>1. Init => IntentInv
  BY InitIntent
<1>2. IntentInv /\ [Next]_vars => IntentInv'
  BY NextIntent
<1>3. IntentInv => RecurringAgreesWithIntent
  BY DEF IntentInv, AllSettled, Settled, Pending, RecurringAgreesWithIntent, Quiescent
<1>4. QED BY <1>1, <1>2, <1>3, PTL DEF Spec

====
