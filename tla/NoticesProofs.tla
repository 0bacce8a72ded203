--------------------------- MODULE NoticesProofs ---------------------------
(***************************************************************************)
(* Proofs about Notices, for any number of hooks, problems and things, any *)
(* names and every bound.                                                  *)
(***************************************************************************)
EXTENDS Notices, TLAPS

HookRecord == [step : {"idle", "open", "gather", "save", "queue"}, now : 0..MaxDays,
               res : BOOLEAN, failed : BOOLEAN, found : SUBSET Id,
               unset : SUBSET Thing, decisions : SUBSET Thing]

-----------------------------------------------------------------------------
(* Types *)

\* What the items are made by.
LEMMA ItemTypes ==
    /\ Pending \in Id /\ News \in Id
    /\ \A d \in 1..MaxDays : ErrorOf(d) \in Id
    /\ \A p \in Problem : Item("problem", p) \in Id
    /\ \A t \in Thing : Item("share", t) \in Id /\ Item("recorded", t) \in Id
<1>1. Pending \in Id BY DEF Id, Lasting
<1>2. News \in Id BY DEF Id, OneShots
<1>3. \A d \in 1..MaxDays : ErrorOf(d) \in Id BY DEF Id, Lasting
<1>4. \A p \in Problem : Item("problem", p) \in Id BY DEF Id, Lasting
<1>5. \A t \in Thing : Item("share", t) \in Id BY DEF Id, Lasting
<1>6. \A t \in Thing : Item("recorded", t) \in Id BY DEF Id, OneShots
<1> QED BY <1>1, <1>2, <1>3, <1>4, <1>5, <1>6

\* Lasting items are the items that are not one-shot.
LEMMA ItemKinds ==
    /\ \A i \in Lasting : i \in Id /\ ~oneShot(i)
    /\ \A i \in Id : ~oneShot(i) => i \in Lasting
    /\ \A t \in Thing : oneShot(Item("recorded", t))
    /\ oneShot(News)
BY DEF Id, OneShots, Lasting, oneShot, Item, ErrorOf, Pending, News

\* There is a day.
LEMMA MaxDaysType == MaxDays \in Nat /\ 1 <= MaxDays
<1>1. MaxDays \in Nat \ {0} BY NoticesAssumption, Zenon
<1> QED BY <1>1

\* The hook of a session that has none is a record.
LEMMA IdleTyped == Idle \in HookRecord
<1>1. 0 \in 0..MaxDays BY MaxDaysType
<1> QED BY <1>1, Zenon DEF Idle, HookRecord

\* A hook that starts, with what its sync found.
LEMMA StartedTyped ==
    ASSUME TypeOK, NEW h \in Hook, NEW res \in BOOLEAN, NEW failed \in BOOLEAN,
           NEW found \in SUBSET Id, Started(h, res, failed, found)
    PROVE  /\ hook' \in [Hook -> HookRecord]
           /\ \A x \in Hook : hook'[x].step # "idle" => day <= hook'[x].now + 1
<1> DEFINE r == [step |-> "open", now |-> day, res |-> res, failed |-> failed,
                 found |-> found, unset |-> {}, decisions |-> {}]
<1>1. r \in HookRecord
  <2>1. day \in 0..MaxDays
    BY MaxDaysType DEF TypeOK
  <2> QED BY <2>1, Zenon DEF HookRecord
<1>2. hook' = [hook EXCEPT ![h] = r]
  BY DEF Started
<1>3. hook \in [Hook -> HookRecord]
  BY DEF TypeOK, HookRecord
<1>4. r.now = day /\ day \in Nat
  BY DEF TypeOK
<1> HIDE DEF r
<1>5. hook' \in [Hook -> HookRecord]
  BY <1>1, <1>2, <1>3
<1>6. \A x \in Hook : hook'[x].step # "idle" => day <= hook'[x].now + 1
  BY <1>2, <1>3, <1>4 DEF TypeOK
<1> QED BY <1>5, <1>6

\* What is pending or new is an item.
LEMMA NowTyped == pendingNow \subseteq Id /\ newsNow \subseteq Id
BY ItemTypes DEF pendingNow, newsNow

\* So is what a hook gathers; what it decides about are things.
LEMMA GatheredTyped ==
    ASSUME TypeOK, NEW h \in Hook
    PROVE  /\ errors(h) \subseteq Id /\ standing \subseteq Id
           /\ offered(h) \subseteq Id /\ recorded(h) \subseteq Id /\ judged(h) \subseteq Thing
<1>1. errors(h) \subseteq Id
  <2> SUFFICES ASSUME hook[h].now > lastSync PROVE ErrorOf(hook[h].now) \in Id
    BY DEF errors
  <2>1. hook[h].now \in 0..MaxDays
    BY DEF TypeOK
  <2>2. day \in Nat /\ lastSync \in 0..day
    BY MaxDaysType DEF TypeOK
  <2>3. hook[h].now \in 1..MaxDays
    BY <2>1, <2>2, MaxDaysType
  <2> QED BY <2>3, ItemTypes
<1>2. standing \subseteq Id BY ItemTypes DEF standing, TypeOK
<1>3. undecided(h) \subseteq Thing
  BY DEF undecided, TypeOK
<1>4. judged(h) \subseteq Thing
  BY <1>3 DEF judged
<1>5. offered(h) \subseteq Id
  BY <1>3, ItemTypes DEF offered
<1>6. recorded(h) \subseteq Id
  BY <1>4, ItemTypes DEF recorded
<1> QED BY <1>1, <1>2, <1>4, <1>5, <1>6

\* A hook that has gathered.
LEMMA GatherTyped ==
    ASSUME TypeOK, NEW h \in Hook, NEW found \in SUBSET Id, NEW decisions \in SUBSET Thing,
           Gathered(h, found, decisions)
    PROVE  TypeOK'
<1> USE DEF TypeOK
<1>1. hook' \in [Hook -> HookRecord]
  <2> DEFINE r == [hook[h] EXCEPT !.found = @ \cup found, !.decisions = decisions,
                                  !.failed = FALSE,
                                  !.unset = IF decisions = {} THEN {} ELSE @,
                                  !.step = IF decisions = {} THEN "queue" ELSE "save"]
  <2>1. hook[h] \in HookRecord /\ hook \in [Hook -> HookRecord]
    BY DEF HookRecord
  <2>2. r \in HookRecord
    BY <2>1 DEF HookRecord
  <2>3. hook' = [hook EXCEPT ![h] = r]
    BY DEF Gathered
  <2> HIDE DEF r
  <2> QED BY <2>1, <2>2, <2>3
<1>2. \A x \in Hook : hook'[x].step # "idle" => day' <= hook'[x].now + 1
  <2>1. /\ hook[h].step # "idle" /\ hook'[h].now = hook[h].now
        /\ \A x \in Hook \ {h} : hook'[x] = hook[x]
    BY DEF Gathered
  <2>2. day' = day
    BY DEF Gathered, world
  <2> QED BY <2>1, <2>2
<1> QED BY <1>1, <1>2 DEF Gathered, world, HookRecord

\* A hook that ends.
LEMMA EndTyped ==
    ASSUME TypeOK, NEW h \in Hook, hook' = [hook EXCEPT ![h] = Idle], UNCHANGED world,
           queue' \subseteq Id,
           DOMAIN told' \subseteq DOMAIN told, \A i \in DOMAIN told' : told'[i] = told[i]
    PROVE  TypeOK'
<1> USE DEF TypeOK
<1>1. hook' \in [Hook -> HookRecord]
  BY IdleTyped DEF HookRecord
<1>2. \A x \in Hook : hook'[x].step # "idle" => day' <= hook'[x].now + 1
  BY DEF Idle, world
<1> QED BY <1>1, <1>2 DEF world, HookRecord

\* What is forgotten leaves the rest of notified.json as it was.
LEMMA ForgottenTyped ==
    ASSUME NEW h \in Hook, Forgotten(h)
    PROVE  DOMAIN told' \subseteq DOMAIN told /\ \A i \in DOMAIN told' : told'[i] = told[i]
BY DEF Forgotten, toldAfter

\* What is told is told today.
LEMMA MarkedTyped ==
    ASSUME TypeOK
    PROVE  DOMAIN marked \subseteq Lasting /\ \A i \in DOMAIN marked : marked[i] \in 0..day
<1>1. \A i \in queue : ~oneShot(i) => i \in Lasting
  BY ItemKinds DEF TypeOK
<1> QED BY <1>1 DEF marked, TypeOK

\* A change of the world.
LEMMA ChangedTyped ==
    ASSUME TypeOK, Changed, problems' \subseteq Problem, unconfirmed' \in BOOLEAN,
           candidate' \in [Thing -> Verdict],
           registry' \in [Thing -> {"none", "auto", "user"}]
    PROVE  TypeOK'
BY DEF TypeOK, Changed

\* The type invariant: whatever hooks overlap and whatever is killed, the queue
\* holds items and notified.json lasting items with the day they were told.
THEOREM TypeCorrect == Spec => []TypeOK
<1>1. Init => TypeOK
  <2> SUFFICES ASSUME Init PROVE TypeOK
    OBVIOUS
  <2>1. hook \in [Hook -> HookRecord] /\ \A h \in Hook : hook[h].step = "idle"
    BY IdleTyped DEF Init, Idle
  <2>2. candidate \in [Thing -> Verdict]
    BY Zenon DEF Init
  <2>3. problems \subseteq Problem
    BY DEF Init
  <2>4. DOMAIN told = {}
    BY DEF Init
  <2>5. day \in 1..MaxDays /\ lastSync \in 0..day
    <3>1. day = 1 /\ lastSync = 0
      BY DEF Init
    <3> QED BY <3>1, MaxDaysType
  <2>6. registry \in [Thing -> {"none", "auto", "user"}]
    BY DEF Init
  <2>7. unconfirmed \in BOOLEAN
    <3>1. unconfirmed = ("first sync" \in scene)
      BY Zenon DEF Init
    <3>2. \A S : ("first sync" \in S) \in BOOLEAN
      OBVIOUS
    <3> QED BY <3>1, <3>2, Zenon
  <2>8. queue = {}
    BY DEF Init
  <2> QED BY <2>1, <2>2, <2>3, <2>4, <2>5, <2>6, <2>7, <2>8 DEF TypeOK, HookRecord
<1>2. TypeOK /\ [Next]_vars => TypeOK'
  <2> SUFFICES ASSUME TypeOK, [Next]_vars PROVE TypeOK'
    OBVIOUS
  <2>1. ASSUME NEW h \in Hook, Synced(h) PROVE TypeOK'
    <3>1. PICK notices \in SUBSET newsNow : Started(h, TRUE, FALSE, pendingNow \cup notices)
      BY <2>1 DEF Synced
    <3>2. /\ hook' \in [Hook -> HookRecord]
          /\ \A x \in Hook : hook'[x].step # "idle" => day <= hook'[x].now + 1
      BY <3>1, NowTyped, StartedTyped
    <3> QED BY <2>1, <3>2 DEF Synced, TypeOK, HookRecord
  <2>2. ASSUME NEW h \in Hook, SyncFailed(h) PROVE TypeOK'
    <3>1. PICK res \in BOOLEAN, found \in SUBSET Id : Started(h, res, TRUE, found)
      BY <2>2, NowTyped DEF SyncFailed
    <3>2. /\ hook' \in [Hook -> HookRecord]
          /\ \A x \in Hook : hook'[x].step # "idle" => day <= hook'[x].now + 1
      BY <3>1, StartedTyped
    <3> QED BY <2>2, <3>2 DEF SyncFailed, TypeOK, HookRecord, world
  <2>3. ASSUME NEW h \in Hook, Skipped(h) PROVE TypeOK'
    <3>1. Started(h, FALSE, FALSE, {}) /\ {} \in SUBSET Id
      BY <2>3 DEF Skipped
    <3>2. /\ hook' \in [Hook -> HookRecord]
          /\ \A x \in Hook : hook'[x].step # "idle" => day <= hook'[x].now + 1
      BY <3>1, StartedTyped
    <3> QED BY <2>3, <3>2 DEF Skipped, TypeOK, HookRecord, world
  <2>4. ASSUME NEW h \in Hook, Gather(h) \/ GatherPart(h) PROVE TypeOK'
    <3>1. PICK found \in SUBSET Id, decisions \in SUBSET Thing : Gathered(h, found, decisions)
      BY <2>4, GatheredTyped DEF Gather, GatherPart
    <3> QED BY <3>1, GatherTyped
  <2>5. ASSUME NEW h \in Hook, SaveDecisions(h) \/ SaveFails(h) PROVE TypeOK'
    <3>1. hook' \in [Hook -> HookRecord]
      BY <2>5 DEF SaveDecisions, SaveFails, TypeOK, HookRecord
    <3>2. \A x \in Hook : hook'[x].step # "idle" => day <= hook'[x].now + 1
      BY <2>5 DEF SaveDecisions, SaveFails, TypeOK
    <3>3. registry' \in [Thing -> {"none", "auto", "user"}]
      BY <2>5 DEF SaveDecisions, saved, SaveFails, TypeOK, world
    <3> QED BY <2>5, <3>1, <3>2, <3>3 DEF SaveDecisions, SaveFails, TypeOK, HookRecord, world
  <2>6. ASSUME NEW h \in Hook, QueueNotice(h) PROVE TypeOK'
    <3>1. queue' \subseteq Id
      BY <2>6 DEF QueueNotice, queueAfter, kept, TypeOK
    <3> QED BY <2>6, <3>1, ForgottenTyped, EndTyped DEF QueueNotice
  <2>7. ASSUME NEW h \in Hook, QueueHalf(h) PROVE TypeOK'
    BY <2>7, ForgottenTyped, EndTyped DEF QueueHalf, TypeOK
  <2>8. ASSUME NEW h \in Hook, Killed(h) PROVE TypeOK'
    BY <2>8, EndTyped DEF Killed, TypeOK
  <2>9. ASSUME Notify \/ NotifyCut PROVE TypeOK'
    <3>1. told' = marked /\ queue' \subseteq queue /\ UNCHANGED <<world, hook>>
      BY <2>9 DEF Notify, NotifyCut
    <3> QED BY <3>1, MarkedTyped DEF TypeOK, world
  <2>10. ASSUME ProblemChanges PROVE TypeOK'
    BY <2>10, ChangedTyped DEF ProblemChanges, TypeOK
  <2>11. ASSUME Confirm PROVE TypeOK'
    BY <2>11, ChangedTyped DEF Confirm, TypeOK
  <2>12. ASSUME ThingChanges PROVE TypeOK'
    <3>1. candidate' \in [Thing -> Verdict]
      BY <2>12 DEF ThingChanges, TypeOK
    <3> QED BY <2>12, <3>1, ChangedTyped DEF ThingChanges, TypeOK
  <2>13. ASSUME Decide PROVE TypeOK'
    <3>1. registry' \in [Thing -> {"none", "auto", "user"}]
      BY <2>13 DEF Decide, TypeOK
    <3> QED BY <2>13, <3>1, ChangedTyped DEF Decide, TypeOK
  <2>14. ASSUME NextDay PROVE TypeOK'
    <3>1. day' \in 1..MaxDays /\ day' = day + 1 /\ lastSync' \in 0..day'
      BY <2>14, MaxDaysType DEF NextDay, TypeOK
    <3>2. \A x \in Hook : hook'[x].step # "idle" => day' <= hook'[x].now + 1
      BY <2>14, <3>1 DEF NextDay, TypeOK
    <3>3. \A i \in DOMAIN told' : told'[i] \in 0..day'
      BY <2>14, <3>1 DEF NextDay, TypeOK
    <3> QED BY <2>14, <3>1, <3>2, <3>3 DEF NextDay, TypeOK
  <2>15. CASE UNCHANGED vars
    BY <2>15 DEF vars, world, TypeOK
  <2>16. ASSUME NEW h \in Hook, LoadRegistry(h) PROVE TypeOK'
    <3> DEFINE r == [hook[h] EXCEPT !.step = "gather",
                                    !.unset = {t \in Thing : registry[t] = "none"}]
    <3>1. hook' \in [Hook -> HookRecord]
      <4>1. hook \in [Hook -> HookRecord] /\ r \in HookRecord
        BY DEF TypeOK, HookRecord
      <4>2. hook' = [hook EXCEPT ![h] = r]
        BY <2>16, <4>1 DEF LoadRegistry, HookRecord
      <4> HIDE DEF r
      <4> QED BY <4>1, <4>2
    <3>2. \A x \in Hook : hook'[x].step # "idle" => day <= hook'[x].now + 1
      <4>1. /\ hook[h].step # "idle" /\ hook'[h].now = hook[h].now
            /\ \A x \in Hook \ {h} : hook'[x] = hook[x]
        BY <2>16 DEF LoadRegistry, TypeOK
      <4> QED BY <4>1 DEF TypeOK
    <3> QED BY <2>16, <3>1, <3>2 DEF LoadRegistry, TypeOK, HookRecord, world
  <2> QED
    BY <2>1, <2>2, <2>3, <2>4, <2>5, <2>6, <2>7, <2>8, <2>9, <2>10, <2>11, <2>12, <2>13, <2>14, <2>15,
       <2>16
    DEF Next, Works, Fails
<1> QED BY <1>1, <1>2, PTL DEF Spec

-----------------------------------------------------------------------------
(* What happens once is told *)

\* Only one-shot items are owed, and a session without a hook holds nothing.
Owing ==
    /\ OneShotsKept
    /\ \A i \in owed : oneShot(i)
    /\ \A h \in Hook : hook[h].step = "idle" => hook[h].found = {}

\* Where an owed item is, seen from one hook.
LEMMA WhereOwed ==
    ASSUME OneShotsKept, NEW h \in Hook, NEW i \in owed
    PROVE  \/ i \in queue \cup lost \cup hook[h].found
           \/ \E x \in Hook \ {h} : i \in hook[x].found
BY DEF OneShotsKept

\* What a step of one hook has to leave of it.
LEMMA OwedOn ==
    ASSUME NEW h \in Hook, Owing, \A i \in owed' : oneShot(i),
           hook'[h].step = "idle" => hook'[h].found = {},
           \A x \in Hook \ {h} : hook'[x] = hook[x],
           \A i \in owed' : \/ i \in queue' \cup lost' \cup hook'[h].found
                            \/ \E x \in Hook \ {h} : i \in hook[x].found
    PROVE  Owing'
<1>1. OneShotsKept'
  BY DEF OneShotsKept
<1>2. \A x \in Hook : hook'[x].step = "idle" => hook'[x].found = {}
  BY DEF Owing
<1> QED BY <1>1, <1>2 DEF Owing

\* A hook that starts holds what its sync told.
LEMMA StartedOwing ==
    ASSUME TypeOK, Owing, NEW h \in Hook, NEW res, NEW failed, NEW found,
           Started(h, res, failed, found), queue' = queue
    PROVE  Owing'
<1>1. /\ hook'[h].found = found /\ hook'[h].step = "open"
      /\ \A x \in Hook \ {h} : hook'[x] = hook[x]
  BY DEF Started, TypeOK
<1>2. hook[h].found = {}
  BY DEF Owing, Started
<1>3. ASSUME NEW i \in owed'
      PROVE  /\ oneShot(i)
             /\ \/ i \in queue' \cup lost' \cup hook'[h].found
                \/ \E x \in Hook \ {h} : i \in hook[x].found
  <2>1. (i \in found /\ oneShot(i)) \/ i \in owed
    BY <1>3 DEF Started
  <2>2. CASE i \in found /\ oneShot(i)
    BY <2>2, <1>1
  <2>3. CASE i \in owed
    BY <2>3, <1>1, <1>2, WhereOwed DEF Owing, Started
  <2> QED BY <2>1, <2>2, <2>3
<1> QED BY <1>1, <1>3, OwedOn

\* A hook that has gathered holds what it held and what it found.
LEMMA GatheredOwing ==
    ASSUME TypeOK, Owing, NEW h \in Hook, NEW found, NEW decisions,
           Gathered(h, found, decisions)
    PROVE  Owing'
<1>1. /\ hook'[h].found = hook[h].found \cup found /\ hook'[h].step # "idle"
      /\ \A x \in Hook \ {h} : hook'[x] = hook[x]
  BY DEF Gathered, TypeOK
<1>2. ASSUME NEW i \in owed'
      PROVE  /\ oneShot(i)
             /\ \/ i \in queue' \cup lost' \cup hook'[h].found
                \/ \E x \in Hook \ {h} : i \in hook[x].found
  <2>1. (i \in found /\ oneShot(i)) \/ i \in owed
    BY <1>2 DEF Gathered
  <2>2. CASE i \in found /\ oneShot(i)
    BY <2>2, <1>1
  <2>3. CASE i \in owed
    BY <2>3, <1>1, WhereOwed DEF Owing, Gathered
  <2> QED BY <2>1, <2>2, <2>3
<1> QED BY <1>1, <1>2, OwedOn

\* A hook that ends hands over what it held, to the queue or to what is lost.
LEMMA EndOwing ==
    ASSUME TypeOK, Owing, NEW h \in Hook, hook' = [hook EXCEPT ![h] = Idle],
           owed' = owed,
           \A i \in queue \cup lost \cup hook[h].found : oneShot(i) => i \in queue' \cup lost'
    PROVE  Owing'
<1>1. /\ hook'[h].found = {}
      /\ \A x \in Hook \ {h} : hook'[x] = hook[x]
  BY DEF Idle, TypeOK
<1>2. ASSUME NEW i \in owed'
      PROVE  /\ oneShot(i)
             /\ \/ i \in queue' \cup lost' \cup hook'[h].found
                \/ \E x \in Hook \ {h} : i \in hook[x].found
  BY <1>1, <1>2, WhereOwed DEF Owing
<1> QED BY <1>1, <1>2, OwedOn

\* No hook that runs beside another, no sync and no prompt drops an item that
\* happened and will not be found again: it is queued, held by a hook or told,
\* unless a kill or a failed write lost it.
THEOREM OneShotsAreKept == Spec => []OneShotsKept
<1>1. Init => Owing
  <2> SUFFICES ASSUME Init PROVE Owing
    OBVIOUS
  <2>1. \A h \in Hook : hook[h].step = "idle" /\ hook[h].found = {}
    BY DEF Init, Idle
  <2>2. owed = {}
    BY DEF Init
  <2> QED BY <2>1, <2>2 DEF Owing, OneShotsKept
<1>2. TypeOK /\ Owing /\ [Next]_vars => Owing'
  <2> SUFFICES ASSUME TypeOK, Owing, [Next]_vars PROVE Owing'
    OBVIOUS
  <2>1. ASSUME NEW h \in Hook, Synced(h) \/ SyncFailed(h) \/ Skipped(h) PROVE Owing'
    <3>1. PICK res, failed, found : Started(h, res, failed, found) /\ queue' = queue
      BY <2>1, Zenon DEF Synced, SyncFailed, Skipped
    <3> QED BY <3>1, StartedOwing
  <2>2. ASSUME NEW h \in Hook, Gather(h) \/ GatherPart(h) PROVE Owing'
    <3>1. PICK found, decisions : Gathered(h, found, decisions)
      BY <2>2, Zenon DEF Gather, GatherPart
    <3> QED BY <3>1, GatheredOwing
  <2>3. ASSUME NEW h \in Hook, LoadRegistry(h) \/ SaveDecisions(h) \/ SaveFails(h)
        PROVE  Owing'
    <3>1. /\ hook'[h].found = hook[h].found /\ hook'[h].step # "idle"
          /\ \A x \in Hook \ {h} : hook'[x] = hook[x]
          /\ owed' = owed /\ queue' = queue /\ lost' = lost
      BY <2>3 DEF LoadRegistry, SaveDecisions, SaveFails, TypeOK, histories
    <3>2. \A i \in owed : \/ i \in queue \cup lost \cup hook[h].found
                          \/ \E x \in Hook \ {h} : i \in hook[x].found
      BY <2>3, WhereOwed DEF Owing
    <3> QED BY <3>1, <3>2, OwedOn DEF Owing
  <2>4. ASSUME NEW h \in Hook, QueueNotice(h) PROVE Owing'
    BY <2>4, EndOwing DEF QueueNotice, queueAfter, kept
  <2>5. ASSUME NEW h \in Hook, QueueHalf(h) PROVE Owing'
    BY <2>5, EndOwing DEF QueueHalf, Dropped
  <2>6. ASSUME NEW h \in Hook, Killed(h) PROVE Owing'
    BY <2>6, EndOwing DEF Killed, Dropped
  <2>7. CASE Notify
    BY <2>7 DEF Notify, Owing, OneShotsKept
  <2>8. CASE NotifyCut
    BY <2>8 DEF NotifyCut, Owing, OneShotsKept
  <2>9. CASE ProblemChanges \/ Confirm \/ ThingChanges \/ Decide \/ NextDay \/ UNCHANGED vars
    <3>1. UNCHANGED <<hook, queue, owed, lost>>
      BY <2>9 DEF ProblemChanges, Confirm, ThingChanges, Decide, NextDay, Changed, vars, histories
    <3> QED BY <3>1 DEF Owing, OneShotsKept
  <2> QED
    BY <2>1, <2>2, <2>3, <2>4, <2>5, <2>6, <2>7, <2>8, <2>9 DEF Next, Works, Fails
<1>3. Owing => OneShotsKept
  BY DEF Owing
<1> QED BY <1>1, <1>2, <1>3, TypeCorrect, PTL DEF Spec

-----------------------------------------------------------------------------
(* What the user decided stays *)

\* The id of every thing is its name: there are no servers of projects.
NamesAreIds == \A t \in Thing : Named[t] = t

\* No hook is about to decide what the user has decided.
Decided ==
    \A t \in decided : /\ t \in Thing /\ registry[t] = "user"
                       /\ \A h \in Hook : t \notin hook[h].decisions

\* Hooks that judge things beside the user's decisions replace none of them but
\* a decision about the very thing, made after the hook had loaded the registry:
\* as long as the names decisions are recorded under are the ids they are looked
\* up by.
THEOREM DecisionsHold ==
    ASSUME NamesAreIds
    PROVE  Spec => []DecisionsStay
<1>1. Init => Decided
  BY DEF Init, Decided
<1>2. TypeOK /\ Decided /\ [Next]_vars => Decided'
  <2> SUFFICES ASSUME TypeOK, Decided, [Next]_vars PROVE Decided'
    OBVIOUS
  <2>1. ASSUME UNCHANGED <<registry, decided>>,
               \A h \in Hook : hook'[h].decisions \subseteq hook[h].decisions
        PROVE  Decided'
    BY <2>1 DEF Decided
  <2>2. ASSUME NEW h \in Hook, Synced(h) \/ SyncFailed(h) \/ Skipped(h) \/ LoadRegistry(h)
        PROVE  Decided'
    <3>1. \A x \in Hook : hook'[x].decisions \subseteq hook[x].decisions
      BY <2>2 DEF Synced, SyncFailed, Skipped, Started, LoadRegistry, TypeOK
    <3>2. UNCHANGED <<registry, decided>>
      BY <2>2, Zenon DEF Synced, SyncFailed, Skipped, LoadRegistry, world, histories
    <3> QED BY <2>1, <3>1, <3>2
  <2>3. ASSUME NEW h \in Hook, Gather(h) \/ GatherPart(h) PROVE Decided'
    <3>1. PICK found, decisions : Gathered(h, found, decisions)
      BY <2>3, Zenon DEF Gather, GatherPart
    <3>2. /\ hook'[h].decisions = decisions
          /\ \A x \in Hook \ {h} : hook'[x] = hook[x]
          /\ registry' = registry /\ decided' = decided \ decisions
      BY <3>1 DEF Gathered, TypeOK, world
    <3> QED BY <3>2 DEF Decided
  <2>4. ASSUME NEW h \in Hook, SaveDecisions(h) PROVE Decided'
    <3>1. \A t \in decided : registry'[t] = registry[t]
      BY <2>4 DEF SaveDecisions, saved, Recorded, NamesAreIds, Decided, TypeOK
    <3>2. \A x \in Hook : hook'[x].decisions \subseteq hook[x].decisions
      BY <2>4 DEF SaveDecisions, TypeOK
    <3>3. decided' = decided
      BY <2>4 DEF SaveDecisions, histories
    <3> QED BY <3>1, <3>2, <3>3 DEF Decided
  <2>5. ASSUME NEW h \in Hook, SaveFails(h) PROVE Decided'
    <3>1. \A x \in Hook : hook'[x].decisions \subseteq hook[x].decisions
      BY <2>5 DEF SaveFails, TypeOK
    <3> QED BY <2>1, <2>5, <3>1 DEF SaveFails, world, histories
  <2>6. ASSUME NEW h \in Hook, QueueNotice(h) \/ QueueHalf(h) \/ Killed(h) PROVE Decided'
    <3>1. \A x \in Hook : hook'[x].decisions \subseteq hook[x].decisions
      BY <2>6 DEF QueueNotice, QueueHalf, Killed, Idle, TypeOK
    <3> QED BY <2>1, <2>6, <3>1 DEF QueueNotice, QueueHalf, Killed, world
  <2>7. CASE Decide
    BY <2>7 DEF Decide, Changed, Decided, TypeOK
  <2>8. CASE \/ Notify \/ NotifyCut \/ ProblemChanges \/ Confirm \/ ThingChanges \/ NextDay
             \/ UNCHANGED vars
    <3>1. UNCHANGED <<hook, registry, decided>>
      BY <2>8 DEF Notify, NotifyCut, ProblemChanges, Confirm, ThingChanges, NextDay, Changed,
                  vars, world, histories
    <3> QED BY <2>1, <3>1
  <2> QED BY <2>2, <2>3, <2>4, <2>5, <2>6, <2>7, <2>8 DEF Next, Works, Fails
<1>3. Decided => DecisionsStay
  BY DEF Decided, DecisionsStay
<1> QED BY <1>1, <1>2, <1>3, TypeCorrect, PTL DEF Spec

-----------------------------------------------------------------------------
(* Once each *)

\* What a hook saw the end of is lasting and has not begun again.
OversAreOver == \A i \in over : i \in Lasting /\ i.kind # "error" /\ ~holds(i)

\* What the user heard of is remembered and not queued, unless it was over or
\* missed since; the news of a day is forgotten when no hook can find it again.
HeardIsTold ==
    \A i \in heard :
        /\ i \in Lasting
        /\ \/ i \in DOMAIN told /\ i \notin queue
           \/ i.kind # "error" /\ i \in missed \cup over
           \/ i.kind = "error" /\ i \notin queue /\ i.day + 2 <= day

\* The news of a day comes from hooks of that day and is told on it or later.
ErrorDays ==
    /\ \A h \in Hook : hook[h].step # "idle" => hook[h].now <= day
    /\ \A h \in Hook : \A i \in hook[h].found :
           i.kind = "error" => hook[h].step # "idle" /\ i.day = hook[h].now
    /\ \A i \in queue : i.kind = "error" => i.day <= day
    /\ \A i \in DOMAIN told : i.kind = "error" => i.day <= told[i]

Telling == ToldOnce /\ OversAreOver /\ HeardIsTold /\ ErrorDays

\* Days are numbers.
LEMMA DayTypes ==
    ASSUME TypeOK
    PROVE  /\ day \in Nat
           /\ \A h \in Hook : hook[h].now \in Nat
           /\ \A i \in DOMAIN told : told[i] \in Nat
           /\ \A i \in Id : i.day \in Nat
<1>1. day \in Nat
  BY MaxDaysType DEF TypeOK
<1>2. \A h \in Hook : hook[h].now \in Nat
  BY MaxDaysType DEF TypeOK
<1>3. \A i \in DOMAIN told : told[i] \in Nat
  BY <1>1 DEF TypeOK
<1>4. \A i \in Id : i.day \in Nat
  BY MaxDaysType DEF Id, OneShots, Lasting, Item, ErrorOf, Pending, News
<1> QED BY <1>1, <1>2, <1>3, <1>4

\* The news of a day is that of its day; nothing else is an error.
LEMMA ErrorItems ==
    /\ Pending.kind # "error" /\ News.kind # "error"
    /\ \A d : ErrorOf(d).kind = "error" /\ ErrorOf(d).day = d
    /\ \A p : Item("problem", p).kind # "error"
    /\ \A t : Item("share", t).kind # "error" /\ Item("recorded", t).kind # "error"
BY DEF Pending, News, ErrorOf, Item

\* What holds depends on this part of the world.
LEMMA HoldsStill ==
    ASSUME UNCHANGED <<problems, unconfirmed, candidate, registry>>, NEW i
    PROVE  holds(i)' <=> holds(i)
BY DEF holds

\* A hook that starts finds no news of a day.
LEMMA StartedTelling ==
    ASSUME TypeOK, Telling, NEW h \in Hook, NEW res, NEW failed, NEW found,
           Started(h, res, failed, found), \A i \in found : i.kind # "error",
           UNCHANGED <<problems, unconfirmed, candidate, registry, day>>,
           UNCHANGED <<queue, told, heard, over, missed, twice>>
    PROVE  Telling'
<1>1. /\ hook'[h].found = found /\ hook'[h].now = day
      /\ \A x \in Hook \ {h} : hook'[x] = hook[x]
  BY DEF Started, TypeOK
<1>2. OversAreOver'
  BY HoldsStill DEF Telling, OversAreOver
<1>3. ErrorDays'
  <2>1. \A x \in Hook : hook'[x].step # "idle" => hook'[x].now <= day
    BY <1>1, DayTypes DEF Telling, ErrorDays
  <2>2. \A x \in Hook : \A i \in hook'[x].found :
            i.kind = "error" => hook'[x].step # "idle" /\ i.day = hook'[x].now
    BY <1>1 DEF Telling, ErrorDays
  <2>3. day' = day /\ queue' = queue /\ told' = told
    OBVIOUS
  <2> QED BY <2>1, <2>2, <2>3 DEF Telling, ErrorDays
<1> QED BY <1>2, <1>3 DEF Telling, ToldOnce, HeardIsTold

\* A hook that gathers finds the news of its own day.
LEMMA GatheredTelling ==
    ASSUME TypeOK, Telling, NEW h \in Hook, NEW found, NEW decisions,
           Gathered(h, found, decisions),
           \A i \in found : i.kind = "error" => i.day = hook[h].now
    PROVE  Telling'
<1>1. /\ hook'[h].found = hook[h].found \cup found /\ hook'[h].now = hook[h].now
      /\ hook[h].step # "idle" /\ hook'[h].step # "idle"
      /\ \A x \in Hook \ {h} : hook'[x] = hook[x]
  BY DEF Gathered, TypeOK
<1>2. OversAreOver'
  BY HoldsStill DEF Telling, OversAreOver, Gathered, world
<1>3. ErrorDays'
  <2>1. day' = day /\ queue' = queue /\ told' = told
    BY DEF Gathered, world
  <2>2. \A x \in Hook : hook'[x].step # "idle" => hook'[x].now <= day
    BY <1>1 DEF Telling, ErrorDays
  <2>3. \A x \in Hook : \A i \in hook'[x].found :
            i.kind = "error" => hook'[x].step # "idle" /\ i.day = hook'[x].now
    BY <1>1 DEF Telling, ErrorDays
  <2> QED BY <2>1, <2>2, <2>3 DEF Telling, ErrorDays
<1>4. ToldOnce' /\ HeardIsTold'
  BY DEF Telling, ToldOnce, HeardIsTold, Gathered, world
<1> QED BY <1>2, <1>3, <1>4 DEF Telling

\* A hook that ends holds nothing.
LEMMA EndTelling ==
    ASSUME TypeOK, ErrorDays, NEW h \in Hook, hook' = [hook EXCEPT ![h] = Idle],
           UNCHANGED day,
           \A i \in queue' : i.kind = "error" => i \in queue \cup hook[h].found,
           DOMAIN told' \subseteq DOMAIN told, \A i \in DOMAIN told' : told'[i] = told[i]
    PROVE  ErrorDays'
<1>1. /\ hook'[h].found = {} /\ hook'[h].step = "idle"
      /\ \A x \in Hook \ {h} : hook'[x] = hook[x]
  BY DEF Idle, TypeOK
<1>2. \A i \in hook[h].found : i.kind = "error" => i.day <= day
  BY DEF ErrorDays
<1> QED BY <1>1, <1>2 DEF ErrorDays

\* What a hook forgets is over or missed, or no hook can find it again.
LEMMA ForgottenTelling ==
    ASSUME TypeOK, Telling, NEW h \in Hook, Forgotten(h), hook[h].step = "queue",
           hook' = [hook EXCEPT ![h] = Idle], queue' \in {queue, queueAfter(h)},
           UNCHANGED world, UNCHANGED <<heard, twice>>
    PROVE  Telling'
<1>1. \A i \in over' : i \in Lasting /\ i.kind # "error" /\ ~holds(i)
  BY DEF Forgotten, unfound, Telling, OversAreOver
<1>2. OversAreOver'
  BY <1>1, HoldsStill DEF OversAreOver, world
<1>3. ErrorDays'
  <2>1. \A i \in queue' : i \in queue \cup hook[h].found
    BY DEF queueAfter, kept
  <2> QED BY <2>1, ForgottenTyped, EndTelling DEF Telling, world
<1>4. ASSUME NEW i \in heard
      PROVE  \/ i \in DOMAIN told' /\ i \notin queue'
             \/ i.kind # "error" /\ i \in missed' \cup over'
             \/ i.kind = "error" /\ i \notin queue' /\ i.day + 2 <= day'
  <2>1. i \in Lasting /\ ~oneShot(i) /\ i \in Id
    BY ItemKinds DEF Telling, HeardIsTold
  <2>2. CASE i.kind # "error" /\ i \in missed \cup over
    BY <2>2 DEF Forgotten
  <2>3. CASE i.kind = "error" /\ i \notin queue /\ i \notin DOMAIN told /\ i.day + 2 <= day
    <3>1. i \notin hook[h].found
      <4> SUFFICES ASSUME i \in hook[h].found PROVE FALSE
        OBVIOUS
      <4>1. i.day = hook[h].now /\ day <= hook[h].now + 1
        BY <2>3 DEF Telling, ErrorDays, TypeOK
      <4> QED BY <2>1, <2>3, <4>1, DayTypes
    <3> QED BY <2>3, <3>1 DEF queueAfter, kept, world
  <2>4. CASE i \in DOMAIN told /\ i \notin queue
    <3>1. i \notin queue'
      BY <2>1, <2>4 DEF queueAfter, kept
    <3>2. CASE i \in DOMAIN told'
      BY <3>1, <3>2
    <3>3. CASE i \notin DOMAIN told' /\ i.kind # "error"
      <4>1. i \notin hook[h].found /\ forget(i, told[i], hook[h].res, hook[h].now)
        BY <2>4, <3>3 DEF Forgotten, toldAfter
      <4>2. i \in unfound(h)
        BY <2>1, <3>3, <4>1, Zenon DEF unfound, forget
      <4> QED BY <3>3, <4>2 DEF Forgotten
    <3>4. CASE i \notin DOMAIN told' /\ i.kind = "error"
      <4>1. told[i] + 2 <= hook[h].now
        BY <2>4, <3>4, DayTypes DEF Forgotten, toldAfter, forget
      <4>2. i.day <= told[i] /\ hook[h].now <= day
        BY <2>4, <3>4 DEF Telling, ErrorDays
      <4>3. i.day + 2 <= day
        BY <2>1, <2>4, <4>1, <4>2, DayTypes
      <4> QED BY <3>1, <3>4, <4>3 DEF world
    <3> QED BY <3>2, <3>3, <3>4
  <2> QED BY <2>2, <2>3, <2>4 DEF Telling, HeardIsTold
<1>5. HeardIsTold'
  BY <1>4 DEF Telling, HeardIsTold
<1> QED BY <1>2, <1>3, <1>5 DEF Telling, ToldOnce

\* A change of the world: what begins again has not been told.
LEMMA ChangedTelling ==
    ASSUME TypeOK, Telling, Changed
    PROVE  Telling'
<1>1. OversAreOver'
  BY DEF Changed, Telling, OversAreOver
<1>2. HeardIsTold'
  BY DEF Changed, Telling, HeardIsTold
<1>3. ErrorDays'
  BY DEF Changed, Telling, ErrorDays
<1> QED BY <1>1, <1>2, <1>3 DEF Changed, Telling, ToldOnce

\* "The hooks tell the agent what the user should hear about, once each": no
\* lasting thing is told again while it lasts and every hook finds it, however
\* many sessions start side by side and wherever one is killed.
THEOREM EachIsToldOnce == Spec => []ToldOnce
<1>1. Init => Telling
  <2> SUFFICES ASSUME Init PROVE Telling
    OBVIOUS
  <2>1. \A h \in Hook : hook[h].step = "idle" /\ hook[h].found = {}
    BY DEF Init, Idle
  <2>2. over = {} /\ heard = {} /\ twice = {} /\ queue = {} /\ DOMAIN told = {}
    BY DEF Init
  <2> QED BY <2>1, <2>2 DEF Telling, ToldOnce, OversAreOver, HeardIsTold, ErrorDays
<1>2. TypeOK /\ Telling /\ [Next]_vars => Telling'
  <2> SUFFICES ASSUME TypeOK, Telling, [Next]_vars PROVE Telling'
    OBVIOUS
  <2>1. ASSUME NEW h \in Hook, Synced(h) \/ SyncFailed(h) \/ Skipped(h) PROVE Telling'
    <3>1. \A i \in pendingNow \cup newsNow : i.kind # "error"
      BY ErrorItems DEF pendingNow, newsNow
    <3>2. /\ UNCHANGED <<problems, unconfirmed, candidate, registry, day>>
          /\ UNCHANGED <<queue, told, heard, over, missed, twice>>
      BY <2>1, Zenon DEF Synced, SyncFailed, Skipped, world
    <3>3. CASE Synced(h)
      <4>1. PICK notices \in SUBSET newsNow : Started(h, TRUE, FALSE, pendingNow \cup notices)
        BY <3>3 DEF Synced
      <4>2. \A i \in pendingNow \cup notices : i.kind # "error"
        BY <3>1
      <4> QED BY <3>2, <4>1, <4>2, StartedTelling
    <3>4. CASE SyncFailed(h)
      <4>1. \/ \E found \in SUBSET (pendingNow \cup newsNow) : Started(h, TRUE, TRUE, found)
            \/ Started(h, FALSE, TRUE, {})
        BY <3>4 DEF SyncFailed
      <4>2. CASE Started(h, FALSE, TRUE, {})
        <5>1. PICK found \in SUBSET newsNow : Started(h, FALSE, TRUE, found)
          BY <4>2
        <5> QED BY <3>1, <3>2, <5>1, StartedTelling
      <4>3. ASSUME NEW found \in SUBSET (pendingNow \cup newsNow), Started(h, TRUE, TRUE, found)
            PROVE  Telling'
        BY <3>1, <3>2, <4>3, StartedTelling
      <4> QED BY <4>1, <4>2, <4>3
    <3>5. CASE Skipped(h)
      <4>1. PICK found \in SUBSET newsNow : Started(h, FALSE, FALSE, found)
        BY <3>5 DEF Skipped
      <4> QED BY <3>1, <3>2, <4>1, StartedTelling
    <3> QED BY <2>1, <3>3, <3>4, <3>5
  <2>2. ASSUME NEW h \in Hook, Gather(h) \/ GatherPart(h) PROVE Telling'
    <3>1. \A i \in errors(h) \cup standing \cup offered(h) \cup recorded(h) :
              i.kind = "error" => i.day = hook[h].now
      BY ErrorItems DEF errors, standing, offered, recorded
    <3>2. PICK found, decisions : /\ Gathered(h, found, decisions)
                                  /\ \A i \in found : i.kind = "error" => i.day = hook[h].now
      BY <2>2, <3>1, Zenon DEF Gather, GatherPart
    <3> QED BY <3>2, GatheredTelling
  <2>3. ASSUME NEW h \in Hook, LoadRegistry(h) \/ SaveDecisions(h) \/ SaveFails(h)
        PROVE  Telling'
    <3>1. /\ hook'[h].found = hook[h].found /\ hook'[h].now = hook[h].now
          /\ hook[h].step # "idle" /\ hook'[h].step # "idle"
          /\ \A x \in Hook \ {h} : hook'[x] = hook[x]
      BY <2>3 DEF LoadRegistry, SaveDecisions, SaveFails, TypeOK
    <3>2. /\ UNCHANGED <<problems, unconfirmed, candidate, day>>
          /\ UNCHANGED <<queue, told, heard, over, missed, twice>>
      BY <2>3 DEF LoadRegistry, SaveDecisions, SaveFails, world, histories, bounds
    <3>3. \A t \in Thing : registry'[t] = "none" => registry[t] = "none"
      BY <2>3 DEF LoadRegistry, SaveDecisions, saved, SaveFails, world
    <3>4. \A i \in Lasting : i.kind = "share" => i.of \in Thing
      BY DEF Lasting, Item, ErrorOf, Pending
    <3>5. OversAreOver'
      BY <3>2, <3>3, <3>4 DEF Telling, OversAreOver, holds
    <3>6. ErrorDays'
      BY <3>1, <3>2 DEF Telling, ErrorDays
    <3> QED BY <3>2, <3>5, <3>6 DEF Telling, ToldOnce, HeardIsTold
  <2>4. ASSUME NEW h \in Hook, QueueNotice(h) \/ QueueHalf(h) PROVE Telling'
    BY <2>4, ForgottenTelling DEF QueueNotice, QueueHalf
  <2>5. ASSUME NEW h \in Hook, Killed(h) PROVE Telling'
    <3>1. ErrorDays'
      BY <2>5, EndTelling DEF Killed, Telling, world
    <3>2. OversAreOver'
      BY <2>5, HoldsStill DEF Killed, Telling, OversAreOver, world
    <3> QED BY <2>5, <3>1, <3>2 DEF Killed, Telling, ToldOnce, HeardIsTold, world
  <2>6. CASE Notify
    <3>1. \A i \in queue : ~oneShot(i) => i \in Lasting
      BY ItemKinds DEF TypeOK
    <3>2. twice' = {}
      BY <2>6 DEF Notify, Telling, ToldOnce, HeardIsTold, OversAreOver
    <3>3. OversAreOver'
      BY <2>6, HoldsStill DEF Notify, Telling, OversAreOver, world
    <3>4. HeardIsTold'
      <4> SUFFICES ASSUME NEW i \in heard'
                   PROVE  /\ i \in Lasting
                          /\ \/ i \in DOMAIN told'
                             \/ i.kind # "error" /\ i \in missed' \cup over'
                             \/ i.kind = "error" /\ i.day + 2 <= day'
        BY <2>6 DEF Notify, HeardIsTold
      <4>1. CASE i \in queue
        BY <2>6, <3>1, <4>1, ItemKinds DEF Notify, marked, Telling, HeardIsTold
      <4>2. CASE i \notin queue
        BY <2>6, <4>2 DEF Notify, marked, Telling, HeardIsTold, world
      <4> QED BY <4>1, <4>2
    <3>5. ErrorDays'
      BY <2>6, DayTypes DEF Notify, marked, Telling, ErrorDays, world
    <3> QED BY <3>2, <3>3, <3>4, <3>5 DEF Telling, ToldOnce
  <2>7. CASE NotifyCut
    <3>1. OversAreOver'
      BY <2>7, HoldsStill DEF NotifyCut, Telling, OversAreOver, world
    <3>2. HeardIsTold'
      BY <2>7 DEF NotifyCut, marked, Telling, HeardIsTold, world
    <3>3. ErrorDays'
      BY <2>7, DayTypes DEF NotifyCut, marked, Telling, ErrorDays, world
    <3> QED BY <2>7, <3>1, <3>2, <3>3 DEF NotifyCut, Telling, ToldOnce
  <2>8. CASE ProblemChanges \/ Confirm \/ ThingChanges \/ Decide
    BY <2>8, ChangedTelling DEF ProblemChanges, Confirm, ThingChanges, Decide
  <2>9. CASE NextDay
    <3>1. OversAreOver'
      BY <2>9, HoldsStill DEF NextDay, Telling, OversAreOver, histories
    <3>2. HeardIsTold'
      <4>1. \A i \in heard : i.day \in Nat
        BY ItemKinds, DayTypes DEF Telling, HeardIsTold
      <4> QED BY <2>9, <4>1, DayTypes DEF NextDay, Telling, HeardIsTold, histories
    <3>3. ErrorDays'
      <4>1. \A i \in queue : i.day \in Nat
        BY DayTypes DEF TypeOK
      <4> QED BY <2>9, <4>1, DayTypes DEF NextDay, Telling, ErrorDays
    <3> QED BY <2>9, <3>1, <3>2, <3>3 DEF NextDay, Telling, ToldOnce, histories
  <2>10. CASE UNCHANGED vars
    <3>1. OversAreOver'
      BY <2>10, HoldsStill DEF vars, world, histories, Telling, OversAreOver
    <3> QED BY <2>10, <3>1 DEF vars, world, histories, Telling, ToldOnce, HeardIsTold, ErrorDays
  <2> QED
    BY <2>1, <2>2, <2>3, <2>4, <2>5, <2>6, <2>7, <2>8, <2>9, <2>10 DEF Next, Works, Fails
<1>3. Telling => ToldOnce
  BY DEF Telling
<1> QED BY <1>1, <1>2, <1>3, TypeCorrect, PTL DEF Spec
=============================================================================
