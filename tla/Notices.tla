------------------------------ MODULE Notices ------------------------------
(***************************************************************************)
(* What the hooks tell the user: hookSync (auto.go) and notice.go of       *)
(* cmd/codeagent-sync.                                                     *)
(*                                                                         *)
(* A session that starts runs a hook: it syncs, gathers what the user      *)
(* should hear about without a lock, and queues it under the notice lock   *)
(* in notice.json; the next prompt takes the queue and remembers in        *)
(* notified.json what it told.  Lasting things (a conflict, something to   *)
(* share) are told once while they last, one-shot things whenever they     *)
(* happen.  Sessions start side by side, so hooks overlap; each is cut     *)
(* where another can come between or where a kill would be seen.           *)
(* Left out: wording, the sync itself (Engine), the reasons of a verdict.  *)
(***************************************************************************)
EXTENDS Naturals, FiniteSets

CONSTANTS
    Hook,           \* sessions starting side by side
    Problem,        \* conflicts and missing tools there can be
    Thing,          \* what one tool may have and the other not, by its id in the registry
    Named,          \* the id that is a thing's bare name: another one for a project's server
    None,
    Scenes,         \* bound: sets of what happens beside each other in one behavior
    MaxChanges,     \* bound: changes of problems, things and decisions, by scene
    MaxNews,        \* bound: notices of syncs
    MaxDays,        \* bound: days
    MaxTroubles     \* bound: kills, failed reads and failed writes

ASSUME NoticesAssumption ==
    /\ Named \in [Thing -> Thing]
    /\ None \notin Problem \cup Thing
    /\ Scenes \subseteq SUBSET ({"problems", "first sync", "failures", "days", "notices",
                          "troubles"} \cup Thing)
    /\ MaxChanges \in [Scenes -> Nat]
    /\ MaxNews \in Nat /\ MaxDays \in Nat \ {0} /\ MaxTroubles \in Nat

VARIABLES
    problems,       \* the problems there are
    unconfirmed,    \* files wait for the first sync to be confirmed
    candidate,      \* what a thing would be in the other tool
    registry,       \* registry.yaml: who decided about a thing
    day, lastSync,
    hook,           \* hookSync, by session
    queue,          \* notice.json
    told,           \* notified.json: item -> day
    heard,          \* history: the lasting items the user was told of since they began
    over,           \* history: those a hook has seen the end of since then
    missed,         \* history: those a hook did not find although they lasted
    twice,          \* history: those told twice for no reason
    owed,           \* history: the one-shot items that happened and were not told yet
    lost,           \* history: the items a kill or a failed write lost
    decided,        \* history: the decisions of the user, but those a hook overrules
    scene, changes, news, troubles

world == <<problems, unconfirmed, candidate, registry, day, lastSync>>
histories == <<heard, over, missed, twice, owed, lost, decided>>
bounds == <<scene, changes, news, troubles>>
vars == <<world, hook, queue, told, histories, bounds>>

Item(kind, of) == [kind |-> kind, of |-> of, day |-> 0]
ErrorOf(d) == [kind |-> "error", of |-> None, day |-> d]
Pending == Item("pending", None)
News == Item("notice", None)
OneShots == {News} \cup {Item("recorded", t) : t \in Thing}
Lasting == {Pending} \cup {Item("problem", p) : p \in Problem}
           \cup {Item("share", t) : t \in Thing} \cup {ErrorOf(d) : d \in 1..MaxDays}
Id == OneShots \cup Lasting
oneShot(i) == i.kind \in {"recorded", "notice"}

\* What a thing would be in the other tool.
Verdict == {"absent", "works", "blocked"}

Idle == [step |-> "idle", now |-> 0, res |-> FALSE, failed |-> FALSE, found |-> {},
         unset |-> {}, decisions |-> {}]

TypeOK ==
    /\ problems \subseteq Problem /\ unconfirmed \in BOOLEAN
    /\ candidate \in [Thing -> Verdict]
    /\ registry \in [Thing -> {"none", "auto", "user"}]
    /\ day \in 1..MaxDays /\ lastSync \in 0..day
    /\ hook \in [Hook -> [step : {"idle", "open", "gather", "save", "queue"}, now : 0..MaxDays,
                          res : BOOLEAN, failed : BOOLEAN, found : SUBSET Id,
                          unset : SUBSET Thing, decisions : SUBSET Thing]]
    /\ \A h \in Hook : hook[h].step # "idle" => day <= hook[h].now + 1
    /\ queue \subseteq Id
    /\ DOMAIN told \subseteq Lasting /\ \A i \in DOMAIN told : told[i] \in 0..day

Init ==
    /\ scene \in Scenes
    /\ problems \in IF "problems" \in scene THEN SUBSET Problem ELSE {{}}
    /\ unconfirmed = ("first sync" \in scene)
    /\ candidate \in {c \in [Thing -> Verdict] : \A t \in Thing \ scene : c[t] = "absent"}
    /\ registry = [t \in Thing |-> "none"]
    /\ day = 1 /\ lastSync = 0
    /\ hook = [h \in Hook |-> Idle]
    /\ queue = {} /\ told = [i \in {} |-> 0]
    /\ heard = {} /\ over = {} /\ missed = {} /\ twice = {}
    /\ owed = {} /\ lost = {} /\ decided = {}
    /\ changes = MaxChanges[scene] /\ news = MaxNews /\ troubles = MaxTroubles

\* Whether a lasting thing is the case now.  The news of a day on which no sync
\* has worked for long stays the same news.
holds(i) ==
    \/ i.kind = "problem" /\ i.of \in problems
    \/ i.kind = "pending" /\ unconfirmed
    \/ i.kind = "share" /\ candidate[i.of] = "works" /\ registry[i.of] = "none"
    \/ i.kind = "error"

-----------------------------------------------------------------------------
(* The hook of a session that starts *)

Trouble == "troubles" \in scene /\ troubles > 0 /\ troubles' = troubles - 1

Started(h, res, failed, found) ==
    /\ hook[h].step = "idle"
    /\ hook' = [hook EXCEPT ![h] =
                   [step |-> "open", now |-> day, res |-> res, failed |-> failed,
                    found |-> found, unset |-> {}, decisions |-> {}]]
    /\ owed' = owed \cup {i \in found : oneShot(i)}
    /\ lost' = lost \ {i \in found : oneShot(i)}
    /\ IF News \in found THEN news > 0 /\ news' = news - 1 ELSE UNCHANGED news

pendingNow == IF unconfirmed THEN {Pending} ELSE {}
newsNow == IF "notices" \in scene THEN {News} ELSE {}

\* A sync ran.  One that finds another sync running ends the hook: no change.
Synced(h) ==
    /\ \E notices \in SUBSET newsNow : Started(h, TRUE, FALSE, pendingNow \cup notices)
    /\ lastSync' = day
    /\ UNCHANGED <<problems, unconfirmed, candidate, registry, day, queue, told, heard, over,
                   missed, twice, decided, scene, changes, troubles>>

\* A sync failed; engine.Run returns what it knew by then beside the error, or
\* nothing when it could not even begin.
SyncFailed(h) ==
    /\ "failures" \in scene
    /\ \/ \E found \in SUBSET (pendingNow \cup newsNow) : Started(h, TRUE, TRUE, found)
       \/ Started(h, FALSE, TRUE, {})
    /\ UNCHANGED <<world, queue, told, heard, over, missed, twice, decided, scene, changes, troubles>>

\* The last sync is too recent for another.
Skipped(h) ==
    /\ lastSync = day
    /\ Started(h, FALSE, FALSE, {})
    /\ UNCHANGED <<world, queue, told, heard, over, missed, twice, decided, scene, changes, troubles>>

\* sharing: the hook loads the registry; unset are the things without a decision.
LoadRegistry(h) ==
    /\ hook[h].step = "open"
    /\ hook' = [hook EXCEPT ![h].step = "gather",
                            ![h].unset = {t \in Thing : registry[t] = "none"}]
    /\ UNCHANGED <<world, queue, told, histories, bounds>>

errors(h) == IF hook[h].failed /\ hook[h].now > lastSync THEN {ErrorOf(hook[h].now)} ELSE {}
standing == {Item("problem", p) : p \in problems}
\* compat.Scan: what one tool has and, by the registry as loaded, nobody decided about.
undecided(h) == {t \in hook[h].unset : candidate[t] # "absent"}
offered(h) == {Item("share", t) : t \in {x \in undecided(h) : candidate[x] = "works"}}
judged(h) == {t \in undecided(h) : candidate[t] = "blocked"}
recorded(h) == {Item("recorded", t) : t \in judged(h)}

\* gatherNotice, up to the decisions it records.  What the user decided after
\* the hook had loaded the registry, and it judges all the same, it overrules.
Gathered(h, found, decisions) ==
    /\ hook[h].step = "gather"
    /\ hook' = [hook EXCEPT ![h].found = @ \cup found, ![h].decisions = decisions,
                            ![h].failed = FALSE,
                            ![h].unset = IF decisions = {} THEN {} ELSE @,
                            ![h].step = IF decisions = {} THEN "queue" ELSE "save"]
    /\ owed' = owed \cup {i \in found : oneShot(i)}
    /\ lost' = lost \ {i \in found : oneShot(i)}
    /\ decided' = decided \ decisions
    /\ UNCHANGED <<world, queue, told, heard, over, missed, twice, scene, changes, news>>

Gather(h) ==
    /\ Gathered(h, errors(h) \cup standing \cup offered(h) \cup recorded(h), judged(h))
    /\ UNCHANGED troubles

\* What cannot be read is left out: the problems, or everything to share.
GatherPart(h) ==
    /\ \/ Gathered(h, errors(h) \cup offered(h) \cup recorded(h), judged(h))
       \/ Gathered(h, errors(h) \cup standing, {})
    /\ Trouble

Recorded(h, t) == \E c \in hook[h].decisions : Named[c] = t
\* A bug: the whole registry is written, as it was loaded.
savedWhole(h) == [t \in Thing |-> IF Recorded(h, t) THEN "auto"
                                  ELSE IF t \in hook[h].unset THEN "none" ELSE registry[t]]
\* Registry.Save: the decisions made here, into the file as it is now.  Each
\* goes under the thing's bare name.
saved(h) == [t \in Thing |-> IF Recorded(h, t) THEN "auto" ELSE registry[t]]

\* The hook saves its decisions under the sync lock.
SaveDecisions(h) ==
    /\ hook[h].step = "save"
    /\ registry' = saved(h)
    /\ hook' = [hook EXCEPT ![h].step = "queue", ![h].unset = {}, ![h].decisions = {}]
    /\ UNCHANGED <<problems, unconfirmed, candidate, day, lastSync, queue, told, histories, bounds>>

\* A failed save is only logged.
SaveFails(h) ==
    /\ hook[h].step = "save"
    /\ hook' = [hook EXCEPT ![h].step = "queue", ![h].unset = {}, ![h].decisions = {}]
    /\ Trouble
    /\ UNCHANGED <<world, queue, told, histories, scene, changes, news>>

-----------------------------------------------------------------------------
(* notice.json and notified.json *)

\* Only a sync can tell whether these still hold.
needsSync(i) == i.kind \in {"pending", "error"}

\* Bugs: what only a sync can tell is forgotten without one; nothing ever is.
forgetUnsynced(i, when, synced, now) == IF i.kind = "error" THEN now >= when + 2 ELSE TRUE
forgetNever(i, when, synced, now) == FALSE
\* Whether having told of an item that was not found can be forgotten.
forget(i, when, synced, now) ==
    IF i.kind = "error" THEN now >= when + 2
    ELSE needsSync(i) => synced

\* A bug: the queue is only what was found now.
keptNone == {}
\* Items queued earlier that must not be dropped.
kept == {i \in queue : oneShot(i)}

toldAfter(h) ==
    LET gone == {i \in DOMAIN told :
                    /\ i \notin kept \cup hook[h].found
                    /\ forget(i, told[i], hook[h].res, hook[h].now)}
    IN [i \in DOMAIN told \ gone |-> told[i]]
queueAfter(h) == kept \cup {i \in hook[h].found : oneShot(i) \/ i \notin DOMAIN told}

\* What the hook did not find, and could have.
unfound(h) == {i \in Lasting : /\ i.kind # "error" /\ i \notin hook[h].found
                               /\ needsSync(i) => hook[h].res}

\* notified.json is written: what was not found counts as over.
Forgotten(h) ==
    /\ told' = toldAfter(h)
    /\ over' = over \cup {i \in unfound(h) : ~holds(i)}
    /\ missed' = missed \cup {i \in unfound(h) : holds(i)}

\* queueNotice, under the notice lock: notified.json, then notice.json.
QueueNotice(h) ==
    /\ hook[h].step = "queue"
    /\ Forgotten(h)
    /\ queue' = queueAfter(h)
    /\ lost' = lost \ {i \in over' : ~oneShot(i)}
    /\ hook' = [hook EXCEPT ![h] = Idle]
    /\ UNCHANGED <<world, heard, twice, owed, decided, bounds>>

Dropped(h) == {i \in hook[h].found : oneShot(i)}

\* The hook is killed between the two files or the second cannot be written.
QueueHalf(h) ==
    /\ hook[h].step = "queue"
    /\ Forgotten(h)
    /\ lost' = (lost \ {i \in over' : ~oneShot(i)}) \cup Dropped(h)
    /\ hook' = [hook EXCEPT ![h] = Idle]
    /\ Trouble
    /\ UNCHANGED <<world, queue, heard, twice, owed, decided, scene, changes, news>>

\* The hook ends early: killed, the notice lock or the registry not to be had.
Killed(h) ==
    /\ hook[h].step # "idle"
    /\ lost' = lost \cup Dropped(h)
    /\ hook' = [hook EXCEPT ![h] = Idle]
    /\ Trouble
    /\ UNCHANGED <<world, queue, told, heard, over, missed, twice, owed, decided, scene, changes, news>>

\* A bug: one-shot items are remembered as told too, and never told again.
markedAll == [i \in DOMAIN told \cup queue |-> IF i \in queue THEN day ELSE told[i]]
\* takeNotice: the lasting items of the queue are told.
marked ==
    [i \in DOMAIN told \cup {x \in queue : ~oneShot(x)} |-> IF i \in queue THEN day ELSE told[i]]

\* The hook of a prompt.
Notify ==
    /\ queue # {}
    /\ told' = marked
    /\ queue' = {}
    /\ twice' = twice \cup {i \in (queue \cap heard) \ missed : holds(i)}
    /\ heard' = heard \cup {i \in queue : ~oneShot(i)}
    /\ over' = over \ queue /\ missed' = missed \ queue
    /\ owed' = owed \ queue /\ lost' = lost \ queue
    /\ UNCHANGED <<world, hook, decided, bounds>>

\* It is killed or fails after notified.json, or just before it prints.
NotifyCut ==
    /\ queue # {}
    /\ told' = marked
    /\ queue' \in {queue, {}}
    /\ lost' = lost \cup queue
    /\ Trouble
    /\ UNCHANGED <<world, hook, heard, over, missed, twice, owed, decided, scene, changes, news>>

-----------------------------------------------------------------------------
(* The rest of the world *)

\* What begins anew after a hook saw its end has not been told.
Changed ==
    /\ changes > 0 /\ changes' = changes - 1
    /\ LET begun == {i \in over : ~holds(i) /\ holds(i)'}
       IN heard' = heard \ begun /\ over' = over \ begun
    /\ UNCHANGED <<day, lastSync, hook, queue, told, missed, twice, owed, lost,
                   scene, news, troubles>>

\* A conflict or a missing tool comes up or is settled.
ProblemChanges ==
    /\ "problems" \in scene
    /\ \E p \in Problem : problems' = (problems \ {p}) \cup ({p} \ problems)
    /\ UNCHANGED <<unconfirmed, candidate, registry, decided>>
    /\ Changed

\* The user confirms the first sync.
Confirm ==
    /\ unconfirmed /\ unconfirmed' = FALSE
    /\ UNCHANGED <<problems, candidate, registry, decided>>
    /\ Changed

\* A skill or a server is added, edited or removed.
ThingChanges ==
    /\ \E t \in scene \cap Thing, c \in Verdict :
           c # candidate[t] /\ candidate' = [candidate EXCEPT ![t] = c]
    /\ UNCHANGED <<problems, unconfirmed, registry, decided>>
    /\ Changed

\* The user decides, here or on another machine (the registry syncs), or has a
\* thing judged again.  A hook that has judged the thing will overrule it.
Decide ==
    \E t \in scene \cap Thing, d \in {"user", "none"} :
        /\ registry[t] # d
        /\ registry' = [registry EXCEPT ![t] = d]
        /\ decided' = IF d = "user" /\ \A h \in Hook : t \notin hook[h].decisions
                      THEN decided \cup {t} ELSE decided \ {t}
        /\ UNCHANGED <<problems, unconfirmed, candidate>>
        /\ Changed

\* A hook takes less than a day; what is days apart is a little more than that.
NextDay ==
    /\ "days" \in scene
    /\ day < MaxDays
    /\ \A h \in Hook : hook[h].step # "idle" => hook[h].now = day
    /\ day' = day + 1
    /\ UNCHANGED <<problems, unconfirmed, candidate, registry, lastSync, hook, queue, told,
                   histories, bounds>>

Works(h) == LoadRegistry(h) \/ Gather(h) \/ SaveDecisions(h) \/ QueueNotice(h)
Fails(h) == GatherPart(h) \/ SaveFails(h) \/ QueueHalf(h) \/ Killed(h)
Next ==
    \/ \E h \in Hook : Synced(h) \/ SyncFailed(h) \/ Skipped(h) \/ Works(h) \/ Fails(h)
    \/ Notify \/ NotifyCut
    \/ ProblemChanges \/ Confirm \/ ThingChanges \/ Decide \/ NextDay

\* Some hook that started goes on.  Sessions start and the user prompts again and
\* again: now and then a sync works, and a prompt comes while something is queued
\* (a hook may take a lasting item off the queue again before the next prompt).
Fairness ==
    /\ WF_vars(\E h \in Hook : Works(h))
    /\ SF_vars(\E h \in Hook : Synced(h))
    /\ SF_vars(Notify)

Spec == Init /\ [][Next]_vars
FairSpec == Spec /\ Fairness

-----------------------------------------------------------------------------
(* What the hooks promise *)

\* "The hooks tell the agent what the user should hear about, once each"
\* (notice.go:20): nothing is told again while it lasts and every hook finds it.
\* A hook that looked before it began, or could not read it, does not find it;
\* nor does a sync that failed early find the files that wait (README).
ToldOnce == twice = {}

\* A one-shot item is told or on its way: no hook that runs beside, no sync and
\* no prompt drops it from the queue, only a kill or a failed write.
OneShotsKept ==
    owed \subseteq queue \cup lost \cup UNION {hook[h].found : h \in Hook}

\* What the user decides stays decided.  Hooks that judge beside it replace no
\* decision about another thing, nor one that had been made when they loaded the
\* registry; only a thing a hook has judged itself, from a registry loaded before
\* the user decided about it, is its own.
DecisionsStay == \A t \in decided : registry[t] = "user"

\* What lasts is told in the end, and told again when it comes back after a hook
\* saw it over, whichever hooks overlap.
ProblemsAreTold ==
    \A i \in {x \in Lasting : x.kind # "error"} :
        holds(i) ~> (~holds(i) \/ i \in heard \cup lost)
=============================================================================
