------------------------------- MODULE Engine -------------------------------
(***************************************************************************)
(* The sync engine (internal/engine): machines that share one store, each  *)
(* running syncs (Engine.Run) and resolutions (Engine.Resolve) under its   *)
(* own lock, while users edit their files, calls to the store fail or      *)
(* arrive late, and processes are killed at any point.                     *)
(*                                                                         *)
(* pc[m] is where the process holding m's sync.lock is; "idle" is a free   *)
(* lock (a flock is released when its process dies):                       *)
(*   "scan"     the state is loaded; read the disk and list the store      *)
(*   "fetch"    the listed objects a decision depends on are being read    *)
(*   "apply"    the actions in todo[m] are being carried out               *)
(*   "resolve"  a resolution has read the store and acts on its answer     *)
(* Reading the disk and listing the store are one step: nothing another    *)
(* process does to one of them is visible to the other read.               *)
(*                                                                         *)
(* Left to other modules or left out: what a path holds besides its entry  *)
(* (directories in the way, names), structured files, the backup taken of  *)
(* every path before it is written and the journal, dry runs (they stop    *)
(* after the plan and change nothing), notices.                            *)
(***************************************************************************)
EXTENDS Decide

CONSTANTS
    Key,            \* the paths that are synced
    Edits,          \* the entries users write
    Start,          \* what a disk can hold before the first sync
    Modes,          \* the directions of the runs: "both", "pull", "push"
    ReportsETag,    \* whether a Put answers with the new object's ETag
    EditDuringRun,  \* whether a user edits while a sync of the machine runs
    MaxEdits, MaxResolves, MaxFaults, MaxCrashes, MaxLosses   \* bounds

ASSUME EngineAssumption ==
    /\ Edits \subseteq Entry
    /\ Start \subseteq Edits \cup {Absent}
    /\ Modes \subseteq {"both", "pull", "push"}
    /\ ReportsETag \in BOOLEAN
    /\ EditDuringRun \in BOOLEAN
    /\ {MaxEdits, MaxResolves, MaxFaults, MaxCrashes, MaxLosses} \subseteq Nat

VARIABLES
    store,       \* the objects of the store
    lastETag,    \* the newest ETag the store has given out
    late,        \* Puts whose caller gave up and that may still arrive
    disk,        \* the entries on every machine's disk, as its scanner reads them
    saved,       \* the entries of state.json
    settled,     \* the "settled" field of state.json
    shown,       \* the ETag of the version set aside in conflicts/, or 0
    pc,          \* where the machine's run is
    run,         \* its options and its round
    known,       \* st.Entries of the run
    local,       \* what its scan found
    listing,     \* the ETags its listing found
    fetched,     \* the objects it read
    unreadable,  \* the keys whose object it could not open
    todo,        \* its plan
    aware,       \* history: the machines that have taken note of the current object
    agreed,      \* history: the entry last shared by this disk and the store
    unasked,     \* history: entries from before the first sync nobody confirmed
    spent        \* history: how much of every bound is used up

storeVars == <<store, lastETag, late, aware>>
stateVars == <<saved, settled>>
runVars == <<pc, run, known, local, listing, fetched, unreadable, todo>>
vars == <<storeVars, disk, stateVars, shown, runVars, agreed, unasked, spent>>

Run == [mode : {"both", "pull", "push"}, adopt : BOOLEAN, round : 0..2, retry : BOOLEAN]
NoRun == [mode |-> "both", adopt |-> FALSE, round |-> 0, retry |-> FALSE]
Put == [key : Key, entry : EntryOrAbsent, writer : Machine, ifMatch : Nat]
Spent == [edits : Nat, resolves : Nat, faults : Nat, crashes : Nat, losses : Nat]
maxRounds == 2

PerKey(v) == [k \in Key |-> v]
PerMachine(v) == [m \in Machine |-> v]

TypeOK ==
    /\ store \in [Key -> Object]
    /\ lastETag \in Nat
    /\ late \subseteq Put
    /\ disk \in [Machine -> [Key -> EntryOrAbsent]]
    /\ saved \in [Machine -> [Key -> EntryState]]
    /\ settled \in [Machine -> BOOLEAN]
    /\ shown \in [Machine -> [Key -> Nat]]
    /\ pc \in [Machine -> {"idle", "scan", "fetch", "apply", "resolve"}]
    /\ run \in [Machine -> Run]
    /\ known \in [Machine -> [Key -> EntryState]]
    /\ local \in [Machine -> [Key -> EntryOrAbsent]]
    /\ listing \in [Machine -> [Key -> Nat]]
    /\ fetched \in [Machine -> [Key -> Object]]
    /\ unreadable \in [Machine -> SUBSET Key]
    /\ todo \in [Machine -> [Key -> Action]]
    /\ aware \in [Key -> SUBSET Machine]
    /\ agreed \in [Machine -> [Key -> EntryOrAbsent]]
    /\ unasked \in [Machine -> SUBSET Key]
    /\ spent \in Spent

Init ==
    /\ store = PerKey(NoObject)
    /\ lastETag = 0
    /\ late = {}
    /\ disk \in [Machine -> [Key -> Start]]
    /\ \A m \in Machine, k \in Key : disk[m][k] = onDisk(disk[m][k], m)
    /\ saved = PerMachine(PerKey(NoState))
    /\ settled = PerMachine(FALSE)
    /\ shown = PerMachine(PerKey(0))
    /\ pc = PerMachine("idle")
    /\ run = PerMachine(NoRun)
    /\ known = PerMachine(PerKey(NoState))
    /\ local = PerMachine(PerKey(Absent))
    /\ listing = PerMachine(PerKey(0))
    /\ fetched = PerMachine(PerKey(NoObject))
    /\ unreadable = PerMachine({})
    /\ todo = PerMachine(PerKey(NoAction))
    /\ aware = PerKey({})
    /\ agreed = PerMachine(PerKey(Absent))
    /\ unasked = [m \in Machine |-> {k \in Key : disk[m][k] # Absent}]
    /\ spent = [edits |-> 0, resolves |-> 0, faults |-> 0, crashes |-> 0, losses |-> 0]

-----------------------------------------------------------------------------
(* Helpers *)

\* One more use of a bounded kind of event.
Spend(what, bound) ==
    /\ spent[what] < bound
    /\ spent' = [spent EXCEPT ![what] = @ + 1]

\* The process is gone: nothing of the run is left but what it wrote.
EndRun(m) ==
    /\ pc' = [pc EXCEPT ![m] = "idle"]
    /\ run' = [run EXCEPT ![m] = NoRun]
    /\ known' = [known EXCEPT ![m] = PerKey(NoState)]
    /\ local' = [local EXCEPT ![m] = PerKey(Absent)]
    /\ listing' = [listing EXCEPT ![m] = PerKey(0)]
    /\ fetched' = [fetched EXCEPT ![m] = PerKey(NoObject)]
    /\ unreadable' = [unreadable EXCEPT ![m] = {}]
    /\ todo' = [todo EXCEPT ![m] = PerKey(NoAction)]

\* A bug: a store that ignores If-Match.
acceptsAnyMatch(k, ifMatch) == ifMatch = 0 => store[k] = NoObject

\* The precondition of a conditional Put: the object has exactly this ETag, or
\* (ifMatch = 0) does not exist.
accepts(k, ifMatch) == store[k].etag = ifMatch

\* The store takes a Put: a new object with a new ETag, that only its writer
\* has taken note of.
StorePut(m, k, e) ==
    /\ lastETag' = lastETag + 1
    /\ store' = [store EXCEPT ![k] = [etag |-> lastETag + 1, entry |-> e, writer |-> m]]
    /\ aware' = [aware EXCEPT ![k] = {m}]

\* m now has version r of k on its disk, or is told about it.
TakeNote(m, k, r) ==
    aware' = IF r = store[k] /\ r # NoObject
             THEN [aware EXCEPT ![k] = @ \cup {m}] ELSE aware

\* The entry of k on m's disk and in m's state is now the one in the store.
Agree(m, k, e) ==
    /\ agreed' = [agreed EXCEPT ![m][k] = e]
    /\ unasked' = [unasked EXCEPT ![m] = @ \ {k}]

Done(m, k) == todo' = [todo EXCEPT ![m][k] = NoAction]
Remember(m, k, s) == known' = [known EXCEPT ![m][k] = s]

\* A bug: the ETag of the answer is dropped.
answeredNever(etag) == 0

\* The ETag a Put answers with.
answered(etag) == IF ReportsETag THEN etag ELSE 0

-----------------------------------------------------------------------------
(* The user and the world outside the program *)

\* A user writes or deletes an entry.  Entries that appear before the machine
\* has settled its first sync are this machine's own until confirmed.
UserEdit(m, k) ==
    /\ EditDuringRun \/ pc[m] = "idle"
    /\ Spend("edits", MaxEdits)
    /\ \E e \in Edits \cup {Absent} :
          /\ e # disk[m][k] /\ e = onDisk(e, m)
          /\ disk' = [disk EXCEPT ![m][k] = e]
          /\ unasked' = [unasked EXCEPT ![m] =
                IF e # Absent /\ ~settled[m] /\ saved[m][k] = NoState
                THEN @ \cup {k} ELSE @ \ {k}]
    /\ UNCHANGED <<storeVars, stateVars, shown, runVars, agreed>>

\* An object disappears from the store: deleted with another tool.
ObjectLost(k) ==
    /\ store[k] # NoObject
    /\ Spend("losses", MaxLosses)
    /\ store' = [store EXCEPT ![k] = NoObject]
    /\ aware' = [aware EXCEPT ![k] = {}]
    /\ UNCHANGED <<lastETag, late, disk, stateVars, shown, runVars, agreed, unasked>>

\* A Put whose caller gave up waiting reaches the store after all.
LatePut(p) ==
    /\ p \in late
    /\ late' = late \ {p}
    /\ IF accepts(p.key, p.ifMatch)
       THEN StorePut(p.writer, p.key, p.entry)
       ELSE UNCHANGED <<store, lastETag, aware>>
    /\ UNCHANGED <<disk, stateVars, shown, runVars, agreed, unasked, spent>>

\* The process that holds m's lock dies.
Crash(m) ==
    /\ pc[m] # "idle"
    /\ Spend("crashes", MaxCrashes)
    /\ EndRun(m)
    /\ UNCHANGED <<storeVars, disk, stateVars, shown, agreed, unasked>>

-----------------------------------------------------------------------------
(* Engine.Run *)

\* Take the lock and load the state.  adopt: the user confirms the upload of
\* what only this machine has.
Begin(m, mode, adopt) ==
    /\ pc[m] = "idle"
    /\ pc' = [pc EXCEPT ![m] = "scan"]
    /\ run' = [run EXCEPT ![m] =
                 [mode |-> mode, adopt |-> adopt, round |-> 1, retry |-> FALSE]]
    /\ known' = [known EXCEPT ![m] = saved[m]]
    /\ unasked' = [unasked EXCEPT ![m] = IF adopt THEN {} ELSE @]
    /\ UNCHANGED <<storeVars, disk, stateVars, shown, local, listing, fetched,
                   unreadable, todo, agreed, spent>>

\* Read the disk and list the store.
ScanAndList(m) ==
    /\ pc[m] = "scan"
    /\ pc' = [pc EXCEPT ![m] = "fetch"]
    /\ local' = [local EXCEPT ![m] = disk[m]]
    /\ listing' = [listing EXCEPT ![m] = [k \in Key |-> store[k].etag]]
    /\ UNCHANGED <<storeVars, disk, stateVars, shown, run, known, fetched, unreadable,
                   todo, agreed, unasked, spent>>

\* The scan meets an entry it cannot read (no permission, over the size limit, a
\* link out of the synced paths): a problem is reported, and the entry is missing
\* from what the scan found.
ScanMisses(m, k) ==
    /\ pc[m] = "scan" /\ disk[m][k] # Absent
    /\ Spend("faults", MaxFaults)
    /\ pc' = [pc EXCEPT ![m] = "fetch"]
    /\ local' = [local EXCEPT ![m] = [disk[m] EXCEPT ![k] = Absent]]
    /\ listing' = [listing EXCEPT ![m] = [j \in Key |-> store[j].etag]]
    /\ UNCHANGED <<storeVars, disk, stateVars, shown, run, known, fetched, unreadable,
                   todo, agreed, unasked>>

toFetch(m) == {k \in Key : /\ listing[m][k] # 0
                           /\ needsFetch(listing[m][k], known[m][k])
                           /\ fetched[m][k] = NoObject
                           /\ k \notin unreadable[m]}

\* Read one listed object.  One that is gone by now counts as never listed.
Fetch(m, k) ==
    /\ pc[m] = "fetch" /\ k \in toFetch(m)
    /\ IF store[k] = NoObject
       THEN /\ listing' = [listing EXCEPT ![m][k] = 0]
            /\ UNCHANGED fetched
       ELSE /\ fetched' = [fetched EXCEPT ![m][k] = store[k]]
            /\ UNCHANGED listing
    /\ UNCHANGED <<storeVars, disk, stateVars, shown, pc, run, known, local, unreadable,
                   todo, agreed, unasked, spent>>

\* The object cannot be opened (another key, a damaged object): a problem is
\* reported and its key left alone.
FetchUnreadable(m, k) ==
    /\ pc[m] = "fetch" /\ k \in toFetch(m) /\ store[k] # NoObject
    /\ Spend("faults", MaxFaults)
    /\ unreadable' = [unreadable EXCEPT ![m] = @ \cup {k}]
    /\ UNCHANGED <<storeVars, disk, stateVars, shown, pc, run, known, local, listing,
                   fetched, todo, agreed, unasked>>

\* Listing the store, or reading an object, fails: the run ends with an error.
Abort(m) ==
    /\ pc[m] \in {"scan", "fetch"}
    /\ Spend("faults", MaxFaults)
    /\ EndRun(m)
    /\ UNCHANGED <<storeVars, disk, stateVars, shown, agreed, unasked>>

\* The plan for one key, in the direction of the run.
planned(m, k) ==
    LET a == decide(local[m][k], listing[m][k], known[m][k], fetched[m][k],
                    ~settled[m], run[m].adopt, m)
    IN  IF k \notin unreadable[m] /\ allowed(a.kind, run[m].mode) THEN a ELSE NoAction

\* A bug: the state is saved before the plan is carried out.
PlanSavesFirst(m) ==
    /\ pc[m] = "fetch" /\ toFetch(m) = {}
    /\ pc' = [pc EXCEPT ![m] = "apply"]
    /\ todo' = [todo EXCEPT ![m] = [k \in Key |-> planned(m, k)]]
    /\ saved' = [saved EXCEPT ![m] = [k \in Key |->
          LET a == planned(m, k) IN IF a.kind \in LocalKinds THEN applied(a) ELSE @[k]]]
    /\ UNCHANGED <<storeVars, disk, settled, shown, run, known, local, listing, fetched,
                   unreadable, agreed, unasked, spent>>

\* The plan for every key, from what was read.
Plan(m) ==
    /\ pc[m] = "fetch" /\ toFetch(m) = {}
    /\ pc' = [pc EXCEPT ![m] = "apply"]
    /\ todo' = [todo EXCEPT ![m] = [k \in Key |-> planned(m, k)]]
    /\ local' = [local EXCEPT ![m] = PerKey(Absent)]
    /\ listing' = [listing EXCEPT ![m] = PerKey(0)]
    /\ fetched' = [fetched EXCEPT ![m] = PerKey(NoObject)]
    /\ unreadable' = [unreadable EXCEPT ![m] = {}]
    /\ UNCHANGED <<storeVars, disk, stateVars, shown, run, known, agreed, unasked, spent>>

\* The action of k is next: actions on the disk go in rank order, the uploads
\* come after everything else.
turn(m, k, kinds) ==
    /\ pc[m] = "apply" /\ todo[m][k].kind \in kinds
    /\ \A j \in Key : todo[m][j].kind \in LocalKinds \cup OtherKinds =>
           /\ kinds # UploadKinds
           /\ rank(todo[m][k]) <= rank(todo[m][j])

\* applyLocal: the entry on disk becomes the remote one.  A version of this
\* machine that was never synced (keep) is copied to conflicts/ before.
WriteEntry(m, k) ==
    LET a == todo[m][k]
    IN  /\ canWrite(disk[m][k], a.remote.entry)
        /\ disk' = [disk EXCEPT ![m][k] = onDisk(a.remote.entry, m)]
        /\ Remember(m, k, applied(a))
        /\ TakeNote(m, k, a.remote)
        /\ Agree(m, k, onDisk(a.remote.entry, m))

\* applyLocal fails: nothing is written, except that a link in the way of the
\* new entry may be gone already.
FailToWrite(m, k) ==
    LET a == todo[m][k]
    IN  /\ canWrite(disk[m][k], a.remote.entry)
        /\ Spend("faults", MaxFaults)
        /\ \/ UNCHANGED disk
           \/ /\ a.kind = "download" /\ disk[m][k].kind = "link"
              /\ disk' = [disk EXCEPT ![m][k] = Absent]

ApplyLocal(m, k) ==
    /\ turn(m, k, LocalKinds)
    /\ WriteEntry(m, k)
    /\ Done(m, k)
    /\ UNCHANGED <<store, lastETag, late, stateVars, shown, pc, run, local, listing,
                   fetched, unreadable, spent>>

\* A bug: the state follows although the write failed.
ApplyLocalFailsUnnoticed(m, k) ==
    /\ turn(m, k, LocalKinds)
    /\ FailToWrite(m, k)
    /\ Remember(m, k, applied(todo[m][k]))
    /\ Done(m, k)
    /\ UNCHANGED <<storeVars, stateVars, shown, pc, run, local, listing, fetched,
                   unreadable, agreed, unasked>>

\* A problem is reported and the state stays as it was.
ApplyLocalFails(m, k) ==
    /\ turn(m, k, LocalKinds)
    /\ FailToWrite(m, k)
    /\ Done(m, k)
    /\ UNCHANGED <<storeVars, stateVars, shown, pc, run, known, local, listing, fetched,
                   unreadable, agreed, unasked>>

\* A link cannot be made where a file is: the same problem in every sync.
LinkBlocked(m, k) ==
    /\ turn(m, k, LocalKinds)
    /\ ~canWrite(disk[m][k], todo[m][k].remote.entry)
    /\ Done(m, k)
    /\ UNCHANGED <<storeVars, disk, stateVars, shown, pc, run, known, local, listing,
                   fetched, unreadable, agreed, unasked, spent>>

\* Conflict: the other version is set aside, the state stays as it was.
SaveConflict(m, k) ==
    /\ turn(m, k, {"conflict"})
    /\ shown' = [shown EXCEPT ![m][k] = todo[m][k].remote.etag]
    /\ Done(m, k)
    /\ UNCHANGED <<storeVars, disk, stateVars, pc, run, known, local, listing, fetched,
                   unreadable, agreed, unasked, spent>>

\* The other version cannot be set aside: a problem is reported, nothing changes;
\* so this fault need not be counted.
SaveConflictFails(m, k) ==
    /\ turn(m, k, {"conflict"})
    /\ MaxFaults > 0
    /\ Done(m, k)
    /\ UNCHANGED <<storeVars, disk, stateVars, shown, pc, run, known, local, listing,
                   fetched, unreadable, agreed, unasked, spent>>

Record(m, k) ==
    /\ turn(m, k, {"record"})
    /\ Remember(m, k, recorded(todo[m][k]))
    /\ TakeNote(m, k, todo[m][k].remote)
    /\ Agree(m, k, todo[m][k].local)
    /\ Done(m, k)
    /\ UNCHANGED <<store, lastETag, late, disk, stateVars, shown, pc, run, local, listing,
                   fetched, unreadable, spent>>

Forget(m, k) ==
    /\ turn(m, k, {"forget"})
    /\ Remember(m, k, NoState)
    /\ Agree(m, k, Absent)
    /\ Done(m, k)
    /\ UNCHANGED <<storeVars, disk, stateVars, shown, pc, run, local, listing, fetched,
                   unreadable, spent>>

\* A bug: the state is taken from the disk after the upload.
PutAnsweredRereads(m, k) ==
    LET a == todo[m][k]
        e == uploaded(a, known[m][k], m)
    IN  /\ accepts(k, a.ifMatch)
        /\ StorePut(m, k, e)
        /\ Remember(m, k, [etag |-> answered(lastETag + 1), entry |-> disk[m][k]])
        /\ Agree(m, k, a.local)

\* The store takes the upload and answers.
PutAnswered(m, k) ==
    LET a == todo[m][k]
        e == uploaded(a, known[m][k], m)
    IN  /\ accepts(k, a.ifMatch)
        /\ StorePut(m, k, e)
        /\ Remember(m, k, [etag |-> answered(lastETag + 1), entry |-> e])
        /\ Agree(m, k, a.local)

\* No answer: the request is lost, or on its way.
PutUnanswered(m, k) ==
    LET a == todo[m][k]
    IN  /\ Spend("faults", MaxFaults)
        /\ late' = late \cup {[key |-> k, entry |-> uploaded(a, known[m][k], m),
                               writer |-> m, ifMatch |-> a.ifMatch]}

\* The store takes the upload, its answer is lost, and the client library sends
\* it again: the upload now loses a race against itself.
PutRepeated(m, k) ==
    LET a == todo[m][k]
    IN  /\ Spend("faults", MaxFaults)
        /\ accepts(k, a.ifMatch)
        /\ StorePut(m, k, uploaded(a, known[m][k], m))

Upload(m, k) ==
    /\ turn(m, k, UploadKinds)
    /\ PutAnswered(m, k)
    /\ Done(m, k)
    /\ UNCHANGED <<late, disk, stateVars, shown, pc, run, local, listing, fetched,
                   unreadable, spent>>

\* The object changed since it was read: this round lost a race.
UploadLosesRace(m, k) ==
    /\ turn(m, k, UploadKinds)
    /\ ~accepts(k, todo[m][k].ifMatch)
    /\ run' = [run EXCEPT ![m].retry = TRUE]
    /\ Done(m, k)
    /\ UNCHANGED <<storeVars, disk, stateVars, shown, pc, known, local, listing, fetched,
                   unreadable, agreed, unasked, spent>>

UploadRepeated(m, k) ==
    /\ turn(m, k, UploadKinds)
    /\ PutRepeated(m, k)
    /\ run' = [run EXCEPT ![m].retry = TRUE]
    /\ Done(m, k)
    /\ UNCHANGED <<late, disk, stateVars, shown, pc, known, local, listing, fetched,
                   unreadable, agreed, unasked>>

\* A problem is reported and the state stays as it was.
UploadFails(m, k) ==
    /\ turn(m, k, UploadKinds)
    /\ PutUnanswered(m, k)
    /\ Done(m, k)
    /\ UNCHANGED <<store, lastETag, aware, disk, stateVars, shown, pc, run, known, local,
                   listing, fetched, unreadable, agreed, unasked>>

\* Everything is carried out: save the state; after a lost race start the last
\* round, else let go of the lock.
FinishRound(m) ==
    /\ pc[m] = "apply"
    /\ \A k \in Key : todo[m][k].kind \in {"none", "pending"}
    /\ saved' = [saved EXCEPT ![m] = known[m]]
    /\ settled' = [settled EXCEPT ![m] =
          @ \/ (run[m].mode # "pull" /\ \A k \in Key : todo[m][k].kind # "pending")]
    /\ IF run[m].retry /\ run[m].round < maxRounds
       THEN /\ pc' = [pc EXCEPT ![m] = "scan"]
            /\ run' = [run EXCEPT ![m].round = @ + 1, ![m].retry = FALSE]
            /\ todo' = [todo EXCEPT ![m] = PerKey(NoAction)]
            /\ UNCHANGED <<known, local, listing, fetched, unreadable>>
       ELSE EndRun(m)
    /\ UNCHANGED <<storeVars, disk, shown, agreed, unasked, spent>>

-----------------------------------------------------------------------------
(* Engine.Resolve *)

\* There is nothing to settle.  The fingerprint of a remote file is not filled
\* in here, so a file on disk never counts as the same content.
noConflict(m, k) ==
    \/ store[k] = NoObject
    \/ disk[m][k].kind # "file" /\ sameContent(disk[m][k], store[k], m)
    \/ saved[m][k] # NoState /\ saved[m][k].etag = store[k].etag

ResolveNothing(m, k) ==
    /\ pc[m] = "idle" /\ noConflict(m, k)
    /\ shown[m][k] # 0
    /\ shown' = [shown EXCEPT ![m][k] = 0]
    /\ UNCHANGED <<storeVars, disk, stateVars, runVars, agreed, unasked, spent>>

\* The user decides: keepLocal overrules the version read here, otherwise that
\* version replaces the one on disk.
Resolve(m, k, keepLocal) ==
    /\ pc[m] = "idle" /\ ~noConflict(m, k)
    /\ Spend("resolves", MaxResolves)
    /\ pc' = [pc EXCEPT ![m] = "resolve"]
    /\ known' = [known EXCEPT ![m] = saved[m]]
    /\ todo' = [todo EXCEPT ![m][k] =
          [kind |-> IF keepLocal
                    THEN IF disk[m][k] = Absent THEN "upload-delete" ELSE "upload"
                    ELSE IF store[k].entry = Absent THEN "remove" ELSE "download",
           local |-> disk[m][k], remote |-> store[k],
           ifMatch |-> IF keepLocal THEN store[k].etag ELSE 0, keep |-> FALSE]]
    /\ IF keepLocal THEN TakeNote(m, k, store[k]) ELSE UNCHANGED aware
    /\ UNCHANGED <<store, lastETag, late, disk, stateVars, shown, run, local, listing,
                   fetched, unreadable, agreed, unasked>>

\* The chosen version is in place, here or in the store.
ResolveEffect(m, k) ==
    /\ pc[m] = "resolve"
    /\ \/ /\ todo[m][k].kind \in UploadKinds
          /\ PutAnswered(m, k)
          /\ UNCHANGED disk
       \/ /\ todo[m][k].kind \in LocalKinds
          /\ WriteEntry(m, k)
          /\ UNCHANGED <<store, lastETag>>
    /\ todo' = [todo EXCEPT ![m][k].kind = "drop"]
    /\ UNCHANGED <<late, stateVars, shown, pc, run, local, listing, fetched, unreadable,
                   spent>>

\* The write fails: nothing is saved.
ResolveFails(m, k) ==
    /\ pc[m] = "resolve"
    /\ \/ /\ todo[m][k].kind \in UploadKinds
          /\ \/ PutUnanswered(m, k) /\ UNCHANGED <<store, lastETag, aware>>
             \/ PutRepeated(m, k) /\ UNCHANGED late
          /\ UNCHANGED disk
       \/ /\ todo[m][k].kind \in LocalKinds
          /\ FailToWrite(m, k)
          /\ UNCHANGED storeVars
    /\ EndRun(m)
    /\ UNCHANGED <<stateVars, shown, agreed, unasked>>

\* The other version changed again since it was read, or it is a link that
\* cannot be made where a file is.
ResolveRefused(m, k) ==
    /\ pc[m] = "resolve"
    /\ \/ todo[m][k].kind \in UploadKinds /\ ~accepts(k, todo[m][k].ifMatch)
       \/ /\ todo[m][k].kind \in LocalKinds
          /\ ~canWrite(disk[m][k], todo[m][k].remote.entry)
    /\ EndRun(m)
    /\ UNCHANGED <<storeVars, disk, stateVars, shown, agreed, unasked, spent>>

\* Drop the versions set aside and save the state.
ResolveSave(m, k) ==
    /\ pc[m] = "resolve" /\ todo[m][k].kind = "drop"
    /\ shown' = [shown EXCEPT ![m][k] = 0]
    /\ saved' = [saved EXCEPT ![m] = known[m]]
    /\ EndRun(m)
    /\ UNCHANGED <<storeVars, disk, settled, agreed, unasked, spent>>

-----------------------------------------------------------------------------
(* The specification *)

\* The steps of a run that do not depend on something going wrong.
RunStep(m) ==
    \/ ScanAndList(m) \/ Plan(m) \/ FinishRound(m)
    \/ \E k \in Key :
          \/ Fetch(m, k) \/ ApplyLocal(m, k) \/ SaveConflict(m, k) \/ Record(m, k)
          \/ Forget(m, k) \/ Upload(m, k) \/ UploadLosesRace(m, k)
          \/ LinkBlocked(m, k)
          \/ ResolveEffect(m, k) \/ ResolveRefused(m, k) \/ ResolveSave(m, k)

FailStep(m) ==
    \/ Abort(m) \/ Crash(m)
    \/ \E k \in Key :
          \/ ScanMisses(m, k) \/ FetchUnreadable(m, k) \/ ApplyLocalFails(m, k)
          \/ SaveConflictFails(m, k)
          \/ UploadFails(m, k) \/ UploadRepeated(m, k) \/ ResolveFails(m, k)

UserStep(m) ==
    \/ \E mode \in Modes, adopt \in BOOLEAN : Begin(m, mode, adopt)
    \/ \E k \in Key : \/ UserEdit(m, k) \/ ResolveNothing(m, k)
                      \/ \E keepLocal \in BOOLEAN : Resolve(m, k, keepLocal)

Next ==
    \/ \E m \in Machine : RunStep(m) \/ FailStep(m) \/ UserStep(m)
    \/ \E k \in Key : ObjectLost(k)
    \/ \E p \in late : LatePut(p)

Spec == Init /\ [][Next]_vars

\* The hooks start a sync whenever a session starts and after every answer, so
\* every machine keeps starting full syncs, and a run that started goes on.
\* Nothing is assumed of the user, of failures or of late Puts.
Fairness ==
    \A m \in Machine :
        /\ WF_vars(RunStep(m))
        /\ WF_vars(\E adopt \in BOOLEAN : Begin(m, "both", adopt))

FairSpec == Spec /\ Fairness

-----------------------------------------------------------------------------
(* Properties *)

\* The engine implements SharedEntries: whatever fails, arrives late, is killed
\* or runs at the same time, no machine replaces a version in the store that it
\* has not taken note of.
Shared == INSTANCE SharedEntries WITH head <- store
SharedEntriesSpec == Shared!AbsSpec

\* The state never claims an agreement that is not there: when it holds the ETag
\* of the current object, it holds that object's content too.  Otherwise the two
\* sides would differ for good, as equal ETags are never looked into.
Matches(m, k, s) == s.etag # 0 /\ s.etag = store[k].etag => SameEntry(s.entry, store[k].entry, m)
StateMatchesStore ==
    \A m \in Machine, k \in Key : Matches(m, k, saved[m][k]) /\ Matches(m, k, known[m][k])

\* Why both of these hold.  Whatever a machine keeps about an object (in state.json,
\* in the reads, the plan and the uploads of a run, in a Put that is on its way) is
\* about an older version, or says what the current version o says.  last is the
\* newest ETag, w the machines that have taken note of o.
GoodState(m, s, o, last, w) ==
    /\ s.etag <= last
    /\ s.etag # 0 /\ s.etag = o.etag => SameEntry(s.entry, o.entry, m) /\ m \in w
GoodRead(r, o, last) ==
    /\ r.etag <= last
    /\ r.etag # 0 /\ r.etag = o.etag => r = o
GoodMatch(m, i, o, last, w) ==
    /\ i <= last
    /\ i # 0 /\ i = o.etag => m \in w \/ o.entry = Absent
GoodObject(o, last) ==
    /\ o.etag <= last
    /\ o.etag = 0 => o = NoObject
GoodPlan(m, a, o, last, w) ==
    /\ GoodRead(a.remote, o, last)
    /\ a.kind = "record" => SameEntry(a.local, a.remote.entry, m)
    /\ a.kind \in UploadKinds => GoodMatch(m, a.ifMatch, o, last, w)
KnowledgeIsSound ==
    /\ \A k \in Key : GoodObject(store[k], lastETag)
    /\ \A m \in Machine, k \in Key :
          /\ GoodState(m, saved[m][k], store[k], lastETag, aware[k])
          /\ GoodState(m, known[m][k], store[k], lastETag, aware[k])
          /\ GoodRead(fetched[m][k], store[k], lastETag)
          /\ GoodPlan(m, todo[m][k], store[k], lastETag, aware[k])
    /\ \A p \in late :
          GoodMatch(p.writer, p.ifMatch, store[p.key], lastETag, aware[p.key])

\* A sync plans to delete an entry for everyone only when this machine and the
\* store shared the entry before: never because a write failed, a run was killed or
\* the entry was not there yet.
DeletesOnlyShared ==
    \A m \in Machine, k \in Key :
        pc[m] = "apply" /\ todo[m][k].kind = "upload-delete" => agreed[m][k] # Absent

\* "Problem is a path that is not synced, and why" (internal/entry/entry.go): a path
\* the scan cannot read is left alone; what a sync deletes for everyone is gone from
\* this machine's disk.  (Of runs during which no user edits.)
DeletesOnlyWhatIsGone ==
    \A m \in Machine, k \in Key :
        pc[m] = "apply" /\ todo[m][k].kind = "upload-delete" => disk[m][k] = Absent

\* A sync never replaces or removes what a user wrote since the entry was last
\* shared, unless this machine's version was set aside ("conflicts set aside
\* instead of overwritten", README.md).
ReplacesOnlyShared ==
    [][\A m \in Machine, k \in Key :
          pc[m] = "apply" /\ disk'[m][k] # disk[m][k] /\ spent'.edits = spent.edits
          => disk[m][k] \in {Absent, agreed[m][k]} \/ todo[m][k].keep]_vars

\* What a machine had before its first sync is uploaded only when its user
\* confirmed ("On a machine's first sync, files only it has are uploaded only
\* when you confirm", README.md).
UnaskedStaysLocal ==
    \A m \in Machine, k \in Key :
        pc[m] = "apply" /\ todo[m][k].kind \in UploadKinds /\ ~run[m].adopt
        => k \notin unasked[m]

\* A machine's own version never comes back to it as another machine's change: not
\* as a conflict, and not over what its user did since.
OwnVersionsStayOwn ==
    \A m \in Machine, k \in Key :
        pc[m] = "apply" /\ todo[m][k].kind \in {"conflict", "download", "remove"}
        => todo[m][k].remote.writer # m

\* "was changed differently on two machines" (cmd/codeagent-sync/notice.go): the
\* other side of a conflict was written by another machine.
ConflictsAreWithOthers ==
    \A m \in Machine, k \in Key :
        pc[m] = "apply" /\ todo[m][k].kind = "conflict" => todo[m][k].remote.writer # m

\* "This file system cannot see the bit; keep what was synced" (apply.go): a
\* machine without execute bits that stores a new content of a file leaves the
\* file's execute bit as it is in the store.
ExecBitKept ==
    [][\A k \in Key :
          LET old == store[k]
              new == store'[k]
          IN  new # old /\ old.entry.kind = "file" /\ new.entry.kind = "file"
                /\ new.writer \notin TracksExec
              => new.entry.exec = old.entry.exec]_vars

\* "two machines can never overwrite each other's changes unnoticed" (engine.go):
\* the resolution of a conflict overrules the version that was set aside for the
\* user to see, and no later one.
ResolveOverrulesOnlyShown ==
    [][\A m \in Machine, k \in Key :
          pc[m] = "resolve" /\ store'[k] # store[k] /\ todo'[m][k].kind = "drop"
          => shown[m][k] \in {0, store[k].etag}]_vars

\* Once the users stop, every entry ends up the same on every disk and in the
\* store, or waits for its user: a conflict set aside, or an unconfirmed upload.
InStep(m, k) == SameEntry(disk[m][k], onDisk(store[k].entry, m), m)
WaitsForUser(m, k) ==
    \/ shown[m][k] = store[k].etag /\ shown[m][k] # 0
    \/ ~settled[m] /\ saved[m][k] = NoState /\ store[k].entry = Absent
Converges == <>[](\A m \in Machine, k \in Key : InStep(m, k) \/ WaitsForUser(m, k))
=============================================================================
