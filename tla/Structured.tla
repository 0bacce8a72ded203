----------------------------- MODULE Structured -----------------------------
(***************************************************************************)
(* One structured file (settings.json, .claude.json, config.toml,          *)
(* registry.yaml) that several machines edit and sync item by item:        *)
(* internal/structured and internal/engine/structured.go on top of the     *)
(* decision of Decide.                                                     *)
(*                                                                         *)
(* A file is the values of its items.  An item whose value names a command *)
(* that is missing on a machine is held: it stays out of that machine's    *)
(* file and must nevertheless not look deleted.  An item that a machine's  *)
(* rules hide keeps the machine's own value and is never sent.  Both rest  *)
(* on the base, the items both sides had at the last sync.                 *)
(*                                                                         *)
(* A run is cut where another machine, the user or a kill can come         *)
(* between: it scans and plans, it reads the file again, writes it, puts   *)
(* the object, saves the base, saves the state.                            *)
(* Left out: the text of items and its formatting, files that do not parse,*)
(* the excluded parts of a file (they never leave Project), the two        *)
(* questions of a first run (Engine), the copies of conflicts, and the     *)
(* steps a resolution takes (Engine).                                      *)
(***************************************************************************)
EXTENDS Decide, FiniteSets

CONSTANTS
    Item, Value,
    NoValue,        \* the value of an item that a file does not have
    Above,          \* the table an item is nested in, or the item itself
    Starts,         \* how things can begin: files, missing commands, hidden items
    MaxEdits,       \* bound: edits, deletions and changes of what is installed
    MaxFaults       \* bound: kills, and bases that could not be written

ASSUME StructuredAssumption ==
    /\ NoValue \notin Value
    /\ Data = [Item -> Value \cup {NoValue}]
    /\ Above \in [Item -> Item]
    /\ Starts \subseteq [file : [Machine -> {Absent} \cup {[kind |-> "file", data |-> d, exec |-> FALSE] : d \in Data}],
                        missing : [Machine -> SUBSET Value], hidden : [Machine -> SUBSET Item]]
    /\ TracksExec = {}
    /\ {MaxEdits, MaxFaults} \subseteq Nat

VARIABLES
    file,       \* the file on every machine's disk
    base,       \* the items both sides had at the last sync
    based,      \* the machines that have a base: one may be there without items
    st,         \* state.json's entry: ETag and fingerprint
    held,       \* and the names of the items held back
    store,      \* the object
    run,        \* what a machine's sync has still to do
    missing,    \* the values whose command is missing on a machine
    hidden,     \* the items a machine's rules keep to itself
    was,        \* history: a machine's file as its last sync left it
    torn,       \* history: machines whose last run was cut off
    baseless,   \* history: machines whose base could not be written since
    behind,     \* history: the items whose own version stayed, for want of the command
    budget      \* history: what is left of the bounds

vars == <<file, base, based, st, held, store, run, missing, hidden, was, torn, baseless, behind, budget>>

Nothing == [i \in Item |-> NoValue]
items(e) == IF e = Absent THEN Nothing ELSE e.data
File(d) == [kind |-> "file", data |-> d, exec |-> FALSE]
Idle == [phase |-> "idle", content |-> Absent, ifMatch |-> 0,
         st |-> NoState, held |-> {},
         file |-> Nothing, seen |-> Nothing, edited |-> {}, behind |-> {}, wrote |-> FALSE]

TypeOK ==
    /\ file \in [Machine -> EntryOrAbsent]
    /\ base \in [Machine -> Data] /\ was \in [Machine -> Data]
    /\ based \subseteq Machine /\ \A m \in Machine \ based : base[m] = Nothing
    /\ st \in [Machine -> EntryState]
    /\ held \in [Machine -> SUBSET Item] /\ behind \in [Machine -> SUBSET Item]
    /\ store \in Object /\ (store # NoObject => store.etag > 0)
    /\ \A m \in Machine : st[m].etag <= store.etag
    /\ run \in [Machine -> [phase : {"idle", "read", "write", "upload", "base", "save"},
                            content : EntryOrAbsent, ifMatch : Nat, st : EntryState, held : SUBSET Item,
                            file : Data, seen : Data, edited : SUBSET Item, behind : SUBSET Item,
                            wrote : BOOLEAN]]
    /\ missing \in [Machine -> SUBSET Value]
    /\ hidden \in [Machine -> SUBSET Item]
    /\ torn \subseteq Machine /\ baseless \subseteq Machine

Init ==
    /\ \E start \in Starts : file = start.file /\ missing = start.missing /\ hidden = start.hidden
    /\ base = [m \in Machine |-> Nothing] /\ based = {}
    /\ st = [m \in Machine |-> NoState]
    /\ held = [m \in Machine |-> {}] /\ behind = [m \in Machine |-> {}]
    /\ store = NoObject
    /\ run = [m \in Machine |-> Idle]
    /\ was = [m \in Machine |-> Nothing]
    /\ torn = {} /\ baseless = {}
    /\ budget = [edits |-> MaxEdits, faults |-> MaxFaults]

-----------------------------------------------------------------------------
(* Items *)

\* A bug: the remote value wins wherever the sides differ.
resolveRemoteWins(b, l, r, preferRemote) == r
\* One item of three sides: a change on one side only is taken; changed
\* differently on both, this machine's version stays unless the remote one is
\* preferred.
resolve(b, l, r, preferRemote) ==
    IF l = b \/ (preferRemote /\ r # b) THEN r ELSE l

Merge3(b, l, r, preferRemote) == [i \in Item |-> resolve(b[i], l[i], r[i], preferRemote)]
conflicts(b, l, r) == {i \in Item : l[i] # r[i] /\ l[i] # b[i] /\ r[i] # b[i]}

\* The items that cannot be used where the commands of gone are missing, and
\* those nested below them.
HeldNames(d, gone) ==
    {i \in Item : d[i] # NoValue /\ (d[i] \in gone \/ d[Above[i]] \in gone)}

\* Write the synced items into a file; for the names in keep the file's own
\* version stays, or stays absent.
Apply(d, synced, keep) == [i \in Item |-> IF i \in keep THEN d[i] ELSE synced[i]]

\* A bug: an item held back is taken for deleted.
withHeldForgotten(d, b, names) == d
\* Held items are absent from the file on purpose: they read as in the base.
withHeld(d, b, names) == [i \in Item |-> IF i \in names /\ d[i] = NoValue THEN b[i] ELSE d[i]]

\* Hidden items read as in the base too, whatever the file says.
Pin(d, b, names) == [i \in Item |-> IF i \in names THEN b[i] ELSE d[i]]

-----------------------------------------------------------------------------
(* What a sync does with the file *)

\* The entry this machine's scan gives to the planner.
local(m) ==
    IF file[m] = Absent THEN Absent
    ELSE File(Pin(withHeld(file[m].data, base[m], held[m]), base[m], hidden[m]))

\* An action with what a merge would write.
withMerged(a, d) == [kind |-> a.kind, local |-> a.local, remote |-> a.remote,
                     ifMatch |-> a.ifMatch, keep |-> a.keep, merged |-> d]

\* mergeStructured: a conflict whose changes touch different items, and a first
\* sync where both sides have the file.
mergeStructured(a, b) ==
    IF a.local = Absent \/ a.remote.entry = Absent \/ ~(a.kind = "conflict" \/ a.keep)
    THEN withMerged(a, Nothing)
    ELSE LET from == IF a.keep THEN Nothing ELSE b
             l == a.local.data
             r == a.remote.entry.data
             merged == Merge3(from, l, r, a.keep)
         IN  IF ~a.keep /\ conflicts(from, l, r) # {} THEN withMerged(a, Nothing)
             ELSE [kind |-> IF merged = r THEN "download" ELSE IF merged = l THEN "upload" ELSE "merge",
                   local |-> a.local, remote |-> a.remote, keep |-> a.keep, merged |-> merged,
                   ifMatch |-> IF merged = r THEN 0 ELSE a.remote.etag]

\* A bug: the rule that a structured file is never deleted is missing.
protectNothing(a) == a
\* protectStructured: a file deleted here comes back from the store, a deletion
\* recorded elsewhere is answered with this machine's version.
protectStructured(a) ==
    CASE a.kind = "upload-delete" ->
            IF a.remote.entry = Absent THEN [a EXCEPT !.kind = "forget"]
            ELSE [a EXCEPT !.kind = "download"]
      [] a.kind = "remove" /\ a.local # Absent ->
            [a EXCEPT !.kind = "upload", !.ifMatch = a.remote.etag]
      [] OTHER -> a

\* A bug: what became usable is not looked for.
releasedNever(m) == {}
\* A bug: what is still missing is released too.
releasedAlways(m) == held[m]
\* The held items that this machine can use now.
released(m) == held[m] \ HeldNames(base[m], missing[m])

\* release: the base is written again, with what was held back, if there is one.
release(m) ==
    IF local(m) = Absent \/ m \notin based \/ released(m) = {} THEN withMerged(NoAction, Nothing)
    ELSE [kind |-> "download", local |-> local(m), ifMatch |-> 0, keep |-> FALSE, merged |-> Nothing,
          remote |-> [etag |-> st[m].etag, entry |-> File(base[m]), writer |-> Nobody]]

plan(m) ==
    LET a == decide(local(m), store.etag, st[m], store, FALSE, TRUE, m) IN
    IF a.kind = "none" THEN release(m) ELSE protectStructured(mergeStructured(a, base[m]))

\* writeStructured: what the file becomes, what the scan will make of it, and
\* the items held back.
keepHere(m, synced) == HeldNames(synced, missing[m])
current(m) == items(file[m])
written(m, synced) == Apply(current(m), synced, keepHere(m, synced) \cup hidden[m])
scanned(m, synced) ==
    LET out == written(m, synced) IN
    [i \in Item |-> IF i \in keepHere(m, synced) /\ out[i] = NoValue THEN synced[i] ELSE out[i]]

\* History: what the user changed since the last sync, and what kept its own
\* version in a write.
edited(m) == IF file[m] = Absent THEN {}
             ELSE {i \in Item : file[m].data[i] # was[m][i]}
stayed(m, synced) == {i \in keepHere(m, synced) : written(m, synced)[i] \notin {NoValue, synced[i]}}

-----------------------------------------------------------------------------
(* The steps of a run *)

Continue(m, phase, now, content, ifMatch, s, names, left) ==
    run' = [run EXCEPT ![m] = [phase |-> phase, content |-> content, ifMatch |-> ifMatch,
                               st |-> s, held |-> names, file |-> now, seen |-> current(m),
                               edited |-> edited(m), behind |-> left, wrote |-> phase = "base"]]

\* The file is to get the synced items, and is read again for that (Read).
Fetch(m, synced, ifMatch, etag) ==
    /\ Continue(m, "read", synced, File(synced), ifMatch, [etag |-> etag, entry |-> File(synced)], {}, {})
    /\ UNCHANGED <<file, base, based, st, held, store, missing, hidden, was, torn, baseless, behind, budget>>

\* Download, restoring a deleted file, a release.
Download(m, a) == a.kind = "download" /\ Fetch(m, a.remote.entry.data, 0, a.remote.etag)

\* Merge: the file is written first, its upload follows.
Merge(m, a) == a.kind = "merge" /\ Fetch(m, a.merged, a.ifMatch, 0)

\* writeStructured: what cannot be used here is looked for and the file is read,
\* as it is by now.
Read(m) ==
    /\ run[m].phase = "read"
    /\ LET synced == run[m].content.data IN
       run' = [run EXCEPT ![m] = [run[m] EXCEPT
                  !.phase = "write", !.file = written(m, synced),
                  !.st = [etag |-> run[m].st.etag, entry |-> File(scanned(m, synced))],
                  !.held = keepHere(m, synced), !.behind = stayed(m, synced),
                  !.seen = Apply(current(m), run[m].seen, keepHere(m, synced) \cup hidden[m])]]
    /\ UNCHANGED <<file, base, based, st, held, store, missing, hidden, was, torn, baseless, behind, budget>>

\* The file is replaced by what was made of it; what a sync writes is no edit.
\* What was merged has an ETag to be put under.
Write(m) ==
    /\ run[m].phase = "write"
    /\ file' = [file EXCEPT ![m] = File(run[m].file)]
    /\ was' = [was EXCEPT ![m] = Apply(@, run[m].file, edited(m))]
    /\ run' = [run EXCEPT ![m].phase = IF run[m].ifMatch = 0 THEN "base" ELSE "upload",
                          ![m].wrote = run[m].ifMatch = 0 \/ file' # file]
    /\ UNCHANGED <<base, based, st, held, store, missing, hidden, torn, baseless, behind, budget>>

\* A deletion would be an upload too; protectStructured lets none through.
Upload(m, a) ==
    /\ a.kind \in UploadKinds
    /\ LET entry == IF a.kind = "upload" THEN a.local ELSE Absent IN
       Continue(m, "upload", current(m), entry, a.ifMatch, [etag |-> 0, entry |-> entry], held[m], behind[m])
    /\ UNCHANGED <<file, base, based, st, held, store, missing, hidden, was, torn, baseless, behind, budget>>

\* Both sides already agree.
Record(m, a) ==
    /\ a.kind = "record"
    /\ Continue(m, "base", current(m), a.local, 0, [etag |-> a.remote.etag, entry |-> a.local],
                IF a.local = Absent THEN {} ELSE held[m], behind[m])
    /\ UNCHANGED <<file, base, based, st, held, store, missing, hidden, was, torn, baseless, behind, budget>>

\* A bug: the store does not give the new object's ETag.
newETagUnknown(o) == 0
newETag(o) == o.etag + 1

\* The conditional put.  Lost against another machine, the run starts again.
Put(m) ==
    /\ run[m].phase = "upload"
    /\ IF run[m].ifMatch = store.etag
       THEN /\ store' = [etag |-> newETag(store), entry |-> run[m].content, writer |-> m]
            /\ run' = [run EXCEPT ![m].phase = "base", ![m].wrote = TRUE, ![m].st.etag = newETag(store)]
            /\ UNCHANGED torn
       ELSE /\ run' = [run EXCEPT ![m] = Idle]
            /\ torn' = IF run[m].wrote THEN torn \cup {m} ELSE torn
            /\ UNCHANGED store
    /\ UNCHANGED <<file, base, based, st, held, missing, hidden, was, baseless, behind, budget>>

\* History: the run writes again what the base has, under the ETag of the last
\* sync; a base that is not the one of the state stays so.
again(m) == st[m].etag # 0 /\ run[m].st.etag = st[m].etag

SaveBase(m) ==
    /\ run[m].phase = "base"
    /\ run' = [run EXCEPT ![m].phase = "save"]
    /\ \/ /\ base' = [base EXCEPT ![m] = items(run[m].content)]
          /\ based' = IF run[m].content = Absent THEN based \ {m} ELSE based \cup {m}
          /\ torn' = torn \ {m}
          /\ baseless' = IF again(m) THEN baseless ELSE baseless \ {m}
          /\ UNCHANGED budget
       \/ /\ budget.faults > 0
          /\ budget' = [budget EXCEPT !.faults = @ - 1]
          /\ baseless' = baseless \cup {m}
          /\ UNCHANGED <<base, based, torn>>
    /\ UNCHANGED <<file, st, held, store, missing, hidden, was, behind>>

\* state.json, at the end of the run.
SaveState(m) ==
    /\ run[m].phase = "save"
    /\ st' = [st EXCEPT ![m] = run[m].st]
    /\ held' = [held EXCEPT ![m] = run[m].held]
    /\ behind' = [behind EXCEPT ![m] = run[m].behind]
    /\ was' = [was EXCEPT ![m] = run[m].file]
    /\ run' = [run EXCEPT ![m] = Idle]
    /\ UNCHANGED <<file, base, based, store, missing, hidden, torn, baseless, budget>>

\* The process is killed, what it had not saved is lost; or the file cannot be
\* written, and nothing has happened.
Crash(m) ==
    /\ run[m].phase # "idle" /\ budget.faults > 0
    /\ budget' = [budget EXCEPT !.faults = @ - 1]
    /\ torn' = IF run[m].wrote THEN torn \cup {m} ELSE torn
    /\ run' = [run EXCEPT ![m] = Idle]
    /\ UNCHANGED <<file, base, based, st, held, store, missing, hidden, was, baseless, behind>>

-----------------------------------------------------------------------------
(* Resolve: the user settles what differs.  This machine's version is the   *)
(* file as scanned, without what withHeld and Pin make of it.               *)

Differs(m) ==
    /\ run[m].phase = "idle" /\ budget.edits > 0
    /\ store # NoObject /\ st[m].etag # store.etag
    /\ file[m] # Absent \/ store.entry # Absent

KeepLocal(m) ==
    /\ Differs(m)
    /\ store' = [etag |-> newETag(store), entry |-> file[m], writer |-> m]
    /\ st' = [st EXCEPT ![m] = [etag |-> newETag(store), entry |-> file[m]]]
    /\ held' = [held EXCEPT ![m] = IF file[m] = Absent THEN {} ELSE @]
    /\ base' = [base EXCEPT ![m] = current(m)]
    /\ based' = IF file[m] = Absent THEN based \ {m} ELSE based \cup {m}
    /\ was' = [was EXCEPT ![m] = current(m)]
    /\ torn' = torn \ {m} /\ baseless' = baseless \ {m}
    /\ budget' = [budget EXCEPT !.edits = @ - 1]
    /\ UNCHANGED <<file, run, missing, hidden, behind>>

KeepRemote(m) ==
    /\ Differs(m)
    /\ LET synced == items(store.entry)
           gone == store.entry = Absent IN
       /\ file' = [file EXCEPT ![m] = IF gone THEN Absent ELSE File(written(m, synced))]
       /\ was' = [was EXCEPT ![m] = IF gone THEN Nothing ELSE written(m, synced)]
       /\ st' = [st EXCEPT ![m] = [etag |-> store.etag, entry |-> IF gone THEN Absent ELSE File(scanned(m, synced))]]
       /\ held' = [held EXCEPT ![m] = keepHere(m, synced)]
       /\ behind' = [behind EXCEPT ![m] = stayed(m, synced)]
       /\ base' = [base EXCEPT ![m] = synced]
       /\ based' = IF gone THEN based \ {m} ELSE based \cup {m}
    /\ torn' = torn \ {m} /\ baseless' = baseless \ {m}
    /\ budget' = [budget EXCEPT !.edits = @ - 1]
    /\ UNCHANGED <<store, run, missing, hidden>>

-----------------------------------------------------------------------------
(* The environment *)

Edit(m, i, v) ==
    /\ budget.edits > 0
    /\ current(m)[i] # v
    /\ file' = [file EXCEPT ![m] = File([current(m) EXCEPT ![i] = v])]
    /\ budget' = [budget EXCEPT !.edits = @ - 1]
    /\ UNCHANGED <<base, based, st, held, store, run, missing, hidden, was, torn, baseless, behind>>

Delete(m) ==
    /\ budget.edits > 0
    /\ file[m] # Absent
    /\ file' = [file EXCEPT ![m] = Absent]
    /\ budget' = [budget EXCEPT !.edits = @ - 1]
    /\ UNCHANGED <<base, based, st, held, store, run, missing, hidden, was, torn, baseless, behind>>

\* A command is installed or removed.
Install(m, v) ==
    /\ budget.edits > 0
    /\ missing' = [missing EXCEPT ![m] = IF v \in @ THEN @ \ {v} ELSE @ \cup {v}]
    /\ budget' = [budget EXCEPT !.edits = @ - 1]
    /\ UNCHANGED <<file, base, based, st, held, store, run, hidden, was, torn, baseless, behind>>

SyncStep(m) ==
    \/ /\ run[m].phase = "idle"
       /\ \E a \in {plan(m)} : Download(m, a) \/ Merge(m, a) \/ Upload(m, a) \/ Record(m, a)
    \/ Read(m) \/ Write(m) \/ Put(m) \/ SaveBase(m) \/ SaveState(m)

Next ==
    \E m \in Machine :
        \/ SyncStep(m) \/ Crash(m)
        \/ KeepLocal(m) \/ KeepRemote(m)
        \/ \E i \in Item, v \in Value \cup {NoValue} : Edit(m, i, v)
        \/ Delete(m)
        \/ \E v \in Value : Install(m, v)

\* A machine syncs again and again; the user does what he likes.
Fairness == \A m \in Machine : WF_vars(SyncStep(m))

Spec == Init /\ [][Next]_vars /\ Fairness

-----------------------------------------------------------------------------
(* Properties *)

\* A run of machine m puts an object, writes the file.
puts(m) == run[m].phase = "upload" /\ run'[m].phase = "base"
writes(m) == run[m].phase = "write" /\ run'[m].phase \in {"upload", "base"}

storeItems == items(store.entry)

\* An upload changes an item in the store only if the user of that machine
\* changed this item since its last sync: what a machine holds back, hides or
\* has not heard of yet is never taken from the others or set back for them
\* (withHeld, Pin, Merge3).  Not claimed while the base is not the one of the
\* state, and for an item whose own version stayed in the file.
OnlyOwnEditsSent ==
    [][\A m \in Machine :
        puts(m) /\ store.entry # Absent /\ m \notin torn \cup baseless =>
            \A i \in Item : storeItems'[i] # storeItems[i] =>
                i \in (run[m].edited \ hidden[m]) \cup behind[m] \cup run[m].behind]_vars

\* A write changes no hidden item, and none that the user had changed since the last
\* sync, except when it meets the shared file for the first time and has set the
\* machine's copy aside (Hiding, Merge3, mergeStructured).  What the user changes after the run has
\* looked is overwritten: the run looks at the scan, and once more, when it reads the
\* file, at what it will leave there (writeStructured).  Not claimed for what was held
\* back or had stayed, nor while the base is not the one of the state.
EditsAreKept ==
    [][\A m \in Machine :
        writes(m) /\ file[m] # Absent =>
            \A i \in Item :
                file[m].data[i] = run[m].seen[i] /\ file'[m].data[i] # file[m].data[i] =>
                    /\ i \notin hidden[m]
                    /\ i \in run[m].edited \ (behind[m] \cup held[m]) /\ file[m].data[i] # base[m][i] =>
                         st[m] = NoState \/ m \in torn \cup baseless]_vars

\* No sync ever deletes a structured file, on a machine or in the store
\* (protectStructured).
NeverDeleted ==
    [][\A m \in Machine : run'[m] # run[m] =>
        /\ file[m] # Absent => file'[m] # Absent
        /\ store.entry # Absent => store'.entry # Absent]_vars

\* A machine whose sync finds nothing to do has the store's version of every
\* item, but for those it hides, cannot use or kept its own version of, or it
\* has a conflict to report (decide, Merge3, release).
RestingAgree ==
    \A m \in Machine :
        run[m].phase = "idle" =>
            \E a \in {plan(m)} :
                a.kind = "none" /\ m \notin baseless =>
                    /\ file[m] = Absent => store.entry = Absent
                    /\ \A i \in Item \ (hidden[m] \cup HeldNames(storeItems, missing[m]) \cup behind[m]) :
                            current(m)[i] = storeItems[i]

\* When the users rest, the machines stop: no merge, release or pinned item
\* makes them write to each other forever (Engine.Run).
AllRest == \A m \in Machine : run[m].phase = "idle" /\ plan(m).kind \in {"none", "conflict"}
Rests == <>[]AllRest

\* What the comment of saveBase says of a base that could not be written:
\* nothing is lost: no item goes from the store that no user took away.  It does
\* not hold when items are held back (README).
NothingLostWithoutBase ==
    [][\A m \in Machine :
        puts(m) => \A i \in Item :
            storeItems[i] # NoValue /\ storeItems'[i] = NoValue => i \in run[m].edited]_vars
=============================================================================
