------------------------------- MODULE OneSync -------------------------------
(***************************************************************************)
(* The decision table of internal/engine/plan.go on every input: one entry *)
(* of one machine, synced again and again with nobody else around, from    *)
(* any disk, any object in the store and any state that does not           *)
(* contradict the object.  Engine starts from empty machines and reaches   *)
(* only some of these combinations.                                        *)
(***************************************************************************)
EXTENDS Decide

CONSTANT Inputs   \* the entries a disk, an object and a state can hold

ASSUME OneSyncAssumption == Inputs \subseteq Entry

VARIABLES
    m,            \* the machine
    l, o, s,      \* the entry on its disk, the object, the state
    firstSync, adopt, mode, reports,   \* what the decision and the Put depend on
    aside,        \* the versions set aside in conflicts/
    before,       \* history: the disk, the object and the state before the sync
    syncs         \* history: how many syncs ran
vars == <<m, l, o, s, firstSync, adopt, mode, reports, aside, before, syncs>>

Objects == {NoObject} \cup [etag : {1}, entry : Inputs \cup {Absent}, writer : Machine]
States == {NoState} \cup [etag : {0, 1, 2}, entry : Inputs \cup {Absent}]

Init ==
    /\ m \in Machine
    /\ l \in {onDisk(e, m) : e \in Inputs \cup {Absent}}
    /\ o \in Objects
    /\ s \in {t \in States : t.etag # 0 /\ t.etag = o.etag => SameEntry(t.entry, o.entry, m)}
    /\ firstSync \in BOOLEAN /\ adopt \in BOOLEAN
    /\ mode \in {"both", "pull", "push"}
    /\ reports \in BOOLEAN
    /\ aside = {}
    /\ before = [l |-> l, o |-> o, s |-> s]
    /\ syncs = 0

decision ==
    LET r == IF o # NoObject /\ needsFetch(o.etag, s) THEN o ELSE NoObject
        a == decide(l, o.etag, s, r, firstSync, adopt, m)
    IN  IF allowed(a.kind, mode) THEN a ELSE NoAction

\* A whole sync of the entry: plan, apply, upload, save.
Sync ==
    /\ syncs < 3
    /\ syncs' = syncs + 1
    /\ before' = [l |-> l, o |-> o, s |-> s]
    /\ LET a == decision
           e == uploaded(a, s, m)
           new == [etag |-> o.etag + 2, entry |-> e, writer |-> m]
           stored == [etag |-> IF reports THEN new.etag ELSE 0, entry |-> e]
           blocked == ~canWrite(l, a.remote.entry)
       IN  \/ /\ a.kind \in LocalKinds /\ ~blocked
              /\ l' = onDisk(a.remote.entry, m) /\ s' = applied(a)
              /\ aside' = IF a.keep THEN {l} ELSE {}
              /\ UNCHANGED o
           \/ /\ a.kind \in UploadKinds
              /\ IF o.etag = a.ifMatch THEN o' = new /\ s' = stored ELSE UNCHANGED <<o, s>>
              /\ aside' = {} /\ UNCHANGED l
           \/ /\ a.kind = "record" /\ s' = recorded(a) /\ aside' = {} /\ UNCHANGED <<l, o>>
           \/ /\ a.kind = "forget" /\ s' = NoState /\ aside' = {} /\ UNCHANGED <<l, o>>
           \/ /\ a.kind = "conflict" /\ aside' = {a.remote.entry} /\ UNCHANGED <<l, o, s>>
           \/ /\ \/ a.kind \in {"none", "pending"}
                 \/ a.kind \in LocalKinds /\ blocked
              /\ aside' = IF a.keep THEN {l} ELSE {}
              /\ UNCHANGED <<l, o, s>>
    /\ UNCHANGED <<m, firstSync, adopt, mode, reports>>

Next == Sync

Spec == Init /\ [][Next]_vars

-----------------------------------------------------------------------------
(* Properties *)

\* A sync settles an entry: the next one (or, where a Put does not answer with
\* the ETag, the one after) has nothing to do, except for what waits for the
\* user and for the link that cannot be made where a file is.
SettledAfter == IF reports THEN 1 ELSE 2
Settles ==
    syncs >= SettledAfter =>
        \/ decision.kind \in {"none", "conflict", "pending"}
        \/ decision.kind = "download" /\ ~canWrite(l, decision.remote.entry)

\* No version vanishes in a sync: what the disk and the store held, unless it is
\* the version of the last sync, is still on the disk or in the store, or set
\* aside.  A deletion is no version, and where the disk has no execute bit its
\* absence is none either.
Kept(e) ==
    \/ e = Absent
    \/ before.s # NoState /\ SameEntry(e, before.s.entry, m)
    \/ \E f \in {l, o.entry} \cup aside : SameEntry(e, f, m)
NothingVanishes == syncs > 0 => Kept(before.l) /\ Kept(before.o.entry)
=============================================================================
