---------------------------- MODULE OneSyncProofs ----------------------------
(***************************************************************************)
(* What one sync does to an entry, from any disk, any object and any state *)
(* that does not contradict it: it settles the entry, and it loses no      *)
(* version.                                                                *)
(***************************************************************************)
EXTENDS OneSync, TLAPS

-----------------------------------------------------------------------------
(* The inductive invariant *)

\* What a disk, an object and a state are, and that a state about the current object
\* says what the object says.
TypeOK ==
    /\ m \in Machine /\ l \in EntryOrAbsent /\ o \in Object /\ s \in EntryState
    /\ o.etag = 0 => o = NoObject
    /\ syncs \in Nat
StateFits == s.etag # 0 /\ s.etag = o.etag => SameEntry(s.entry, o.entry, m)

\* The next sync has nothing to do, but for what waits for the user or cannot be made.
Quiet ==
    \/ decision.kind \in {"none", "conflict", "pending"}
    \/ decision.kind = "download" /\ ~canWrite(l, decision.remote.entry)

\* What is left to do after a Put that did not answer with the ETag: to take note of it.
Learns ==
    /\ o # NoObject /\ s # NoState /\ s.etag = 0
    /\ SameEntry(l, s.entry, m) /\ SameEntry(l, o.entry, m)

Settling == syncs > 0 => Quiet \/ (Learns /\ ~reports /\ syncs = 1)

Fits == TypeOK /\ StateFits /\ Settling

-----------------------------------------------------------------------------
(* Entries *)

\* Only the missing entry looks missing, and it looks so to every machine.
LEMMA LooksAbsent ==
    ASSUME NEW e \in EntryOrAbsent, NEW n
    PROVE  /\ e.kind = "absent" => e = Absent
           /\ SameEntry(Absent, e, n) <=> e = Absent
           /\ SameEntry(e, Absent, n) <=> e = Absent
<1>1. e.kind = "absent" => e = Absent
  BY DEF EntryOrAbsent, Entry
<1>2. /\ SameEntry(Absent, e, n) => e.kind = "absent"
      /\ SameEntry(e, Absent, n) => e.kind = "absent"
      /\ SameEntry(Absent, Absent, n)
  BY DEF SameEntry, Absent
<1> QED BY <1>1, <1>2

\* Comparing entries is an equivalence.
LEMMA SameIsEquivalence ==
    ASSUME NEW n, NEW d, NEW e, NEW f
    PROVE  /\ SameEntry(d, d, n)
           /\ SameEntry(d, e, n) => SameEntry(e, d, n)
           /\ SameEntry(d, e, n) /\ SameEntry(e, f, n) => SameEntry(d, f, n)
BY DEF SameEntry

\* An entry reads back from a disk as an entry the machine cannot tell from it.
LEMMA OnDiskIsSame ==
    ASSUME NEW e \in EntryOrAbsent, NEW n
    PROVE  /\ onDisk(e, n) \in EntryOrAbsent
           /\ SameEntry(onDisk(e, n), e, n)
<1>1. CASE e \in [kind : {"file"}, data : Data, exec : BOOLEAN]
  BY <1>1 DEF onDisk, SameEntry, EntryOrAbsent, Entry
<1>2. CASE e \in [kind : {"link"}, data : Data, exec : {FALSE}]
  BY <1>2 DEF onDisk, SameEntry, EntryOrAbsent, Entry
<1>3. CASE e = Absent
  BY <1>3 DEF onDisk, SameEntry, EntryOrAbsent, Absent
<1> QED BY <1>1, <1>2, <1>3 DEF EntryOrAbsent, Entry

\* An entry is a file, a link or missing, and its execute bit is one.
LEMMA EntryKinds ==
    ASSUME NEW e \in EntryOrAbsent
    PROVE  /\ e.exec \in BOOLEAN /\ e # Unsynced
           /\ e.kind = "file" => e \in [kind : {"file"}, data : Data, exec : BOOLEAN]
<1>0. Unsynced.kind = "unsynced"
  BY DEF Unsynced
<1>1. CASE e \in [kind : {"file"}, data : Data, exec : BOOLEAN]
  BY <1>0, <1>1
<1>2. CASE e \in [kind : {"link"}, data : Data, exec : {FALSE}]
  BY <1>0, <1>2
<1>3. CASE e = Absent
  BY <1>0, <1>3 DEF Absent
<1> QED BY <1>1, <1>2, <1>3 DEF EntryOrAbsent, Entry

\* A state's entry is an entry, unless the state lists none.
LEMMA StateFields ==
    ASSUME NEW st \in EntryState
    PROVE  /\ st.etag \in Nat
           /\ st # NoState => st.entry \in EntryOrAbsent
           /\ st.entry.exec \in BOOLEAN
<1>1. CASE st = NoState
  BY <1>1 DEF NoState, Unsynced
<1>2. CASE st \in [etag : Nat, entry : EntryOrAbsent]
  <2> PICK e \in EntryOrAbsent : e = st.entry
    BY <1>2
  <2>1. e.exec \in BOOLEAN
    BY EntryKinds
  <2> QED BY <1>2, <2>1
<1> QED BY <1>1, <1>2 DEF EntryState

\* What an upload stores is the entry on disk, as far as the machine can tell, or the
\* tombstone of a deletion.
LEMMA UploadedIsSame ==
    ASSUME NEW n, NEW a, NEW st \in EntryState, a.local \in EntryOrAbsent,
           a.kind = "upload-delete" => a.local = Absent
    PROVE  /\ uploaded(a, st, n) \in EntryOrAbsent
           /\ SameEntry(a.local, uploaded(a, st, n), n)
<1> PICK e \in EntryOrAbsent : e = a.local
  OBVIOUS
<1>1. CASE a.kind = "upload-delete"
  BY <1>1 DEF uploaded, SameEntry, EntryOrAbsent
<1>2. CASE a.kind # "upload-delete" /\ e.kind = "file" /\ n \notin TracksExec
  <2> PICK b \in BOOLEAN : b = st.entry.exec
    BY StateFields
  <2>1. uploaded(a, st, n) = [e EXCEPT !.exec = b]
    BY <1>2 DEF uploaded
  <2>2. e \in [kind : {"file"}, data : Data, exec : BOOLEAN]
    BY <1>2, EntryKinds
  <2> QED BY <1>2, <2>1, <2>2 DEF SameEntry, EntryOrAbsent, Entry
<1>3. CASE a.kind # "upload-delete" /\ ~(e.kind = "file" /\ n \notin TracksExec)
  BY <1>3 DEF uploaded, SameEntry
<1> QED BY <1>1, <1>2, <1>3

-----------------------------------------------------------------------------
(* The decision *)

\* What is read before deciding: the object, when the state is not about it.
ReadFor(ob, st) == IF ob # NoObject /\ needsFetch(ob.etag, st) THEN ob ELSE NoObject

\* What a decision (decide in plan.go) needs to be made, and what it is about.
LEMMA DecideNeeds ==
    ASSUME NEW lo \in EntryOrAbsent, NEW ob \in Object, ob.etag = 0 => ob = NoObject,
           NEW st \in EntryState, NEW first, NEW ad, NEW n,
           NEW r, r = ReadFor(ob, st),
           NEW a, a = decide(lo, ob.etag, st, r, first, ad, n), a # NoAction
    PROVE  /\ a.kind \in LocalKinds \cup UploadKinds \cup OtherKinds \cup {"pending"}
           /\ a.local = lo /\ a.remote = r
           /\ a.kind \in LocalKinds \cup {"record", "conflict"} => r = ob /\ ob.etag # 0
           /\ a.kind = "remove" => ob.entry = Absent
           /\ a.kind \in LocalKinds =>
                 \/ a.keep
                 \/ lo = Absent
                 \/ st # NoState /\ SameEntry(lo, st.entry, n)
           /\ a.kind = "record" => SameEntry(lo, ob.entry, n)
           /\ a.kind = "forget" => ob.etag = 0 /\ lo = Absent
           /\ a.kind = "upload-delete" => lo = Absent
           /\ a.kind \in UploadKinds =>
                 /\ a.ifMatch = ob.etag
                 /\ ob.entry = Absent \/ (st.etag # 0 /\ st.etag = ob.etag)
<1> DEFINE confirm == first /\ ~ad
           kind == IF localUnchanged(lo, st, n) THEN OnlyRemoteChanged(lo, ob.etag, st, r, n)
                   ELSE IF remoteUnchanged(ob.etag, st) THEN OnlyLocalChanged(lo, st, confirm)
                   ELSE BothChanged(lo, ob.etag, st, r, confirm, n)
           same == localUnchanged(lo, st, n)
<1>1. /\ ~(same /\ remoteUnchanged(ob.etag, st))
      /\ a = [kind |-> kind, local |-> lo, remote |-> r,
              ifMatch |-> uploadCondition(kind, ob.etag, st, r),
              keep |-> kind = "download" /\ ~same /\ st = NoState]
  BY DEF decide
<1>2. /\ a.kind = kind /\ a.local = lo /\ a.remote = r
      /\ a.ifMatch = uploadCondition(kind, ob.etag, st, r)
      /\ kind = "download" /\ ~same /\ st = NoState => a.keep
  <2> PICK c : c = uploadCondition(kind, ob.etag, st, r)
    OBVIOUS
  <2> PICK k : k = kind
    OBVIOUS
  <2> DEFINE keep == k = "download" /\ ~same /\ st = NoState
             b == [kind |-> k, local |-> lo, remote |-> r, ifMatch |-> c, keep |-> keep]
  <2>1. a = b
    BY <1>1
  <2>2. b.kind = k /\ b.local = lo /\ b.remote = r /\ b.ifMatch = c
    OBVIOUS
  <2>3. keep => b.keep
    OBVIOUS
  <2> HIDE DEF kind, same, b
  <2> QED BY <2>1, <2>2, <2>3
<1>3. st # NoState => st.entry \in EntryOrAbsent
  BY StateFields
<1>4. ~remoteUnchanged(ob.etag, st) /\ ob.etag # 0 => r = ob
  BY DEF remoteUnchanged, needsFetch, ReadFor, NoObject
<1>5. remoteUnchanged(ob.etag, st) => ob.etag = 0 \/ (st # NoState /\ st.etag # 0 /\ st.etag = ob.etag)
  BY DEF remoteUnchanged
<1>6. ob.etag = 0 => ob.entry = Absent
  BY DEF NoObject
<1>7. same => lo = Absent \/ (st # NoState /\ SameEntry(lo, st.entry, n))
  BY DEF localUnchanged
<1>8. kind \in LocalKinds \cup UploadKinds \cup OtherKinds \cup {"pending"}
  BY DEF OnlyRemoteChanged, OnlyLocalChanged, BothChanged, LocalKinds, UploadKinds, OtherKinds
<1>9. kind \in LocalKinds \cup {"record", "conflict"} => r = ob /\ ob.etag # 0
  BY <1>1, <1>4 DEF OnlyRemoteChanged, OnlyLocalChanged, BothChanged, LocalKinds
<1>10. kind = "remove" => r.entry = Absent
  BY DEF OnlyRemoteChanged, OnlyLocalChanged, BothChanged
<1>11. kind \in LocalKinds => (kind = "download" /\ ~same /\ st = NoState) \/ lo = Absent \/ same
  BY DEF OnlyRemoteChanged, OnlyLocalChanged, BothChanged, LocalKinds
<1>12. kind = "record" => sameContent(lo, r, n)
  BY DEF OnlyRemoteChanged, OnlyLocalChanged, BothChanged
<1>13. kind = "forget" => ob.etag = 0 /\ (lo = Absent \/ (same /\ st.entry = Absent))
  BY DEF OnlyRemoteChanged, OnlyLocalChanged, BothChanged
<1>14. same /\ st.entry = Absent => lo = Absent
  BY LooksAbsent DEF localUnchanged, NoState, Unsynced, Absent
<1>15. kind = "upload-delete" => lo = Absent
  BY DEF OnlyRemoteChanged, OnlyLocalChanged, BothChanged
<1>16. kind \in UploadKinds =>
          /\ uploadCondition(kind, ob.etag, st, r) = ob.etag
          /\ ob.etag = 0 \/ ob.entry = Absent \/ remoteUnchanged(ob.etag, st)
  <2> SUFFICES ASSUME kind \in UploadKinds
               PROVE  /\ uploadCondition(kind, ob.etag, st, r) = ob.etag
                      /\ ob.etag = 0 \/ ob.entry = Absent \/ remoteUnchanged(ob.etag, st)
    OBVIOUS
  <2>1. kind # "conflict"
    BY DEF UploadKinds
  <2>2. ob.etag = 0 \/ r.entry = Absent \/ remoteUnchanged(ob.etag, st)
    BY DEF OnlyRemoteChanged, OnlyLocalChanged, BothChanged, UploadKinds
  <2> HIDE DEF kind
  <2> QED BY <1>4, <1>5, <2>1, <2>2 DEF uploadCondition
<1> HIDE DEF kind, same
<1> QED
  BY <1>2, <1>5, <1>6, <1>7, <1>8, <1>9, <1>10, <1>11, <1>12, <1>13, <1>14, <1>15, <1>16
  DEF sameContent, LocalKinds

\* Once disk, state and object are the same entry, in the object's version, or there is
\* none of them, nothing is left to decide.
LEMMA NothingToDecide ==
    ASSUME NEW lo, NEW ob, NEW st, NEW r, NEW first, NEW ad, NEW n,
           \/ st # NoState /\ SameEntry(lo, st.entry, n) /\ st.etag # 0 /\ st.etag = ob.etag
           \/ st = NoState /\ lo = Absent /\ ob.etag = 0
    PROVE  decide(lo, ob.etag, st, r, first, ad, n) = NoAction
BY DEF decide, localUnchanged, remoteUnchanged

\* After a Put that did not answer with the ETag the decision is to take note.
LEMMA LearnsRecords ==
    ASSUME TypeOK, Learns
    PROVE  decision.kind = "record" /\ decision # NoAction
<1>1. o.etag # 0 /\ ReadFor(o, s) = o /\ localUnchanged(l, s, m) /\ ~remoteUnchanged(o.etag, s)
  BY DEF TypeOK, Learns, ReadFor, needsFetch, localUnchanged, remoteUnchanged
<1> DEFINE d == decide(l, o.etag, s, ReadFor(o, s), firstSync, adopt, m)
<1>2. d.kind = OnlyRemoteChanged(l, o.etag, s, o, m)
  BY <1>1 DEF decide
<1>3. d.kind = "record"
  BY <1>1, <1>2 DEF OnlyRemoteChanged, sameContent, Learns
<1>4. allowed("record", mode)
  BY DEF allowed, UploadKinds, LocalKinds
<1> HIDE DEF d
<1>5. decision = IF allowed(d.kind, mode) THEN d ELSE NoAction
  BY DEF decision, ReadFor, d
<1> QED BY <1>3, <1>4, <1>5 DEF NoAction

\* The decision is none, or decide's.
LEMMA DecisionIsDecides ==
    \/ decision = NoAction
    \/ decision = decide(l, o.etag, s, ReadFor(o, s), firstSync, adopt, m)
BY DEF decision, ReadFor

\* With disk, object and state, the decision stays.
LEMMA DecisionStays ==
    ASSUME UNCHANGED <<m, l, o, s, firstSync, adopt, mode>>
    PROVE  decision' = decision /\ (Quiet => Quiet')
<1>1. decision' = decision
  BY DEF decision
<1> QED BY <1>1 DEF Quiet

\* With disk, object and state the same, a sync has nothing to do.
LEMMA QuietAfter ==
    ASSUME \/ s' # NoState /\ SameEntry(l', s'.entry, m') /\ s'.etag # 0 /\ s'.etag = o'.etag
           \/ s' = NoState /\ l' = Absent /\ o'.etag = 0
    PROVE  Quiet'
<1>1. decide(l', o'.etag, s', ReadFor(o', s'), firstSync', adopt', m') = NoAction
  BY NothingToDecide
<1>2. decision' = NoAction
  BY <1>1 DEF decision, ReadFor
<1> QED BY <1>2 DEF Quiet, NoAction

-----------------------------------------------------------------------------
(* A sync *)

\* A version is not lost in this sync: it is none, it is the one of the last sync, or it
\* is somewhere afterwards.
Stays(e) ==
    \/ e = Absent
    \/ s # NoState /\ SameEntry(e, s.entry, m)
    \/ \E f \in {l', o'.entry} \cup aside' : SameEntry(e, f, m)

\* What stays has not vanished.
LEMMA StayingIsKept ==
    ASSUME before' = [l |-> l, o |-> o, s |-> s], m' = m, Stays(l), Stays(o.entry)
    PROVE  NothingVanishes'
BY DEF Stays, NothingVanishes, Kept

\* What a sync does: whatever it decides, it leaves types and states in order, has
\* nothing to do next but to take note of a Put, and loses no version.
SyncDone ==
    /\ l' \in EntryOrAbsent /\ o' \in Object /\ s' \in EntryState
    /\ o'.etag = 0 => o' = NoObject
    /\ StateFits'
    /\ Quiet' \/ (Learns' /\ ~reports /\ decision.kind \in UploadKinds)
    /\ Stays(l) /\ Stays(o.entry)

\* A sync that leaves disk, object and state alone.
LEMMA NothingDone ==
    ASSUME TypeOK, StateFits, UNCHANGED <<m, l, o, s, firstSync, adopt, mode>>, Quiet
    PROVE  SyncDone
BY DecisionStays, SameIsEquivalence DEF TypeOK, StateFits, SyncDone, Stays

\* A sync that writes the object's version to the disk.
LEMMA AppliedDone ==
    ASSUME TypeOK, StateFits, UNCHANGED <<m, o, firstSync, adopt, mode>>, o.etag # 0,
           NEW a, a.remote = o, l' = onDisk(a.remote.entry, m), s' = applied(a), Stays(l)
    PROVE  SyncDone
<1>1. /\ o.etag \in Nat /\ o.entry \in EntryOrAbsent
      /\ s' = [etag |-> o.etag, entry |-> o.entry]
  BY DEF TypeOK, Object, applied
<1>2. s'.etag = o.etag /\ s'.entry = o.entry /\ s' \in EntryState
  BY <1>1 DEF EntryState
<1>3. l' \in EntryOrAbsent /\ SameEntry(l', o.entry, m)
  BY <1>1, OnDiskIsSame
<1>4. s' # NoState
  BY <1>2 DEF NoState
<1>5. Quiet'
  BY <1>2, <1>3, <1>4, QuietAfter
<1>6. StateFits' /\ Stays(o.entry)
  BY <1>2, SameIsEquivalence DEF StateFits, Stays
<1> QED BY <1>2, <1>3, <1>5, <1>6 DEF SyncDone, TypeOK

\* A sync that uploads.
LEMMA UploadDone ==
    ASSUME TypeOK, StateFits, UNCHANGED <<m, l, firstSync, adopt, mode, reports>>,
           NEW e \in EntryOrAbsent, SameEntry(l, e, m),
           o' = [etag |-> o.etag + 2, entry |-> e, writer |-> m],
           s' = [etag |-> IF reports THEN o.etag + 2 ELSE 0, entry |-> e],
           Stays(o.entry), decision.kind \in UploadKinds
    PROVE  SyncDone
<1>1. o.etag \in Nat /\ m \in Machine
  BY DEF TypeOK, Object
<1>2. /\ o'.etag = o.etag + 2 /\ o'.entry = e /\ o'.etag # 0
      /\ s'.entry = e /\ s'.etag \in {0, o'.etag}
      /\ reports => s'.etag = o'.etag
      /\ ~reports => s'.etag = 0
  BY <1>1
<1>3. o' \in Object /\ s' \in EntryState
  BY <1>1, <1>2 DEF Object, EntryState
<1>4. s' # NoState /\ o' # NoObject
  BY <1>2, EntryKinds DEF NoState, NoObject
<1>5. StateFits' /\ Stays(l)
  BY <1>2, SameIsEquivalence DEF StateFits, Stays
<1>6. CASE reports
  <2>1. Quiet'
    BY <1>2, <1>4, <1>6, QuietAfter
  <2> QED BY <1>2, <1>3, <1>5, <2>1 DEF SyncDone, TypeOK
<1>7. CASE ~reports
  <2>1. Learns'
    BY <1>2, <1>4, <1>7 DEF Learns
  <2> QED BY <1>2, <1>3, <1>5, <1>7, <2>1 DEF SyncDone, TypeOK
<1> QED BY <1>6, <1>7

\* Every sync does what SyncDone says.
LEMMA SyncIsDone ==
    ASSUME TypeOK, StateFits, Sync
    PROVE  SyncDone
<1> DEFINE e == uploaded(decision, s, m)
           new == [etag |-> o.etag + 2, entry |-> e, writer |-> m]
           stored == [etag |-> IF reports THEN o.etag + 2 ELSE 0, entry |-> e]
           blocked == ~canWrite(l, decision.remote.entry)
<1> PICK a : a = decision
  OBVIOUS
<1> PICK r : r = ReadFor(o, s)
  OBVIOUS
<1>1. UNCHANGED <<m, firstSync, adopt, mode, reports>>
  BY DEF Sync
<1>2. CASE a = NoAction
  <2>1. UNCHANGED <<l, o, s>>
    BY <1>2 DEF Sync, NoAction, LocalKinds, UploadKinds
  <2>2. Quiet
    BY <1>2 DEF Quiet, NoAction
  <2> QED BY <1>1, <2>1, <2>2, NothingDone
<1>3. CASE a # NoAction
  <2>1. a = decide(l, o.etag, s, r, firstSync, adopt, m)
    BY <1>3, DecisionIsDecides
  <2>2. /\ a.kind \in LocalKinds \cup UploadKinds \cup OtherKinds \cup {"pending"}
        /\ a.local = l /\ a.remote = r
        /\ a.kind \in LocalKinds \cup {"record", "conflict"} => r = o /\ o.etag # 0
        /\ a.kind = "remove" => o.entry = Absent
        /\ a.kind \in LocalKinds =>
              \/ a.keep
              \/ l = Absent
              \/ s # NoState /\ SameEntry(l, s.entry, m)
        /\ a.kind = "record" => SameEntry(l, o.entry, m)
        /\ a.kind = "forget" => o.etag = 0 /\ l = Absent
        /\ a.kind = "upload-delete" => l = Absent
        /\ a.kind \in UploadKinds =>
              /\ a.ifMatch = o.etag
              /\ o.entry = Absent \/ (s.etag # 0 /\ s.etag = o.etag)
    BY <1>3, <2>1, DecideNeeds DEF TypeOK
  <2>3. \/ a.kind \in LocalKinds /\ ~blocked
        \/ a.kind \in LocalKinds /\ blocked
        \/ a.kind \in UploadKinds
        \/ a.kind = "record"
        \/ a.kind = "forget"
        \/ a.kind \in {"conflict", "pending"}
    BY <2>2 DEF OtherKinds
  <2>4. CASE a.kind \in LocalKinds /\ ~blocked
    <3>1. /\ l' = onDisk(a.remote.entry, m) /\ s' = applied(a) /\ o' = o
          /\ aside' = IF a.keep THEN {l} ELSE {}
      BY <2>4 DEF Sync, LocalKinds, UploadKinds
    <3>2. Stays(l)
      BY <2>2, <2>4, <3>1, SameIsEquivalence DEF Stays
    <3> QED BY <1>1, <2>2, <2>4, <3>1, <3>2, AppliedDone
  <2>5. CASE a.kind \in LocalKinds /\ blocked
    <3>1. UNCHANGED <<l, o, s>>
      BY <2>5 DEF Sync, LocalKinds, UploadKinds
    <3>2. a.kind = "download"
      <4> SUFFICES ASSUME a.kind = "remove" PROVE FALSE
        BY <2>5 DEF LocalKinds
      <4>1. decision.remote.entry = Absent
        BY <2>2 DEF LocalKinds
      <4> QED BY <2>5, <4>1 DEF canWrite, Absent
    <3>3. Quiet
      BY <2>5, <3>2 DEF Quiet
    <3> QED BY <1>1, <3>1, <3>3, NothingDone
  <2>6. CASE a.kind \in UploadKinds
    <3>1. o' = new /\ s' = stored /\ l' = l
      BY <2>2, <2>6 DEF Sync, LocalKinds, UploadKinds
    <3>2. e \in EntryOrAbsent /\ SameEntry(l, e, m)
      BY <2>2, UploadedIsSame DEF TypeOK
    <3>3. Stays(o.entry)
      <4>1. s.etag # 0 /\ s.etag = o.etag => s # NoState /\ SameEntry(s.entry, o.entry, m)
        BY DEF StateFits, NoState
      <4> QED BY <2>2, <2>6, <4>1, SameIsEquivalence DEF Stays
    <3> HIDE DEF e
    <3> QED BY <1>1, <2>6, <3>1, <3>2, <3>3, UploadDone
  <2>7. CASE a.kind = "record"
    <3>1. s' = recorded(a) /\ UNCHANGED <<l, o>>
      BY <2>7 DEF Sync, LocalKinds, UploadKinds
    <3>2. s' = [etag |-> o.etag, entry |-> l]
      BY <2>2, <2>7, <3>1 DEF recorded
    <3>3. o.etag \in Nat /\ o.etag # 0 /\ SameEntry(l, o.entry, m)
      BY <2>2, <2>7 DEF TypeOK, Object
    <3>4. s'.etag = o.etag /\ s'.entry = l /\ s' \in EntryState /\ s' # NoState
      BY <3>2, <3>3 DEF TypeOK, EntryState, NoState
    <3>5. Quiet'
      BY <1>1, <3>1, <3>3, <3>4, QuietAfter, SameIsEquivalence
    <3> QED
      BY <1>1, <3>1, <3>3, <3>4, <3>5, SameIsEquivalence DEF SyncDone, TypeOK, StateFits, Stays
  <2>8. CASE a.kind = "forget"
    <3>1. s' = NoState /\ UNCHANGED <<l, o>>
      BY <2>8 DEF Sync, LocalKinds, UploadKinds
    <3>2. Quiet'
      BY <2>2, <2>8, <3>1, QuietAfter
    <3>3. StateFits'
      BY <3>1 DEF StateFits, NoState
    <3> QED BY <3>1, <3>2, <3>3, SameIsEquivalence DEF SyncDone, TypeOK, EntryState, Stays
  <2>9. CASE a.kind \in {"conflict", "pending"}
    <3>1. UNCHANGED <<l, o, s>>
      BY <2>9 DEF Sync, LocalKinds, UploadKinds
    <3>2. Quiet
      BY <2>9 DEF Quiet
    <3> QED BY <1>1, <3>1, <3>2, NothingDone
  <2> QED BY <2>3, <2>4, <2>5, <2>6, <2>7, <2>8, <2>9
<1> QED BY <1>2, <1>3

-----------------------------------------------------------------------------
(* The theorems *)

\* The inductive invariant holds in every state.
THEOREM EverythingFits == Spec => []Fits
<1>1. Init => Fits
  <2> SUFFICES ASSUME Init PROVE Fits
    OBVIOUS
  <2>1. m \in Machine /\ syncs = 0
    BY DEF Init
  <2>2. Inputs \cup {Absent} \subseteq EntryOrAbsent
    BY OneSyncAssumption DEF EntryOrAbsent
  <2>3. l \in EntryOrAbsent
    <3>1. PICK e \in Inputs \cup {Absent} : l = onDisk(e, m)
      BY DEF Init
    <3> QED BY <2>2, <3>1, OnDiskIsSame
  <2>4. o \in Object /\ (o.etag = 0 => o = NoObject)
    <3>1. CASE o = NoObject
      BY <3>1 DEF NoObject, Object, EntryOrAbsent
    <3>2. CASE o \in [etag : {1}, entry : Inputs \cup {Absent}, writer : Machine]
      BY <2>2, <3>2 DEF Object
    <3> QED BY <3>1, <3>2 DEF Init, Objects
  <2>5. s \in EntryState
    <3>1. s = NoState \/ s \in [etag : {0, 1, 2}, entry : Inputs \cup {Absent}]
      BY DEF Init, States
    <3> QED BY <2>2, <3>1 DEF EntryState
  <2>6. StateFits
    BY DEF Init, StateFits
  <2> QED BY <2>1, <2>3, <2>4, <2>5, <2>6 DEF Fits, TypeOK, Settling
<1>2. Fits /\ [Next]_vars => Fits'
  <2> SUFFICES ASSUME Fits, [Next]_vars PROVE Fits'
    OBVIOUS
  <2>1. CASE Sync
    <3>1. m' = m /\ reports' = reports /\ syncs \in Nat /\ syncs' = syncs + 1
      BY <2>1 DEF Sync, Fits, TypeOK
    <3>2. SyncDone
      BY <2>1, SyncIsDone DEF Fits
    <3>3. TypeOK' /\ StateFits'
      BY <3>1, <3>2 DEF SyncDone, Fits, TypeOK
    <3>4. syncs = 0 \/ decision.kind \notin UploadKinds
      <4>1. Quiet => decision.kind \notin UploadKinds
        BY DEF Quiet, UploadKinds
      <4>2. Learns => decision.kind \notin UploadKinds
        BY LearnsRecords DEF Fits, UploadKinds
      <4> QED BY <3>1, <4>1, <4>2 DEF Fits, Settling
    <3>5. Settling'
      BY <3>1, <3>2, <3>4 DEF SyncDone, Settling
    <3> QED BY <3>3, <3>5 DEF Fits
  <2>2. CASE UNCHANGED vars
    <3>1. UNCHANGED <<m, l, o, s, firstSync, adopt, mode, reports, syncs>>
      BY <2>2 DEF vars
    <3>2. Quiet => Quiet'
      BY <3>1, DecisionStays
    <3> QED BY <3>1, <3>2 DEF Fits, TypeOK, StateFits, Settling, Learns
  <2> QED BY <2>1, <2>2 DEF Next
<1> QED BY <1>1, <1>2, PTL DEF Spec

\* A sync settles an entry: the next one (or, where a Put does not answer with the
\* ETag, the one after) has nothing to do, from whatever disk, object and state.
THEOREM OneSyncSettles == Spec => []Settles
<1>1. Fits => Settles
  <2> SUFFICES ASSUME Fits, syncs >= SettledAfter PROVE Quiet
    BY DEF Settles, Quiet
  <2>1. syncs \in Nat /\ syncs > 0 /\ (~reports => syncs # 1)
    BY DEF Fits, TypeOK, SettledAfter
  <2> QED BY <2>1 DEF Fits, Settling
<1> QED BY <1>1, EverythingFits, PTL

\* No version vanishes in a sync: what the disk and the store held is still there, set
\* aside, or the version of the last sync.
THEOREM OneSyncLosesNothing == Spec => []NothingVanishes
<1>1. Init => NothingVanishes
  BY DEF Init, NothingVanishes
<1>2. Fits /\ NothingVanishes /\ [Next]_vars => NothingVanishes'
  <2> SUFFICES ASSUME Fits, NothingVanishes, [Next]_vars PROVE NothingVanishes'
    OBVIOUS
  <2>1. CASE Sync
    <3>1. before' = [l |-> l, o |-> o, s |-> s] /\ m' = m
      BY <2>1 DEF Sync
    <3>2. Stays(l) /\ Stays(o.entry)
      BY <2>1, SyncIsDone DEF Fits, SyncDone
    <3> QED BY <3>1, <3>2, StayingIsKept
  <2>2. CASE UNCHANGED vars
    BY <2>2 DEF vars, NothingVanishes, Kept
  <2> QED BY <2>1, <2>2 DEF Next
<1> QED BY <1>1, <1>2, EverythingFits, PTL DEF Spec
=============================================================================
