------------------------------- MODULE Decide -------------------------------
(***************************************************************************)
(* The three-way decision of internal/engine/plan.go: what a sync does     *)
(* with one entry, from the entry on this machine's disk, the object in    *)
(* the store and the state this machine saved at its last sync; and the    *)
(* effect of each decision on the disk and on the state (apply.go).        *)
(*                                                                         *)
(* An entry is a file (its content and its execute bit) or a link (its     *)
(* target).  Absent stands for "no entry": a missing file on disk, a       *)
(* tombstone in the store and in the state.  An ETag is a number; 0 is the *)
(* empty string, which the code uses both for "no object" and for "the     *)
(* backend did not report it".  Objects are sealed with a fresh nonce or   *)
(* carry the time of writing, so equal contents never share an ETag.       *)
(* Structured files (items merged one by one) are not in this module.      *)
(***************************************************************************)
EXTENDS Naturals

CONSTANTS
    Machine,     \* the computers that sync with one store
    Data,        \* what a file can hold, what a link can point to
    NoData,      \* the data of an entry that does not exist
    Nobody,      \* the writer of an object that does not exist
    TracksExec   \* the machines whose file system has an execute bit

ASSUME DecideAssumption ==
    /\ NoData \notin Data
    /\ Nobody \notin Machine
    /\ TracksExec \subseteq Machine

Entry == [kind : {"file"}, data : Data, exec : BOOLEAN]
           \cup [kind : {"link"}, data : Data, exec : {FALSE}]
Absent == [kind |-> "absent", data |-> NoData, exec |-> FALSE]
Unsynced == [kind |-> "unsynced", data |-> NoData, exec |-> FALSE]
EntryOrAbsent == Entry \cup {Absent}

\* An object of the store as a reader sees it: the envelope's header and content.
Object == [etag : Nat, entry : EntryOrAbsent, writer : Machine \cup {Nobody}]
NoObject == [etag |-> 0, entry |-> Absent, writer |-> Nobody]

\* What state.json says of one entry; NoState is a key it does not list.
NoState == [etag |-> 0, entry |-> Unsynced]
EntryState == {NoState} \cup [etag : Nat, entry : EntryOrAbsent]

LocalKinds == {"download", "remove"}
UploadKinds == {"upload", "upload-delete"}
OtherKinds == {"record", "forget", "conflict"}
Action == [kind : LocalKinds \cup UploadKinds \cup OtherKinds
                    \cup {"none", "pending", "drop"},
           local : EntryOrAbsent, remote : Object, ifMatch : Nat, keep : BOOLEAN]
NoAction == [kind |-> "none", local |-> Absent, remote |-> NoObject,
             ifMatch |-> 0, keep |-> FALSE]

-----------------------------------------------------------------------------
(* Comparisons *)

\* Same kind and content; the execute bit counts only where the disk has one.
SameEntry(x, y, m) ==
    /\ x.kind = y.kind
    /\ x.data = y.data
    /\ m \in TracksExec => x.exec = y.exec

\* A bug: the execute bit counts on machines that cannot see it.
localUnchangedStrict(l, s, m) == IF s = NoState THEN l = Absent ELSE l = s.entry

\* The entry on disk is what the last sync left there.
localUnchanged(l, s, m) ==
    IF s = NoState THEN l = Absent ELSE SameEntry(l, s.entry, m)

\* A bug: an ETag that was never known counts as unchanged.
remoteUnchangedTrusting(info, s) ==
    IF s = NoState THEN info = 0 ELSE info # 0 /\ s.etag \in {0, info}

\* The listed ETag is the one the last sync saw; an unknown ETag never is.
remoteUnchanged(info, s) ==
    IF s = NoState THEN info = 0 ELSE s.etag # 0 /\ info = s.etag

sameContent(l, r, m) == SameEntry(l, r.entry, m)

\* A listed object must be read before deciding.
needsFetch(info, s) == s = NoState \/ s.etag = 0 \/ s.etag # info

-----------------------------------------------------------------------------
(* The decision *)

OnlyRemoteChanged(l, info, s, r, m) ==
    IF info = 0 THEN IF s.entry = Absent THEN "forget" ELSE "upload"
    ELSE IF sameContent(l, r, m) THEN "record"
    ELSE IF r.entry = Absent THEN "remove" ELSE "download"

\* confirm: this is the first sync and the user did not adopt local entries.
OnlyLocalChanged(l, s, confirm) ==
    IF s = NoState THEN IF confirm THEN "pending" ELSE "upload"
    ELSE IF l = Absent THEN "upload-delete" ELSE "upload"

BothChanged(l, info, s, r, confirm, m) ==
    IF info = 0 THEN IF l = Absent THEN "forget" ELSE "upload"
    ELSE IF sameContent(l, r, m) THEN "record"
    ELSE IF s = NoState /\ r.entry = Absent
         THEN IF confirm THEN "pending" ELSE "upload"
    ELSE IF s = NoState \/ l = Absent THEN "download"
    ELSE IF r.entry = Absent THEN "upload" ELSE "conflict"

\* The ETag an upload is conditioned on: the one of the last sync when only
\* this machine changed, else the one of the tombstone it overrules.  0 means
\* that the object must not exist.
uploadCondition(kind, info, s, r) ==
    IF kind = "conflict" THEN r.etag
    ELSE IF kind \notin UploadKinds \/ info = 0 THEN 0
    ELSE IF remoteUnchanged(info, s) THEN s.etag ELSE r.etag

\* A bug: nothing asks before the first upload.
decideUnasked(l, info, s, r, firstSync, adopt, m) ==
    LET localSame == localUnchanged(l, s, m)
        kind == IF localSame THEN OnlyRemoteChanged(l, info, s, r, m)
                ELSE IF remoteUnchanged(info, s) THEN OnlyLocalChanged(l, s, FALSE)
                ELSE BothChanged(l, info, s, r, FALSE, m)
    IN  IF localSame /\ remoteUnchanged(info, s) THEN NoAction
        ELSE [kind |-> kind, local |-> l, remote |-> r,
              ifMatch |-> uploadCondition(kind, info, s, r),
              keep |-> kind = "download" /\ s = NoState]

\* A bug: once the store changed, the disk is not compared with the last sync.
decideRemoteWins(l, info, s, r, firstSync, adopt, m) ==
    LET kind == IF remoteUnchanged(info, s)
                THEN OnlyLocalChanged(l, s, firstSync /\ ~adopt)
                ELSE OnlyRemoteChanged(l, info, s, r, m)
    IN  IF localUnchanged(l, s, m) /\ remoteUnchanged(info, s) THEN NoAction
        ELSE [kind |-> kind, local |-> l, remote |-> r,
              ifMatch |-> uploadCondition(kind, info, s, r), keep |-> FALSE]

\* What to do with one key: l is the entry on disk, info the listed ETag (0 when
\* the store has no such object), s the state of the last sync, r the object
\* read when needsFetch said so.
decide(l, info, s, r, firstSync, adopt, m) ==
    LET localSame == localUnchanged(l, s, m)
        remoteSame == remoteUnchanged(info, s)
        confirm == firstSync /\ ~adopt
        kind == IF localSame THEN OnlyRemoteChanged(l, info, s, r, m)
                ELSE IF remoteSame THEN OnlyLocalChanged(l, s, confirm)
                ELSE BothChanged(l, info, s, r, confirm, m)
    IN  IF localSame /\ remoteSame THEN NoAction
        ELSE [kind |-> kind, local |-> l, remote |-> r,
              ifMatch |-> uploadCondition(kind, info, s, r),
              keep |-> kind = "download" /\ ~localSame /\ s = NoState]

\* The direction of the run: which decisions it carries out.
allowed(kind, mode) ==
    CASE mode = "pull" -> kind \notin UploadKinds \cup {"pending"}
      [] mode = "push" -> kind \notin LocalKinds \cup {"conflict"}
      [] OTHER -> TRUE

\* Order of application: removals, then files, then links, then the rest.
rank(a) ==
    CASE a.kind = "remove" -> 0
      [] a.kind = "download" /\ a.remote.entry.kind = "file" -> 1
      [] a.kind = "download" /\ a.remote.entry.kind # "file" -> 2
      [] OTHER -> 3

-----------------------------------------------------------------------------
(* The effects *)

\* An entry as machine m's scanner reads it back from its disk.
onDisk(e, m) == IF m \in TracksExec THEN e ELSE [e EXCEPT !.exec = FALSE]

\* Whether an entry can be written over the one on disk.  A link is not: only
\* links and empty directories are cleared away, a file is left "for the atomic
\* rename to replace", and a link is made in place.
canWrite(old, new) == new.kind = "link" => old.kind # "file"

\* The state of an entry that was downloaded or removed here.
applied(a) == [etag |-> a.remote.etag, entry |-> a.remote.entry]

\* A bug: the kind of a deleted entry is left out of the state.
recordedNoKind(a) ==
    [etag |-> a.remote.etag, entry |-> IF a.local = Absent THEN Unsynced ELSE a.local]

\* The state of an entry both sides already agree on: as read from this disk.
recorded(a) == [etag |-> a.remote.etag, entry |-> a.local]

\* The entry an upload stores.  Where the disk has no execute bit the one of
\* the last sync is kept.
uploaded(a, prev, m) ==
    IF a.kind = "upload-delete" THEN Absent
    ELSE IF a.local.kind = "file" /\ m \notin TracksExec
         THEN [a.local EXCEPT !.exec = prev.entry.exec]
    ELSE a.local
=============================================================================
