---------------------------- MODULE EngineProofs ----------------------------
(***************************************************************************)
(* Proofs about Engine, for every set of machines, keys and contents and   *)
(* every bound.                                                            *)
(***************************************************************************)
EXTENDS Engine, TLAPS

-----------------------------------------------------------------------------
(* The decision and its effects stay within their types *)

\* Writing an entry and scanning it back (applyLocal, the scanner) gives an entry.
LEMMA OnDiskType ==
    ASSUME NEW e \in EntryOrAbsent, NEW m
    PROVE  onDisk(e, m) \in EntryOrAbsent
<1>1. CASE e \in [kind : {"file"}, data : Data, exec : BOOLEAN]
  BY <1>1 DEF onDisk, EntryOrAbsent, Entry
<1>2. CASE e \in [kind : {"link"}, data : Data, exec : {FALSE}]
  BY <1>2 DEF onDisk, EntryOrAbsent, Entry
<1>3. CASE e = Absent
  BY <1>3 DEF onDisk, EntryOrAbsent, Absent
<1> QED BY <1>1, <1>2, <1>3 DEF EntryOrAbsent, Entry

\* A key that state.json does not list has a state.
LEMMA NoStateType == NoState \in EntryState
BY DEF EntryState

\* The missing object is an object.
LEMMA NoObjectType == NoObject \in Object
BY DEF Object, NoObject, EntryOrAbsent

\* Doing nothing is an action.
LEMMA NoActionType == NoAction \in Action
BY NoObjectType DEF Action, NoAction, EntryOrAbsent

\* The ETag in a state is a number.
LEMMA EntryStateFields ==
    ASSUME NEW s \in EntryState
    PROVE  s.etag \in Nat
BY DEF EntryState, NoState

\* What an upload is conditioned on is a number.
LEMMA UploadConditionType ==
    ASSUME NEW kind, NEW info, NEW s \in EntryState, NEW r \in Object
    PROVE  uploadCondition(kind, info, s, r) \in Nat
BY EntryStateFields DEF uploadCondition, Object

Kinds == LocalKinds \cup UploadKinds \cup OtherKinds \cup {"none", "pending", "drop"}

\* The decision for any entry, listing, state and object is an action.
LEMMA DecideType ==
    ASSUME NEW l \in EntryOrAbsent, NEW info, NEW s \in EntryState, NEW r \in Object,
           NEW firstSync, NEW adopt, NEW m
    PROVE  decide(l, info, s, r, firstSync, adopt, m) \in Action
<1> DEFINE confirm == firstSync /\ ~adopt
           kind == IF localUnchanged(l, s, m) THEN OnlyRemoteChanged(l, info, s, r, m)
                   ELSE IF remoteUnchanged(info, s) THEN OnlyLocalChanged(l, s, confirm)
                   ELSE BothChanged(l, info, s, r, confirm, m)
           keep == kind = "download" /\ ~localUnchanged(l, s, m) /\ s = NoState
<1>1. kind \in Kinds
  <2>1. OnlyRemoteChanged(l, info, s, r, m) \in Kinds
    BY DEF OnlyRemoteChanged, Kinds, LocalKinds, UploadKinds, OtherKinds
  <2>2. OnlyLocalChanged(l, s, confirm) \in Kinds
    BY DEF OnlyLocalChanged, Kinds, LocalKinds, UploadKinds, OtherKinds
  <2>3. BothChanged(l, info, s, r, confirm, m) \in Kinds
    BY DEF BothChanged, Kinds, LocalKinds, UploadKinds, OtherKinds
  <2> QED BY <2>1, <2>2, <2>3
<1>2. uploadCondition(kind, info, s, r) \in Nat
  BY UploadConditionType
<1>3. keep \in BOOLEAN
  OBVIOUS
<1> HIDE DEF kind, keep
<1>4. [kind |-> kind, local |-> l, remote |-> r,
       ifMatch |-> uploadCondition(kind, info, s, r), keep |-> keep] \in Action
  BY <1>1, <1>2, <1>3 DEF Action, Kinds
<1> QED BY <1>4, NoActionType DEF decide, kind, keep

\* The state after a download or a removal is a state.
LEMMA AppliedType ==
    ASSUME NEW a \in Action
    PROVE  applied(a) \in EntryState
BY DEF applied, Action, Object, EntryState

\* The state after a record is a state.
LEMMA RecordedType ==
    ASSUME NEW a \in Action
    PROVE  recorded(a) \in EntryState
BY DEF recorded, Action, Object, EntryState

\* What the kind of an entry says about its other fields.
LEMMA EntryFields ==
    ASSUME NEW e \in EntryOrAbsent
    PROVE  /\ e.exec \in BOOLEAN
           /\ e.kind = "file" => e \in [kind : {"file"}, data : Data, exec : BOOLEAN]
<1>1. CASE e \in [kind : {"file"}, data : Data, exec : BOOLEAN]
  BY <1>1
<1>2. CASE e \in [kind : {"link"}, data : Data, exec : {FALSE}]
  BY <1>2
<1>3. CASE e = Absent
  BY <1>3 DEF Absent
<1> QED BY <1>1, <1>2, <1>3 DEF EntryOrAbsent, Entry

\* What an upload stores is an entry, or none.
LEMMA UploadedType ==
    ASSUME NEW a \in Action, NEW prev \in EntryState, NEW m
    PROVE  uploaded(a, prev, m) \in EntryOrAbsent
<1> DEFINE b == prev.entry.exec
<1>1. b \in BOOLEAN
  <2>1. CASE prev = NoState
    BY <2>1 DEF NoState, Unsynced
  <2>2. CASE prev \in [etag : Nat, entry : EntryOrAbsent]
    BY <2>2, EntryFields
  <2> QED BY <2>1, <2>2 DEF EntryState
<1>2. a.local \in EntryOrAbsent
  BY DEF Action
<1>3. ASSUME a.local.kind = "file"
      PROVE  [a.local EXCEPT !.exec = b] \in EntryOrAbsent
  <2> HIDE DEF b
  <2>1. a.local \in [kind : {"file"}, data : Data, exec : BOOLEAN]
    BY <1>2, <1>3, EntryFields
  <2> QED BY <1>1, <2>1 DEF EntryOrAbsent, Entry
<1> QED BY <1>2, <1>3 DEF uploaded, EntryOrAbsent

-----------------------------------------------------------------------------
(* Type correctness *)

PhaseOK ==
    /\ pc \in [Machine -> {"idle", "scan", "fetch", "apply", "resolve"}]
    /\ run \in [Machine -> Run]
    /\ known \in [Machine -> [Key -> EntryState]]
    /\ local \in [Machine -> [Key -> EntryOrAbsent]]
    /\ listing \in [Machine -> [Key -> Nat]]
    /\ fetched \in [Machine -> [Key -> Object]]
    /\ unreadable \in [Machine -> SUBSET Key]
    /\ todo \in [Machine -> [Key -> Action]]

StoreOK ==
    /\ store \in [Key -> Object]
    /\ lastETag \in Nat
    /\ late \subseteq Put
    /\ aware \in [Key -> SUBSET Machine]

DiskOK ==
    /\ disk \in [Machine -> [Key -> EntryOrAbsent]]
    /\ saved \in [Machine -> [Key -> EntryState]]
    /\ settled \in [Machine -> BOOLEAN]
    /\ shown \in [Machine -> [Key -> Nat]]
    /\ agreed \in [Machine -> [Key -> EntryOrAbsent]]
    /\ unasked \in [Machine -> SUBSET Key]

\* TypeOK in three parts: the runs, the store, the disks and state files.
LEMMA TypeOKParts == TypeOK <=> PhaseOK /\ StoreOK /\ DiskOK /\ spent \in Spent
BY DEF TypeOK, PhaseOK, StoreOK, DiskOK

\* The same of the next state.
LEMMA TypeOKPartsNext == TypeOK' <=> PhaseOK' /\ StoreOK' /\ DiskOK' /\ (spent \in Spent)'
BY DEF TypeOK, PhaseOK, StoreOK, DiskOK

\* The end of a run leaves the variables of the runs well typed.
LEMMA EndRunType ==
    ASSUME PhaseOK, NEW m \in Machine, EndRun(m)
    PROVE  PhaseOK'
<1>1. NoRun \in Run
  BY DEF NoRun, Run
<1>2. /\ PerKey(NoState) \in [Key -> EntryState]
      /\ PerKey(Absent) \in [Key -> EntryOrAbsent]
      /\ PerKey(0) \in [Key -> Nat]
      /\ PerKey(NoObject) \in [Key -> Object]
      /\ PerKey(NoAction) \in [Key -> Action]
  BY NoStateType, NoObjectType, NoActionType DEF PerKey, EntryOrAbsent
<1> QED BY <1>1, <1>2 DEF PhaseOK, EndRun

\* Using up a bound keeps the counters well typed.
LEMMA SpendType ==
    ASSUME spent \in Spent, NEW bound,
           NEW what \in {"edits", "resolves", "faults", "crashes", "losses"},
           Spend(what, bound)
    PROVE  spent' \in Spent
BY DEF Spend, Spent

\* A Put that is taken leaves the store well typed.
LEMMA StorePutType ==
    ASSUME StoreOK, NEW m \in Machine, NEW k \in Key, NEW e \in EntryOrAbsent,
           StorePut(m, k, e)
    PROVE  /\ store' \in [Key -> Object]
           /\ lastETag' \in Nat
           /\ aware' \in [Key -> SUBSET Machine]
<1>1. [etag |-> lastETag + 1, entry |-> e, writer |-> m] \in Object
  BY DEF StoreOK, Object
<1> QED BY <1>1 DEF StoreOK, StorePut

\* Taking note of a version leaves the notes well typed.
LEMMA TakeNoteType ==
    ASSUME StoreOK, NEW m \in Machine, NEW k \in Key, NEW r, TakeNote(m, k, r)
    PROVE  aware' \in [Key -> SUBSET Machine]
BY DEF StoreOK, TakeNote

\* Agreeing on an entry leaves what was agreed well typed.
LEMMA AgreeType ==
    ASSUME DiskOK, NEW m \in Machine, NEW k \in Key, NEW e \in EntryOrAbsent,
           Agree(m, k, e)
    PROVE  /\ agreed' \in [Machine -> [Key -> EntryOrAbsent]]
           /\ unasked' \in [Machine -> SUBSET Key]
BY DEF DiskOK, Agree

\* Finishing an action leaves the plans well typed.
LEMMA DoneType ==
    ASSUME PhaseOK, NEW m \in Machine, NEW k \in Key, Done(m, k)
    PROVE  todo' \in [Machine -> [Key -> Action]]
BY NoActionType DEF PhaseOK, Done

\* Remembering a state leaves the states of the runs well typed.
LEMMA RememberType ==
    ASSUME PhaseOK, NEW m \in Machine, NEW k \in Key, NEW s \in EntryState,
           Remember(m, k, s)
    PROVE  known' \in [Machine -> [Key -> EntryState]]
BY DEF PhaseOK, Remember

\* An upload that is answered leaves what it changes well typed.
LEMMA PutAnsweredType ==
    ASSUME PhaseOK, StoreOK, DiskOK, NEW m \in Machine, NEW k \in Key, PutAnswered(m, k)
    PROVE  /\ store' \in [Key -> Object]
           /\ lastETag' \in Nat
           /\ aware' \in [Key -> SUBSET Machine]
           /\ known' \in [Machine -> [Key -> EntryState]]
           /\ agreed' \in [Machine -> [Key -> EntryOrAbsent]]
           /\ unasked' \in [Machine -> SUBSET Key]
<1> DEFINE a == todo[m][k]
           e == uploaded(a, known[m][k], m)
<1>1. a \in Action /\ a.local \in EntryOrAbsent
  BY DEF PhaseOK, Action
<1>2. e \in EntryOrAbsent
  BY <1>1, UploadedType DEF PhaseOK
<1>3. [etag |-> answered(lastETag + 1), entry |-> e] \in EntryState
  BY <1>2 DEF StoreOK, answered, EntryState
<1>4. /\ StorePut(m, k, e)
      /\ Remember(m, k, [etag |-> answered(lastETag + 1), entry |-> e])
      /\ Agree(m, k, a.local)
  BY DEF PutAnswered
<1> HIDE DEF a, e
<1> QED BY <1>1, <1>2, <1>3, <1>4, StorePutType, RememberType, AgreeType

\* A failed write leaves the disks well typed.
LEMMA FailToWriteType ==
    ASSUME DiskOK, spent \in Spent, NEW m \in Machine, NEW k \in Key, FailToWrite(m, k)
    PROVE  /\ disk' \in [Machine -> [Key -> EntryOrAbsent]]
           /\ spent' \in Spent
<1>1. spent' \in Spent
  BY SpendType DEF FailToWrite
<1>2. Absent \in EntryOrAbsent
  BY DEF EntryOrAbsent
<1>3. disk' = disk \/ disk' = [disk EXCEPT ![m][k] = Absent]
  BY DEF FailToWrite
<1>4. [disk EXCEPT ![m][k] = Absent] \in [Machine -> [Key -> EntryOrAbsent]]
  BY <1>2 DEF DiskOK
<1> QED BY <1>1, <1>3, <1>4 DEF DiskOK

\* An upload without an answer leaves the late Puts well typed.
LEMMA PutUnansweredType ==
    ASSUME PhaseOK, StoreOK, spent \in Spent, NEW m \in Machine, NEW k \in Key,
           PutUnanswered(m, k)
    PROVE  /\ late' \subseteq Put
           /\ spent' \in Spent
<1> DEFINE a == todo[m][k]
           e == uploaded(a, known[m][k], m)
           i == a.ifMatch
<1>1. a \in Action /\ i \in Nat
  BY DEF PhaseOK, Action
<1>2. e \in EntryOrAbsent
  BY <1>1, UploadedType DEF PhaseOK
<1>3. late' = late \cup {[key |-> k, entry |-> e, writer |-> m, ifMatch |-> i]}
  BY DEF PutUnanswered
<1>4. spent' \in Spent
  BY SpendType DEF PutUnanswered
<1> HIDE DEF a, e, i
<1> QED BY <1>1, <1>2, <1>3, <1>4 DEF StoreOK, Put

\* An upload sent twice leaves the store well typed.
LEMMA PutRepeatedType ==
    ASSUME PhaseOK, StoreOK, spent \in Spent, NEW m \in Machine, NEW k \in Key,
           PutRepeated(m, k)
    PROVE  /\ store' \in [Key -> Object]
           /\ lastETag' \in Nat
           /\ aware' \in [Key -> SUBSET Machine]
           /\ spent' \in Spent
<1>1. uploaded(todo[m][k], known[m][k], m) \in EntryOrAbsent
  BY UploadedType DEF PhaseOK
<1> QED BY <1>1, StorePutType, SpendType DEF PutRepeated

\* The second round of a run is a run.
LEMMA NextRoundType ==
    ASSUME NEW r \in Run, r.round < maxRounds
    PROVE  [r EXCEPT !.round = @ + 1, !.retry = FALSE] \in Run
<1> DEFINE n == r.round + 1
<1>1. n \in 0..2
  BY DEF Run, maxRounds
<1> HIDE DEF n
<1>2. [r EXCEPT !.round = n, !.retry = FALSE] \in Run
  BY <1>1 DEF Run
<1> QED BY <1>2 DEF n

\* Every variable has its type in every state of the engine.
THEOREM TypeCorrect == Spec => []TypeOK
<1>1. Init => TypeOK
  <2> SUFFICES ASSUME Init PROVE TypeOK
    OBVIOUS
  <2>1. PhaseOK
    BY NoStateType, NoObjectType, NoActionType
    DEF Init, PhaseOK, PerMachine, PerKey, NoRun, Run, EntryOrAbsent
  <2>2. StoreOK
    BY NoObjectType DEF Init, StoreOK, PerKey
  <2>3. DiskOK
    <3>1. disk \in [Machine -> [Key -> EntryOrAbsent]]
      BY EngineAssumption DEF Init, EntryOrAbsent
    <3> QED BY <3>1, NoStateType DEF Init, DiskOK, PerMachine, PerKey, EntryOrAbsent
  <2>4. spent \in Spent
    BY DEF Init, Spent
  <2> QED BY <2>1, <2>2, <2>3, <2>4, TypeOKParts
<1>2. TypeOK /\ [Next]_vars => TypeOK'
  <2> SUFFICES ASSUME TypeOK, [Next]_vars PROVE TypeOK'
    OBVIOUS
  <2> USE TypeOKParts, TypeOKPartsNext
  <2>1. ASSUME NEW m \in Machine, ScanAndList(m) PROVE TypeOK'
    BY <2>1 DEF ScanAndList, PhaseOK, StoreOK, DiskOK, storeVars, stateVars, Object
  <2>2. ASSUME NEW m \in Machine, Plan(m) PROVE TypeOK'
    <3>1. \A k \in Key : planned(m, k) \in Action
      BY DecideType, NoActionType DEF planned, PhaseOK
    <3>2. /\ PerKey(Absent) \in [Key -> EntryOrAbsent]
          /\ PerKey(0) \in [Key -> Nat]
          /\ PerKey(NoObject) \in [Key -> Object]
      BY NoObjectType DEF PerKey, EntryOrAbsent
    <3> QED BY <2>2, <3>1, <3>2 DEF Plan, PhaseOK, StoreOK, DiskOK, storeVars, stateVars
  <2>3. ASSUME NEW m \in Machine, FinishRound(m) PROVE TypeOK'
    <3>1. DiskOK'
      BY <2>3 DEF FinishRound, DiskOK, PhaseOK
    <3>2. StoreOK' /\ (spent \in Spent)'
      BY <2>3 DEF FinishRound, StoreOK, storeVars
    <3>3. PhaseOK'
      <4>1. CASE run[m].retry /\ run[m].round < maxRounds
        <5>1. PerKey(NoAction) \in [Key -> Action]
          BY NoActionType DEF PerKey
        <5>2. run' \in [Machine -> Run]
          <6> DEFINE r == [run[m] EXCEPT !.round = @ + 1, !.retry = FALSE]
          <6>1. r \in Run
            BY <4>1, NextRoundType DEF PhaseOK
          <6>2. run' = [run EXCEPT ![m] = r]
            BY <2>3, <4>1 DEF FinishRound, PhaseOK
          <6> HIDE DEF r
          <6> QED BY <6>1, <6>2 DEF PhaseOK
        <5>3. /\ pc' = [pc EXCEPT ![m] = "scan"]
              /\ todo' = [todo EXCEPT ![m] = PerKey(NoAction)]
              /\ UNCHANGED <<known, local, listing, fetched, unreadable>>
          BY <2>3, <4>1 DEF FinishRound
        <5> QED BY <5>1, <5>2, <5>3 DEF PhaseOK
      <4>2. CASE ~(run[m].retry /\ run[m].round < maxRounds)
        BY <2>3, <4>2, EndRunType DEF FinishRound
      <4> QED BY <4>1, <4>2
    <3> QED BY <3>1, <3>2, <3>3
  <2>4. ASSUME NEW m \in Machine, NEW k \in Key, Fetch(m, k) PROVE TypeOK'
    <3>1. store[k] \in Object
      BY DEF StoreOK
    <3>2. listing' \in [Machine -> [Key -> Nat]] /\ fetched' \in [Machine -> [Key -> Object]]
      <4>1. CASE store[k] = NoObject
        <5>1. [listing EXCEPT ![m][k] = 0] \in [Machine -> [Key -> Nat]]
          BY DEF PhaseOK
        <5> QED BY <2>4, <4>1, <5>1 DEF Fetch, PhaseOK
      <4>2. CASE store[k] # NoObject
        <5>1. [fetched EXCEPT ![m][k] = store[k]] \in [Machine -> [Key -> Object]]
          BY <3>1 DEF PhaseOK
        <5> QED BY <2>4, <4>2, <5>1 DEF Fetch, PhaseOK
      <4> QED BY <4>1, <4>2
    <3>3. PhaseOK'
      BY <2>4, <3>2 DEF Fetch, PhaseOK
    <3> QED BY <2>4, <3>3 DEF Fetch, StoreOK, DiskOK, storeVars, stateVars
  <2>5. ASSUME NEW m \in Machine, NEW k \in Key, ApplyLocal(m, k) PROVE TypeOK'
    <3> DEFINE a == todo[m][k]
    <3>1. a \in Action /\ a.remote.entry \in EntryOrAbsent
      BY DEF PhaseOK, Action, Object
    <3>2. applied(a) \in EntryState /\ onDisk(a.remote.entry, m) \in EntryOrAbsent
      BY <3>1, AppliedType, OnDiskType
    <3>3. PhaseOK'
      BY <2>5, <3>2, DoneType, RememberType DEF ApplyLocal, WriteEntry, PhaseOK
    <3>4. StoreOK'
      BY <2>5, TakeNoteType DEF ApplyLocal, WriteEntry, StoreOK
    <3>5. DiskOK'
      BY <2>5, <3>2, AgreeType DEF ApplyLocal, WriteEntry, DiskOK, stateVars
    <3> QED BY <2>5, <3>3, <3>4, <3>5 DEF ApplyLocal
  <2>6. ASSUME NEW m \in Machine, NEW k \in Key, SaveConflict(m, k) PROVE TypeOK'
    <3>1. PhaseOK'
      BY <2>6, DoneType DEF SaveConflict, PhaseOK
    <3>2. todo[m][k].remote.etag \in Nat
      BY DEF PhaseOK, Action, Object
    <3>3. DiskOK' /\ StoreOK'
      BY <2>6, <3>2 DEF SaveConflict, StoreOK, DiskOK, storeVars, stateVars
    <3> QED BY <2>6, <3>1, <3>3 DEF SaveConflict
  <2>7. ASSUME NEW m \in Machine, NEW k \in Key, Record(m, k) PROVE TypeOK'
    <3>1. todo[m][k] \in Action /\ todo[m][k].local \in EntryOrAbsent
      BY DEF PhaseOK, Action
    <3>2. PhaseOK'
      BY <2>7, <3>1, RecordedType, DoneType, RememberType DEF Record, PhaseOK
    <3>3. StoreOK' /\ DiskOK'
      BY <2>7, <3>1, TakeNoteType, AgreeType DEF Record, StoreOK, DiskOK, stateVars
    <3> QED BY <2>7, <3>2, <3>3 DEF Record
  <2>8. ASSUME NEW m \in Machine, NEW k \in Key, Forget(m, k) PROVE TypeOK'
    <3>1. PhaseOK'
      BY <2>8, NoStateType, DoneType, RememberType DEF Forget, PhaseOK
    <3>2. Absent \in EntryOrAbsent
      BY DEF EntryOrAbsent
    <3>3. StoreOK' /\ DiskOK'
      BY <2>8, <3>2, AgreeType DEF Forget, StoreOK, DiskOK, storeVars, stateVars
    <3> QED BY <2>8, <3>1, <3>3 DEF Forget
  <2>9. ASSUME NEW m \in Machine, NEW k \in Key, Upload(m, k) PROVE TypeOK'
    <3>1. /\ known' \in [Machine -> [Key -> EntryState]]
          /\ StoreOK' /\ DiskOK'
      BY <2>9, PutAnsweredType DEF Upload, StoreOK, DiskOK, stateVars
    <3>2. PhaseOK'
      BY <2>9, <3>1, DoneType DEF Upload, PhaseOK
    <3> QED BY <2>9, <3>1, <3>2 DEF Upload
  <2>10. ASSUME NEW m \in Machine, NEW k \in Key, UploadLosesRace(m, k) PROVE TypeOK'
    <3>1. PhaseOK'
      BY <2>10, DoneType DEF UploadLosesRace, PhaseOK, Run
    <3> QED BY <2>10, <3>1 DEF UploadLosesRace, StoreOK, DiskOK, storeVars, stateVars
  <2>11. ASSUME NEW m \in Machine, NEW k \in Key, LinkBlocked(m, k) PROVE TypeOK'
    <3>1. PhaseOK'
      BY <2>11, DoneType DEF LinkBlocked, PhaseOK
    <3> QED BY <2>11, <3>1 DEF LinkBlocked, StoreOK, DiskOK, storeVars, stateVars
  <2>12. ASSUME NEW m \in Machine, NEW k \in Key, ResolveEffect(m, k) PROVE TypeOK'
    <3> DEFINE a == todo[m][k]
    <3>1. a \in Action /\ a.remote.entry \in EntryOrAbsent
      BY DEF PhaseOK, Action, Object
    <3>2. applied(a) \in EntryState /\ onDisk(a.remote.entry, m) \in EntryOrAbsent
      BY <3>1, AppliedType, OnDiskType
    <3>3. [a EXCEPT !.kind = "drop"] \in Action
      BY <3>1 DEF Action
    <3>4. todo' \in [Machine -> [Key -> Action]]
      BY <2>12, <3>3 DEF ResolveEffect, PhaseOK
    <3>5. /\ known' \in [Machine -> [Key -> EntryState]]
          /\ StoreOK' /\ DiskOK'
      <4>1. CASE PutAnswered(m, k) /\ UNCHANGED disk
        BY <2>12, <4>1, PutAnsweredType DEF ResolveEffect, StoreOK, DiskOK, stateVars
      <4>2. CASE WriteEntry(m, k) /\ UNCHANGED <<store, lastETag>>
        BY <2>12, <4>2, <3>2, RememberType, TakeNoteType, AgreeType
        DEF ResolveEffect, WriteEntry, StoreOK, DiskOK, stateVars
      <4> QED BY <2>12, <4>1, <4>2 DEF ResolveEffect
    <3>6. PhaseOK'
      BY <2>12, <3>4, <3>5 DEF ResolveEffect, PhaseOK
    <3> QED BY <2>12, <3>5, <3>6 DEF ResolveEffect
  <2>13. ASSUME NEW m \in Machine, NEW k \in Key, ResolveRefused(m, k) PROVE TypeOK'
    BY <2>13, EndRunType DEF ResolveRefused, StoreOK, DiskOK, storeVars, stateVars
  <2>14. ASSUME NEW m \in Machine, NEW k \in Key, ResolveSave(m, k) PROVE TypeOK'
    <3>1. PhaseOK' /\ StoreOK' /\ (spent \in Spent)'
      BY <2>14, EndRunType DEF ResolveSave, StoreOK, storeVars
    <3>2. DiskOK'
      BY <2>14 DEF ResolveSave, DiskOK, PhaseOK
    <3> QED BY <3>1, <3>2
  <2>15. ASSUME NEW m \in Machine, Abort(m) PROVE TypeOK'
    BY <2>15, EndRunType, SpendType DEF Abort, StoreOK, DiskOK, storeVars, stateVars
  <2>16. ASSUME NEW m \in Machine, Crash(m) PROVE TypeOK'
    BY <2>16, EndRunType, SpendType DEF Crash, StoreOK, DiskOK, storeVars, stateVars
  <2>17. ASSUME NEW m \in Machine, NEW k \in Key, FetchUnreadable(m, k) PROVE TypeOK'
    BY <2>17, SpendType
    DEF FetchUnreadable, PhaseOK, StoreOK, DiskOK, storeVars, stateVars
  <2>18. ASSUME NEW m \in Machine, NEW k \in Key, ApplyLocalFails(m, k) PROVE TypeOK'
    <3>1. PhaseOK'
      BY <2>18, DoneType DEF ApplyLocalFails, PhaseOK
    <3>2. DiskOK' /\ (spent \in Spent)'
      BY <2>18, FailToWriteType DEF ApplyLocalFails, DiskOK, stateVars
    <3> QED BY <2>18, <3>1, <3>2 DEF ApplyLocalFails, StoreOK, storeVars
  <2>30. ASSUME NEW m \in Machine, NEW k \in Key, SaveConflictFails(m, k) PROVE TypeOK'
    <3>1. PhaseOK'
      BY <2>30, DoneType DEF SaveConflictFails, PhaseOK
    <3>2. DiskOK' /\ (spent \in Spent)'
      BY <2>30 DEF SaveConflictFails, DiskOK, stateVars
    <3> QED BY <2>30, <3>1, <3>2 DEF SaveConflictFails, StoreOK, storeVars
  <2>19. ASSUME NEW m \in Machine, NEW k \in Key, UploadFails(m, k) PROVE TypeOK'
    <3>1. PhaseOK'
      BY <2>19, DoneType DEF UploadFails, PhaseOK
    <3>2. StoreOK' /\ (spent \in Spent)'
      BY <2>19, PutUnansweredType DEF UploadFails, StoreOK
    <3> QED BY <2>19, <3>1, <3>2 DEF UploadFails, DiskOK, stateVars
  <2>20. ASSUME NEW m \in Machine, NEW k \in Key, ResolveFails(m, k) PROVE TypeOK'
    <3>1. PhaseOK'
      BY <2>20, EndRunType DEF ResolveFails
    <3>2. StoreOK' /\ DiskOK' /\ (spent \in Spent)'
      BY <2>20, PutUnansweredType, PutRepeatedType, FailToWriteType
      DEF ResolveFails, StoreOK, DiskOK, storeVars, stateVars
    <3> QED BY <3>1, <3>2
  <2>21. ASSUME NEW m \in Machine, NEW mode \in Modes, NEW adopt \in BOOLEAN,
                Begin(m, mode, adopt)
         PROVE  TypeOK'
    <3>1. [mode |-> mode, adopt |-> adopt, round |-> 1, retry |-> FALSE] \in Run
      BY EngineAssumption DEF Run
    <3>2. PhaseOK'
      BY <2>21, <3>1 DEF Begin, PhaseOK, DiskOK
    <3>3. DiskOK'
      BY <2>21 DEF Begin, DiskOK, stateVars
    <3> QED BY <2>21, <3>2, <3>3 DEF Begin, StoreOK, storeVars
  <2>22. ASSUME NEW m \in Machine, NEW k \in Key, UserEdit(m, k) PROVE TypeOK'
    <3>1. PICK e \in Edits \cup {Absent} :
            /\ disk' = [disk EXCEPT ![m][k] = e]
            /\ unasked' = [unasked EXCEPT ![m] =
                  IF e # Absent /\ ~settled[m] /\ saved[m][k] = NoState
                  THEN @ \cup {k} ELSE @ \ {k}]
      BY <2>22 DEF UserEdit
    <3>2. e \in EntryOrAbsent
      BY EngineAssumption DEF EntryOrAbsent
    <3>3. DiskOK'
      BY <2>22, <3>1, <3>2 DEF UserEdit, DiskOK, stateVars
    <3>4. PhaseOK' /\ StoreOK' /\ (spent \in Spent)'
      BY <2>22, SpendType DEF UserEdit, PhaseOK, StoreOK, runVars, storeVars
    <3> QED BY <3>3, <3>4
  <2>23. ASSUME NEW m \in Machine, NEW k \in Key, ResolveNothing(m, k) PROVE TypeOK'
    BY <2>23 DEF ResolveNothing, PhaseOK, StoreOK, DiskOK, runVars, storeVars, stateVars
  <2>24. ASSUME NEW m \in Machine, NEW k \in Key, NEW keepLocal \in BOOLEAN,
                Resolve(m, k, keepLocal)
         PROVE  TypeOK'
    <3> DEFINE kind == IF keepLocal
                       THEN IF disk[m][k] = Absent THEN "upload-delete" ELSE "upload"
                       ELSE IF store[k].entry = Absent THEN "remove" ELSE "download"
               match == IF keepLocal THEN store[k].etag ELSE 0
    <3>1. kind \in LocalKinds \cup UploadKinds
      BY DEF LocalKinds, UploadKinds
    <3>2. match \in Nat
      BY DEF StoreOK, Object
    <3>3. todo' = [todo EXCEPT ![m][k] = [kind |-> kind, local |-> disk[m][k],
                      remote |-> store[k], ifMatch |-> match, keep |-> FALSE]]
      BY <2>24 DEF Resolve
    <3> HIDE DEF kind, match
    <3>4. [kind |-> kind, local |-> disk[m][k], remote |-> store[k],
           ifMatch |-> match, keep |-> FALSE] \in Action
      BY <3>1, <3>2 DEF DiskOK, StoreOK, Action
    <3>5. todo' \in [Machine -> [Key -> Action]]
      BY <3>3, <3>4 DEF PhaseOK
    <3>6. PhaseOK'
      BY <2>24, <3>5 DEF Resolve, PhaseOK, DiskOK
    <3>7. StoreOK' /\ DiskOK' /\ (spent \in Spent)'
      BY <2>24, TakeNoteType, SpendType DEF Resolve, StoreOK, DiskOK, stateVars
    <3> QED BY <3>6, <3>7
  <2>25. ASSUME NEW k \in Key, ObjectLost(k) PROVE TypeOK'
    <3>1. StoreOK' /\ (spent \in Spent)'
      BY <2>25, NoObjectType, SpendType DEF ObjectLost, StoreOK
    <3> QED BY <2>25, <3>1 DEF ObjectLost, PhaseOK, DiskOK, runVars, stateVars
  <2>26. ASSUME NEW p \in late, LatePut(p) PROVE TypeOK'
    <3>1. p.key \in Key /\ p.writer \in Machine /\ p.entry \in EntryOrAbsent
      BY DEF StoreOK, Put
    <3>2. StoreOK'
      BY <2>26, <3>1, StorePutType DEF LatePut, StoreOK
    <3> QED BY <2>26, <3>2 DEF LatePut, PhaseOK, DiskOK, runVars, stateVars
  <2>27. ASSUME NEW m \in Machine, NEW k \in Key, UploadRepeated(m, k) PROVE TypeOK'
    <3>1. run' = [run EXCEPT ![m].retry = TRUE] /\ run' \in [Machine -> Run]
      BY <2>27 DEF UploadRepeated, PhaseOK, Run
    <3>2. PhaseOK'
      BY <2>27, <3>1, DoneType DEF UploadRepeated, PhaseOK
    <3>3. StoreOK' /\ (spent \in Spent)'
      BY <2>27, PutRepeatedType DEF UploadRepeated, StoreOK
    <3> QED BY <2>27, <3>2, <3>3 DEF UploadRepeated, DiskOK, stateVars
  <2>28. ASSUME NEW m \in Machine, NEW k \in Key, ScanMisses(m, k) PROVE TypeOK'
    <3>1. PhaseOK'
      BY <2>28 DEF ScanMisses, PhaseOK, StoreOK, DiskOK, Object, EntryOrAbsent
    <3> QED
      BY <2>28, <3>1, SpendType DEF ScanMisses, StoreOK, DiskOK, storeVars, stateVars
  <2>29. CASE UNCHANGED vars
    BY <2>29
    DEF vars, storeVars, stateVars, runVars, PhaseOK, StoreOK, DiskOK
  <2> QED
    BY <2>1, <2>2, <2>3, <2>4, <2>5, <2>6, <2>7, <2>8, <2>9, <2>10, <2>11, <2>12, <2>13,
       <2>14, <2>15, <2>16, <2>17, <2>18, <2>19, <2>20, <2>21, <2>22, <2>23, <2>24,
       <2>25, <2>26, <2>27, <2>28, <2>29, <2>30
    DEF Next, RunStep, FailStep, UserStep
<1> QED BY <1>1, <1>2, PTL DEF Spec

-----------------------------------------------------------------------------
(* The engine implements SharedEntries, and the state of a machine agrees   *)
(* with the store: both follow from KnowledgeIsSound, which is inductive.   *)

-----------------------------------------------------------------------------
(* What the store does to what is known about an object *)

\* How one object o may change in a step: not at all (and more machines take note
\* of it), away, or into a version newer than everything before.
Moves(o, o2, last, last2, w, w2) ==
    /\ o2 \in Object /\ last2 \in Nat /\ last <= last2
    /\ GoodObject(o2, last2)
    /\ (o2 = o /\ w \subseteq w2) \/ o2.etag = 0 \/ o2.etag > last

\* What a state says stays sound however its object changes.
LEMMA StateStaysGood ==
    ASSUME NEW m, NEW s \in EntryState, NEW o \in Object, NEW o2 \in Object,
           NEW last \in Nat, NEW last2 \in Nat, NEW w, NEW w2,
           GoodState(m, s, o, last, w), Moves(o, o2, last, last2, w, w2)
    PROVE  GoodState(m, s, o2, last2, w2)
<1>1. s.etag \in Nat /\ o2.etag \in Nat
  BY EntryStateFields DEF Object
<1> QED BY <1>1 DEF GoodState, Moves

\* What was read of an object stays sound however the object changes.
LEMMA ReadStaysGood ==
    ASSUME NEW r \in Object, NEW o \in Object, NEW o2 \in Object,
           NEW last \in Nat, NEW last2 \in Nat, NEW w, NEW w2,
           GoodRead(r, o, last), Moves(o, o2, last, last2, w, w2)
    PROVE  GoodRead(r, o2, last2)
<1>1. r.etag \in Nat /\ o2.etag \in Nat
  BY DEF Object
<1> QED BY <1>1 DEF GoodRead, Moves

\* The condition of an upload stays sound however its object changes.
LEMMA MatchStaysGood ==
    ASSUME NEW m, NEW i \in Nat, NEW o \in Object, NEW o2 \in Object,
           NEW last \in Nat, NEW last2 \in Nat, NEW w, NEW w2,
           GoodMatch(m, i, o, last, w), Moves(o, o2, last, last2, w, w2)
    PROVE  GoodMatch(m, i, o2, last2, w2)
<1>1. o2.etag \in Nat
  BY DEF Object
<1> QED BY <1>1 DEF GoodMatch, Moves

\* A plan stays sound however its object changes.
LEMMA PlanStaysGood ==
    ASSUME NEW m, NEW a \in Action, NEW o \in Object, NEW o2 \in Object,
           NEW last \in Nat, NEW last2 \in Nat, NEW w, NEW w2,
           GoodPlan(m, a, o, last, w), Moves(o, o2, last, last2, w, w2)
    PROVE  GoodPlan(m, a, o2, last2, w2)
<1>1. a.remote \in Object /\ a.ifMatch \in Nat
  BY DEF Action
<1>2. GoodRead(a.remote, o2, last2)
  BY <1>1, ReadStaysGood DEF GoodPlan
<1>3. a.kind \in UploadKinds => GoodMatch(m, a.ifMatch, o2, last2, w2)
  BY <1>1, MatchStaysGood DEF GoodPlan
<1> QED BY <1>2, <1>3 DEF GoodPlan

\* Nothing is known about an object that does not exist.
LEMMA NothingKnown ==
    ASSUME NEW m, NEW o \in Object, NEW last \in Nat, NEW w
    PROVE  /\ GoodState(m, NoState, o, last, w)
           /\ GoodRead(NoObject, o, last)
           /\ GoodPlan(m, NoAction, o, last, w)
BY DEF GoodState, NoState, GoodRead, NoObject, GoodPlan, NoAction, UploadKinds

-----------------------------------------------------------------------------
(* What a decision makes of what is known *)

\* Decisions made from sound states and sound reads are sound.
LEMMA DecideIsSound ==
    ASSUME NEW l \in EntryOrAbsent, NEW info, NEW s \in EntryState, NEW r \in Object,
           NEW firstSync, NEW adopt, NEW m,
           NEW o \in Object, NEW last \in Nat, NEW w,
           GoodState(m, s, o, last, w), GoodRead(r, o, last)
    PROVE  GoodPlan(m, decide(l, info, s, r, firstSync, adopt, m), o, last, w)
<1> DEFINE localSame == localUnchanged(l, s, m)
           remoteSame == remoteUnchanged(info, s)
           confirm == firstSync /\ ~adopt
           kind == IF localSame THEN OnlyRemoteChanged(l, info, s, r, m)
                   ELSE IF remoteSame THEN OnlyLocalChanged(l, s, confirm)
                   ELSE BothChanged(l, info, s, r, confirm, m)
           match == uploadCondition(kind, info, s, r)
           a == [kind |-> kind, local |-> l, remote |-> r, ifMatch |-> match,
                 keep |-> kind = "download" /\ ~localSame /\ s = NoState]
<1>1. CASE localSame /\ remoteSame
  BY <1>1, NothingKnown DEF decide
<1>2. CASE ~(localSame /\ remoteSame)
  <2>1. kind = "record" => SameEntry(l, r.entry, m)
    BY DEF OnlyRemoteChanged, OnlyLocalChanged, BothChanged, sameContent
  <2>2. kind \in UploadKinds /\ info # 0 /\ ~remoteSame => r.entry = Absent
    BY DEF UploadKinds, OnlyRemoteChanged, BothChanged
  <2>3. kind \in UploadKinds => GoodMatch(m, match, o, last, w)
    <3> SUFFICES ASSUME kind \in UploadKinds PROVE GoodMatch(m, match, o, last, w)
      OBVIOUS
    <3> HIDE DEF kind
    <3>1. CASE info = 0
      BY <3>1 DEF uploadCondition, GoodMatch, UploadKinds
    <3>2. CASE info # 0 /\ remoteSame
      BY <3>2 DEF uploadCondition, GoodMatch, GoodState, UploadKinds
    <3>3. CASE info # 0 /\ ~remoteSame
      BY <3>3, <2>2 DEF uploadCondition, GoodMatch, GoodRead, UploadKinds
    <3> QED BY <3>1, <3>2, <3>3
  <2>4. decide(l, info, s, r, firstSync, adopt, m) = a
    BY <1>2 DEF decide
  <2> HIDE DEF kind, match
  <2>5. GoodPlan(m, a, o, last, w)
    BY <2>1, <2>3 DEF GoodPlan
  <2> QED BY <2>4, <2>5
<1> QED BY <1>1, <1>2

-----------------------------------------------------------------------------
(* Steps *)

\* What a step does to the store, and what it makes the machines know: what they
\* knew before, nothing, or something sound.
StoreMoves ==
    \A k \in Key : Moves(store[k], store'[k], lastETag, lastETag', aware[k], aware'[k])
LearnsState ==
    \A m \in Machine, k \in Key :
        /\ saved'[m][k] \in {saved[m][k], known[m][k]}
        /\ \/ known'[m][k] \in {known[m][k], saved[m][k], NoState}
           \/ GoodState(m, known'[m][k], store'[k], lastETag', aware'[k])
LearnsReads ==
    \A m \in Machine, k \in Key :
        \/ fetched'[m][k] \in {fetched[m][k], NoObject}
        \/ GoodRead(fetched'[m][k], store'[k], lastETag')
LearnsPlan ==
    \A m \in Machine, k \in Key :
        \/ todo'[m][k] \in {todo[m][k], NoAction}
        \/ GoodPlan(m, todo'[m][k], store'[k], lastETag', aware'[k])
LearnsLate ==
    \A p \in late' :
        \/ p \in late
        \/ GoodMatch(p.writer, p.ifMatch, store'[p.key], lastETag', aware'[p.key])

\* The invariant follows when the store moves on and every kind of knowledge is either
\* kept or learnt soundly.
LEMMA KnowledgeFollows ==
    ASSUME TypeOK, TypeOK', KnowledgeIsSound,
           StoreMoves, LearnsState, LearnsReads, LearnsPlan, LearnsLate
    PROVE  KnowledgeIsSound'
<1> USE TypeOKParts, TypeOKPartsNext
<1>1. \A k \in Key : GoodObject(store'[k], lastETag')
  BY DEF StoreMoves, Moves
<1>2. ASSUME NEW m \in Machine, NEW k \in Key
      PROVE  /\ GoodState(m, saved'[m][k], store'[k], lastETag', aware'[k])
             /\ GoodState(m, known'[m][k], store'[k], lastETag', aware'[k])
             /\ GoodRead(fetched'[m][k], store'[k], lastETag')
             /\ GoodPlan(m, todo'[m][k], store'[k], lastETag', aware'[k])
  <2>1. /\ store[k] \in Object /\ store'[k] \in Object
        /\ lastETag \in Nat /\ lastETag' \in Nat
        /\ saved[m][k] \in EntryState /\ known[m][k] \in EntryState
        /\ fetched[m][k] \in Object /\ todo[m][k] \in Action
    BY DEF StoreOK, DiskOK, PhaseOK
  <2>2. Moves(store[k], store'[k], lastETag, lastETag', aware[k], aware'[k])
    BY DEF StoreMoves
  <2>3. /\ GoodState(m, saved[m][k], store'[k], lastETag', aware'[k])
        /\ GoodState(m, known[m][k], store'[k], lastETag', aware'[k])
        /\ GoodState(m, NoState, store'[k], lastETag', aware'[k])
    BY <2>1, <2>2, StateStaysGood, NothingKnown DEF KnowledgeIsSound
  <2>4. /\ GoodRead(fetched[m][k], store'[k], lastETag')
        /\ GoodRead(NoObject, store'[k], lastETag')
    BY <2>1, <2>2, ReadStaysGood, NothingKnown DEF KnowledgeIsSound
  <2>5. /\ GoodPlan(m, todo[m][k], store'[k], lastETag', aware'[k])
        /\ GoodPlan(m, NoAction, store'[k], lastETag', aware'[k])
    BY <2>1, <2>2, PlanStaysGood, NothingKnown DEF KnowledgeIsSound
  <2> QED BY <2>3, <2>4, <2>5 DEF LearnsState, LearnsReads, LearnsPlan
<1>3. ASSUME NEW p \in late'
      PROVE  GoodMatch(p.writer, p.ifMatch, store'[p.key], lastETag', aware'[p.key])
  <2>1. CASE p \in late
    <3>1. p.key \in Key /\ p.ifMatch \in Nat
      BY <2>1 DEF StoreOK, Put
    <3>2. /\ store[p.key] \in Object /\ store'[p.key] \in Object
          /\ lastETag \in Nat /\ lastETag' \in Nat
      BY <3>1 DEF StoreOK
    <3>3. Moves(store[p.key], store'[p.key], lastETag, lastETag', aware[p.key], aware'[p.key])
      BY <3>1 DEF StoreMoves
    <3>4. GoodMatch(p.writer, p.ifMatch, store[p.key], lastETag, aware[p.key])
      BY <2>1 DEF KnowledgeIsSound
    <3> QED BY <3>1, <3>2, <3>3, <3>4, MatchStaysGood
  <2>2. CASE p \notin late
    BY <2>2 DEF LearnsLate
  <2> QED BY <2>1, <2>2
<1> QED BY <1>1, <1>2, <1>3 DEF KnowledgeIsSound

\* A step that at most adds to the machines that took note of an object.
LEMMA StoreUntouched ==
    ASSUME TypeOK, KnowledgeIsSound, UNCHANGED <<store, lastETag>>,
           \A k \in Key : aware[k] \subseteq aware'[k]
    PROVE  StoreMoves
BY TypeOKParts DEF StoreMoves, Moves, StoreOK, KnowledgeIsSound

\* Taking note only adds machines, and adds m when it read the current version.
LEMMA TakeNoteAdds ==
    ASSUME TypeOK, NEW m \in Machine, NEW k \in Key, NEW r, TakeNote(m, k, r)
    PROVE  /\ \A j \in Key : aware[j] \subseteq aware'[j]
           /\ r = store[k] /\ r # NoObject => m \in aware'[k]
BY TypeOKParts DEF TakeNote, StoreOK

\* A Put that is taken moves its object to a newer version and no other one.
LEMMA StorePutMoves ==
    ASSUME TypeOK, KnowledgeIsSound, NEW m \in Machine, NEW k \in Key,
           NEW e \in EntryOrAbsent, StorePut(m, k, e)
    PROVE  /\ StoreMoves
           /\ store'[k] = [etag |-> lastETag + 1, entry |-> e, writer |-> m]
           /\ aware'[k] = {m}
<1> DEFINE new == [etag |-> lastETag + 1, entry |-> e, writer |-> m]
<1>1. lastETag \in Nat /\ store \in [Key -> Object] /\ aware \in [Key -> SUBSET Machine]
  BY TypeOKParts DEF StoreOK
<1>2. new \in Object /\ new.etag = lastETag + 1
  BY <1>1 DEF Object
<1>3. /\ store' = [store EXCEPT ![k] = new]
      /\ lastETag' = lastETag + 1
      /\ aware' = [aware EXCEPT ![k] = {m}]
  BY DEF StorePut
<1> HIDE DEF new
<1>4. ASSUME NEW j \in Key
      PROVE  Moves(store[j], store'[j], lastETag, lastETag', aware[j], aware'[j])
  <2>1. CASE j = k
    BY <1>1, <1>2, <1>3, <2>1 DEF Moves, GoodObject
  <2>2. CASE j # k
    <3>1. GoodObject(store[j], lastETag) /\ store[j] \in Object /\ store[j].etag \in Nat
      BY <1>1 DEF KnowledgeIsSound, Object
    <3> QED BY <1>1, <1>3, <2>2, <3>1 DEF Moves, GoodObject
  <2> QED BY <2>1, <2>2
<1>5. store'[k] = new /\ aware'[k] = {m}
  BY <1>1, <1>3
<1> QED BY <1>4, <1>5 DEF StoreMoves, new

\* The end of a run leaves nothing that could be wrong.
LEMMA EndRunLearns ==
    ASSUME TypeOK, NEW m \in Machine, EndRun(m)
    PROVE  /\ \A n \in Machine, k \in Key : known'[n][k] \in {known[n][k], NoState}
           /\ LearnsReads
           /\ LearnsPlan
BY TypeOKParts DEF EndRun, PhaseOK, PerKey, LearnsReads, LearnsPlan

\* The end of a run that does not save changes no state unsoundly.
LEMMA EndRunKeepsState ==
    ASSUME TypeOK, NEW m \in Machine, EndRun(m), UNCHANGED saved
    PROVE  LearnsState
BY EndRunLearns DEF LearnsState

\* A finished action leaves a plan that is still sound.
LEMMA DoneLearns ==
    ASSUME TypeOK, NEW m \in Machine, NEW k \in Key, Done(m, k)
    PROVE  LearnsPlan
BY TypeOKParts DEF Done, PhaseOK, LearnsPlan

\* The state of one entry becomes s, and s is sound.
LEMMA RememberLearns ==
    ASSUME TypeOK, NEW m \in Machine, NEW k \in Key, NEW s, Remember(m, k, s),
           UNCHANGED saved, GoodState(m, s, store'[k], lastETag', aware'[k])
    PROVE  LearnsState
BY TypeOKParts DEF Remember, PhaseOK, LearnsState

\* An object that was read and is still the current one: its content is noted.
LEMMA NotedIsGood ==
    ASSUME TypeOK, UNCHANGED <<store, lastETag>>, NEW m \in Machine, NEW k \in Key,
           NEW r \in Object, NEW e, GoodRead(r, store[k], lastETag),
           SameEntry(e, r.entry, m), TakeNote(m, k, r)
    PROVE  GoodState(m, [etag |-> r.etag, entry |-> e], store'[k], lastETag', aware'[k])
<1>1. r.etag # 0 /\ r.etag = store[k].etag => r = store[k] /\ m \in aware'[k]
  BY TakeNoteAdds DEF GoodRead, NoObject
<1> QED BY <1>1 DEF GoodState, GoodRead

\* A download teaches the state a version that was read and nothing else.
LEMMA WriteEntryLearns ==
    ASSUME TypeOK, KnowledgeIsSound, UNCHANGED <<store, lastETag, saved>>,
           NEW m \in Machine, NEW k \in Key, WriteEntry(m, k)
    PROVE  StoreMoves /\ LearnsState
<1> DEFINE r == todo[m][k].remote
<1>1. r \in Object /\ GoodRead(r, store[k], lastETag)
  BY TypeOKParts DEF PhaseOK, Action, KnowledgeIsSound, GoodPlan
<1>2. TakeNote(m, k, r) /\ Remember(m, k, [etag |-> r.etag, entry |-> r.entry])
  BY DEF WriteEntry, applied
<1>3. SameEntry(r.entry, r.entry, m)
  BY DEF SameEntry
<1> HIDE DEF r
<1>4. GoodState(m, [etag |-> r.etag, entry |-> r.entry], store'[k], lastETag', aware'[k])
  BY <1>1, <1>2, <1>3, NotedIsGood
<1> QED BY <1>2, <1>4, TakeNoteAdds, StoreUntouched, RememberLearns

\* An upload teaches the state the version that it made.
LEMMA PutAnsweredLearns ==
    ASSUME TypeOK, KnowledgeIsSound, UNCHANGED saved,
           NEW m \in Machine, NEW k \in Key, PutAnswered(m, k)
    PROVE  StoreMoves /\ LearnsState
<1> DEFINE a == todo[m][k]
           e == uploaded(a, known[m][k], m)
           s == [etag |-> answered(lastETag + 1), entry |-> e]
<1>1. e \in EntryOrAbsent
  BY UploadedType, TypeOKParts DEF PhaseOK
<1>2. StorePut(m, k, e) /\ Remember(m, k, s)
  BY DEF PutAnswered
<1>3. lastETag \in Nat /\ lastETag' = lastETag + 1
  BY <1>2, TypeOKParts DEF StorePut, StoreOK
<1> HIDE DEF e
<1>4. /\ StoreMoves
      /\ store'[k] = [etag |-> lastETag + 1, entry |-> e, writer |-> m]
      /\ aware'[k] = {m}
  BY <1>1, <1>2, StorePutMoves
<1>5. GoodState(m, s, store'[k], lastETag', aware'[k])
  BY <1>3, <1>4 DEF GoodState, answered, SameEntry
<1> HIDE DEF s
<1> QED BY <1>2, <1>4, <1>5, RememberLearns

\* A Put on its way is conditioned like the action that sent it.
LEMMA PutUnansweredLearns ==
    ASSUME TypeOK, KnowledgeIsSound, UNCHANGED <<store, lastETag, aware>>,
           NEW m \in Machine, NEW k \in Key, todo[m][k].kind \in UploadKinds,
           PutUnanswered(m, k)
    PROVE  LearnsLate
<1> DEFINE e == uploaded(todo[m][k], known[m][k], m)
           i == todo[m][k].ifMatch
           p == [key |-> k, entry |-> e, writer |-> m, ifMatch |-> i]
<1>1. late' = late \cup {p}
  BY DEF PutUnanswered
<1>2. GoodMatch(m, i, store[k], lastETag, aware[k])
  BY DEF KnowledgeIsSound, GoodPlan
<1>3. p.key = k /\ p.writer = m /\ p.ifMatch = i
  OBVIOUS
<1> HIDE DEF p, i
<1> QED BY <1>1, <1>2, <1>3 DEF LearnsLate

\* An upload sent twice makes a version that its writer has noted, and teaches the
\* state nothing.
LEMMA PutRepeatedMoves ==
    ASSUME TypeOK, KnowledgeIsSound, NEW m \in Machine, NEW k \in Key, PutRepeated(m, k)
    PROVE  StoreMoves
<1>1. uploaded(todo[m][k], known[m][k], m) \in EntryOrAbsent
  BY UploadedType, TypeOKParts DEF PhaseOK
<1> QED BY <1>1, StorePutMoves DEF PutRepeated

-----------------------------------------------------------------------------
(* The theorems *)

\* What a machine knows about an object is sound in every state: everything kept
\* about it is about an older version or says what the current one says.
THEOREM KnowledgeSound == Spec => []KnowledgeIsSound
<1>1. Init => KnowledgeIsSound
  <2> SUFFICES ASSUME Init PROVE KnowledgeIsSound
    OBVIOUS
  <2>1. ASSUME NEW m \in Machine, NEW k \in Key
        PROVE  /\ store[k] = NoObject /\ fetched[m][k] = NoObject
               /\ saved[m][k] = NoState /\ known[m][k] = NoState
               /\ todo[m][k] = NoAction
    BY DEF Init, PerMachine, PerKey
  <2>2. lastETag \in Nat /\ late = {}
    BY DEF Init
  <2>3. \A k \in Key : GoodObject(store[k], lastETag)
    <3>1. GoodObject(NoObject, lastETag)
      BY <2>2 DEF GoodObject, NoObject
    <3> QED BY <3>1 DEF Init, PerKey
  <2>4. ASSUME NEW m \in Machine, NEW k \in Key
        PROVE  /\ GoodState(m, NoState, store[k], lastETag, aware[k])
               /\ GoodRead(NoObject, store[k], lastETag)
               /\ GoodPlan(m, NoAction, store[k], lastETag, aware[k])
    BY <2>1, <2>2, NothingKnown, NoObjectType
  <2> QED BY <2>1, <2>2, <2>3, <2>4 DEF KnowledgeIsSound
<1>2. TypeOK /\ TypeOK' /\ KnowledgeIsSound /\ [Next]_vars => KnowledgeIsSound'
  <2> SUFFICES ASSUME TypeOK, TypeOK', KnowledgeIsSound, [Next]_vars
               PROVE  KnowledgeIsSound'
    OBVIOUS
  <2> USE KnowledgeFollows
  <2>0. /\ UNCHANGED <<store, lastETag, aware>> => StoreMoves
        /\ UNCHANGED <<saved, known>> => LearnsState
        /\ UNCHANGED fetched => LearnsReads
        /\ UNCHANGED todo => LearnsPlan
        /\ UNCHANGED late => LearnsLate
    BY StoreUntouched DEF LearnsState, LearnsReads, LearnsPlan, LearnsLate
  <2>1. ASSUME NEW m \in Machine, ScanAndList(m) PROVE KnowledgeIsSound'
    BY <2>0, <2>1 DEF ScanAndList, storeVars, stateVars
  <2>2. ASSUME NEW m \in Machine, Plan(m) PROVE KnowledgeIsSound'
    <3>1. \A k \in Key : GoodPlan(m, planned(m, k), store[k], lastETag, aware[k])
      BY DecideIsSound, NothingKnown, TypeOKParts
      DEF planned, PhaseOK, StoreOK, KnowledgeIsSound
    <3>2. LearnsPlan
      BY <2>2, <3>1, TypeOKParts DEF Plan, LearnsPlan, PhaseOK, storeVars
    <3>3. LearnsReads
      BY <2>2, TypeOKParts DEF Plan, LearnsReads, PhaseOK, PerKey
    <3> QED BY <2>0, <2>2, <3>2, <3>3 DEF Plan, storeVars, stateVars
  <2>3. ASSUME NEW m \in Machine, FinishRound(m) PROVE KnowledgeIsSound'
    <3>1. StoreMoves /\ LearnsLate
      BY <2>0, <2>3 DEF FinishRound, storeVars
    <3>2. saved' = [saved EXCEPT ![m] = known[m]]
      BY <2>3 DEF FinishRound
    <3>3. LearnsReads /\ LearnsPlan
          /\ \A n \in Machine, k \in Key : known'[n][k] \in {known[n][k], NoState}
      <4>1. CASE EndRun(m)
        BY <4>1, EndRunLearns
      <4>2. CASE /\ todo' = [todo EXCEPT ![m] = PerKey(NoAction)]
                 /\ UNCHANGED <<known, fetched>>
        BY <4>2, TypeOKParts DEF LearnsReads, LearnsPlan, PhaseOK, PerKey
      <4> QED BY <2>3, <4>1, <4>2 DEF FinishRound
    <3>4. LearnsState
      BY <3>2, <3>3, TypeOKParts DEF LearnsState, DiskOK, PhaseOK
    <3> QED BY <3>1, <3>3, <3>4
  <2>4. ASSUME NEW m \in Machine, NEW k \in Key, Fetch(m, k) PROVE KnowledgeIsSound'
    <3>1. /\ GoodRead(store[k], store[k], lastETag)
          /\ fetched' = fetched \/ fetched' = [fetched EXCEPT ![m][k] = store[k]]
      BY <2>4, TypeOKParts DEF Fetch, GoodRead, KnowledgeIsSound, GoodObject
    <3>2. LearnsReads
      <4>1. CASE fetched' = fetched
        BY <4>1 DEF LearnsReads
      <4>2. CASE fetched' = [fetched EXCEPT ![m][k] = store[k]]
        <5>1. store'[k] = store[k] /\ lastETag' = lastETag
          BY <2>4 DEF Fetch, storeVars
        <5> QED BY <3>1, <4>2, <5>1, TypeOKParts DEF LearnsReads, PhaseOK
      <4> QED BY <3>1, <4>1, <4>2
    <3> QED BY <2>0, <2>4, <3>2 DEF Fetch, storeVars, stateVars
  <2>5. ASSUME NEW m \in Machine, NEW k \in Key, ApplyLocal(m, k) PROVE KnowledgeIsSound'
    BY <2>0, <2>5, WriteEntryLearns, DoneLearns DEF ApplyLocal, stateVars
  <2>6. ASSUME NEW m \in Machine, NEW k \in Key, SaveConflict(m, k) PROVE KnowledgeIsSound'
    BY <2>0, <2>6, DoneLearns DEF SaveConflict, storeVars, stateVars
  <2>7. ASSUME NEW m \in Machine, NEW k \in Key, Record(m, k) PROVE KnowledgeIsSound'
    <3> DEFINE a == todo[m][k]
    <3>1. /\ a.remote \in Object /\ GoodRead(a.remote, store[k], lastETag)
          /\ SameEntry(a.local, a.remote.entry, m)
      BY <2>7, TypeOKParts DEF Record, turn, PhaseOK, Action, KnowledgeIsSound, GoodPlan
    <3>2. TakeNote(m, k, a.remote) /\ UNCHANGED <<store, lastETag, late, saved, fetched>>
      BY <2>7 DEF Record, stateVars
    <3>3. Remember(m, k, [etag |-> a.remote.etag, entry |-> a.local]) /\ Done(m, k)
      BY <2>7 DEF Record, recorded
    <3> HIDE DEF a
    <3>4. StoreMoves /\ LearnsState
      BY <3>1, <3>2, <3>3, NotedIsGood, RememberLearns, TakeNoteAdds, StoreUntouched
    <3> QED BY <2>0, <3>2, <3>3, <3>4, DoneLearns
  <2>8. ASSUME NEW m \in Machine, NEW k \in Key, Forget(m, k) PROVE KnowledgeIsSound'
    <3>1. LearnsState
      BY <2>8, TypeOKParts DEF Forget, Remember, LearnsState, PhaseOK, stateVars
    <3> QED BY <2>0, <2>8, <3>1, DoneLearns DEF Forget, storeVars
  <2>9. ASSUME NEW m \in Machine, NEW k \in Key, Upload(m, k) PROVE KnowledgeIsSound'
    BY <2>0, <2>9, PutAnsweredLearns, DoneLearns DEF Upload, stateVars
  <2>10. ASSUME NEW m \in Machine, NEW k \in Key, UploadLosesRace(m, k)
         PROVE  KnowledgeIsSound'
    BY <2>0, <2>10, DoneLearns DEF UploadLosesRace, storeVars, stateVars
  <2>11. ASSUME NEW m \in Machine, NEW k \in Key, LinkBlocked(m, k) PROVE KnowledgeIsSound'
    BY <2>0, <2>11, DoneLearns DEF LinkBlocked, storeVars, stateVars
  <2>12. ASSUME NEW m \in Machine, NEW k \in Key, ResolveEffect(m, k) PROVE KnowledgeIsSound'
    <3>1. StoreMoves /\ LearnsState
      BY <2>12, PutAnsweredLearns, WriteEntryLearns DEF ResolveEffect, stateVars
    <3>2. LearnsPlan
      <4> DEFINE b == [todo[m][k] EXCEPT !.kind = "drop"]
      <4>1. /\ b.remote = todo[m][k].remote /\ b.kind = "drop"
            /\ b.remote \in Object
            /\ todo' = [todo EXCEPT ![m][k] = b]
        BY <2>12, TypeOKParts DEF ResolveEffect, PhaseOK, Action
      <4> HIDE DEF b
      <4>2. GoodRead(b.remote, store'[k], lastETag')
        BY <3>1, <4>1, ReadStaysGood, TypeOKParts, TypeOKPartsNext
        DEF StoreMoves, KnowledgeIsSound, GoodPlan, StoreOK
      <4>3. GoodPlan(m, b, store'[k], lastETag', aware'[k])
        BY <4>1, <4>2 DEF GoodPlan, UploadKinds
      <4> QED BY <4>1, <4>3, TypeOKParts DEF LearnsPlan, PhaseOK
    <3> QED BY <2>0, <2>12, <3>1, <3>2 DEF ResolveEffect
  <2>13. ASSUME NEW m \in Machine, NEW k \in Key, ResolveRefused(m, k)
         PROVE  KnowledgeIsSound'
    BY <2>0, <2>13, EndRunKeepsState, EndRunLearns DEF ResolveRefused, storeVars, stateVars
  <2>14. ASSUME NEW m \in Machine, NEW k \in Key, ResolveSave(m, k) PROVE KnowledgeIsSound'
    <3>1. LearnsState
      BY <2>14, EndRunLearns, TypeOKParts DEF ResolveSave, LearnsState, DiskOK
    <3> QED BY <2>0, <2>14, <3>1, EndRunLearns DEF ResolveSave, storeVars
  <2>15. ASSUME NEW m \in Machine, Abort(m) PROVE KnowledgeIsSound'
    BY <2>0, <2>15, EndRunKeepsState, EndRunLearns DEF Abort, storeVars, stateVars
  <2>16. ASSUME NEW m \in Machine, Crash(m) PROVE KnowledgeIsSound'
    BY <2>0, <2>16, EndRunKeepsState, EndRunLearns DEF Crash, storeVars, stateVars
  <2>17. ASSUME NEW m \in Machine, NEW k \in Key, FetchUnreadable(m, k)
         PROVE  KnowledgeIsSound'
    BY <2>0, <2>17 DEF FetchUnreadable, storeVars, stateVars
  <2>18. ASSUME NEW m \in Machine, NEW k \in Key, ApplyLocalFails(m, k)
         PROVE  KnowledgeIsSound'
    BY <2>0, <2>18, DoneLearns DEF ApplyLocalFails, storeVars, stateVars
  <2>30. ASSUME NEW m \in Machine, NEW k \in Key, SaveConflictFails(m, k)
         PROVE  KnowledgeIsSound'
    BY <2>0, <2>30, DoneLearns DEF SaveConflictFails, storeVars, stateVars
  <2>19. ASSUME NEW m \in Machine, NEW k \in Key, UploadFails(m, k) PROVE KnowledgeIsSound'
    <3>1. LearnsLate
      BY <2>19, PutUnansweredLearns DEF UploadFails, turn
    <3> QED BY <2>0, <2>19, <3>1, DoneLearns DEF UploadFails, stateVars
  <2>20. ASSUME NEW m \in Machine, NEW k \in Key, ResolveFails(m, k) PROVE KnowledgeIsSound'
    <3>1. CASE UNCHANGED <<store, lastETag, aware>>
      <4>1. LearnsLate
        BY <2>0, <2>20, <3>1, PutUnansweredLearns DEF ResolveFails, storeVars, LearnsLate
      <4> QED
        BY <2>0, <2>20, <3>1, <4>1, EndRunKeepsState, EndRunLearns
        DEF ResolveFails, stateVars
    <3>2. CASE PutRepeated(m, k) /\ UNCHANGED late
      BY <2>0, <2>20, <3>2, PutRepeatedMoves, EndRunKeepsState, EndRunLearns
      DEF ResolveFails, stateVars
    <3> QED BY <2>20, <3>1, <3>2 DEF ResolveFails, storeVars
  <2>21. ASSUME NEW m \in Machine, NEW mode \in Modes, NEW adopt \in BOOLEAN,
                Begin(m, mode, adopt)
         PROVE  KnowledgeIsSound'
    <3>1. LearnsState
      BY <2>21, TypeOKParts DEF Begin, LearnsState, PhaseOK, stateVars
    <3> QED BY <2>0, <2>21, <3>1 DEF Begin, storeVars
  <2>22. ASSUME NEW m \in Machine, NEW k \in Key, UserEdit(m, k) PROVE KnowledgeIsSound'
    BY <2>0, <2>22 DEF UserEdit, storeVars, stateVars, runVars
  <2>23. ASSUME NEW m \in Machine, NEW k \in Key, ResolveNothing(m, k)
         PROVE  KnowledgeIsSound'
    BY <2>0, <2>23 DEF ResolveNothing, storeVars, stateVars, runVars
  <2>24. ASSUME NEW m \in Machine, NEW k \in Key, NEW keepLocal \in BOOLEAN,
                Resolve(m, k, keepLocal)
         PROVE  KnowledgeIsSound'
    <3>1. LearnsState
      BY <2>24, TypeOKParts DEF Resolve, LearnsState, PhaseOK, stateVars
    <3>2. StoreMoves
      BY <2>24, TakeNoteAdds, StoreUntouched DEF Resolve
    <3>3. LearnsPlan
      <4> DEFINE i == IF keepLocal THEN store[k].etag ELSE 0
                 b == [kind |-> IF keepLocal
                                THEN IF disk[m][k] = Absent THEN "upload-delete" ELSE "upload"
                                ELSE IF store[k].entry = Absent THEN "remove" ELSE "download",
                       local |-> disk[m][k], remote |-> store[k], ifMatch |-> i,
                       keep |-> FALSE]
      <4>1. todo' = [todo EXCEPT ![m][k] = b] /\ UNCHANGED <<store, lastETag>>
        BY <2>24 DEF Resolve
      <4>2. GoodRead(store[k], store[k], lastETag) /\ store[k].etag <= lastETag
        BY DEF GoodRead, KnowledgeIsSound, GoodObject
      <4>3. keepLocal => m \in aware'[k]
        BY <2>24, TakeNoteAdds DEF Resolve, noConflict
      <4>4. keepLocal => GoodMatch(m, i, store[k], lastETag, aware'[k])
        BY <4>2, <4>3 DEF GoodMatch
      <4>5. GoodPlan(m, b, store[k], lastETag, aware'[k])
        BY <4>2, <4>4 DEF GoodPlan, UploadKinds
      <4> HIDE DEF b
      <4> QED BY <4>1, <4>5, TypeOKParts DEF LearnsPlan, PhaseOK
    <3> QED BY <2>0, <2>24, <3>1, <3>2, <3>3 DEF Resolve
  <2>25. ASSUME NEW k \in Key, ObjectLost(k) PROVE KnowledgeIsSound'
    <3>1. StoreMoves
      BY <2>25, NoObjectType, TypeOKParts
      DEF ObjectLost, StoreMoves, Moves, StoreOK, KnowledgeIsSound, GoodObject, NoObject
    <3> QED BY <2>0, <2>25, <3>1 DEF ObjectLost, stateVars, runVars
  <2>26. ASSUME NEW p \in late, LatePut(p) PROVE KnowledgeIsSound'
    <3>1. p.key \in Key /\ p.writer \in Machine /\ p.entry \in EntryOrAbsent
      BY TypeOKParts DEF StoreOK, Put
    <3>2. StoreMoves
      BY <2>0, <2>26, <3>1, StorePutMoves DEF LatePut
    <3>3. LearnsLate
      BY <2>26 DEF LatePut, LearnsLate
    <3> QED BY <2>0, <2>26, <3>2, <3>3 DEF LatePut, stateVars, runVars
  <2>27. ASSUME NEW m \in Machine, NEW k \in Key, UploadRepeated(m, k)
         PROVE  KnowledgeIsSound'
    BY <2>0, <2>27, PutRepeatedMoves, DoneLearns DEF UploadRepeated, stateVars
  <2>28. ASSUME NEW m \in Machine, NEW k \in Key, ScanMisses(m, k)
         PROVE  KnowledgeIsSound'
    BY <2>0, <2>28 DEF ScanMisses, storeVars, stateVars
  <2>29. CASE UNCHANGED vars
    BY <2>0, <2>29 DEF vars, storeVars, stateVars, runVars
  <2> QED
    BY <2>1, <2>2, <2>3, <2>4, <2>5, <2>6, <2>7, <2>8, <2>9, <2>10, <2>11, <2>12, <2>13,
       <2>14, <2>15, <2>16, <2>17, <2>18, <2>19, <2>20, <2>21, <2>22, <2>23, <2>24,
       <2>25, <2>26, <2>27, <2>28, <2>29, <2>30
    DEF Next, RunStep, FailStep, UserStep
<1> QED BY <1>1, <1>2, TypeCorrect, PTL DEF Spec

\* The state of a machine never claims an agreement with the store that is not
\* there (state.json, and what a run is about to save).
THEOREM StateAgrees == Spec => []StateMatchesStore
<1>1. KnowledgeIsSound => StateMatchesStore
  BY DEF KnowledgeIsSound, GoodState, StateMatchesStore, Matches
<1> QED BY <1>1, KnowledgeSound, PTL

-----------------------------------------------------------------------------
(* The refinement *)

\* The instance of SharedEntries speaks of the same objects.
LEMMA SameObjects == Shared!Object = Object /\ Shared!NoObject = NoObject /\ Shared!Absent = Absent
BY DEF Shared!Object, Shared!EntryOrAbsent, Shared!Entry, Shared!Absent, Shared!NoObject,
       Object, EntryOrAbsent, Entry, Absent, NoObject

\* A Put that the store takes replaces nothing its writer has not taken note of.
LEMMA PutPublishes ==
    ASSUME TypeOK, TypeOK', KnowledgeIsSound, NEW m \in Machine, NEW k \in Key,
           NEW e \in EntryOrAbsent, NEW i \in Nat,
           accepts(k, i), GoodMatch(m, i, store[k], lastETag, aware[k]), StorePut(m, k, e)
    PROVE  Shared!Publish(m, k)
<1> DEFINE new == [etag |-> lastETag + 1, entry |-> e, writer |-> m]
<1>1. /\ store \in [Key -> Object] /\ store' \in [Key -> Object]
      /\ lastETag \in Nat /\ \A j \in Key : store[j].etag \in Nat
  BY TypeOKParts, TypeOKPartsNext DEF StoreOK, Object
<1>2. store' = [store EXCEPT ![k] = new] /\ aware' = [aware EXCEPT ![k] = {m}]
  BY DEF StorePut
<1>3. new.etag = lastETag + 1 /\ new.writer = m
  OBVIOUS
<1> HIDE DEF new
<1>4. store'[k] = new /\ store'[k] \in Object
  BY <1>1, <1>2
<1>5. store[k] # NoObject => store[k].entry = Absent \/ m \in aware[k]
  BY DEF accepts, GoodMatch, KnowledgeIsSound, GoodObject
<1>6. \A j \in Key : store'[k].etag > store[j].etag
  BY <1>1, <1>3, <1>4 DEF KnowledgeIsSound, GoodObject
<1> QED BY <1>2, <1>3, <1>4, <1>5, <1>6, SameObjects DEF Shared!Publish

\* Taking note is the abstract step Take, or no step.
LEMMA NoteTakes ==
    ASSUME TypeOK, NEW m \in Machine, NEW k \in Key, NEW r, TakeNote(m, k, r),
           UNCHANGED store
    PROVE  Shared!Take(m, k) \/ UNCHANGED <<store, aware>>
BY SameObjects DEF TakeNote, Shared!Take

\* An upload that is answered is the abstract step Publish.
LEMMA PutAnsweredPublishes ==
    ASSUME TypeOK, TypeOK', KnowledgeIsSound, NEW m \in Machine, NEW k \in Key,
           todo[m][k].kind \in UploadKinds, PutAnswered(m, k)
    PROVE  Shared!Publish(m, k)
<1> DEFINE e == uploaded(todo[m][k], known[m][k], m)
           i == todo[m][k].ifMatch
<1>1. e \in EntryOrAbsent /\ i \in Nat
  BY UploadedType, TypeOKParts DEF PhaseOK, Action
<1>2. accepts(k, i) /\ StorePut(m, k, e)
  BY DEF PutAnswered
<1>3. GoodMatch(m, i, store[k], lastETag, aware[k])
  BY DEF KnowledgeIsSound, GoodPlan
<1> QED BY <1>1, <1>2, <1>3, PutPublishes

\* The engine implements SharedEntries: no machine ever replaces a version in the
\* store that it has not taken note of, whatever fails, arrives late, is killed or
\* runs at the same time.
THEOREM EngineSharesEntries == Spec => SharedEntriesSpec
<1>1. Init => Shared!AbsInit
  BY SameObjects DEF Init, PerKey, Shared!AbsInit
<1>2. TypeOK /\ TypeOK' /\ KnowledgeIsSound /\ [Next]_vars
      => [Shared!AbsNext]_(Shared!absVars)
  <2> SUFFICES ASSUME TypeOK, TypeOK', KnowledgeIsSound, [Next]_vars
               PROVE  Shared!AbsNext \/ UNCHANGED <<store, aware>>
    BY DEF Shared!absVars
  <2>1. ASSUME NEW m \in Machine, RunStep(m)
        PROVE  Shared!AbsNext \/ UNCHANGED <<store, aware>>
    <3>1. ASSUME NEW k \in Key, ApplyLocal(m, k) \/ Record(m, k)
          PROVE  Shared!AbsNext \/ UNCHANGED <<store, aware>>
      BY <3>1, NoteTakes DEF ApplyLocal, WriteEntry, Record, Shared!AbsNext
    <3>2. ASSUME NEW k \in Key, Upload(m, k) PROVE Shared!AbsNext
      BY <3>2, PutAnsweredPublishes DEF Upload, turn, Shared!AbsNext
    <3>3. ASSUME NEW k \in Key, ResolveEffect(m, k)
          PROVE  Shared!AbsNext \/ UNCHANGED <<store, aware>>
      BY <3>3, PutAnsweredPublishes, NoteTakes DEF ResolveEffect, WriteEntry, Shared!AbsNext
    <3> QED
      BY <2>1, <3>1, <3>2, <3>3
      DEF RunStep, ScanAndList, Plan, FinishRound, Fetch, SaveConflict, Forget,
          UploadLosesRace, LinkBlocked, ResolveRefused, ResolveSave, storeVars
  <2>2. ASSUME NEW m \in Machine, FailStep(m)
        PROVE  Shared!AbsNext \/ UNCHANGED <<store, aware>>
    <3>1. ASSUME NEW k \in Key, todo[m][k].kind \in UploadKinds, PutRepeated(m, k)
          PROVE  Shared!AbsNext
      <4> DEFINE e == uploaded(todo[m][k], known[m][k], m)
                 i == todo[m][k].ifMatch
      <4>1. e \in EntryOrAbsent /\ i \in Nat
        BY UploadedType, TypeOKParts DEF PhaseOK, Action
      <4>2. accepts(k, i) /\ StorePut(m, k, e)
        BY <3>1 DEF PutRepeated
      <4>3. GoodMatch(m, i, store[k], lastETag, aware[k])
        BY <3>1 DEF KnowledgeIsSound, GoodPlan
      <4> QED BY <4>1, <4>2, <4>3, PutPublishes DEF Shared!AbsNext
    <3>2. ASSUME NEW k \in Key, UploadRepeated(m, k) PROVE Shared!AbsNext
      BY <3>1, <3>2 DEF UploadRepeated, turn
    <3>3. ASSUME NEW k \in Key, ResolveFails(m, k)
          PROVE  Shared!AbsNext \/ UNCHANGED <<store, aware>>
      BY <3>1, <3>3 DEF ResolveFails, storeVars
    <3> QED
      BY <2>2, <3>2, <3>3
      DEF FailStep, Abort, Crash, ScanMisses, FetchUnreadable, ApplyLocalFails,
          SaveConflictFails, UploadFails, storeVars
  <2>3. ASSUME NEW m \in Machine, UserStep(m)
        PROVE  Shared!AbsNext \/ UNCHANGED <<store, aware>>
    <3>1. ASSUME NEW k \in Key, NEW keepLocal \in BOOLEAN, Resolve(m, k, keepLocal)
          PROVE  Shared!AbsNext \/ UNCHANGED <<store, aware>>
      BY <3>1, NoteTakes DEF Resolve, Shared!AbsNext
    <3> QED BY <2>3, <3>1 DEF UserStep, Begin, UserEdit, ResolveNothing, storeVars
  <2>4. ASSUME NEW k \in Key, ObjectLost(k) PROVE Shared!AbsNext
    BY <2>4, SameObjects DEF ObjectLost, Shared!AbsNext, Shared!Lose
  <2>5. ASSUME NEW p \in late, LatePut(p)
        PROVE  Shared!AbsNext \/ UNCHANGED <<store, aware>>
    <3>1. /\ p.key \in Key /\ p.writer \in Machine /\ p.entry \in EntryOrAbsent
          /\ p.ifMatch \in Nat
      BY TypeOKParts DEF StoreOK, Put
    <3>2. GoodMatch(p.writer, p.ifMatch, store[p.key], lastETag, aware[p.key])
      BY DEF KnowledgeIsSound
    <3> QED BY <2>5, <3>1, <3>2, PutPublishes DEF LatePut, Shared!AbsNext
  <2>6. CASE UNCHANGED vars
    BY <2>6 DEF vars, storeVars
  <2> QED BY <2>1, <2>2, <2>3, <2>4, <2>5, <2>6 DEF Next
<1> QED BY <1>1, <1>2, TypeCorrect, KnowledgeSound, PTL
    DEF Spec, SharedEntriesSpec, Shared!AbsSpec
=============================================================================
