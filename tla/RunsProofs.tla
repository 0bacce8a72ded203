----------------------------- MODULE RunsProofs -----------------------------
(***************************************************************************)
(* What the runs of the engine do to the files: what they delete, replace  *)
(* and upload.  DeletesOnlyShared holds whatever happens; the other three  *)
(* of the runs nothing interferes with, each under the assumptions it      *)
(* needs.                                                                  *)
(***************************************************************************)
EXTENDS EngineProofs

-----------------------------------------------------------------------------
(* The store moves on *)

\* In every step of the engine every object stays, goes away, or becomes newer than
\* everything before.
LEMMA StepMovesStore ==
    ASSUME TypeOK, KnowledgeIsSound, [Next]_vars
    PROVE  StoreMoves
<1>0. UNCHANGED <<store, lastETag, aware>> => StoreMoves
  BY StoreUntouched
<1>1. ASSUME NEW m \in Machine, NEW k \in Key, ApplyLocal(m, k) \/ Record(m, k)
      PROVE  StoreMoves
  BY <1>1, TakeNoteAdds, StoreUntouched DEF ApplyLocal, WriteEntry, Record
<1>2. ASSUME NEW m \in Machine, NEW k \in Key, PutAnswered(m, k) PROVE StoreMoves
  <2>1. uploaded(todo[m][k], known[m][k], m) \in EntryOrAbsent
    BY UploadedType, TypeOKParts DEF PhaseOK
  <2> QED BY <1>2, <2>1, StorePutMoves DEF PutAnswered
<1>3. ASSUME NEW m \in Machine, NEW k \in Key, ResolveEffect(m, k) PROVE StoreMoves
  BY <1>2, <1>3, TakeNoteAdds, StoreUntouched DEF ResolveEffect, WriteEntry
<1>4. ASSUME NEW m \in Machine, NEW k \in Key, NEW keepLocal \in BOOLEAN,
             Resolve(m, k, keepLocal)
      PROVE  StoreMoves
  BY <1>4, TakeNoteAdds, StoreUntouched DEF Resolve
<1>5. ASSUME NEW k \in Key, ObjectLost(k) PROVE StoreMoves
  BY <1>5, NoObjectType, TypeOKParts
  DEF ObjectLost, StoreMoves, Moves, StoreOK, KnowledgeIsSound, GoodObject, NoObject
<1>6. ASSUME NEW p \in late, LatePut(p) PROVE StoreMoves
  <2>1. p.key \in Key /\ p.writer \in Machine /\ p.entry \in EntryOrAbsent
    BY TypeOKParts DEF StoreOK, Put
  <2> QED BY <1>0, <1>6, <2>1, StorePutMoves DEF LatePut
<1>7. ASSUME NEW m \in Machine, NEW k \in Key, UploadRepeated(m, k) \/ ResolveFails(m, k)
      PROVE  StoreMoves
  BY <1>0, <1>7, PutRepeatedMoves DEF UploadRepeated, ResolveFails, storeVars
<1>8. ASSUME NEW m \in Machine, RunStep(m) PROVE StoreMoves
  BY <1>0, <1>1, <1>2, <1>3, <1>8
  DEF RunStep, ScanAndList, Plan, FinishRound, Fetch, SaveConflict, Forget, Upload,
      UploadLosesRace, LinkBlocked, ResolveRefused, ResolveSave, storeVars
<1>9. ASSUME NEW m \in Machine, FailStep(m) PROVE StoreMoves
  BY <1>0, <1>7, <1>9
  DEF FailStep, Abort, Crash, ScanMisses, FetchUnreadable, ApplyLocalFails,
      SaveConflictFails, UploadFails, storeVars
<1>10. ASSUME NEW m \in Machine, UserStep(m) PROVE StoreMoves
  BY <1>0, <1>4, <1>10 DEF UserStep, Begin, UserEdit, ResolveNothing, storeVars
<1> QED BY <1>0, <1>5, <1>6, <1>8, <1>9, <1>10 DEF Next, vars, storeVars

-----------------------------------------------------------------------------
(* The shape of a run *)

\* Outside a run nothing is planned, a resolution is about one entry, and until
\* something is carried out the state of a run is the saved one.
RunShape(m) ==
    /\ pc[m] \in {"idle", "scan", "fetch"} => \A k \in Key : todo[m][k].kind = "none"
    /\ pc[m] = "resolve" => \A i, j \in Key :
          todo[m][i].kind # "none" /\ todo[m][j].kind # "none" => i = j
    /\ pc[m] = "idle" => \A k \in Key : known[m][k] = NoState
    /\ pc[m] \in {"scan", "fetch"} => known[m] = saved[m]
    /\ pc[m] = "resolve" => \A k \in Key :
          todo[m][k].kind \in LocalKinds \cup UploadKinds => known[m] = saved[m]
    /\ pc[m] \in {"idle", "resolve"} => run[m] = NoRun
RunsAreShaped == \A m \in Machine : RunShape(m)

\* What the shape of m's run speaks of.
RunOf(m) == <<pc[m], run[m], known[m], saved[m], todo[m]>>

\* A run that is not touched keeps its shape.
LEMMA ShapeKept ==
    ASSUME NEW n, RunShape(n), RunOf(n)' = RunOf(n)
    PROVE  RunShape(n)'
BY DEF RunShape, RunOf

\* A machine between runs has the shape.
LEMMA EndRunShape ==
    ASSUME TypeOK, NEW m \in Machine, EndRun(m)
    PROVE  RunShape(m)'
BY TypeOKParts DEF EndRun, PhaseOK, PerKey, RunShape, NoAction, LocalKinds, UploadKinds

\* A run that is carrying out its plan has the shape.
LEMMA ApplyShape ==
    ASSUME NEW m, pc'[m] = "apply"
    PROVE  RunShape(m)'
BY DEF RunShape

\* The action of a resolution whose effect is in place is an action.
LEMMA DropType ==
    ASSUME NEW a \in Action
    PROVE  LET b == [a EXCEPT !.kind = "drop"]
           IN  b \in Action /\ b.kind = "drop" /\ b.local = a.local /\ b.remote = a.remote
BY DEF Action

\* Every run has its shape in every state.
THEOREM RunsShaped == Spec => []RunsAreShaped
<1>1. Init => RunsAreShaped
  <2> SUFFICES ASSUME Init, NEW m \in Machine PROVE RunShape(m)
    BY DEF RunsAreShaped
  <2>1. /\ pc[m] = "idle" /\ run[m] = NoRun
        /\ \A k \in Key : todo[m][k] = NoAction /\ known[m][k] = NoState
    BY DEF Init, PerMachine, PerKey
  <2> QED BY <2>1 DEF RunShape, NoAction
<1>2. TypeOK /\ TypeOK' /\ RunsAreShaped /\ [Next]_vars => RunsAreShaped'
  <2> SUFFICES ASSUME TypeOK, TypeOK', RunsAreShaped, [Next]_vars, NEW n \in Machine
               PROVE  RunShape(n)'
    BY DEF RunsAreShaped
  <2>0. RunShape(n) /\ PhaseOK /\ DiskOK
    BY TypeOKParts DEF RunsAreShaped
  <2> USE ShapeKept
  <2>1. ASSUME NEW m \in Machine, EndRun(m), saved' = saved PROVE RunShape(n)'
    <3>1. CASE n = m
      BY <2>1, <3>1, EndRunShape
    <3>2. CASE n # m
      BY <2>0, <2>1, <3>2 DEF EndRun, RunOf, PhaseOK, DiskOK
    <3> QED BY <3>1, <3>2
  <2>2. ASSUME NEW m \in Machine, EndRun(m), saved' = [saved EXCEPT ![m] = known[m]]
        PROVE  RunShape(n)'
    <3>1. CASE n = m
      BY <2>2, <3>1, EndRunShape
    <3>2. CASE n # m
      BY <2>0, <2>2, <3>2 DEF EndRun, RunOf, PhaseOK, DiskOK
    <3> QED BY <3>1, <3>2
  <2>3. ASSUME NEW m \in Machine, NEW k \in Key, pc[m] = "apply", pc' = pc, saved' = saved,
               run' = run \/ run' = [run EXCEPT ![m].retry = TRUE],
               known' = known \/ (\E s : Remember(m, k, s)), Done(m, k)
        PROVE  RunShape(n)'
    <3>1. CASE n = m
      BY <2>3, <3>1, ApplyShape
    <3>2. CASE n # m
      BY <2>0, <2>3, <3>2 DEF Remember, Done, RunOf, PhaseOK
    <3> QED BY <3>1, <3>2
  <2>4. ASSUME NEW m \in Machine, NEW k \in Key,
               \/ ApplyLocal(m, k) \/ SaveConflict(m, k) \/ Record(m, k) \/ Forget(m, k)
               \/ Upload(m, k) \/ UploadLosesRace(m, k) \/ LinkBlocked(m, k)
               \/ ApplyLocalFails(m, k) \/ SaveConflictFails(m, k) \/ UploadFails(m, k)
               \/ UploadRepeated(m, k)
        PROVE  RunShape(n)'
    BY <2>3, <2>4
    DEF ApplyLocal, WriteEntry, SaveConflict, Record, Forget, Upload, PutAnswered,
        UploadLosesRace, LinkBlocked, ApplyLocalFails, SaveConflictFails, UploadFails,
        UploadRepeated, turn, stateVars
  <2>5. ASSUME NEW m \in Machine, FinishRound(m) PROVE RunShape(n)'
    <3>1. CASE run[m].retry /\ run[m].round < maxRounds
      <4>1. /\ pc' = [pc EXCEPT ![m] = "scan"] /\ known' = known
            /\ todo' = [todo EXCEPT ![m] = PerKey(NoAction)]
            /\ saved' = [saved EXCEPT ![m] = known[m]]
            /\ n # m => run'[n] = run[n]
        BY <2>0, <2>5, <3>1 DEF FinishRound, PhaseOK
      <4>2. CASE n = m
        BY <2>0, <4>1, <4>2
        DEF RunShape, PhaseOK, DiskOK, PerKey, NoAction, LocalKinds, UploadKinds
      <4>3. CASE n # m
        BY <2>0, <4>1, <4>3 DEF RunOf, PhaseOK, DiskOK
      <4> QED BY <4>2, <4>3
    <3>2. CASE ~(run[m].retry /\ run[m].round < maxRounds)
      BY <2>2, <2>5, <3>2 DEF FinishRound
    <3> QED BY <3>1, <3>2
  <2>6. ASSUME NEW m \in Machine, NEW mode \in Modes, NEW adopt \in BOOLEAN,
               Begin(m, mode, adopt)
        PROVE  RunShape(n)'
    BY <2>0, <2>6 DEF Begin, RunShape, RunOf, PhaseOK, DiskOK, stateVars
  <2>7. ASSUME NEW m \in Machine, NEW k \in Key, ScanAndList(m) \/ ScanMisses(m, k)
        PROVE  RunShape(n)'
    BY <2>0, <2>7 DEF ScanAndList, ScanMisses, RunShape, RunOf, PhaseOK, stateVars
  <2>8. ASSUME NEW m \in Machine, NEW k \in Key, Fetch(m, k) \/ FetchUnreadable(m, k)
        PROVE  RunShape(n)'
    BY <2>0, <2>8 DEF Fetch, FetchUnreadable, RunOf, stateVars
  <2>9. ASSUME NEW m \in Machine, Plan(m) PROVE RunShape(n)'
    <3>1. CASE n = m
      BY <2>0, <2>9, <3>1, ApplyShape DEF Plan, PhaseOK
    <3>2. CASE n # m
      BY <2>0, <2>9, <3>2 DEF Plan, RunOf, PhaseOK, stateVars
    <3> QED BY <3>1, <3>2
  <2>10. ASSUME NEW m \in Machine, NEW k \in Key, NEW keepLocal \in BOOLEAN,
                Resolve(m, k, keepLocal)
         PROVE  RunShape(n)'
    <3> PICK a : a.kind # "none" /\ todo' = [todo EXCEPT ![m][k] = a]
      <4> DEFINE kind == IF keepLocal
                         THEN IF disk[m][k] = Absent THEN "upload-delete" ELSE "upload"
                         ELSE IF store[k].entry = Absent THEN "remove" ELSE "download"
                 b == [kind |-> kind, local |-> disk[m][k], remote |-> store[k],
                       ifMatch |-> IF keepLocal THEN store[k].etag ELSE 0, keep |-> FALSE]
      <4>1. todo' = [todo EXCEPT ![m][k] = b]
        BY <2>10 DEF Resolve
      <4>2. b.kind # "none"
        OBVIOUS
      <4> HIDE DEF b
      <4> QED BY <4>1, <4>2
    <3>1. /\ pc[m] = "idle" /\ pc' = [pc EXCEPT ![m] = "resolve"] /\ run' = run
          /\ known' = [known EXCEPT ![m] = saved[m]] /\ saved' = saved
      BY <2>10 DEF Resolve, stateVars
    <3>2. CASE n = m
      <4>1. \A j \in Key : j # k => todo'[m][j].kind = "none"
        BY <2>0, <3>1, <3>2 DEF RunShape, PhaseOK
      <4> QED BY <2>0, <3>1, <3>2, <4>1 DEF RunShape, PhaseOK, DiskOK
    <3>3. CASE n # m
      BY <2>0, <3>1, <3>3 DEF RunOf, PhaseOK, DiskOK
    <3> QED BY <3>2, <3>3
  <2>11. ASSUME NEW m \in Machine, NEW k \in Key, ResolveEffect(m, k) PROVE RunShape(n)'
    <3> PICK s : known' = [known EXCEPT ![m][k] = s]
      BY <2>11 DEF ResolveEffect, PutAnswered, WriteEntry, Remember
    <3> PICK a \in Action : a.kind = "drop" /\ todo' = [todo EXCEPT ![m][k] = a]
      <4>1. todo[m][k] \in Action
        BY <2>0 DEF PhaseOK
      <4> QED BY <2>11, <4>1, DropType DEF ResolveEffect
    <3>1. /\ pc[m] = "resolve" /\ UNCHANGED <<pc, run, saved>>
          /\ todo[m][k].kind \in LocalKinds \cup UploadKinds
      BY <2>11 DEF ResolveEffect, stateVars
    <3>2. CASE n = m
      <4>1. todo[m][k].kind # "none"
        BY <3>1 DEF LocalKinds, UploadKinds
      <4>2. \A j \in Key : todo'[m][j].kind \in {"none", "drop"}
                           /\ (todo'[m][j].kind # "none" => j = k)
        BY <2>0, <3>1, <3>2, <4>1 DEF RunShape, PhaseOK
      <4> QED BY <2>0, <3>1, <3>2, <4>2 DEF RunShape, PhaseOK, LocalKinds, UploadKinds
    <3>3. CASE n # m
      BY <2>0, <3>1, <3>3 DEF RunOf, PhaseOK
    <3> QED BY <3>2, <3>3
  <2>12. ASSUME NEW m \in Machine, NEW k \in Key,
                Abort(m) \/ Crash(m) \/ ResolveRefused(m, k) \/ ResolveFails(m, k)
         PROVE  RunShape(n)'
    BY <2>1, <2>12 DEF Abort, Crash, ResolveRefused, ResolveFails, stateVars
  <2>13. ASSUME NEW m \in Machine, NEW k \in Key, ResolveSave(m, k) PROVE RunShape(n)'
    BY <2>2, <2>13 DEF ResolveSave
  <2>14. ASSUME NEW m \in Machine, NEW k \in Key, UserEdit(m, k) \/ ResolveNothing(m, k)
         PROVE  RunShape(n)'
    BY <2>0, <2>14 DEF UserEdit, ResolveNothing, runVars, stateVars, RunOf
  <2>15. ASSUME NEW k \in Key, ObjectLost(k) PROVE RunShape(n)'
    BY <2>0, <2>15 DEF ObjectLost, runVars, stateVars, RunOf
  <2>16. ASSUME NEW p \in late, LatePut(p) PROVE RunShape(n)'
    BY <2>0, <2>16 DEF LatePut, runVars, stateVars, RunOf
  <2>17. CASE UNCHANGED vars
    BY <2>0, <2>17 DEF vars, runVars, stateVars, RunOf
  <2>18. ASSUME NEW m \in Machine, RunStep(m) PROVE RunShape(n)'
    <3>1. CASE ScanAndList(m)
      BY <2>0, <3>1 DEF ScanAndList, RunShape, RunOf, PhaseOK, stateVars
    <3> QED BY <2>4, <2>5, <2>8, <2>9, <2>11, <2>12, <2>13, <2>18, <3>1 DEF RunStep
  <2>19. ASSUME NEW m \in Machine, FailStep(m) PROVE RunShape(n)'
    <3>1. CASE Abort(m) \/ Crash(m)
      BY <2>1, <3>1 DEF Abort, Crash, stateVars
    <3> QED BY <2>4, <2>7, <2>8, <2>12, <2>19, <3>1 DEF FailStep
  <2>20. ASSUME NEW m \in Machine, UserStep(m) PROVE RunShape(n)'
    BY <2>6, <2>10, <2>14, <2>20 DEF UserStep
  <2> QED BY <2>15, <2>16, <2>17, <2>18, <2>19, <2>20 DEF Next
<1> QED BY <1>1, <1>2, TypeCorrect, PTL DEF Spec

-----------------------------------------------------------------------------
(* Deletions *)

\* Only the missing entry looks missing, and it looks so to every machine.
LEMMA LooksAbsent ==
    ASSUME NEW e \in EntryOrAbsent, NEW m
    PROVE  /\ e.kind = "absent" => e = Absent
           /\ SameEntry(Absent, e, m) <=> e = Absent
           /\ SameEntry(e, Absent, m) <=> e = Absent
           /\ onDisk(e, m) = Absent => e = Absent
<1>1. e.kind = "absent" => e = Absent
  BY DEF EntryOrAbsent, Entry
<1>2. /\ SameEntry(Absent, e, m) => e.kind = "absent"
      /\ SameEntry(e, Absent, m) => e.kind = "absent"
      /\ SameEntry(Absent, Absent, m)
  BY DEF SameEntry, Absent
<1>3. onDisk(e, m) = Absent => e.kind = "absent"
  <2>1. Absent.kind = "absent"
    BY DEF Absent
  <2>2. onDisk(e, m).kind = e.kind
    <3>1. CASE e \in [kind : {"file"}, data : Data, exec : BOOLEAN]
      BY <3>1 DEF onDisk
    <3>2. CASE e \in [kind : {"link"}, data : Data, exec : {FALSE}]
      BY <3>2 DEF onDisk
    <3>3. CASE e = Absent
      BY <3>3 DEF onDisk, Absent
    <3> QED BY <3>1, <3>2, <3>3 DEF EntryOrAbsent, Entry
  <2> QED BY <2>1, <2>2
<1> QED BY <1>1, <1>2, <1>3

\* What a decision (decide in plan.go) needs to be made: a step on the disk and a
\* record need another version in the store than the state is about, an upload an
\* entry, a deletion for everyone an entry in the state and its very version in the
\* store.
LEMMA DecideNeeds ==
    ASSUME NEW l \in EntryOrAbsent, NEW info, NEW s \in EntryState, NEW r \in Object,
           NEW firstSync, NEW adopt, NEW m
    PROVE  LET a == decide(l, info, s, r, firstSync, adopt, m)
           IN  /\ a.kind \in LocalKinds \cup OtherKinds => s.etag = 0 \/ info # s.etag
               /\ a.kind = "upload" => a.local # Absent
               /\ a.kind = "upload-delete" =>
                     s.etag # 0 /\ info = s.etag /\ s.entry # Absent
<1> DEFINE confirm == firstSync /\ ~adopt
           kind == IF localUnchanged(l, s, m) THEN OnlyRemoteChanged(l, info, s, r, m)
                   ELSE IF remoteUnchanged(info, s) THEN OnlyLocalChanged(l, s, confirm)
                   ELSE BothChanged(l, info, s, r, confirm, m)
           a == [kind |-> kind, local |-> l, remote |-> r,
                 ifMatch |-> uploadCondition(kind, info, s, r),
                 keep |-> kind = "download" /\ ~localUnchanged(l, s, m) /\ s = NoState]
<1>1. CASE localUnchanged(l, s, m) /\ remoteUnchanged(info, s)
  BY <1>1 DEF decide, NoAction, LocalKinds, OtherKinds
<1>2. CASE ~(localUnchanged(l, s, m) /\ remoteUnchanged(info, s))
  <2>1. decide(l, info, s, r, firstSync, adopt, m) = a
    BY <1>2 DEF decide
  <2>2. a.kind = kind /\ a.local = l
    OBVIOUS
  <2>3. ~remoteUnchanged(info, s) => s.etag = 0 \/ info # s.etag
    BY DEF remoteUnchanged, NoState
  <2>4. s # NoState => s.entry \in EntryOrAbsent
    BY DEF EntryState
  <2>5. l = Absent => (localUnchanged(l, s, m) <=> s = NoState \/ s.entry = Absent)
    BY <2>4, LooksAbsent DEF localUnchanged
  <2>6. l = Absent => (sameContent(l, r, m) <=> r.entry = Absent)
    BY LooksAbsent DEF sameContent, Object
  <2>7. kind \in LocalKinds \cup OtherKinds => ~remoteUnchanged(info, s)
    BY <1>2 DEF OnlyLocalChanged, LocalKinds, OtherKinds
  <2>8. kind = "upload" => l # Absent
    <3> SUFFICES ASSUME l = Absent PROVE kind # "upload"
      OBVIOUS
    <3>1. CASE localUnchanged(l, s, m)
      <4>1. s # NoState => s.entry = Absent
        BY <2>5, <3>1
      <4>2. s = NoState => info # 0
        BY <1>2, <3>1 DEF remoteUnchanged
      <4> QED BY <3>1, <4>1, <4>2 DEF OnlyRemoteChanged
    <3>2. CASE ~localUnchanged(l, s, m)
      <4>1. s # NoState
        BY <2>5, <3>2
      <4> QED BY <3>2, <4>1, <2>6 DEF OnlyLocalChanged, BothChanged
    <3> QED BY <3>1, <3>2
  <2>9. kind = "upload-delete" => s.etag # 0 /\ info = s.etag /\ s.entry # Absent
    <3> SUFFICES ASSUME kind = "upload-delete"
                 PROVE  s.etag # 0 /\ info = s.etag /\ s.entry # Absent
      OBVIOUS
    <3>1. ~localUnchanged(l, s, m) /\ remoteUnchanged(info, s)
      BY DEF OnlyRemoteChanged, BothChanged
    <3>2. s # NoState /\ l = Absent
      BY <3>1 DEF OnlyLocalChanged
    <3> QED BY <2>5, <3>1, <3>2 DEF remoteUnchanged
  <2> HIDE DEF kind, a
  <2> QED BY <2>1, <2>2, <2>3, <2>7, <2>8, <2>9
<1> QED BY <1>1, <1>2

\* The store has left the version behind that this state is about.
Behind(s, o) == s.etag # 0 => s.etag # o.etag

\* Why a deletion is one of a shared entry: a state with an entry this machine and the
\* store no longer share is about a version the store has left behind.
DeleteFits(m, k) ==
    /\ agreed[m][k] = Absent /\ saved[m][k].entry # Absent => Behind(saved[m][k], store[k])
    /\ agreed[m][k] = Absent /\ known[m][k].entry # Absent => Behind(known[m][k], store[k])
    /\ pc[m] = "fetch" =>
          /\ listing[m][k] # known[m][k].etag => Behind(known[m][k], store[k])
          /\ listing[m][k] = known[m][k].etag /\ listing[m][k] # 0
                /\ known[m][k].entry # Absent => agreed[m][k] # Absent
    /\ todo[m][k].kind \in LocalKinds \cup OtherKinds => Behind(saved[m][k], store[k])
    /\ todo[m][k].kind = "upload" => todo[m][k].local # Absent
    /\ pc[m] = "apply" /\ todo[m][k].kind = "upload-delete" => agreed[m][k] # Absent
DeletesFit == \A m \in Machine, k \in Key : DeleteFits(m, k)

\* What DeleteFits speaks of besides the object.
DeleteVars(m, k) ==
    <<agreed[m][k], saved[m][k], known[m][k], pc[m], listing[m][k], todo[m][k]>>

\* What a step of the store does to the states: a version left behind stays behind.
StaysBehind(m, k) ==
    /\ Behind(saved[m][k], store[k]) => Behind(saved[m][k], store'[k])
    /\ Behind(known[m][k], store[k]) => Behind(known[m][k], store'[k])

\* A state the store has left behind is left behind for good.
LEMMA BehindForGood ==
    ASSUME TypeOK, TypeOK', KnowledgeIsSound, StoreMoves, NEW m \in Machine, NEW k \in Key
    PROVE  StaysBehind(m, k)
<1>1. /\ saved[m][k].etag \in Nat /\ known[m][k].etag \in Nat /\ lastETag \in Nat
      /\ store[k].etag \in Nat /\ store'[k].etag \in Nat
  BY EntryStateFields, TypeOKParts, TypeOKPartsNext DEF DiskOK, PhaseOK, StoreOK, Object
<1>2. saved[m][k].etag <= lastETag /\ known[m][k].etag <= lastETag
  BY DEF KnowledgeIsSound, GoodState
<1>3. store'[k] = store[k] \/ store'[k].etag = 0 \/ store'[k].etag > lastETag
  BY DEF StoreMoves, Moves
<1> QED BY <1>1, <1>2, <1>3 DEF StaysBehind, Behind

\* An entry that is written leaves disk and state with the same entry.
LEMMA WriteEntryAgrees ==
    ASSUME TypeOK, NEW m \in Machine, NEW k \in Key, WriteEntry(m, k)
    PROVE  /\ agreed'[m][k] = Absent => known'[m][k].entry = Absent
           /\ \A n \in Machine, j \in Key : n # m \/ j # k =>
                 agreed'[n][j] = agreed[n][j] /\ known'[n][j] = known[n][j]
<1> PICK e : e = todo[m][k].remote.entry
  OBVIOUS
<1> PICK s : s = applied(todo[m][k])
  OBVIOUS
<1>1. e \in EntryOrAbsent /\ s.entry = e
  BY TypeOKParts DEF PhaseOK, Action, Object, applied
<1>2. /\ agreed' = [agreed EXCEPT ![m][k] = onDisk(e, m)]
      /\ known' = [known EXCEPT ![m][k] = s]
  BY DEF WriteEntry, Agree, Remember
<1>3. agreed'[m][k] = onDisk(e, m) /\ known'[m][k] = s
  BY <1>2, TypeOKParts DEF PhaseOK, DiskOK
<1>4. \A n \in Machine, j \in Key : n # m \/ j # k =>
          agreed'[n][j] = agreed[n][j] /\ known'[n][j] = known[n][j]
  BY <1>2, TypeOKParts DEF PhaseOK, DiskOK
<1> QED BY <1>1, <1>3, <1>4, LooksAbsent

\* An upload that is answered leaves disk and state with the same entry, and the saved
\* state behind.
LEMMA PutAnsweredAgrees ==
    ASSUME TypeOK, KnowledgeIsSound, NEW m \in Machine, NEW k \in Key, PutAnswered(m, k),
           todo[m][k].kind \in UploadKinds, DeleteFits(m, k)
    PROVE  /\ agreed'[m][k] = Absent => known'[m][k].entry = Absent
           /\ Behind(saved[m][k], store'[k])
           /\ \A n \in Machine, j \in Key : n # m \/ j # k =>
                 agreed'[n][j] = agreed[n][j] /\ known'[n][j] = known[n][j]
<1> PICK a : a = todo[m][k]
  OBVIOUS
<1> PICK e : e = uploaded(a, known[m][k], m)
  OBVIOUS
<1> PICK s : s = [etag |-> answered(lastETag + 1), entry |-> e]
  OBVIOUS
<1>1. /\ agreed' = [agreed EXCEPT ![m][k] = a.local]
      /\ known' = [known EXCEPT ![m][k] = s]
      /\ store' = [store EXCEPT ![k] = [etag |-> lastETag + 1, entry |-> e, writer |-> m]]
  BY DEF PutAnswered, StorePut, Agree, Remember
<1>2. agreed'[m][k] = a.local /\ known'[m][k] = s /\ store'[k].etag = lastETag + 1
  BY <1>1, TypeOKParts DEF PhaseOK, DiskOK, StoreOK
<1>3. \A n \in Machine, j \in Key : n # m \/ j # k =>
          agreed'[n][j] = agreed[n][j] /\ known'[n][j] = known[n][j]
  BY <1>1, TypeOKParts DEF PhaseOK, DiskOK
<1>4. a.local = Absent => e = Absent
  BY DEF DeleteFits, UploadKinds, uploaded
<1>5. Behind(saved[m][k], store'[k])
  <2>1. saved[m][k].etag \in Nat /\ lastETag \in Nat /\ saved[m][k].etag <= lastETag
    BY EntryStateFields, TypeOKParts DEF DiskOK, StoreOK, KnowledgeIsSound, GoodState
  <2> QED BY <1>2, <2>1 DEF Behind
<1> QED BY <1>2, <1>3, <1>4, <1>5

\* What the deletions rest on holds in every state.
THEOREM DeletesFitAlways == Spec => []DeletesFit
<1>1. Init => DeletesFit
  <2> SUFFICES ASSUME Init, NEW m \in Machine, NEW k \in Key PROVE DeleteFits(m, k)
    BY DEF DeletesFit
  <2>1. /\ pc[m] = "idle" /\ todo[m][k] = NoAction
        /\ saved[m][k] = NoState /\ known[m][k] = NoState
    BY DEF Init, PerMachine, PerKey
  <2> QED
    BY <2>1 DEF DeleteFits, Behind, NoState, NoAction, LocalKinds, UploadKinds, OtherKinds
<1>2. TypeOK /\ TypeOK' /\ KnowledgeIsSound /\ RunsAreShaped /\ DeletesFit /\ [Next]_vars
      => DeletesFit'
  <2> SUFFICES ASSUME TypeOK, TypeOK', KnowledgeIsSound, RunsAreShaped, DeletesFit,
                      [Next]_vars, NEW n \in Machine, NEW j \in Key
               PROVE  DeleteFits(n, j)'
    BY DEF DeletesFit
  <2>0. /\ DeleteFits(n, j) /\ RunShape(n) /\ PhaseOK /\ DiskOK /\ StoreOK
        /\ StaysBehind(n, j)
    BY TypeOKParts, StepMovesStore, BehindForGood DEF DeletesFit, RunsAreShaped
  <2>1. ASSUME DeleteVars(n, j)' = DeleteVars(n, j) PROVE DeleteFits(n, j)'
    BY <2>0, <2>1 DEF DeleteVars, DeleteFits, StaysBehind
  <2>2. ASSUME NEW m \in Machine, EndRun(m), UNCHANGED agreed,
               saved' = saved \/ saved' = [saved EXCEPT ![m] = known[m]]
        PROVE  DeleteFits(n, j)'
    <3>1. CASE n = m
      <4>1. /\ pc'[n] = "idle" /\ todo'[n][j] = NoAction /\ known'[n][j] = NoState
            /\ saved'[n][j] \in {saved[n][j], known[n][j]}
        BY <2>0, <2>2, <3>1 DEF EndRun, PhaseOK, DiskOK, PerKey
      <4> QED
        BY <2>0, <2>2, <4>1
        DEF DeleteFits, StaysBehind, Behind, NoState, NoAction, LocalKinds, UploadKinds, OtherKinds
    <3>2. CASE n # m
      BY <2>0, <2>1, <2>2, <3>2 DEF EndRun, DeleteVars, PhaseOK, DiskOK
    <3> QED BY <3>1, <3>2
  <2>3. ASSUME NEW m \in Machine, NEW k \in Key, Done(m, k), pc[m] = "apply",
               UNCHANGED <<pc, saved, listing>>,
               \A i \in Machine, h \in Key : i # m \/ h # k =>
                  agreed'[i][h] = agreed[i][h] /\ known'[i][h] = known[i][h],
               \/ UNCHANGED <<agreed, known>>
               \/ /\ agreed'[m][k] = Absent /\ known'[m][k] # NoState
                        => known'[m][k].entry = Absent
                  /\ Behind(saved[m][k], store'[k])
        PROVE  DeleteFits(n, j)'
    <3>1. CASE n = m /\ j = k
      <4>1. pc'[n] = "apply" /\ todo'[n][j] = NoAction /\ saved'[n][j] = saved[n][j]
        BY <2>0, <2>3, <3>1 DEF Done, PhaseOK
      <4> QED
        BY <2>0, <2>3, <3>1, <4>1
        DEF DeleteFits, StaysBehind, Behind, NoState, NoAction, LocalKinds, UploadKinds, OtherKinds
    <3>2. CASE n # m \/ j # k
      BY <2>0, <2>1, <2>3, <3>2 DEF Done, DeleteVars, PhaseOK
    <3> QED BY <3>1, <3>2
  <2>4. ASSUME NEW m \in Machine, NEW k \in Key, ApplyLocal(m, k) PROVE DeleteFits(n, j)'
    <3>1. Behind(saved[m][k], store'[k]) /\ pc[m] = "apply"
      BY <2>4 DEF DeletesFit, DeleteFits, ApplyLocal, turn
    <3> QED BY <2>3, <2>4, <3>1, WriteEntryAgrees DEF ApplyLocal, stateVars
  <2>5. ASSUME NEW m \in Machine, NEW k \in Key, Record(m, k) \/ Forget(m, k)
        PROVE  DeleteFits(n, j)'
    <3> PICK a : a = todo[m][k]
      OBVIOUS
    <3> PICK s, e : /\ known' = [known EXCEPT ![m][k] = s]
                    /\ agreed' = [agreed EXCEPT ![m][k] = e]
                    /\ s = NoState \/ s.entry = e
      BY <2>5 DEF Record, Forget, recorded, Agree, Remember
    <3>1. /\ Behind(saved[m][k], store'[k]) /\ pc[m] = "apply" /\ Done(m, k)
          /\ UNCHANGED <<pc, saved, listing>>
      BY <2>5 DEF DeletesFit, DeleteFits, Record, Forget, turn, OtherKinds, storeVars, stateVars
    <3>2. agreed'[m][k] = e /\ known'[m][k] = s
      BY <2>0 DEF PhaseOK, DiskOK
    <3>3. \A i \in Machine, h \in Key : i # m \/ h # k =>
             agreed'[i][h] = agreed[i][h] /\ known'[i][h] = known[i][h]
      BY <2>0 DEF PhaseOK, DiskOK
    <3> QED BY <2>3, <3>1, <3>2, <3>3
  <2>6. ASSUME NEW m \in Machine, NEW k \in Key, Upload(m, k) PROVE DeleteFits(n, j)'
    <3>1. /\ DeleteFits(m, k) /\ todo[m][k].kind \in UploadKinds /\ pc[m] = "apply"
          /\ PutAnswered(m, k) /\ Done(m, k) /\ UNCHANGED <<pc, saved, listing>>
      BY <2>6 DEF DeletesFit, Upload, turn, stateVars
    <3> QED BY <2>3, <3>1, PutAnsweredAgrees
  <2>7. ASSUME NEW m \in Machine, NEW k \in Key,
               \/ SaveConflict(m, k) \/ UploadLosesRace(m, k) \/ LinkBlocked(m, k)
               \/ ApplyLocalFails(m, k) \/ SaveConflictFails(m, k) \/ UploadFails(m, k)
               \/ UploadRepeated(m, k)
        PROVE  DeleteFits(n, j)'
    BY <2>3, <2>7
    DEF SaveConflict, UploadLosesRace, LinkBlocked, ApplyLocalFails, SaveConflictFails, UploadFails,
        UploadRepeated, turn, stateVars
  <2>8. ASSUME NEW m \in Machine, FinishRound(m) PROVE DeleteFits(n, j)'
    <3>1. CASE run[m].retry /\ run[m].round < maxRounds
      <4>1. /\ pc' = [pc EXCEPT ![m] = "scan"] /\ UNCHANGED <<known, agreed, listing>>
            /\ todo' = [todo EXCEPT ![m] = PerKey(NoAction)]
            /\ saved' = [saved EXCEPT ![m] = known[m]]
        BY <2>8, <3>1 DEF FinishRound
      <4>2. CASE n = m
        <5>1. pc'[n] = "scan" /\ todo'[n][j] = NoAction /\ saved'[n][j] = known[n][j]
          BY <2>0, <4>1, <4>2 DEF PhaseOK, DiskOK, PerKey
        <5> QED
          BY <2>0, <4>1, <5>1
          DEF DeleteFits, StaysBehind, NoAction, LocalKinds, UploadKinds, OtherKinds
      <4>3. CASE n # m
        BY <2>0, <2>1, <4>1, <4>3 DEF DeleteVars, PhaseOK, DiskOK
      <4> QED BY <4>2, <4>3
    <3>2. CASE ~(run[m].retry /\ run[m].round < maxRounds)
      BY <2>2, <2>8, <3>2 DEF FinishRound
    <3> QED BY <3>1, <3>2
  <2>9. ASSUME NEW m \in Machine, NEW mode \in Modes, NEW adopt \in BOOLEAN,
               Begin(m, mode, adopt)
        PROVE  DeleteFits(n, j)'
    <3>1. CASE n = m
      <4>1. /\ pc'[n] = "scan" /\ known'[n][j] = saved[n][j]
            /\ UNCHANGED <<agreed, saved, todo>>
        BY <2>0, <2>9, <3>1 DEF Begin, PhaseOK, DiskOK, stateVars
      <4> QED BY <2>0, <4>1 DEF DeleteFits, StaysBehind
    <3>2. CASE n # m
      BY <2>0, <2>1, <2>9, <3>2 DEF Begin, DeleteVars, PhaseOK, DiskOK, stateVars
    <3> QED BY <3>1, <3>2
  <2>10. ASSUME NEW m \in Machine, NEW k \in Key, ScanAndList(m) \/ ScanMisses(m, k)
         PROVE  DeleteFits(n, j)'
    <3>1. CASE n = m
      <4>1. /\ pc'[n] = "fetch" /\ listing'[n][j] = store[j].etag
            /\ UNCHANGED <<agreed, saved, known, todo, store>>
        BY <2>0, <2>10, <3>1 DEF ScanAndList, ScanMisses, PhaseOK, stateVars, storeVars
      <4> QED BY <2>0, <4>1 DEF DeleteFits, StaysBehind, Behind
    <3>2. CASE n # m
      BY <2>0, <2>1, <2>10, <3>2 DEF ScanAndList, ScanMisses, DeleteVars, PhaseOK, stateVars
    <3> QED BY <3>1, <3>2
  <2>11. ASSUME NEW m \in Machine, NEW k \in Key, Fetch(m, k) PROVE DeleteFits(n, j)'
    <3>1. UNCHANGED <<agreed, saved, known, todo, pc, store>>
      BY <2>11 DEF Fetch, stateVars, storeVars
    <3>2. CASE UNCHANGED listing
      BY <2>1, <3>1, <3>2 DEF DeleteVars
    <3>3. CASE store[k] = NoObject /\ listing' = [listing EXCEPT ![m][k] = 0]
      <4>1. CASE n = m /\ j = k
        <5>1. listing'[n][j] = 0 /\ store[j].etag = 0
          BY <2>0, <3>3, <4>1 DEF PhaseOK, NoObject
        <5> QED BY <2>0, <3>1, <5>1 DEF DeleteFits, Behind
      <4>2. CASE n # m \/ j # k
        BY <2>0, <2>1, <3>1, <3>3, <4>2 DEF DeleteVars, PhaseOK
      <4> QED BY <4>1, <4>2
    <3> QED BY <2>11, <3>2, <3>3 DEF Fetch
  <2>12. ASSUME NEW m \in Machine, Plan(m) PROVE DeleteFits(n, j)'
    <3>1. UNCHANGED <<agreed, saved, known, store>>
      BY <2>12 DEF Plan, stateVars, storeVars
    <3>2. CASE n = m
      <4> PICK a : a = planned(n, j)
        OBVIOUS
      <4>1. pc[n] = "fetch" /\ pc'[n] = "apply" /\ todo'[n][j] = a
        BY <2>0, <2>12, <3>2 DEF Plan, PhaseOK
      <4>2. known[n][j] = saved[n][j]
        BY <2>0, <4>1 DEF RunShape
      <4>3. /\ a.kind \in LocalKinds \cup OtherKinds =>
                  known[n][j].etag = 0 \/ listing[n][j] # known[n][j].etag
            /\ a.kind = "upload" => a.local # Absent
            /\ a.kind = "upload-delete" =>
                  /\ known[n][j].etag # 0 /\ listing[n][j] = known[n][j].etag
                  /\ known[n][j].entry # Absent
        <5> PICK b : b = decide(local[n][j], listing[n][j], known[n][j], fetched[n][j],
                                ~settled[n], run[n].adopt, n)
          OBVIOUS
        <5>1. a = b \/ a = NoAction
          BY DEF planned
        <5> QED
          BY <2>0, <5>1, DecideNeeds DEF PhaseOK, NoAction, LocalKinds, OtherKinds
      <4> QED BY <2>0, <3>1, <4>1, <4>2, <4>3 DEF DeleteFits, Behind
    <3>3. CASE n # m
      BY <2>0, <2>1, <2>12, <3>1, <3>3 DEF Plan, DeleteVars, PhaseOK
    <3> QED BY <3>2, <3>3
  <2>13. ASSUME NEW m \in Machine, NEW k \in Key, NEW keepLocal \in BOOLEAN,
                Resolve(m, k, keepLocal)
         PROVE  DeleteFits(n, j)'
    <3>1. /\ pc' = [pc EXCEPT ![m] = "resolve"] /\ known' = [known EXCEPT ![m] = saved[m]]
          /\ UNCHANGED <<agreed, saved, store, listing>>
      BY <2>13 DEF Resolve, stateVars
    <3> PICK a : /\ todo' = [todo EXCEPT ![m][k] = a]
                 /\ a.kind = "upload" => a.local # Absent
                 /\ a.kind \notin OtherKinds
      <4> DEFINE kind == IF keepLocal
                         THEN IF disk[m][k] = Absent THEN "upload-delete" ELSE "upload"
                         ELSE IF store[k].entry = Absent THEN "remove" ELSE "download"
                 b == [kind |-> kind, local |-> disk[m][k], remote |-> store[k],
                       ifMatch |-> IF keepLocal THEN store[k].etag ELSE 0, keep |-> FALSE]
      <4>1. todo' = [todo EXCEPT ![m][k] = b]
        BY <2>13 DEF Resolve
      <4>2. (b.kind = "upload" => b.local # Absent) /\ b.kind \notin OtherKinds
        BY DEF OtherKinds
      <4> HIDE DEF b
      <4> QED BY <4>1, <4>2
    <3>2. Behind(saved[m][k], store[k])
      BY <2>13 DEF Resolve, noConflict, Behind, NoState
    <3>3. CASE n = m
      <4>1. pc'[n] = "resolve" /\ known'[n][j] = saved[n][j]
            /\ todo'[n][j] = IF j = k THEN a ELSE todo[n][j]
        BY <2>0, <3>1, <3>3 DEF PhaseOK, DiskOK
      <4> QED BY <2>0, <3>1, <3>2, <3>3, <4>1 DEF DeleteFits
    <3>4. CASE n # m
      BY <2>0, <2>1, <3>1, <3>4 DEF DeleteVars, PhaseOK
    <3> QED BY <3>3, <3>4
  <2>14. ASSUME NEW m \in Machine, NEW k \in Key, ResolveEffect(m, k)
         PROVE  DeleteFits(n, j)'
    <3>1. /\ pc[m] = "resolve" /\ UNCHANGED <<pc, saved, listing>>
          /\ agreed'[m][k] = Absent => known'[m][k].entry = Absent
          /\ Behind(saved[m][k], store'[k])
          /\ \A i \in Machine, h \in Key : i # m \/ h # k =>
                agreed'[i][h] = agreed[i][h] /\ known'[i][h] = known[i][h]
      <4>1. pc[m] = "resolve" /\ UNCHANGED <<pc, saved, listing>> /\ DeleteFits(m, k)
        BY <2>14 DEF ResolveEffect, stateVars, DeletesFit
      <4>2. CASE todo[m][k].kind \in UploadKinds /\ PutAnswered(m, k)
        BY <4>1, <4>2, PutAnsweredAgrees
      <4>3. CASE todo[m][k].kind \in LocalKinds /\ WriteEntry(m, k) /\ UNCHANGED store
        BY <4>1, <4>3, WriteEntryAgrees DEF DeleteFits
      <4> QED BY <2>14, <4>1, <4>2, <4>3 DEF ResolveEffect
    <3> PICK a : a.kind = "drop" /\ todo' = [todo EXCEPT ![m][k] = a]
      <4>1. todo[m][k] \in Action
        BY <2>0 DEF PhaseOK
      <4> QED BY <2>14, <4>1, DropType DEF ResolveEffect
    <3>2. CASE n = m /\ j = k
      <4>1. pc'[n] = "resolve" /\ todo'[n][j] = a /\ saved'[n][j] = saved[n][j]
        BY <2>0, <3>1, <3>2 DEF PhaseOK
      <4> QED BY <3>1, <3>2, <4>1 DEF DeleteFits, LocalKinds, OtherKinds
    <3>3. CASE n # m \/ j # k
      BY <2>0, <2>1, <3>1, <3>3 DEF DeleteVars, PhaseOK
    <3> QED BY <3>2, <3>3
  <2>15. ASSUME NEW m \in Machine, NEW k \in Key,
                \/ Abort(m) \/ Crash(m)
                \/ ResolveRefused(m, k) \/ ResolveFails(m, k) \/ ResolveSave(m, k)
         PROVE  DeleteFits(n, j)'
    BY <2>2, <2>15
    DEF Abort, Crash, ResolveRefused, ResolveFails, ResolveSave, stateVars
  <2>16. ASSUME NEW m \in Machine, NEW k \in Key,
                FetchUnreadable(m, k) \/ UserEdit(m, k) \/ ResolveNothing(m, k)
         PROVE  DeleteFits(n, j)'
    BY <2>1, <2>16
    DEF FetchUnreadable, UserEdit, ResolveNothing, runVars, stateVars, DeleteVars
  <2>17. ASSUME NEW k \in Key, ObjectLost(k) PROVE DeleteFits(n, j)'
    BY <2>1, <2>17 DEF ObjectLost, runVars, stateVars, DeleteVars
  <2>18. ASSUME NEW p \in late, LatePut(p) PROVE DeleteFits(n, j)'
    BY <2>1, <2>18 DEF LatePut, runVars, stateVars, DeleteVars
  <2>19. CASE UNCHANGED vars
    BY <2>1, <2>19 DEF vars, runVars, stateVars, DeleteVars
  <2>20. ASSUME NEW m \in Machine, RunStep(m) PROVE DeleteFits(n, j)'
    BY <2>4, <2>5, <2>6, <2>7, <2>8, <2>10, <2>11, <2>12, <2>14, <2>15, <2>20 DEF RunStep
  <2>21. ASSUME NEW m \in Machine, FailStep(m) PROVE DeleteFits(n, j)'
    BY <2>7, <2>10, <2>15, <2>16, <2>21 DEF FailStep
  <2>22. ASSUME NEW m \in Machine, UserStep(m) PROVE DeleteFits(n, j)'
    BY <2>9, <2>13, <2>16, <2>22 DEF UserStep
  <2> QED BY <2>17, <2>18, <2>19, <2>20, <2>21, <2>22 DEF Next
<1> QED BY <1>1, <1>2, TypeCorrect, KnowledgeSound, RunsShaped, PTL DEF Spec

\* A sync plans to delete an entry for everyone only when this machine and the store
\* shared it before, whatever fails, is killed, is lost or runs at the same time.
THEOREM DeletesAreOfShared == Spec => []DeletesOnlyShared
<1>1. DeletesFit => DeletesOnlyShared
  BY DEF DeletesFit, DeleteFits, DeletesOnlyShared
<1> QED BY <1>1, DeletesFitAlways, PTL

-----------------------------------------------------------------------------
(* Runs without failures *)

\* When nothing fails, none of the failing steps is taken.
LEMMA NothingFails ==
    ASSUME TypeOK, MaxFaults = 0, NEW m \in Machine, NEW k \in Key
    PROVE  /\ ~Abort(m) /\ ~ScanMisses(m, k) /\ ~FetchUnreadable(m, k)
           /\ ~ApplyLocalFails(m, k) /\ ~SaveConflictFails(m, k) /\ ~UploadFails(m, k)
           /\ ~UploadRepeated(m, k)
           /\ ~ResolveFails(m, k)
<1>1. ~Spend("faults", MaxFaults) /\ ~(MaxFaults > 0)
  BY DEF TypeOK, Spent, Spend
<1> QED
  BY <1>1
  DEF Abort, ScanMisses, FetchUnreadable, ApplyLocalFails, FailToWrite,
      SaveConflictFails, UploadFails, PutUnanswered, UploadRepeated, PutRepeated, ResolveFails

\* When no process is killed, no crash is taken.
LEMMA NothingIsKilled ==
    ASSUME TypeOK, MaxCrashes = 0, NEW m \in Machine
    PROVE  ~Crash(m)
BY DEF TypeOK, Spent, Spend, Crash

\* When nothing fails, no Put is on its way after its caller gave up.
LEMMA NothingLate ==
    ASSUME TypeOK, MaxFaults = 0, late = {}, [Next]_vars
    PROVE  late' = {}
<1>1. \A m \in Machine, k \in Key : ~UploadFails(m, k) /\ ~ResolveFails(m, k)
  BY NothingFails
<1>2. ASSUME NEW m \in Machine, RunStep(m) PROVE late' = late
  BY <1>2
  DEF RunStep, ScanAndList, Plan, FinishRound, Fetch, ApplyLocal, SaveConflict, Record,
      Forget, Upload, UploadLosesRace, LinkBlocked, ResolveEffect, ResolveRefused,
      ResolveSave, storeVars
<1>3. ASSUME NEW m \in Machine, FailStep(m) PROVE late' = late
  BY <1>1, <1>3
  DEF FailStep, Abort, Crash, ScanMisses, FetchUnreadable, ApplyLocalFails,
      SaveConflictFails, UploadRepeated, storeVars
<1>4. ASSUME NEW m \in Machine, UserStep(m) PROVE late' = late
  BY <1>4 DEF UserStep, Begin, UserEdit, ResolveNothing, Resolve, storeVars
<1>5. ASSUME NEW k \in Key, ObjectLost(k) PROVE late' = late
  BY <1>5 DEF ObjectLost
<1>6. UNCHANGED vars => late' = late
  BY DEF vars, storeVars
<1> QED BY <1>1, <1>2, <1>3, <1>4, <1>5, <1>6 DEF Next

-----------------------------------------------------------------------------
(* Replacements *)

\* Scanning an entry once more changes nothing, nor what kind of entry it is.
LEMMA OnDiskTwice ==
    ASSUME NEW e \in EntryOrAbsent, NEW m
    PROVE  /\ onDisk(onDisk(e, m), m) = onDisk(e, m)
           /\ onDisk(Absent, m) = Absent
           /\ onDisk(e, m).kind = e.kind
<1>1. CASE e \in [kind : {"file"}, data : Data, exec : BOOLEAN]
  BY <1>1 DEF onDisk, Absent
<1>2. CASE e \in [kind : {"link"}, data : Data, exec : {FALSE}]
  BY <1>2 DEF onDisk, Absent
<1>3. CASE e = Absent
  BY <1>3 DEF onDisk, Absent
<1> QED BY <1>1, <1>2, <1>3 DEF EntryOrAbsent, Entry

\* An entry as scanned that a machine cannot tell from e is e as scanned there.
LEMMA SameOnDisk ==
    ASSUME NEW l \in EntryOrAbsent, NEW e \in EntryOrAbsent, NEW m,
           l = onDisk(l, m), SameEntry(l, e, m)
    PROVE  l = onDisk(e, m)
<1> DEFINE file == [kind : {"file"}, data : Data, exec : BOOLEAN]
           link == [kind : {"link"}, data : Data, exec : {FALSE}]
<1>1. CASE l \in file /\ e \in file
  BY <1>1 DEF onDisk, SameEntry
<1>2. CASE l \in link /\ e \in link
  BY <1>2 DEF onDisk, SameEntry
<1>3. CASE l = Absent \/ e = Absent
  BY <1>3, LooksAbsent, OnDiskTwice
<1>4. (l \in file /\ e \in link) \/ (l \in link /\ e \in file) => FALSE
  BY DEF SameEntry
<1> QED BY <1>1, <1>2, <1>3, <1>4 DEF EntryOrAbsent, Entry

\* The entry an upload stores is scanned as the one it was made from.
LEMMA UploadedOnDisk ==
    ASSUME NEW a \in Action, NEW prev \in EntryState, NEW m,
           a.local = onDisk(a.local, m), a.kind = "upload-delete" => a.local = Absent
    PROVE  onDisk(uploaded(a, prev, m), m) = a.local
<1> PICK l \in EntryOrAbsent : l = a.local
  BY DEF Action
<1> PICK b : b = prev.entry.exec
  OBVIOUS
<1>1. CASE a.kind = "upload-delete"
  BY <1>1, OnDiskTwice DEF uploaded
<1>2. CASE a.kind # "upload-delete" /\ l.kind = "file" /\ m \notin TracksExec
  <2>1. l \in [kind : {"file"}, data : Data, exec : BOOLEAN]
    BY <1>2, EntryFields
  <2>2. uploaded(a, prev, m) = [l EXCEPT !.exec = b]
    BY <1>2 DEF uploaded
  <2>3. onDisk([l EXCEPT !.exec = b], m) = [l EXCEPT !.exec = FALSE]
    BY <1>2, <2>1 DEF onDisk
  <2>4. l = [l EXCEPT !.exec = FALSE]
    BY <1>2 DEF onDisk
  <2> QED BY <2>2, <2>3, <2>4
<1>3. CASE a.kind # "upload-delete" /\ ~(l.kind = "file" /\ m \notin TracksExec)
  BY <1>3 DEF uploaded
<1> QED BY <1>1, <1>2, <1>3

\* A decision replaces what is on disk only when it is what the state says, when
\* there is nothing, or when it is kept aside; it carries what was on disk, and
\* deletes for everyone only what is not there.
LEMMA DecideReplaces ==
    ASSUME NEW l, NEW info, NEW s \in EntryState, NEW r \in Object,
           NEW firstSync, NEW adopt, NEW m
    PROVE  LET a == decide(l, info, s, r, firstSync, adopt, m)
           IN  /\ a.local \in {l, Absent}
               /\ a.kind = "upload-delete" => a.local = Absent
               /\ a.kind \in LocalKinds =>
                     \/ l = Absent \/ a.keep
                     \/ s # NoState /\ SameEntry(l, s.entry, m)
<1> DEFINE confirm == firstSync /\ ~adopt
           kind == IF localUnchanged(l, s, m) THEN OnlyRemoteChanged(l, info, s, r, m)
                   ELSE IF remoteUnchanged(info, s) THEN OnlyLocalChanged(l, s, confirm)
                   ELSE BothChanged(l, info, s, r, confirm, m)
           a == [kind |-> kind, local |-> l, remote |-> r,
                 ifMatch |-> uploadCondition(kind, info, s, r),
                 keep |-> kind = "download" /\ ~localUnchanged(l, s, m) /\ s = NoState]
<1>1. CASE localUnchanged(l, s, m) /\ remoteUnchanged(info, s)
  BY <1>1 DEF decide, NoAction, LocalKinds
<1>2. CASE ~(localUnchanged(l, s, m) /\ remoteUnchanged(info, s))
  <2>1. decide(l, info, s, r, firstSync, adopt, m) = a
    BY <1>2 DEF decide
  <2>2. /\ a.kind = kind /\ a.local = l
        /\ a.keep <=> kind = "download" /\ ~localUnchanged(l, s, m) /\ s = NoState
    OBVIOUS
  <2>3. kind = "upload-delete" => l = Absent
    BY DEF OnlyRemoteChanged, OnlyLocalChanged, BothChanged
  <2>4. kind \in LocalKinds =>
           \/ l = Absent
           \/ kind = "download" /\ ~localUnchanged(l, s, m) /\ s = NoState
           \/ s # NoState /\ SameEntry(l, s.entry, m)
    <3>1. CASE localUnchanged(l, s, m)
      BY <3>1 DEF localUnchanged
    <3>2. CASE ~localUnchanged(l, s, m)
      BY <3>2 DEF OnlyLocalChanged, BothChanged, LocalKinds
    <3> QED BY <3>1, <3>2
  <2> HIDE DEF kind, a
  <2> QED BY <2>1, <2>2, <2>3, <2>4
<1> QED BY <1>1, <1>2

\* The state that counts: the saved one between runs, the one of the run in a run.
InForce(m, k) == IF pc[m] = "idle" THEN saved[m][k] ELSE known[m][k]

\* Why a replacement is one of a shared entry: what the state says of an entry is what
\* disk and store had in common, and what the scan found is still there.
ReplaceFits(m, k) ==
    /\ disk[m][k] = onDisk(disk[m][k], m)
    /\ local[m][k] = onDisk(local[m][k], m)
    /\ todo[m][k].local = onDisk(todo[m][k].local, m)
    /\ InForce(m, k) # NoState => agreed[m][k] = onDisk(InForce(m, k).entry, m)
    /\ pc[m] = "fetch" => local[m][k] = disk[m][k]
    /\ todo[m][k].kind = "upload-delete" => todo[m][k].local = Absent
    /\ pc[m] = "apply" /\ todo[m][k].kind \in LocalKinds =>
          disk[m][k] \in {Absent, agreed[m][k]} \/ todo[m][k].keep
ReplacesFit == \A m \in Machine, k \in Key : ReplaceFits(m, k)

\* What ReplaceFits speaks of.
ReplaceVars(m, k) == <<disk[m][k], local[m][k], todo[m][k], pc[m], saved[m][k],
                       known[m][k], agreed[m][k]>>

\* After a write the state, the disk and what was agreed are the same entry.
LEMMA WriteEntryReplaces ==
    ASSUME TypeOK, NEW m \in Machine, NEW k \in Key, WriteEntry(m, k)
    PROVE  /\ disk'[m][k] = onDisk(disk'[m][k], m)
           /\ agreed'[m][k] = onDisk(known'[m][k].entry, m)
           /\ \A n \in Machine, j \in Key : n # m \/ j # k =>
                 /\ agreed'[n][j] = agreed[n][j] /\ known'[n][j] = known[n][j]
                 /\ disk'[n][j] = disk[n][j]
<1> PICK e : e = todo[m][k].remote.entry
  OBVIOUS
<1> PICK s : s = applied(todo[m][k])
  OBVIOUS
<1>1. e \in EntryOrAbsent /\ s.entry = e
  BY TypeOKParts DEF PhaseOK, Action, Object, applied
<1>2. /\ agreed' = [agreed EXCEPT ![m][k] = onDisk(e, m)]
      /\ known' = [known EXCEPT ![m][k] = s]
      /\ disk' = [disk EXCEPT ![m][k] = onDisk(e, m)]
  BY DEF WriteEntry, Agree, Remember
<1>3. agreed'[m][k] = onDisk(e, m) /\ known'[m][k] = s /\ disk'[m][k] = onDisk(e, m)
  BY <1>2, TypeOKParts DEF PhaseOK, DiskOK
<1>4. \A n \in Machine, j \in Key : n # m \/ j # k =>
          /\ agreed'[n][j] = agreed[n][j] /\ known'[n][j] = known[n][j]
          /\ disk'[n][j] = disk[n][j]
  BY <1>2, TypeOKParts DEF PhaseOK, DiskOK
<1> QED BY <1>1, <1>3, <1>4, OnDiskTwice

\* After an answered upload the state is what was agreed.
LEMMA PutAnsweredReplaces ==
    ASSUME TypeOK, NEW m \in Machine, NEW k \in Key, PutAnswered(m, k), ReplaceFits(m, k)
    PROVE  /\ agreed'[m][k] = onDisk(known'[m][k].entry, m)
           /\ \A n \in Machine, j \in Key : n # m \/ j # k =>
                 agreed'[n][j] = agreed[n][j] /\ known'[n][j] = known[n][j]
<1> PICK a \in Action : a = todo[m][k]
  BY TypeOKParts DEF PhaseOK
<1> PICK e : e = uploaded(a, known[m][k], m)
  OBVIOUS
<1> PICK s : s = [etag |-> answered(lastETag + 1), entry |-> e]
  OBVIOUS
<1>1. /\ agreed' = [agreed EXCEPT ![m][k] = a.local]
      /\ known' = [known EXCEPT ![m][k] = s]
  BY DEF PutAnswered, Agree, Remember
<1>2. agreed'[m][k] = a.local /\ known'[m][k] = s
  BY <1>1, TypeOKParts DEF PhaseOK, DiskOK
<1>3. \A n \in Machine, j \in Key : n # m \/ j # k =>
          agreed'[n][j] = agreed[n][j] /\ known'[n][j] = known[n][j]
  BY <1>1, TypeOKParts DEF PhaseOK, DiskOK
<1>4. onDisk(e, m) = a.local
  BY UploadedOnDisk, TypeOKParts DEF ReplaceFits, PhaseOK
<1> QED BY <1>2, <1>3, <1>4

\* What the replacements rest on holds in every state, when no user edits during a
\* sync of the machine, nothing fails and no process is killed.
THEOREM ReplacesFitAlways ==
    ASSUME ~EditDuringRun, MaxFaults = 0, MaxCrashes = 0
    PROVE  Spec => []ReplacesFit
<1>1. Init => ReplacesFit
  <2> SUFFICES ASSUME Init, NEW m \in Machine, NEW k \in Key PROVE ReplaceFits(m, k)
    BY DEF ReplacesFit
  <2>1. /\ pc[m] = "idle" /\ todo[m][k] = NoAction /\ local[m][k] = Absent
        /\ saved[m][k] = NoState /\ disk[m][k] = onDisk(disk[m][k], m)
    BY DEF Init, PerMachine, PerKey
  <2>2. onDisk(Absent, m) = Absent
    BY OnDiskTwice DEF EntryOrAbsent
  <2> QED BY <2>1, <2>2 DEF ReplaceFits, InForce, NoAction
<1>2. TypeOK /\ TypeOK' /\ RunsAreShaped /\ ReplacesFit /\ [Next]_vars => ReplacesFit'
  <2> SUFFICES ASSUME TypeOK, TypeOK', RunsAreShaped, ReplacesFit, [Next]_vars,
                      NEW n \in Machine, NEW j \in Key
               PROVE  ReplaceFits(n, j)'
    BY DEF ReplacesFit
  <2>0. /\ ReplaceFits(n, j) /\ RunShape(n) /\ PhaseOK /\ DiskOK /\ StoreOK
        /\ onDisk(Absent, n) = Absent
    BY TypeOKParts, OnDiskTwice DEF ReplacesFit, RunsAreShaped, EntryOrAbsent
  <2>1. ASSUME ReplaceVars(n, j)' = ReplaceVars(n, j) PROVE ReplaceFits(n, j)'
    BY <2>0, <2>1 DEF ReplaceVars, ReplaceFits, InForce
  <2>2. ASSUME NEW m \in Machine, EndRun(m), UNCHANGED <<agreed, disk>>, pc[m] # "idle",
               \/ saved' = saved /\ known[m] = saved[m]
               \/ saved' = [saved EXCEPT ![m] = known[m]]
        PROVE  ReplaceFits(n, j)'
    <3>1. CASE n = m
      <4>1. /\ pc'[n] = "idle" /\ todo'[n][j] = NoAction /\ local'[n][j] = Absent
            /\ saved'[n][j] = known[n][j]
        BY <2>0, <2>2, <3>1 DEF EndRun, PhaseOK, DiskOK, PerKey
      <4> QED BY <2>0, <2>2, <3>1, <4>1 DEF ReplaceFits, InForce, NoAction
    <3>2. CASE n # m
      BY <2>0, <2>1, <2>2, <3>2 DEF EndRun, ReplaceVars, PhaseOK, DiskOK
    <3> QED BY <3>1, <3>2
  <2>3. ASSUME NEW m \in Machine, NEW k \in Key, Done(m, k), pc[m] = "apply",
               UNCHANGED <<pc, saved, local>>,
               \A i \in Machine, h \in Key : i # m \/ h # k =>
                  /\ agreed'[i][h] = agreed[i][h] /\ known'[i][h] = known[i][h]
                  /\ disk'[i][h] = disk[i][h],
               disk'[m][k] = onDisk(disk'[m][k], m),
               \/ UNCHANGED <<agreed, known>>
               \/ known'[m][k] # NoState => agreed'[m][k] = onDisk(known'[m][k].entry, m)
        PROVE  ReplaceFits(n, j)'
    <3>1. CASE n = m /\ j = k
      <4>1. /\ pc'[n] = "apply" /\ todo'[n][j] = NoAction /\ local'[n][j] = local[n][j]
        BY <2>0, <2>3, <3>1 DEF Done, PhaseOK
      <4> QED
        BY <2>0, <2>3, <3>1, <4>1 DEF ReplaceFits, InForce, NoAction, LocalKinds
    <3>2. CASE n # m \/ j # k
      BY <2>0, <2>1, <2>3, <3>2 DEF Done, ReplaceVars, PhaseOK
    <3> QED BY <3>1, <3>2
  <2>4. ASSUME NEW m \in Machine, NEW k \in Key, ApplyLocal(m, k) PROVE ReplaceFits(n, j)'
    BY <2>3, <2>4, WriteEntryReplaces DEF ApplyLocal, turn, stateVars
  <2>5. ASSUME NEW m \in Machine, NEW k \in Key, Record(m, k) \/ Forget(m, k)
        PROVE  ReplaceFits(n, j)'
    <3> PICK l : l = todo[m][k].local
      OBVIOUS
    <3> PICK s, e : /\ known' = [known EXCEPT ![m][k] = s]
                    /\ agreed' = [agreed EXCEPT ![m][k] = e]
                    /\ s = NoState \/ (s.entry = l /\ e = l)
      BY <2>5 DEF Record, Forget, recorded, Agree, Remember
    <3>1. /\ pc[m] = "apply" /\ Done(m, k) /\ UNCHANGED <<pc, saved, local, disk>>
          /\ ReplaceFits(m, k)
      BY <2>5 DEF ReplacesFit, Record, Forget, turn, stateVars
    <3>2. agreed'[m][k] = e /\ known'[m][k] = s
      BY <2>0 DEF PhaseOK, DiskOK
    <3>3. \A i \in Machine, h \in Key : i # m \/ h # k =>
             agreed'[i][h] = agreed[i][h] /\ known'[i][h] = known[i][h]
      BY <2>0 DEF PhaseOK, DiskOK
    <3>4. l = onDisk(l, m) /\ disk[m][k] = onDisk(disk[m][k], m)
      BY <3>1 DEF ReplaceFits
    <3> QED BY <2>3, <3>1, <3>2, <3>3, <3>4
  <2>6. ASSUME NEW m \in Machine, NEW k \in Key, Upload(m, k) PROVE ReplaceFits(n, j)'
    <3>1. /\ ReplaceFits(m, k) /\ pc[m] = "apply"
          /\ PutAnswered(m, k) /\ Done(m, k) /\ UNCHANGED <<pc, saved, local, disk>>
      BY <2>6 DEF ReplacesFit, Upload, turn, stateVars
    <3>2. disk[m][k] = onDisk(disk[m][k], m)
      BY <3>1 DEF ReplaceFits
    <3> QED BY <2>3, <3>1, <3>2, PutAnsweredReplaces
  <2>7. ASSUME NEW m \in Machine, NEW k \in Key,
               SaveConflict(m, k) \/ UploadLosesRace(m, k) \/ LinkBlocked(m, k)
        PROVE  ReplaceFits(n, j)'
    <3>1. disk[m][k] = onDisk(disk[m][k], m)
      BY DEF ReplacesFit, ReplaceFits
    <3> QED
      BY <2>3, <2>7, <3>1 DEF SaveConflict, UploadLosesRace, LinkBlocked, turn, stateVars
  <2>8. ASSUME NEW m \in Machine, FinishRound(m) PROVE ReplaceFits(n, j)'
    <3>0. pc[m] = "apply" /\ UNCHANGED <<disk, agreed>>
      BY <2>8 DEF FinishRound
    <3>1. CASE run[m].retry /\ run[m].round < maxRounds
      <4>1. /\ pc' = [pc EXCEPT ![m] = "scan"] /\ UNCHANGED <<known, local>>
            /\ todo' = [todo EXCEPT ![m] = PerKey(NoAction)]
            /\ saved' = [saved EXCEPT ![m] = known[m]]
        BY <2>8, <3>1 DEF FinishRound
      <4>2. CASE n = m
        <5>1. pc'[n] = "scan" /\ todo'[n][j] = NoAction
          BY <2>0, <4>1, <4>2 DEF PhaseOK, PerKey
        <5> QED BY <2>0, <3>0, <4>1, <4>2, <5>1 DEF ReplaceFits, InForce, NoAction
      <4>3. CASE n # m
        BY <2>0, <2>1, <3>0, <4>1, <4>3 DEF ReplaceVars, PhaseOK, DiskOK
      <4> QED BY <4>2, <4>3
    <3>2. CASE ~(run[m].retry /\ run[m].round < maxRounds)
      BY <2>2, <2>8, <3>0, <3>2 DEF FinishRound
    <3> QED BY <3>1, <3>2
  <2>9. ASSUME NEW m \in Machine, NEW mode \in Modes, NEW adopt \in BOOLEAN,
               Begin(m, mode, adopt)
        PROVE  ReplaceFits(n, j)'
    <3>1. CASE n = m
      <4>1. /\ pc[n] = "idle" /\ pc'[n] = "scan" /\ known'[n][j] = saved[n][j]
            /\ UNCHANGED <<agreed, saved, todo, local, disk>>
        BY <2>0, <2>9, <3>1 DEF Begin, PhaseOK, DiskOK, stateVars
      <4> QED BY <2>0, <4>1 DEF ReplaceFits, InForce
    <3>2. CASE n # m
      BY <2>0, <2>1, <2>9, <3>2 DEF Begin, ReplaceVars, PhaseOK, DiskOK, stateVars
    <3> QED BY <3>1, <3>2
  <2>10. ASSUME NEW m \in Machine, ScanAndList(m) PROVE ReplaceFits(n, j)'
    <3>1. CASE n = m
      <4>1. /\ pc[n] = "scan" /\ pc'[n] = "fetch" /\ local'[n][j] = disk[n][j]
            /\ UNCHANGED <<agreed, saved, known, todo, disk>>
        BY <2>0, <2>10, <3>1 DEF ScanAndList, PhaseOK, stateVars
      <4> QED BY <2>0, <4>1 DEF ReplaceFits, InForce
    <3>2. CASE n # m
      BY <2>0, <2>1, <2>10, <3>2 DEF ScanAndList, ReplaceVars, PhaseOK, stateVars
    <3> QED BY <3>1, <3>2
  <2>11. ASSUME NEW m \in Machine, NEW k \in Key, Fetch(m, k) \/ ResolveNothing(m, k)
         PROVE  ReplaceFits(n, j)'
    BY <2>1, <2>11 DEF Fetch, ResolveNothing, ReplaceVars, stateVars, runVars
  <2>12. ASSUME NEW m \in Machine, Plan(m) PROVE ReplaceFits(n, j)'
    <3>1. UNCHANGED <<agreed, saved, known, disk>>
      BY <2>12 DEF Plan, stateVars
    <3>2. CASE n = m
      <4> PICK a : a = planned(n, j)
        OBVIOUS
      <4>1. /\ pc[n] = "fetch" /\ pc'[n] = "apply" /\ todo'[n][j] = a
            /\ local'[n][j] = Absent
        BY <2>0, <2>12, <3>2 DEF Plan, PhaseOK, PerKey
      <4>2. /\ local[n][j] = disk[n][j] /\ disk[n][j] = onDisk(disk[n][j], n)
            /\ known[n][j] # NoState => agreed[n][j] = onDisk(known[n][j].entry, n)
        BY <2>0, <4>1 DEF ReplaceFits, InForce
      <4>3. /\ a.local \in {local[n][j], Absent}
            /\ a.kind = "upload-delete" => a.local = Absent
            /\ a.kind \in LocalKinds =>
                  \/ local[n][j] = Absent \/ a.keep
                  \/ known[n][j] # NoState /\ SameEntry(local[n][j], known[n][j].entry, n)
        <5> PICK b : b = decide(local[n][j], listing[n][j], known[n][j], fetched[n][j],
                                ~settled[n], run[n].adopt, n)
          OBVIOUS
        <5>1. a = b \/ a = NoAction
          BY DEF planned
        <5> QED BY <2>0, <5>1, DecideReplaces DEF PhaseOK, NoAction, LocalKinds
      <4>4. known[n][j] # NoState /\ SameEntry(local[n][j], known[n][j].entry, n)
            => disk[n][j] = agreed[n][j]
        <5>1. /\ known[n][j] # NoState => known[n][j].entry \in EntryOrAbsent
              /\ local[n][j] \in EntryOrAbsent
          BY <2>0 DEF PhaseOK, EntryState
        <5> QED BY <4>2, <5>1, SameOnDisk
      <4> QED BY <2>0, <3>1, <4>1, <4>2, <4>3, <4>4 DEF ReplaceFits, InForce
    <3>3. CASE n # m
      BY <2>0, <2>1, <2>12, <3>1, <3>3 DEF Plan, ReplaceVars, PhaseOK
    <3> QED BY <3>2, <3>3
  <2>13. ASSUME NEW m \in Machine, NEW k \in Key, NEW keepLocal \in BOOLEAN,
                Resolve(m, k, keepLocal)
         PROVE  ReplaceFits(n, j)'
    <3>1. /\ pc[m] = "idle" /\ pc' = [pc EXCEPT ![m] = "resolve"]
          /\ known' = [known EXCEPT ![m] = saved[m]]
          /\ UNCHANGED <<agreed, saved, local, disk>>
      BY <2>13 DEF Resolve, stateVars
    <3> PICK a : /\ todo' = [todo EXCEPT ![m][k] = a]
                 /\ a.local = disk[m][k]
                 /\ a.kind = "upload-delete" => a.local = Absent
      <4> DEFINE kind == IF keepLocal
                         THEN IF disk[m][k] = Absent THEN "upload-delete" ELSE "upload"
                         ELSE IF store[k].entry = Absent THEN "remove" ELSE "download"
                 b == [kind |-> kind, local |-> disk[m][k], remote |-> store[k],
                       ifMatch |-> IF keepLocal THEN store[k].etag ELSE 0, keep |-> FALSE]
      <4>1. todo' = [todo EXCEPT ![m][k] = b]
        BY <2>13 DEF Resolve
      <4>2. b.local = disk[m][k] /\ (b.kind = "upload-delete" => b.local = Absent)
        OBVIOUS
      <4> HIDE DEF b
      <4> QED BY <4>1, <4>2
    <3>2. CASE n = m
      <4>1. pc'[n] = "resolve" /\ known'[n][j] = saved[n][j]
            /\ todo'[n][j] = IF j = k THEN a ELSE todo[n][j]
        BY <2>0, <3>1, <3>2 DEF PhaseOK, DiskOK
      <4> QED BY <2>0, <3>1, <3>2, <4>1 DEF ReplaceFits, InForce
    <3>3. CASE n # m
      BY <2>0, <2>1, <3>1, <3>3 DEF ReplaceVars, PhaseOK
    <3> QED BY <3>2, <3>3
  <2>14. ASSUME NEW m \in Machine, NEW k \in Key, ResolveEffect(m, k)
         PROVE  ReplaceFits(n, j)'
    <3>0. pc[m] = "resolve" /\ UNCHANGED <<pc, saved, local>> /\ ReplaceFits(m, k)
      BY <2>14 DEF ResolveEffect, stateVars, ReplacesFit
    <3>1. /\ agreed'[m][k] = onDisk(known'[m][k].entry, m)
          /\ disk'[m][k] = onDisk(disk'[m][k], m)
          /\ \A i \in Machine, h \in Key : i # m \/ h # k =>
                /\ agreed'[i][h] = agreed[i][h] /\ known'[i][h] = known[i][h]
                /\ disk'[i][h] = disk[i][h]
      <4>1. CASE PutAnswered(m, k) /\ UNCHANGED disk
        BY <3>0, <4>1, PutAnsweredReplaces DEF ReplaceFits
      <4>2. CASE WriteEntry(m, k)
        BY <4>2, WriteEntryReplaces
      <4> QED BY <2>14, <4>1, <4>2 DEF ResolveEffect
    <3> PICK a : /\ a.kind = "drop" /\ a.local = todo[m][k].local
                 /\ todo' = [todo EXCEPT ![m][k] = a]
      <4>1. todo[m][k] \in Action
        BY <2>0 DEF PhaseOK
      <4> QED BY <2>14, <4>1, DropType DEF ResolveEffect
    <3>2. CASE n = m /\ j = k
      <4>1. pc'[n] = "resolve" /\ todo'[n][j] = a /\ local'[n][j] = local[n][j]
        BY <2>0, <3>0, <3>2 DEF PhaseOK
      <4> QED BY <2>0, <3>1, <3>2, <4>1 DEF ReplaceFits, InForce
    <3>3. CASE n # m \/ j # k
      BY <2>0, <2>1, <3>0, <3>1, <3>3 DEF ReplaceVars, PhaseOK
    <3> QED BY <3>2, <3>3
  <2>15. ASSUME NEW m \in Machine, NEW k \in Key, ResolveRefused(m, k)
         PROVE  ReplaceFits(n, j)'
    <3>1. /\ EndRun(m) /\ UNCHANGED <<agreed, disk, saved>> /\ pc[m] = "resolve"
          /\ todo[m][k].kind \in LocalKinds \cup UploadKinds
      BY <2>15 DEF ResolveRefused, stateVars
    <3>2. known[m] = saved[m]
      BY <3>1 DEF RunsAreShaped, RunShape
    <3> QED BY <2>2, <3>1, <3>2
  <2>16. ASSUME NEW m \in Machine, NEW k \in Key, ResolveSave(m, k) PROVE ReplaceFits(n, j)'
    BY <2>2, <2>16 DEF ResolveSave
  <2>17. ASSUME NEW m \in Machine, NEW k \in Key, UserEdit(m, k) PROVE ReplaceFits(n, j)'
    <3> PICK e : e = onDisk(e, m) /\ disk' = [disk EXCEPT ![m][k] = e]
      BY <2>17 DEF UserEdit
    <3>1. /\ pc[m] = "idle"
          /\ UNCHANGED <<agreed, known, saved, local, pc, todo>>
      BY <2>17 DEF UserEdit, runVars, stateVars
    <3>2. CASE n = m /\ j = k
      <4>1. disk'[n][j] = e
        BY <2>0, <3>2 DEF DiskOK
      <4> QED BY <2>0, <3>1, <3>2, <4>1 DEF ReplaceFits, InForce
    <3>3. CASE n # m \/ j # k
      BY <2>0, <2>1, <3>1, <3>3 DEF ReplaceVars, DiskOK
    <3> QED BY <3>2, <3>3
  <2>18. ASSUME NEW k \in Key, ObjectLost(k) PROVE ReplaceFits(n, j)'
    BY <2>1, <2>18 DEF ObjectLost, runVars, stateVars, ReplaceVars
  <2>19. ASSUME NEW p \in late, LatePut(p) PROVE ReplaceFits(n, j)'
    BY <2>1, <2>19 DEF LatePut, runVars, stateVars, ReplaceVars
  <2>20. CASE UNCHANGED vars
    BY <2>1, <2>20 DEF vars, runVars, stateVars, ReplaceVars
  <2>21. ASSUME NEW m \in Machine, RunStep(m) PROVE ReplaceFits(n, j)'
    BY <2>4, <2>5, <2>6, <2>7, <2>8, <2>10, <2>11, <2>12, <2>14, <2>15, <2>16, <2>21
    DEF RunStep
  <2>22. ASSUME NEW m \in Machine, FailStep(m) PROVE ReplaceFits(n, j)'
    BY <2>22, NothingFails, NothingIsKilled DEF FailStep
  <2>23. ASSUME NEW m \in Machine, UserStep(m) PROVE ReplaceFits(n, j)'
    BY <2>9, <2>11, <2>13, <2>17, <2>23 DEF UserStep
  <2> QED BY <2>18, <2>19, <2>20, <2>21, <2>22, <2>23 DEF Next
<1> QED BY <1>1, <1>2, TypeCorrect, RunsShaped, PTL DEF Spec

\* A sync replaces or removes on disk only what the machine and the store shared, or
\* what it sets aside, when no user edits during a sync of the machine, nothing fails
\* and no process is killed.
THEOREM ReplacesAreOfShared ==
    ASSUME ~EditDuringRun, MaxFaults = 0, MaxCrashes = 0
    PROVE  Spec => ReplacesOnlyShared
<1>1. TypeOK /\ TypeOK' /\ ReplacesFit /\ [Next]_vars
      => [\A m \in Machine, k \in Key :
             pc[m] = "apply" /\ disk'[m][k] # disk[m][k] /\ spent'.edits = spent.edits
             => disk[m][k] \in {Absent, agreed[m][k]} \/ todo[m][k].keep]_vars
  <2> SUFFICES ASSUME TypeOK, TypeOK', ReplacesFit, [Next]_vars,
                      NEW n \in Machine, NEW j \in Key, pc[n] = "apply",
                      disk'[n][j] # disk[n][j], spent'.edits = spent.edits
               PROVE  disk[n][j] \in {Absent, agreed[n][j]} \/ todo[n][j].keep
    OBVIOUS
  <2>1. ASSUME NEW m \in Machine, NEW k \in Key, WriteEntry(m, k)
        PROVE  m = n /\ k = j
    BY <2>1, WriteEntryReplaces
  <2>2. ASSUME NEW m \in Machine, NEW k \in Key, ApplyLocal(m, k)
        PROVE  disk[n][j] \in {Absent, agreed[n][j]} \/ todo[n][j].keep
    BY <2>1, <2>2 DEF ApplyLocal, turn, ReplacesFit, ReplaceFits
  <2>3. ASSUME NEW m \in Machine, NEW k \in Key, ResolveEffect(m, k) PROVE FALSE
    BY <2>1, <2>3 DEF ResolveEffect
  <2>4. ASSUME NEW m \in Machine, NEW k \in Key, UserEdit(m, k) PROVE FALSE
    BY <2>4 DEF UserEdit, Spend, TypeOK, Spent
  <2>5. ASSUME NEW m \in Machine, RunStep(m)
        PROVE  disk[n][j] \in {Absent, agreed[n][j]} \/ todo[n][j].keep
    BY <2>2, <2>3, <2>5
    DEF RunStep, ScanAndList, Plan, FinishRound, Fetch, SaveConflict, Record, Forget,
        Upload, UploadLosesRace, LinkBlocked, ResolveRefused, ResolveSave
  <2>6. ASSUME NEW m \in Machine, FailStep(m) PROVE FALSE
    BY <2>6, NothingFails, NothingIsKilled DEF FailStep
  <2>7. ASSUME NEW m \in Machine, UserStep(m) PROVE FALSE
    BY <2>4, <2>7 DEF UserStep, Begin, ResolveNothing, Resolve
  <2>8. (\E k \in Key : ObjectLost(k)) \/ (\E p \in late : LatePut(p)) => FALSE
    BY DEF ObjectLost, LatePut
  <2>9. ~UNCHANGED vars
    BY DEF vars
  <2> QED BY <2>5, <2>6, <2>7, <2>8, <2>9 DEF Next
<1> QED BY <1>1, TypeCorrect, ReplacesFitAlways, PTL DEF Spec, ReplacesOnlyShared

-----------------------------------------------------------------------------
(* What nobody confirmed *)

\* Not a link, which a machine may be unable to make.
NoLink(e) == e.kind # "link"

\* The entry an upload stores is of the kind of the one on disk, or none.
LEMMA UploadedNoLink ==
    ASSUME NEW a \in Action, NEW prev, NEW m, NoLink(a.local)
    PROVE  NoLink(uploaded(a, prev, m))
<1> PICK l \in EntryOrAbsent : l = a.local
  BY DEF Action
<1> PICK b : b = prev.entry.exec
  OBVIOUS
<1>1. l.kind = "file" => [l EXCEPT !.exec = b].kind = "file"
  BY EntryFields
<1> QED BY <1>1 DEF uploaded, NoLink, Absent

\* In the first sync of a machine whose user confirmed nothing, an entry that the
\* state does not know waits, or becomes the one in the store.
LEMMA DecideFirst ==
    ASSUME NEW l \in EntryOrAbsent, l # Absent, NEW info, NEW r \in Object, NEW m,
           NEW firstSync, NEW adopt, firstSync, ~adopt
    PROVE  LET a == decide(l, info, NoState, r, firstSync, adopt, m)
           IN  a.kind \in {"pending", "record", "download"}
BY DEF decide, localUnchanged, remoteUnchanged, OnlyLocalChanged, BothChanged

\* Why nothing unconfirmed is uploaded: it is on the disk, unknown to the state, and
\* the first sync is not over; what that sync does about it is to ask, or to make it
\* the shared entry.
UnaskedFits(m, k) ==
    /\ k \in unasked[m] =>
          /\ disk[m][k] # Absent /\ ~settled[m] /\ ~run[m].adopt
          /\ saved[m][k] = NoState /\ known[m][k] = NoState
    /\ pc[m] = "fetch" => local[m][k] = disk[m][k]
    /\ pc[m] = "apply" /\ k \in unasked[m] =>
          /\ todo[m][k].kind \notin UploadKinds
          /\ run[m].mode # "pull" => todo[m][k].kind \in {"pending", "record", "download"}
\* A link that cannot be made would leave its entry behind when the first sync is over.
NoLinks(m, k) ==
    /\ NoLink(disk[m][k]) /\ NoLink(local[m][k]) /\ NoLink(todo[m][k].local)
    /\ NoLink(todo[m][k].remote.entry) /\ NoLink(fetched[m][k].entry)
    /\ NoLink(store[k].entry)
UnaskedIsKept ==
    /\ late = {}
    /\ \A m \in Machine : run[m].mode # "push" /\ unreadable[m] = {}
    /\ \A m \in Machine, k \in Key : NoLinks(m, k) /\ UnaskedFits(m, k)

\* What UnaskedFits speaks of.
UnaskedVars(m, k) ==
    <<k \in unasked[m], disk[m][k], settled[m], run[m], saved[m][k], known[m][k],
      pc[m], local[m][k], todo[m][k]>>

\* Without links and failures there are no links anywhere.
LEMMA NoLinksKept ==
    ASSUME TypeOK, MaxFaults = 0, \A e \in Edits : NoLink(e), UnaskedIsKept, [Next]_vars,
           NEW n \in Machine, NEW j \in Key
    PROVE  NoLinks(n, j)'
<1>0. /\ NoLinks(n, j) /\ PhaseOK /\ DiskOK /\ StoreOK /\ late = {} /\ NoLink(Absent)
      /\ NoLink(NoObject.entry) /\ NoLink(NoAction.local) /\ NoLink(NoAction.remote.entry)
  BY TypeOKParts DEF UnaskedIsKept, NoLink, Absent, NoObject, NoAction
<1>1. ASSUME UNCHANGED <<disk, local, todo, fetched, store>> PROVE NoLinks(n, j)'
  BY <1>0, <1>1 DEF NoLinks
<1>2. ASSUME NEW m \in Machine, EndRun(m), UNCHANGED <<disk, store>> PROVE NoLinks(n, j)'
  BY <1>0, <1>2 DEF EndRun, NoLinks, PhaseOK, PerKey
<1>3. ASSUME NEW m \in Machine, NEW k \in Key, Done(m, k),
             UNCHANGED <<disk, local, fetched, store>>
      PROVE  NoLinks(n, j)'
  BY <1>0, <1>3 DEF Done, NoLinks, PhaseOK
<1>4. ASSUME NEW m \in Machine, NEW k \in Key, WriteEntry(m, k) PROVE NoLink(disk'[n][j])
  <2> PICK e \in EntryOrAbsent : e = todo[m][k].remote.entry
    BY <1>0 DEF PhaseOK, Action, Object
  <2>1. NoLink(e)
    BY DEF UnaskedIsKept, NoLinks
  <2>2. NoLink(onDisk(e, m))
    BY <2>1, OnDiskTwice DEF NoLink
  <2>3. disk' = [disk EXCEPT ![m][k] = onDisk(e, m)]
    BY <1>4 DEF WriteEntry
  <2> QED BY <1>0, <2>2, <2>3 DEF NoLinks, DiskOK
<1>5. ASSUME NEW m \in Machine, NEW k \in Key, PutAnswered(m, k)
      PROVE  NoLink(store'[j].entry)
  <2> PICK e : e = uploaded(todo[m][k], known[m][k], m)
    OBVIOUS
  <2>1. NoLink(e)
    BY <1>0, UploadedNoLink DEF PhaseOK, UnaskedIsKept, NoLinks
  <2>2. store' = [store EXCEPT ![k] = [etag |-> lastETag + 1, entry |-> e, writer |-> m]]
    BY <1>5 DEF PutAnswered, StorePut
  <2> QED BY <1>0, <2>1, <2>2 DEF NoLinks, StoreOK
<1>6. ASSUME NEW m \in Machine, NEW k \in Key,
             \/ SaveConflict(m, k) \/ Record(m, k) \/ Forget(m, k)
             \/ UploadLosesRace(m, k) \/ LinkBlocked(m, k)
      PROVE  NoLinks(n, j)'
  BY <1>3, <1>6
  DEF SaveConflict, Record, Forget, UploadLosesRace, LinkBlocked, storeVars
<1>7. ASSUME NEW m \in Machine, NEW k \in Key, ApplyLocal(m, k) \/ Upload(m, k)
      PROVE  NoLinks(n, j)'
  <2>1. Done(m, k) /\ UNCHANGED <<local, fetched>>
    BY <1>7 DEF ApplyLocal, Upload
  <2>2. NoLink(todo'[n][j].local) /\ NoLink(todo'[n][j].remote.entry)
    BY <1>0, <2>1 DEF Done, NoLinks, PhaseOK
  <2>3. NoLink(disk'[n][j]) /\ NoLink(store'[j].entry)
    BY <1>0, <1>4, <1>5, <1>7 DEF ApplyLocal, Upload, NoLinks
  <2> QED BY <1>0, <2>1, <2>2, <2>3 DEF NoLinks
<1>8. ASSUME NEW m \in Machine, NEW k \in Key, ResolveEffect(m, k) PROVE NoLinks(n, j)'
  <2>1. UNCHANGED <<local, fetched>>
    BY <1>8 DEF ResolveEffect
  <2>2. NoLink(todo'[n][j].local) /\ NoLink(todo'[n][j].remote.entry)
    <3>1. todo[m][k] \in Action
      BY <1>0 DEF PhaseOK
    <3> PICK a : /\ a.local = todo[m][k].local /\ a.remote = todo[m][k].remote
                 /\ todo' = [todo EXCEPT ![m][k] = a]
      BY <1>8, <3>1, DropType DEF ResolveEffect
    <3> QED BY <1>0 DEF NoLinks, PhaseOK
  <2>3. NoLink(disk'[n][j]) /\ NoLink(store'[j].entry)
    BY <1>0, <1>4, <1>5, <1>8 DEF ResolveEffect, NoLinks
  <2> QED BY <1>0, <2>1, <2>2, <2>3 DEF NoLinks
<1>9. ASSUME NEW m \in Machine, Plan(m) PROVE NoLinks(n, j)'
  <2> PICK a : a = planned(n, j)
    OBVIOUS
  <2>1. a.local \in {local[n][j], Absent} /\ a.remote \in {fetched[n][j], NoObject}
    <3> PICK b : b = decide(local[n][j], listing[n][j], known[n][j], fetched[n][j],
                            ~settled[n], run[n].adopt, n)
      OBVIOUS
    <3>1. a = b \/ a = NoAction
      BY DEF planned
    <3>2. b.local \in {local[n][j], Absent} /\ b.remote \in {fetched[n][j], NoObject}
      BY DEF decide, NoAction
    <3> QED BY <3>1, <3>2 DEF NoAction
  <2>2. todo'[n][j] \in {a, todo[n][j]}
    BY <1>0, <1>9 DEF Plan, PhaseOK
  <2>3. local'[n][j] \in {local[n][j], Absent} /\ fetched'[n][j] \in {fetched[n][j], NoObject}
    BY <1>0, <1>9 DEF Plan, PhaseOK, PerKey
  <2>4. UNCHANGED <<disk, store>>
    BY <1>9 DEF Plan, storeVars
  <2> QED BY <1>0, <2>1, <2>2, <2>3, <2>4 DEF NoLinks
<1>10. ASSUME NEW m \in Machine, NEW k \in Key, NEW keepLocal \in BOOLEAN,
              Resolve(m, k, keepLocal)
       PROVE  NoLinks(n, j)'
  <2> PICK a : /\ todo' = [todo EXCEPT ![m][k] = a]
               /\ a.local = disk[m][k] /\ a.remote = store[k]
    <3> DEFINE kind == IF keepLocal
                       THEN IF disk[m][k] = Absent THEN "upload-delete" ELSE "upload"
                       ELSE IF store[k].entry = Absent THEN "remove" ELSE "download"
               b == [kind |-> kind, local |-> disk[m][k], remote |-> store[k],
                     ifMatch |-> IF keepLocal THEN store[k].etag ELSE 0, keep |-> FALSE]
    <3>1. todo' = [todo EXCEPT ![m][k] = b]
      BY <1>10 DEF Resolve
    <3>2. b.local = disk[m][k] /\ b.remote = store[k]
      OBVIOUS
    <3> HIDE DEF b
    <3> QED BY <3>1, <3>2
  <2>1. NoLink(a.local) /\ NoLink(a.remote.entry)
    BY DEF UnaskedIsKept, NoLinks
  <2> QED BY <1>0, <1>10, <2>1 DEF Resolve, NoLinks, PhaseOK
<1>11. ASSUME NEW m \in Machine, NEW k \in Key, UserEdit(m, k) PROVE NoLinks(n, j)'
  <2> PICK e \in Edits \cup {Absent} : disk' = [disk EXCEPT ![m][k] = e]
    BY <1>11 DEF UserEdit
  <2>1. NoLink(e)
    BY <1>0
  <2> QED BY <1>0, <1>11, <2>1 DEF UserEdit, NoLinks, DiskOK, storeVars, runVars
<1>12. ASSUME NEW k \in Key, ObjectLost(k) PROVE NoLinks(n, j)'
  BY <1>0, <1>12 DEF ObjectLost, NoLinks, StoreOK, runVars
<1>13. ASSUME NEW m \in Machine, ScanAndList(m) PROVE NoLinks(n, j)'
  BY <1>0, <1>13 DEF ScanAndList, NoLinks, PhaseOK, storeVars
<1>14. ASSUME NEW m \in Machine, NEW k \in Key, Fetch(m, k) PROVE NoLinks(n, j)'
  <2>1. fetched' = fetched \/ fetched' = [fetched EXCEPT ![m][k] = store[k]]
    BY <1>14 DEF Fetch
  <2>2. NoLink(store[k].entry)
    BY DEF UnaskedIsKept, NoLinks
  <2>3. UNCHANGED <<disk, local, todo, store>>
    BY <1>14 DEF Fetch, storeVars
  <2>4. NoLink(fetched'[n][j].entry)
    <3>1. CASE fetched' = fetched
      BY <1>0, <3>1 DEF NoLinks
    <3>2. CASE fetched' = [fetched EXCEPT ![m][k] = store[k]]
      BY <1>0, <2>2, <3>2 DEF NoLinks, PhaseOK
    <3> QED BY <2>1, <3>1, <3>2
  <2> QED BY <1>0, <2>3, <2>4 DEF NoLinks
<1>15. ASSUME NEW m \in Machine, FinishRound(m) PROVE NoLinks(n, j)'
  <2>1. CASE EndRun(m)
    BY <1>2, <1>15, <2>1 DEF FinishRound, storeVars
  <2>2. CASE /\ todo' = [todo EXCEPT ![m] = PerKey(NoAction)]
             /\ UNCHANGED <<local, fetched>>
    BY <1>0, <1>15, <2>2 DEF FinishRound, NoLinks, PhaseOK, PerKey, storeVars
  <2> QED BY <1>15, <2>1, <2>2 DEF FinishRound
<1>16. ASSUME NEW m \in Machine, NEW k \in Key,
              Crash(m) \/ ResolveRefused(m, k) \/ ResolveSave(m, k)
       PROVE  NoLinks(n, j)'
  BY <1>2, <1>16 DEF Crash, ResolveRefused, ResolveSave, storeVars
<1>17. ASSUME NEW m \in Machine, RunStep(m) PROVE NoLinks(n, j)'
  BY <1>6, <1>7, <1>8, <1>9, <1>13, <1>14, <1>15, <1>16, <1>17 DEF RunStep
<1>18. ASSUME NEW m \in Machine, FailStep(m) PROVE NoLinks(n, j)'
  BY <1>16, <1>18, NothingFails DEF FailStep
<1>19. ASSUME NEW m \in Machine, UserStep(m) PROVE NoLinks(n, j)'
  BY <1>1, <1>10, <1>11, <1>19
  DEF UserStep, Begin, ResolveNothing, storeVars, runVars
<1>20. CASE UNCHANGED vars
  BY <1>1, <1>20 DEF vars, storeVars, runVars
<1> QED BY <1>0, <1>12, <1>17, <1>18, <1>19, <1>20 DEF Next

\* What waits for a confirmation is kept in every state, when no user edits during a
\* sync of the machine, nothing fails, there are no links and no run only pushes.
THEOREM UnaskedKept ==
    ASSUME ~EditDuringRun, MaxFaults = 0, \A e \in Edits : NoLink(e), "push" \notin Modes
    PROVE  Spec => []UnaskedIsKept
<1>1. Init => UnaskedIsKept
  <2> SUFFICES ASSUME Init PROVE UnaskedIsKept
    OBVIOUS
  <2>1. ASSUME NEW m \in Machine, NEW k \in Key
        PROVE  /\ NoLinks(m, k) /\ UnaskedFits(m, k)
               /\ run[m].mode # "push" /\ unreadable[m] = {}
    <3>1. /\ pc[m] = "idle" /\ todo[m][k] = NoAction /\ local[m][k] = Absent
          /\ saved[m][k] = NoState /\ known[m][k] = NoState /\ run[m] = NoRun
          /\ fetched[m][k] = NoObject /\ store[k] = NoObject /\ ~settled[m]
          /\ unreadable[m] = {} /\ disk[m][k] \in Edits \cup {Absent}
          /\ k \in unasked[m] => disk[m][k] # Absent
      BY EngineAssumption DEF Init, PerMachine, PerKey
    <3> QED
      BY <3>1 DEF NoLinks, NoLink, UnaskedFits, NoAction, NoObject, Absent, NoRun
  <2>2. \A m \in Machine : run[m].mode # "push" /\ unreadable[m] = {}
    BY DEF Init, PerMachine, NoRun
  <2> QED BY <2>1, <2>2 DEF UnaskedIsKept, Init
<1>2. TypeOK /\ TypeOK' /\ RunsAreShaped /\ UnaskedIsKept /\ [Next]_vars => UnaskedIsKept'
  <2> SUFFICES ASSUME TypeOK, TypeOK', RunsAreShaped, UnaskedIsKept, [Next]_vars
               PROVE  UnaskedIsKept'
    OBVIOUS
  <2> USE NothingFails
  <2>1. late' = {}
    BY NothingLate DEF UnaskedIsKept
  <2>2. ASSUME NEW n \in Machine PROVE run'[n].mode # "push" /\ unreadable'[n] = {}
    <3>0. /\ run[n].mode # "push" /\ unreadable[n] = {} /\ PhaseOK
          /\ NoRun.mode # "push" /\ n \in Machine
      BY TypeOKParts DEF UnaskedIsKept, NoRun
    <3>1. ASSUME UNCHANGED unreadable, run' = run \/ (\E m \in Machine :
                    run' = [run EXCEPT ![m].retry = TRUE])
          PROVE  run'[n].mode # "push" /\ unreadable'[n] = {}
      <4>1. ASSUME NEW m \in Machine, run' = [run EXCEPT ![m].retry = TRUE]
            PROVE  run'[n].mode # "push"
        BY <3>0, <4>1 DEF PhaseOK, Run
      <4> QED BY <3>0, <3>1, <4>1
    <3>2. ASSUME NEW m \in Machine, EndRun(m)
          PROVE  run'[n].mode # "push" /\ unreadable'[n] = {}
      BY <3>0, <3>2 DEF EndRun, PhaseOK
    <3>3. ASSUME NEW m \in Machine, NEW k \in Key,
                 \/ ApplyLocal(m, k) \/ SaveConflict(m, k) \/ Record(m, k) \/ Forget(m, k)
                 \/ Upload(m, k) \/ UploadLosesRace(m, k) \/ LinkBlocked(m, k)
                 \/ Fetch(m, k) \/ ResolveEffect(m, k)
          PROVE  run'[n].mode # "push" /\ unreadable'[n] = {}
      BY <3>1, <3>3
      DEF ApplyLocal, SaveConflict, Record, Forget, Upload, UploadLosesRace, LinkBlocked,
          Fetch, ResolveEffect
    <3>4. ASSUME NEW m \in Machine, FinishRound(m)
          PROVE  run'[n].mode # "push" /\ unreadable'[n] = {}
      <4>1. CASE /\ run' = [run EXCEPT ![m].round = @ + 1, ![m].retry = FALSE]
                 /\ UNCHANGED unreadable
        BY <3>0, <4>1 DEF PhaseOK, Run
      <4> QED BY <3>2, <3>4, <4>1 DEF FinishRound
    <3>5. ASSUME NEW m \in Machine, RunStep(m)
          PROVE  run'[n].mode # "push" /\ unreadable'[n] = {}
      <4>1. CASE ScanAndList(m)
        BY <3>1, <4>1 DEF ScanAndList
      <4>2. CASE Plan(m)
        BY <3>0, <4>2 DEF Plan, PhaseOK
      <4>3. ASSUME NEW k \in Key, ResolveRefused(m, k) \/ ResolveSave(m, k)
            PROVE  run'[n].mode # "push" /\ unreadable'[n] = {}
        BY <3>2, <4>3 DEF ResolveRefused, ResolveSave
      <4> QED BY <3>3, <3>4, <3>5, <4>1, <4>2, <4>3 DEF RunStep
    <3>6. ASSUME NEW m \in Machine, FailStep(m)
          PROVE  run'[n].mode # "push" /\ unreadable'[n] = {}
      <4>1. Crash(m) \/ Abort(m)
        BY <3>6 DEF FailStep
      <4> QED BY <3>2, <4>1 DEF Crash, Abort
    <3>7. ASSUME NEW m \in Machine, UserStep(m)
          PROVE  run'[n].mode # "push" /\ unreadable'[n] = {}
      <4>1. ASSUME NEW mode \in Modes, NEW adopt \in BOOLEAN, Begin(m, mode, adopt)
            PROVE  run'[n].mode # "push" /\ unreadable'[n] = {}
        BY <3>0, <4>1 DEF Begin, PhaseOK
      <4> QED
        BY <3>1, <3>7, <4>1 DEF UserStep, UserEdit, ResolveNothing, Resolve, runVars
    <3> QED
      BY <3>1, <3>5, <3>6, <3>7 DEF Next, ObjectLost, LatePut, vars, runVars
  <2>3. ASSUME NEW n \in Machine, NEW j \in Key PROVE UnaskedFits(n, j)'
    <3>0. /\ UnaskedFits(n, j) /\ RunShape(n) /\ PhaseOK /\ DiskOK /\ StoreOK
          /\ run[n].mode # "push" /\ unreadable[n] = {}
      BY TypeOKParts DEF UnaskedIsKept, RunsAreShaped
    <3>1. ASSUME UnaskedVars(n, j)' = UnaskedVars(n, j) PROVE UnaskedFits(n, j)'
      BY <3>0, <3>1 DEF UnaskedVars, UnaskedFits
    <3>2. ASSUME NEW m \in Machine, EndRun(m), UNCHANGED <<unasked, disk, settled>>,
                 saved' = saved \/ saved' = [saved EXCEPT ![m] = known[m]]
          PROVE  UnaskedFits(n, j)'
      <4>1. CASE n = m
        <5>1. /\ pc'[n] = "idle" /\ run'[n] = NoRun /\ known'[n][j] = NoState
              /\ saved'[n][j] \in {saved[n][j], known[n][j]}
          BY <3>0, <3>2, <4>1 DEF EndRun, PhaseOK, DiskOK, PerKey
        <5> QED BY <3>0, <3>2, <4>1, <5>1 DEF UnaskedFits, NoRun
      <4>2. CASE n # m
        BY <3>0, <3>1, <3>2, <4>2 DEF EndRun, UnaskedVars, PhaseOK, DiskOK
      <4> QED BY <4>1, <4>2
    \* An action is carried out: its entry is unasked no more, or was not before.
    <3>3. ASSUME NEW m \in Machine, NEW k \in Key, Done(m, k), pc[m] = "apply",
                 UNCHANGED <<pc, saved, local, settled>>,
                 run' = run \/ run' = [run EXCEPT ![m].retry = TRUE],
                 \A i \in Machine, h \in Key : i # m \/ h # k =>
                    /\ h \in unasked'[i] <=> h \in unasked[i]
                    /\ known'[i][h] = known[i][h] /\ disk'[i][h] = disk[i][h],
                 k \notin unasked'[m]
          PROVE  UnaskedFits(n, j)'
      <4>0. run'[n].adopt = run[n].adopt /\ run'[n].mode = run[n].mode
        <5>1. CASE run' = [run EXCEPT ![m].retry = TRUE]
          BY <3>0, <5>1 DEF PhaseOK, Run
        <5> QED BY <3>3, <5>1
      <4>1. CASE n = m /\ j = k
        <5>1. pc'[n] = "apply" /\ j \notin unasked'[n]
          BY <3>3, <4>1
        <5> QED BY <5>1 DEF UnaskedFits
      <4>2. CASE n # m \/ j # k
        <5>1. /\ todo'[n][j] = todo[n][j] /\ j \in unasked'[n] <=> j \in unasked[n]
              /\ known'[n][j] = known[n][j] /\ disk'[n][j] = disk[n][j]
          BY <3>0, <3>3, <4>2 DEF Done, PhaseOK
        <5> QED BY <3>0, <3>3, <4>0, <5>1 DEF UnaskedFits
      <4> QED BY <4>1, <4>2
    <3>4. ASSUME NEW m \in Machine, NEW k \in Key, NEW e, Agree(m, k, e)
          PROVE  /\ k \notin unasked'[m]
                 /\ \A i \in Machine, h \in Key : i # m \/ h # k =>
                       (h \in unasked'[i] <=> h \in unasked[i])
      BY <3>0, <3>4 DEF Agree, DiskOK
    <3>5. ASSUME NEW m \in Machine, NEW k \in Key, NEW s, Remember(m, k, s)
          PROVE  \A i \in Machine, h \in Key : i # m \/ h # k => known'[i][h] = known[i][h]
      BY <3>0, <3>5 DEF Remember, PhaseOK
    <3>6. ASSUME NEW m \in Machine, NEW k \in Key, ApplyLocal(m, k) PROVE UnaskedFits(n, j)'
      <4>1. /\ pc[m] = "apply" /\ Done(m, k) /\ WriteEntry(m, k)
            /\ UNCHANGED <<pc, saved, local, settled, run>>
        BY <3>6 DEF ApplyLocal, turn, stateVars
      <4>2. \E e : Agree(m, k, e)
        BY <4>1 DEF WriteEntry
      <4> QED BY <3>3, <3>4, <4>1, <4>2, WriteEntryReplaces
    <3>7. ASSUME NEW m \in Machine, NEW k \in Key,
                 Record(m, k) \/ Forget(m, k) \/ Upload(m, k)
          PROVE  UnaskedFits(n, j)'
      <4>1. /\ pc[m] = "apply" /\ Done(m, k)
            /\ UNCHANGED <<pc, saved, local, settled, run, disk>>
            /\ \E e : Agree(m, k, e)
            /\ \E s : Remember(m, k, s)
        BY <3>7 DEF Record, Forget, Upload, PutAnswered, turn, stateVars
      <4> QED BY <3>3, <3>4, <3>5, <4>1
    <3>8. ASSUME NEW m \in Machine, NEW k \in Key,
                 SaveConflict(m, k) \/ UploadLosesRace(m, k) \/ LinkBlocked(m, k)
          PROVE  UnaskedFits(n, j)'
      <4>1. /\ pc[m] = "apply" /\ Done(m, k)
            /\ UNCHANGED <<pc, saved, local, settled, disk, unasked, known>>
            /\ run' = run \/ run' = [run EXCEPT ![m].retry = TRUE]
            /\ \/ todo[m][k].kind = "conflict" \/ todo[m][k].kind \in UploadKinds
               \/ ~canWrite(disk[m][k], todo[m][k].remote.entry)
        BY <3>8 DEF SaveConflict, UploadLosesRace, LinkBlocked, turn, stateVars
      <4>2. canWrite(disk[m][k], todo[m][k].remote.entry)
        BY DEF UnaskedIsKept, NoLinks, NoLink, canWrite
      <4>3. CASE n = m /\ j = k
        <5>1. todo'[n][j] = NoAction
          BY <3>0, <4>1, <4>3 DEF Done, PhaseOK
        <5>2. run'[n].adopt = run[n].adopt /\ run'[n].mode = run[n].mode
          <6>1. CASE run' = [run EXCEPT ![m].retry = TRUE]
            BY <3>0, <6>1 DEF PhaseOK, Run
          <6> QED BY <4>1, <6>1
        <5> QED
          BY <3>0, <4>1, <4>2, <4>3, <5>1, <5>2
          DEF UnaskedFits, NoAction, UploadKinds
      <4>4. CASE n # m \/ j # k
        <5>0. run'[n].adopt = run[n].adopt /\ run'[n].mode = run[n].mode
          <6>1. CASE run' = [run EXCEPT ![m].retry = TRUE]
            BY <3>0, <6>1 DEF PhaseOK, Run
          <6> QED BY <4>1, <6>1
        <5>1. todo'[n][j] = todo[n][j]
          BY <3>0, <4>1, <4>4 DEF Done, PhaseOK
        <5> QED BY <3>0, <4>1, <5>0, <5>1 DEF UnaskedFits
      <4> QED BY <4>3, <4>4
    <3>9. ASSUME NEW m \in Machine, FinishRound(m) PROVE UnaskedFits(n, j)'
      <4>1. /\ pc[m] = "apply" /\ UNCHANGED <<unasked, disk>>
            /\ \A k \in Key : todo[m][k].kind \in {"none", "pending"}
            /\ saved' = [saved EXCEPT ![m] = known[m]]
            /\ settled' = [settled EXCEPT ![m] =
                  @ \/ (run[m].mode # "pull" /\ \A k \in Key : todo[m][k].kind # "pending")]
        BY <3>9 DEF FinishRound
      <4>2. CASE n # m
        <5>1. settled'[n] = settled[n] /\ saved'[n] = saved[n]
          BY <3>0, <4>1, <4>2 DEF DiskOK
        <5>2. CASE EndRun(m)
          BY <3>0, <3>1, <4>1, <4>2, <5>1, <5>2 DEF EndRun, UnaskedVars, PhaseOK
        <5>3. CASE ~EndRun(m)
          BY <3>0, <3>1, <3>9, <4>1, <4>2, <5>1, <5>3
          DEF FinishRound, UnaskedVars, PhaseOK
        <5> QED BY <5>2, <5>3
      <4>3. CASE n = m
        <5>1. j \in unasked[n] => settled'[n] = settled[n]
          <6> SUFFICES ASSUME j \in unasked[n] PROVE settled'[n] = settled[n]
            OBVIOUS
          <6>1. run[m].mode # "pull" => todo[m][j].kind = "pending"
            BY <3>0, <4>1, <4>3 DEF UnaskedFits
          <6> DEFINE over == run[m].mode # "pull" /\ \A k \in Key : todo[m][k].kind # "pending"
          <6>2. ~over
            BY <6>1
          <6>3. settled' = [settled EXCEPT ![m] = @ \/ over]
            BY <4>1
          <6> HIDE DEF over
          <6>4. settled'[m] = (settled[m] \/ over) /\ settled[m] \in BOOLEAN
            BY <3>0, <6>3 DEF DiskOK
          <6> QED BY <4>3, <6>2, <6>4
        <5>2. saved'[n][j] = known[n][j]
          BY <3>0, <4>1, <4>3 DEF DiskOK
        <5>3. CASE EndRun(m)
          <6>1. pc'[n] = "idle" /\ run'[n] = NoRun /\ known'[n][j] = NoState
            BY <3>0, <4>3, <5>3 DEF EndRun, PhaseOK, PerKey
          <6> QED BY <3>0, <4>1, <5>1, <5>2, <6>1 DEF UnaskedFits, NoRun
        <5>4. CASE ~EndRun(m)
          <6>1. /\ pc' = [pc EXCEPT ![m] = "scan"] /\ UNCHANGED known
                /\ run' = [run EXCEPT ![m].round = @ + 1, ![m].retry = FALSE]
            BY <3>9, <5>4 DEF FinishRound
          <6>2. pc'[n] = "scan" /\ run'[n].adopt = run[n].adopt
            BY <3>0, <4>3, <6>1 DEF PhaseOK, Run
          <6> QED BY <3>0, <4>1, <5>1, <5>2, <6>1, <6>2 DEF UnaskedFits
        <5> QED BY <5>3, <5>4
      <4> QED BY <4>2, <4>3
    <3>10. ASSUME NEW m \in Machine, NEW mode \in Modes, NEW adopt \in BOOLEAN,
                  Begin(m, mode, adopt)
           PROVE  UnaskedFits(n, j)'
      <4>1. CASE n = m
        <5>1. /\ pc'[n] = "scan" /\ known'[n][j] = saved[n][j]
              /\ run'[n].adopt = adopt
              /\ UNCHANGED <<saved, settled, disk>>
              /\ unasked'[n] = IF adopt THEN {} ELSE unasked[n]
          BY <3>0, <3>10, <4>1 DEF Begin, PhaseOK, DiskOK, stateVars
        <5> QED BY <3>0, <5>1 DEF UnaskedFits
      <4>2. CASE n # m
        BY <3>0, <3>1, <3>10, <4>2 DEF Begin, UnaskedVars, PhaseOK, DiskOK, stateVars
      <4> QED BY <4>1, <4>2
    <3>11. ASSUME NEW m \in Machine, ScanAndList(m) PROVE UnaskedFits(n, j)'
      <4>1. CASE n = m
        <5>1. /\ pc'[n] = "fetch" /\ local'[n][j] = disk[n][j]
              /\ UNCHANGED <<saved, known, settled, run, disk, unasked>>
          BY <3>0, <3>11, <4>1 DEF ScanAndList, PhaseOK, stateVars
        <5> QED BY <3>0, <5>1 DEF UnaskedFits
      <4>2. CASE n # m
        BY <3>0, <3>1, <3>11, <4>2 DEF ScanAndList, UnaskedVars, PhaseOK, stateVars
      <4> QED BY <4>1, <4>2
    <3>12. ASSUME NEW m \in Machine, NEW k \in Key, Fetch(m, k) \/ ResolveNothing(m, k)
           PROVE  UnaskedFits(n, j)'
      BY <3>1, <3>12 DEF Fetch, ResolveNothing, UnaskedVars, stateVars, runVars
    <3>13. ASSUME NEW m \in Machine, Plan(m) PROVE UnaskedFits(n, j)'
      <4>1. UNCHANGED <<saved, known, settled, run, disk, unasked>>
        BY <3>13 DEF Plan, stateVars
      <4>2. CASE n = m
        <5> PICK a : a = planned(n, j)
          OBVIOUS
        <5>1. pc[n] = "fetch" /\ pc'[n] = "apply" /\ todo'[n][j] = a
          BY <3>0, <3>13, <4>2 DEF Plan, PhaseOK
        <5>2. ASSUME j \in unasked[n]
              PROVE  /\ a.kind \notin UploadKinds
                     /\ run[n].mode # "pull" => a.kind \in {"pending", "record", "download"}
          <6>1. /\ known[n][j] = NoState /\ local[n][j] # Absent
                /\ ~settled[n] /\ ~run[n].adopt
            BY <3>0, <5>1, <5>2 DEF UnaskedFits
          <6> PICK first : first = ~settled[n]
            OBVIOUS
          <6> PICK adopt : adopt = run[n].adopt
            OBVIOUS
          <6> PICK b : b = decide(local[n][j], listing[n][j], NoState, fetched[n][j],
                                  first, adopt, n)
            OBVIOUS
          <6>2. b.kind \in {"pending", "record", "download"}
            <7>1. local[n][j] \in EntryOrAbsent /\ fetched[n][j] \in Object
              BY <3>0 DEF PhaseOK
            <7>2. first /\ ~adopt
              BY <6>1
            <7> QED BY <6>1, <7>1, <7>2, DecideFirst
          <6>3. a \in {b, NoAction}
            BY <6>1 DEF planned
          <6>4. run[n].mode # "pull" => a = b
            BY <3>0, <6>1 DEF planned, allowed
          <6>5. NoAction.kind \notin UploadKinds /\ b.kind \notin UploadKinds
            BY <6>2 DEF NoAction, UploadKinds
          <6> QED BY <6>2, <6>3, <6>4, <6>5
        <5> QED BY <3>0, <4>1, <5>1, <5>2 DEF UnaskedFits
      <4>3. CASE n # m
        BY <3>0, <3>1, <3>13, <4>1, <4>3 DEF Plan, UnaskedVars, PhaseOK
      <4> QED BY <4>2, <4>3
    <3>14. ASSUME NEW m \in Machine, NEW k \in Key, NEW keepLocal \in BOOLEAN,
                  Resolve(m, k, keepLocal)
           PROVE  UnaskedFits(n, j)'
      <4>1. CASE n = m
        <5>1. /\ pc'[n] = "resolve" /\ known'[n][j] = saved[n][j]
              /\ UNCHANGED <<saved, settled, run, disk, unasked>>
          BY <3>0, <3>14, <4>1 DEF Resolve, PhaseOK, DiskOK, stateVars
        <5> QED BY <3>0, <5>1 DEF UnaskedFits
      <4>2. CASE n # m
        BY <3>0, <3>1, <3>14, <4>2 DEF Resolve, UnaskedVars, PhaseOK, DiskOK, stateVars
      <4> QED BY <4>1, <4>2
    <3>15. ASSUME NEW m \in Machine, NEW k \in Key, ResolveEffect(m, k)
           PROVE  UnaskedFits(n, j)'
      <4>0. pc[m] = "resolve" /\ UNCHANGED <<pc, saved, local, settled, run>>
        BY <3>15 DEF ResolveEffect, stateVars
      <4>1. /\ k \notin unasked'[m]
            /\ \A i \in Machine, h \in Key : i # m \/ h # k =>
                  /\ h \in unasked'[i] <=> h \in unasked[i]
                  /\ known'[i][h] = known[i][h] /\ disk'[i][h] = disk[i][h]
        <5>1. CASE PutAnswered(m, k) /\ UNCHANGED disk
          BY <3>4, <3>5, <5>1 DEF PutAnswered
        <5>2. CASE WriteEntry(m, k)
          <6>1. \E e : Agree(m, k, e)
            BY <5>2 DEF WriteEntry
          <6> QED BY <3>4, <5>2, <6>1, WriteEntryReplaces
        <5> QED BY <3>15, <5>1, <5>2 DEF ResolveEffect
      <4>2. CASE n = m /\ j = k
        BY <4>0, <4>1, <4>2 DEF UnaskedFits
      <4>3. CASE n # m \/ j # k
        <5>1. todo'[n][j] = todo[n][j]
          <6> PICK a : todo' = [todo EXCEPT ![m][k] = a]
            BY <3>15 DEF ResolveEffect
          <6> QED BY <3>0, <4>3 DEF PhaseOK
        <5> QED BY <3>0, <4>0, <4>1, <4>3, <5>1 DEF UnaskedFits
      <4> QED BY <4>2, <4>3
    <3>16. ASSUME NEW m \in Machine, NEW k \in Key,
                  Crash(m) \/ ResolveRefused(m, k) \/ ResolveSave(m, k)
           PROVE  UnaskedFits(n, j)'
      BY <3>2, <3>16 DEF Crash, ResolveRefused, ResolveSave, stateVars
    <3>17. ASSUME NEW m \in Machine, NEW k \in Key, UserEdit(m, k) PROVE UnaskedFits(n, j)'
      <4> PICK e : /\ disk' = [disk EXCEPT ![m][k] = e]
                   /\ unasked' = [unasked EXCEPT ![m] =
                         IF e # Absent /\ ~settled[m] /\ saved[m][k] = NoState
                         THEN @ \cup {k} ELSE @ \ {k}]
        BY <3>17 DEF UserEdit
      <4>1. /\ pc[m] = "idle"
            /\ UNCHANGED <<run, settled, known, saved, local, pc, todo>>
        BY <3>17 DEF UserEdit, runVars, stateVars
      <4>2. CASE n = m /\ j = k
        <5>1. /\ disk'[n][j] = e /\ pc[n] = "idle" /\ run[n] = NoRun
              /\ known[n][j] = NoState
          BY <3>0, <4>1, <4>2 DEF DiskOK, RunShape
        <5>2. j \in unasked'[n] => e # Absent /\ ~settled[n] /\ saved[n][j] = NoState
          BY <3>0, <4>2 DEF DiskOK
        <5> QED BY <4>1, <5>1, <5>2 DEF UnaskedFits, NoRun
      <4>3. CASE n # m \/ j # k
        <5>1. disk'[n][j] = disk[n][j] /\ (j \in unasked'[n] <=> j \in unasked[n])
          BY <3>0, <4>3 DEF DiskOK
        <5> QED BY <3>0, <4>1, <5>1 DEF UnaskedFits
      <4> QED BY <4>2, <4>3
    <3>18. ASSUME NEW k \in Key, ObjectLost(k) PROVE UnaskedFits(n, j)'
      BY <3>1, <3>18 DEF ObjectLost, runVars, stateVars, UnaskedVars
    <3>19. ASSUME NEW p \in late, LatePut(p) PROVE UnaskedFits(n, j)'
      BY <3>1, <3>19 DEF LatePut, runVars, stateVars, UnaskedVars
    <3>20. CASE UNCHANGED vars
      BY <3>1, <3>20 DEF vars, runVars, stateVars, UnaskedVars
    <3>21. ASSUME NEW m \in Machine, RunStep(m) PROVE UnaskedFits(n, j)'
      BY <3>6, <3>7, <3>8, <3>9, <3>11, <3>12, <3>13, <3>15, <3>16, <3>21 DEF RunStep
    <3>22. ASSUME NEW m \in Machine, FailStep(m) PROVE UnaskedFits(n, j)'
      BY <3>16, <3>22 DEF FailStep
    <3>23. ASSUME NEW m \in Machine, UserStep(m) PROVE UnaskedFits(n, j)'
      BY <3>10, <3>12, <3>14, <3>17, <3>23 DEF UserStep
    <3> QED BY <3>18, <3>19, <3>20, <3>21, <3>22, <3>23 DEF Next
  <2> QED BY <2>1, <2>2, <2>3, NoLinksKept DEF UnaskedIsKept
<1> QED BY <1>1, <1>2, TypeCorrect, RunsShaped, PTL DEF Spec

\* What a machine had before its first sync is uploaded only when its user confirmed,
\* when no user edits during a sync of the machine, nothing fails, there are no links
\* and no run only pushes; processes may be killed and objects lost.
THEOREM UnaskedIsNotUploaded ==
    ASSUME ~EditDuringRun, MaxFaults = 0, \A e \in Edits : NoLink(e), "push" \notin Modes
    PROVE  Spec => []UnaskedStaysLocal
<1>1. UnaskedIsKept => UnaskedStaysLocal
  BY DEF UnaskedIsKept, UnaskedFits, UnaskedStaysLocal
<1> QED BY <1>1, UnaskedKept, PTL

-----------------------------------------------------------------------------
(* A machine's own versions *)

\* Why a machine's own version does not come back to it: while it is the current one,
\* the state that counts is about it, so it is neither read nor acted on.
OwnFits(m, k) ==
    /\ store[k].writer = m =>
          /\ InForce(m, k).etag = store[k].etag
          /\ pc[m] = "fetch" => listing[m][k] = store[k].etag
          /\ todo[m][k].kind \notin LocalKinds \cup OtherKinds
    /\ fetched[m][k].writer # m
    /\ pc[m] = "apply" => todo[m][k].remote.writer # m
OwnIsKnown ==
    /\ late = {}
    /\ \A m \in Machine, k \in Key : OwnFits(m, k)

\* What OwnFits speaks of besides the object.
OwnVars(m, k) == <<saved[m][k], known[m][k], pc[m], listing[m][k], todo[m][k], fetched[m][k]>>

\* After an answered upload the state is about the version it made.
LEMMA PutAnsweredOwns ==
    ASSUME TypeOK, ReportsETag, NEW m \in Machine, NEW k \in Key, PutAnswered(m, k)
    PROVE  /\ known'[m][k].etag = store'[k].etag /\ store'[k].writer = m
           /\ \A j \in Key : j # k => store'[j] = store[j]
           /\ \A n \in Machine, j \in Key : n # m \/ j # k => known'[n][j] = known[n][j]
<1> PICK e : e = uploaded(todo[m][k], known[m][k], m)
  OBVIOUS
<1> PICK o : o = [etag |-> lastETag + 1, entry |-> e, writer |-> m]
  OBVIOUS
<1> PICK s : s = [etag |-> answered(lastETag + 1), entry |-> e]
  OBVIOUS
<1>1. known' = [known EXCEPT ![m][k] = s] /\ store' = [store EXCEPT ![k] = o]
  BY DEF PutAnswered, StorePut, Remember
<1>2. s.etag = o.etag /\ o.writer = m
  BY DEF answered
<1> QED BY <1>1, <1>2, TypeOKParts DEF PhaseOK, StoreOK

\* A machine's own current version is known to it in every state, when the store
\* answers with ETags, nothing fails and no process is killed.
THEOREM OwnKnown ==
    ASSUME ReportsETag, MaxFaults = 0, MaxCrashes = 0
    PROVE  Spec => []OwnIsKnown
<1>0. \A m \in Machine : NoObject.writer # m
  BY DecideAssumption DEF NoObject
<1>1. Init => OwnIsKnown
  <2> SUFFICES ASSUME Init, NEW m \in Machine, NEW k \in Key PROVE OwnFits(m, k)
    BY DEF OwnIsKnown, Init
  <2>1. store[k] = NoObject /\ fetched[m][k] = NoObject /\ pc[m] = "idle"
    BY DEF Init, PerMachine, PerKey
  <2> QED BY <1>0, <2>1 DEF OwnFits
<1>2. TypeOK /\ TypeOK' /\ KnowledgeIsSound /\ RunsAreShaped /\ OwnIsKnown /\ [Next]_vars
      => OwnIsKnown'
  <2> SUFFICES ASSUME TypeOK, TypeOK', KnowledgeIsSound, RunsAreShaped, OwnIsKnown,
                      [Next]_vars, NEW n \in Machine, NEW j \in Key
               PROVE  OwnFits(n, j)'
    BY NothingLate DEF OwnIsKnown
  <2>0. /\ OwnFits(n, j) /\ RunShape(n) /\ PhaseOK /\ DiskOK /\ StoreOK
        /\ late = {} /\ NoObject.writer # n /\ NoAction.remote.writer # n
        /\ store[j].writer = n => store[j].etag # 0
    BY <1>0, TypeOKParts DEF OwnIsKnown, RunsAreShaped, KnowledgeIsSound, GoodObject, NoAction
  <2>1. ASSUME OwnVars(n, j)' = OwnVars(n, j), store'[j] = store[j] PROVE OwnFits(n, j)'
    BY <2>0, <2>1 DEF OwnVars, OwnFits, InForce
  <2>2. ASSUME NEW m \in Machine, EndRun(m), UNCHANGED store, pc[m] # "idle",
               \/ saved' = saved /\ known[m] = saved[m]
               \/ saved' = [saved EXCEPT ![m] = known[m]]
        PROVE  OwnFits(n, j)'
    <3>1. CASE n = m
      <4>1. /\ pc'[n] = "idle" /\ todo'[n][j] = NoAction /\ fetched'[n][j] = NoObject
            /\ saved'[n][j] = known[n][j]
        BY <2>0, <2>2, <3>1 DEF EndRun, PhaseOK, DiskOK, PerKey
      <4> QED
        BY <2>0, <2>2, <3>1, <4>1 DEF OwnFits, InForce, NoAction, LocalKinds, OtherKinds
    <3>2. CASE n # m
      BY <2>0, <2>1, <2>2, <3>2 DEF EndRun, OwnVars, PhaseOK, DiskOK
    <3> QED BY <3>1, <3>2
  \* An action on an object of another machine.
  <2>3. ASSUME NEW m \in Machine, NEW k \in Key, Done(m, k), pc[m] = "apply",
               UNCHANGED <<pc, saved, listing, fetched, store>>,
               \A i \in Machine, h \in Key : i # m \/ h # k => known'[i][h] = known[i][h],
               known' = known \/ store[k].writer # m
        PROVE  OwnFits(n, j)'
    <3>1. CASE n = m /\ j = k
      <4>1. todo'[n][j] = NoAction
        BY <2>0, <2>3, <3>1 DEF Done, PhaseOK
      <4> QED
        BY <2>0, <2>3, <3>1, <4>1 DEF OwnFits, InForce, NoAction, LocalKinds, OtherKinds
    <3>2. CASE n # m \/ j # k
      BY <2>0, <2>1, <2>3, <3>2 DEF Done, OwnVars, PhaseOK
    <3> QED BY <3>1, <3>2
  <2>4. ASSUME NEW m \in Machine, NEW k \in Key,
               \/ ApplyLocal(m, k) \/ SaveConflict(m, k) \/ Record(m, k) \/ Forget(m, k)
        PROVE  OwnFits(n, j)'
    <3>1. /\ Done(m, k) /\ pc[m] = "apply"
          /\ UNCHANGED <<pc, saved, listing, fetched, store>>
          /\ todo[m][k].kind \in LocalKinds \cup OtherKinds
          /\ known' = known \/ \E s : Remember(m, k, s)
      BY <2>4
      DEF ApplyLocal, WriteEntry, SaveConflict, Record, Forget, turn, stateVars, storeVars,
          OtherKinds
    <3>2. store[k].writer # m
      BY <3>1 DEF OwnIsKnown, OwnFits
    <3>3. \A i \in Machine, h \in Key : i # m \/ h # k => known'[i][h] = known[i][h]
      BY <2>0, <3>1 DEF Remember, PhaseOK
    <3> QED BY <2>3, <3>1, <3>2, <3>3
  <2>5. ASSUME NEW m \in Machine, NEW k \in Key, UploadLosesRace(m, k) \/ LinkBlocked(m, k)
        PROVE  OwnFits(n, j)'
    BY <2>3, <2>5 DEF UploadLosesRace, LinkBlocked, turn, stateVars, storeVars
  <2>6. ASSUME NEW m \in Machine, NEW k \in Key, PutAnswered(m, k), pc[m] # "idle",
               UNCHANGED <<pc, saved, listing, fetched>>, pc[m] # "fetch",
               NEW a, todo' = [todo EXCEPT ![m][k] = a],
               a.kind \in {"none", "drop"}, pc[m] = "apply" => a.remote.writer # m
        PROVE  OwnFits(n, j)'
    <3>1. CASE n = m /\ j = k
      <4>1. todo'[n][j] = a
        BY <2>0, <2>6, <3>1 DEF PhaseOK
      <4>2. known'[n][j].etag = store'[j].etag
        BY <2>6, <3>1, PutAnsweredOwns
      <4> QED
        BY <2>0, <2>6, <3>1, <4>1, <4>2 DEF OwnFits, InForce, LocalKinds, OtherKinds
    <3>2. CASE n # m /\ j = k
      <4>1. store'[j].writer # n
        BY <2>6, <3>2, PutAnsweredOwns
      <4>2. todo'[n][j] = todo[n][j]
        BY <2>0, <2>6, <3>2 DEF PhaseOK
      <4> QED BY <2>0, <2>6, <4>1, <4>2 DEF OwnFits
    <3>3. CASE j # k
      BY <2>0, <2>1, <2>6, <3>3, PutAnsweredOwns DEF OwnVars, PhaseOK
    <3> QED BY <3>1, <3>2, <3>3
  <2>7. ASSUME NEW m \in Machine, NEW k \in Key, Upload(m, k) PROVE OwnFits(n, j)'
    <3>1. NoAction.kind = "none" /\ NoAction.remote.writer # m
      BY <1>0 DEF NoAction
    <3> QED BY <2>6, <2>7, <3>1 DEF Upload, Done, turn, stateVars
  <2>8. ASSUME NEW m \in Machine, FinishRound(m) PROVE OwnFits(n, j)'
    <3>0. pc[m] = "apply" /\ UNCHANGED store
      BY <2>8 DEF FinishRound, storeVars
    <3>1. CASE run[m].retry /\ run[m].round < maxRounds
      <4>1. /\ pc' = [pc EXCEPT ![m] = "scan"] /\ UNCHANGED <<known, listing, fetched>>
            /\ todo' = [todo EXCEPT ![m] = PerKey(NoAction)]
            /\ saved' = [saved EXCEPT ![m] = known[m]]
        BY <2>8, <3>1 DEF FinishRound
      <4>2. CASE n = m
        <5>1. pc'[n] = "scan" /\ todo'[n][j] = NoAction
          BY <2>0, <4>1, <4>2 DEF PhaseOK, PerKey
        <5> QED
          BY <2>0, <3>0, <4>1, <4>2, <5>1 DEF OwnFits, InForce, NoAction, LocalKinds, OtherKinds
      <4>3. CASE n # m
        BY <2>0, <2>1, <3>0, <4>1, <4>3 DEF OwnVars, PhaseOK, DiskOK
      <4> QED BY <4>2, <4>3
    <3>2. CASE ~(run[m].retry /\ run[m].round < maxRounds)
      BY <2>2, <2>8, <3>0, <3>2 DEF FinishRound
    <3> QED BY <3>1, <3>2
  <2>9. ASSUME NEW m \in Machine, NEW mode \in Modes, NEW adopt \in BOOLEAN,
               Begin(m, mode, adopt)
        PROVE  OwnFits(n, j)'
    <3>1. CASE n = m
      <4>1. /\ pc[n] = "idle" /\ pc'[n] = "scan" /\ known'[n][j] = saved[n][j]
            /\ UNCHANGED <<saved, todo, fetched, store>>
        BY <2>0, <2>9, <3>1 DEF Begin, PhaseOK, DiskOK, stateVars, storeVars
      <4> QED BY <2>0, <4>1 DEF OwnFits, InForce
    <3>2. CASE n # m
      BY <2>0, <2>1, <2>9, <3>2 DEF Begin, OwnVars, PhaseOK, DiskOK, stateVars, storeVars
    <3> QED BY <3>1, <3>2
  <2>10. ASSUME NEW m \in Machine, ScanAndList(m) PROVE OwnFits(n, j)'
    <3>1. CASE n = m
      <4>1. /\ pc[n] = "scan" /\ pc'[n] = "fetch" /\ listing'[n][j] = store[j].etag
            /\ UNCHANGED <<saved, known, todo, fetched, store>>
        BY <2>0, <2>10, <3>1 DEF ScanAndList, PhaseOK, stateVars, storeVars
      <4> QED BY <2>0, <4>1 DEF OwnFits, InForce
    <3>2. CASE n # m
      BY <2>0, <2>1, <2>10, <3>2 DEF ScanAndList, OwnVars, PhaseOK, stateVars, storeVars
    <3> QED BY <3>1, <3>2
  <2>11. ASSUME NEW m \in Machine, NEW k \in Key, Fetch(m, k) PROVE OwnFits(n, j)'
    <3>1. UNCHANGED <<saved, known, pc, todo, store>> /\ pc[m] = "fetch" /\ k \in toFetch(m)
      BY <2>11 DEF Fetch, stateVars, storeVars
    <3>2. CASE n = m /\ j = k
      <4>1. store[j].writer # n
        <5> SUFFICES ASSUME store[j].writer = n PROVE FALSE
          OBVIOUS
        <5>1. /\ listing[n][j] = store[j].etag /\ known[n][j].etag = store[j].etag
              /\ store[j].etag # 0
          BY <2>0, <3>1, <3>2 DEF OwnFits, InForce
        <5>2. known[n][j] # NoState
          BY <5>1 DEF NoState
        <5> QED BY <3>1, <3>2, <5>1, <5>2 DEF toFetch, needsFetch
      <4>2. fetched'[n][j] \in {fetched[n][j], store[j]}
        BY <2>0, <2>11, <3>2 DEF Fetch, PhaseOK
      <4> QED BY <2>0, <3>1, <3>2, <4>1, <4>2 DEF OwnFits
    <3>3. CASE n # m \/ j # k
      <4>1. listing'[n][j] = listing[n][j] /\ fetched'[n][j] = fetched[n][j]
        <5>1. listing' = listing \/ listing' = [listing EXCEPT ![m][k] = 0]
          BY <2>11 DEF Fetch
        <5>2. fetched' = fetched \/ fetched' = [fetched EXCEPT ![m][k] = store[k]]
          BY <2>11 DEF Fetch
        <5> QED BY <2>0, <3>3, <5>1, <5>2 DEF PhaseOK
      <4> QED BY <2>1, <3>1, <4>1 DEF OwnVars
    <3> QED BY <3>2, <3>3
  <2>12. ASSUME NEW m \in Machine, Plan(m) PROVE OwnFits(n, j)'
    <3>1. UNCHANGED <<saved, known, store>>
      BY <2>12 DEF Plan, stateVars, storeVars
    <3>2. CASE n = m
      <4> PICK a : a = planned(n, j)
        OBVIOUS
      <4>1. /\ pc[n] = "fetch" /\ pc'[n] = "apply" /\ todo'[n][j] = a
            /\ fetched'[n][j] = NoObject
        BY <2>0, <2>12, <3>2 DEF Plan, PhaseOK, PerKey
      <4>2. /\ a.kind \in LocalKinds \cup OtherKinds =>
                  known[n][j].etag = 0 \/ listing[n][j] # known[n][j].etag
            /\ a.remote \in {fetched[n][j], NoObject}
        <5> PICK b : b = decide(local[n][j], listing[n][j], known[n][j], fetched[n][j],
                                ~settled[n], run[n].adopt, n)
          OBVIOUS
        <5>1. a = b \/ a = NoAction
          BY DEF planned
        <5>2. b.remote \in {fetched[n][j], NoObject}
          BY DEF decide, NoAction
        <5>3. b.kind \in LocalKinds \cup OtherKinds =>
                 known[n][j].etag = 0 \/ listing[n][j] # known[n][j].etag
          BY <2>0, DecideNeeds DEF PhaseOK
        <5> QED BY <5>1, <5>2, <5>3 DEF NoAction, LocalKinds, OtherKinds
      <4> QED BY <2>0, <3>1, <4>1, <4>2 DEF OwnFits, InForce
    <3>3. CASE n # m
      BY <2>0, <2>1, <2>12, <3>1, <3>3 DEF Plan, OwnVars, PhaseOK
    <3> QED BY <3>2, <3>3
  <2>13. ASSUME NEW m \in Machine, NEW k \in Key, NEW keepLocal \in BOOLEAN,
                Resolve(m, k, keepLocal)
         PROVE  OwnFits(n, j)'
    <3>1. /\ pc[m] = "idle" /\ pc' = [pc EXCEPT ![m] = "resolve"]
          /\ known' = [known EXCEPT ![m] = saved[m]]
          /\ UNCHANGED <<saved, listing, fetched, store>>
      BY <2>13 DEF Resolve, stateVars
    <3> PICK a : todo' = [todo EXCEPT ![m][k] = a]
      BY <2>13 DEF Resolve
    <3>2. store[k].writer # m
      <4>1. OwnFits(m, k) /\ GoodObject(store[k], lastETag) /\ NoObject.writer # m
        BY <1>0 DEF OwnIsKnown, KnowledgeIsSound
      <4>2. store[k] # NoObject /\ (saved[m][k] = NoState \/ saved[m][k].etag # store[k].etag)
        BY <2>13 DEF Resolve, noConflict
      <4> QED BY <3>1, <4>1, <4>2 DEF OwnFits, InForce, GoodObject, NoState
    <3>3. CASE n = m
      <4>1. pc[n] = "idle" /\ pc'[n] = "resolve" /\ known'[n][j] = saved[n][j]
            /\ todo'[n][j] = IF j = k THEN a ELSE todo[n][j]
        BY <2>0, <3>1, <3>3 DEF PhaseOK, DiskOK
      <4> QED BY <2>0, <3>1, <3>2, <3>3, <4>1 DEF OwnFits, InForce
    <3>4. CASE n # m
      BY <2>0, <2>1, <3>1, <3>4 DEF OwnVars, PhaseOK
    <3> QED BY <3>3, <3>4
  <2>14. ASSUME NEW m \in Machine, NEW k \in Key, ResolveEffect(m, k) PROVE OwnFits(n, j)'
    <3>0. pc[m] = "resolve" /\ UNCHANGED <<pc, saved, listing, fetched>>
      BY <2>14 DEF ResolveEffect, stateVars
    <3> PICK a : a.kind = "drop" /\ todo' = [todo EXCEPT ![m][k] = a]
      <4>1. todo[m][k] \in Action
        BY <2>0 DEF PhaseOK
      <4> QED BY <2>14, <4>1, DropType DEF ResolveEffect
    <3>1. CASE PutAnswered(m, k)
      BY <2>6, <3>0, <3>1
    <3>2. CASE todo[m][k].kind \in LocalKinds /\ WriteEntry(m, k) /\ UNCHANGED store
      <4>1. store[k].writer # m
        BY <3>2 DEF OwnIsKnown, OwnFits
      <4>2. CASE n = m /\ j = k
        BY <2>0, <3>0, <3>2, <4>1, <4>2 DEF OwnFits
      <4>3. CASE n # m \/ j # k
        <5>1. known'[n][j] = known[n][j] /\ todo'[n][j] = todo[n][j]
          BY <2>0, <3>2, <4>3, WriteEntryReplaces DEF PhaseOK
        <5> QED BY <2>1, <3>0, <3>2, <5>1 DEF OwnVars
      <4> QED BY <4>2, <4>3
    <3> QED BY <2>14, <3>1, <3>2 DEF ResolveEffect
  <2>15. ASSUME NEW m \in Machine, NEW k \in Key, ResolveRefused(m, k)
         PROVE  OwnFits(n, j)'
    <3>1. /\ EndRun(m) /\ UNCHANGED <<saved, store>> /\ pc[m] = "resolve"
          /\ todo[m][k].kind \in LocalKinds \cup UploadKinds
      BY <2>15 DEF ResolveRefused, stateVars, storeVars
    <3>2. known[m] = saved[m]
      BY <3>1 DEF RunsAreShaped, RunShape
    <3> QED BY <2>2, <3>1, <3>2
  <2>16. ASSUME NEW m \in Machine, NEW k \in Key, ResolveSave(m, k) PROVE OwnFits(n, j)'
    BY <2>2, <2>16 DEF ResolveSave, storeVars
  <2>17. ASSUME NEW m \in Machine, NEW k \in Key, UserEdit(m, k) \/ ResolveNothing(m, k)
         PROVE  OwnFits(n, j)'
    BY <2>1, <2>17 DEF UserEdit, ResolveNothing, OwnVars, runVars, stateVars, storeVars
  <2>18. ASSUME NEW k \in Key, ObjectLost(k) PROVE OwnFits(n, j)'
    <3>1. store' = [store EXCEPT ![k] = NoObject] /\ OwnVars(n, j)' = OwnVars(n, j)
      BY <2>18 DEF ObjectLost, runVars, stateVars, OwnVars
    <3>2. CASE j = k
      <4>1. store'[j] = NoObject
        BY <2>0, <3>1, <3>2 DEF StoreOK
      <4> QED BY <2>0, <3>1, <4>1 DEF OwnVars, OwnFits
    <3>3. CASE j # k
      BY <2>0, <2>1, <3>1, <3>3 DEF StoreOK
    <3> QED BY <3>2, <3>3
  <2>19. CASE UNCHANGED vars
    BY <2>1, <2>19 DEF vars, runVars, stateVars, storeVars, OwnVars
  <2>20. ASSUME NEW m \in Machine, RunStep(m) PROVE OwnFits(n, j)'
    BY <2>4, <2>5, <2>7, <2>8, <2>10, <2>11, <2>12, <2>14, <2>15, <2>16, <2>20
    DEF RunStep
  <2>21. ASSUME NEW m \in Machine, FailStep(m) PROVE OwnFits(n, j)'
    BY <2>21, NothingFails, NothingIsKilled DEF FailStep
  <2>22. ASSUME NEW m \in Machine, UserStep(m) PROVE OwnFits(n, j)'
    BY <2>9, <2>13, <2>17, <2>22 DEF UserStep
  <2> QED BY <2>0, <2>18, <2>19, <2>20, <2>21, <2>22 DEF Next
<1> QED BY <1>1, <1>2, TypeCorrect, KnowledgeSound, RunsShaped, PTL DEF Spec

\* A machine's own version never comes back to it as another machine's change, when
\* the store answers with ETags, nothing fails and no process is killed; users may
\* edit during a sync and objects may be lost.
THEOREM OwnVersionsAreOwn ==
    ASSUME ReportsETag, MaxFaults = 0, MaxCrashes = 0
    PROVE  Spec => []OwnVersionsStayOwn
<1>1. OwnIsKnown => OwnVersionsStayOwn
  BY DEF OwnIsKnown, OwnFits, OwnVersionsStayOwn
<1> QED BY <1>1, OwnKnown, PTL
=============================================================================
