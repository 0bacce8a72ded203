-------------------------- MODULE StructuredProofs --------------------------
(***************************************************************************)
(* What syncing a structured file item by item can do to the items, for    *)
(* any machines, items, values, rules and missing commands.                *)
(***************************************************************************)
EXTENDS Structured, TLAPS

-----------------------------------------------------------------------------
(* The inductive invariant *)

\* An entry has these items, but for some names.
Alike(e, d, names) == \A i \in Item \ names : items(e)[i] = d[i]

\* A file has these items, but for some names; what is held back it may not have.
Left(f, d, back, names) ==
    \A i \in Item \ names : f[i] = d[i] \/ (i \in back /\ f[i] = NoValue)

\* If a state is about this object, these are the object's items.
IsAt(s, d, o) == s.etag = o.etag => d = items(o.entry) /\ (s.entry = Absent <=> o.entry = Absent)

own(m) == hidden[m] \cup behind[m]
ownSoon(m) == hidden[m] \cup run[m].behind

\* A run that will put an object, and one whose items are the store's already.
planned(m) == run[m].phase \in {"read", "write"}
sending(m) == run[m].phase = "upload" \/ (planned(m) /\ run[m].ifMatch # 0)
settling(m) == run[m].phase \in {"base", "save"} \/ (planned(m) /\ run[m].ifMatch = 0)

\* What a machine has saved fits together, and it fits the object it is about.
SavedFits(m) ==
    /\ st[m] # NoState => st[m].etag > 0
    /\ st[m] # NoState /\ m \notin baseless /\ st[m].etag = store.etag =>
          IsAt(st[m], base[m], store) /\ Alike(st[m].entry, base[m], own(m))
    /\ m \notin torn \cup baseless =>
          /\ run[m].phase \notin {"base", "save"} \/ again(m) =>
                /\ st[m] = NoState => base[m] = Nothing
                /\ st[m] # NoState => Alike(st[m].entry, base[m], own(m))
          /\ run[m].phase = "idle" \/ planned(m) \/ (run[m].phase = "upload" /\ ~run[m].wrote) =>
                Left(was[m], base[m], held[m], own(m))

\* An item whose upload changes it was changed by the user, or has the machine's version.
Theirs(d, r, m) ==
    \A i \in Item : d[i] # r[i] => i \in (run[m].edited \ hidden[m]) \cup behind[m] \cup run[m].behind

\* What a run is about to write has the item that the run has seen, unless it is the
\* one both sides had.
Minds(d, m) ==
    st[m] # NoState /\ m \notin torn \cup baseless =>
        \A i \in run[m].edited \ (own(m) \cup held[m]) :
            run[m].seen[i] # base[m][i] => d[i] = run[m].seen[i]

\* What a run is about to write, to put and to save fits together.
RunFits(m) ==
    /\ run[m].phase # "idle" =>
          /\ Alike(run[m].st.entry, items(run[m].content), ownSoon(m))
          /\ Left(run[m].file, items(run[m].content), run[m].held, ownSoon(m))
    /\ planned(m) =>
          ~run[m].wrote /\ run[m].content # Absent /\ run[m].st.entry # Absent /\ Minds(run[m].file, m)
    /\ run[m].phase = "write" => \A i \in hidden[m] : run[m].file[i] = run[m].seen[i]
    /\ run[m].phase = "read" => run[m].file = items(run[m].content) /\ run[m].behind = {}
    /\ sending(m) =>
          /\ run[m].st.etag = 0 /\ run[m].st.entry # Absent /\ run[m].st.entry # Unsynced
          /\ run[m].content # Absent /\ run[m].ifMatch <= store.etag
          /\ m \notin torn \cup baseless /\ run[m].ifMatch = store.etag /\ store.entry # Absent =>
                Theirs(run[m].content.data, items(store.entry), m)
    /\ run[m].phase \in {"base", "save"} => run[m].wrote
    /\ settling(m) =>
          /\ run[m].st.etag > 0 /\ run[m].st.etag <= store.etag
          /\ st[m].etag <= run[m].st.etag
          /\ m \notin baseless \/ ~again(m) => IsAt(run[m].st, items(run[m].content), store)
          /\ m \notin baseless /\ (again(m) \/ run[m].phase = "save") =>
                base[m] = items(run[m].content)
          /\ m \notin baseless /\ again(m) => Alike(st[m].entry, base[m], own(m))

Fits == TypeOK /\ \A m \in Machine : SavedFits(m) /\ RunFits(m)

-----------------------------------------------------------------------------
(* Entries and items *)

Run == [phase : {"idle", "read", "write", "upload", "base", "save"},
        content : EntryOrAbsent, ifMatch : Nat, st : EntryState, held : SUBSET Item,
        file : Data, seen : Data, edited : SUBSET Item, behind : SUBSET Item,
        wrote : BOOLEAN]

\* What the constants are.
LEMMA Constants ==
    /\ Data = [Item -> Value \cup {NoValue}] /\ NoValue \notin Value
    /\ NoData \notin Data /\ TracksExec = {}
    /\ Nothing \in Data
BY DecideAssumption, StructuredAssumption DEF Nothing

\* A file with items is an entry, and has these items.
LEMMA FileIs ==
    ASSUME NEW d \in Data
    PROVE  /\ File(d) \in EntryOrAbsent /\ File(d) # Absent /\ File(d) # Unsynced
           /\ File(d).data = d /\ items(File(d)) = d /\ File(d).kind = "file"
<1>1. File(d).kind = "file" /\ File(d).data = d /\ File(d) \in Entry
  BY DEF File, Entry
<1>2. Absent.kind = "absent" /\ Unsynced.kind = "unsynced"
  BY DEF Absent, Unsynced
<1>3. File(d) # Absent /\ File(d) # Unsynced
  BY <1>1, <1>2
<1> HIDE DEF File
<1> QED BY <1>1, <1>3 DEF EntryOrAbsent, items

\* Every entry has items, the missing one none.
LEMMA ItemsAre ==
    ASSUME NEW e \in EntryOrAbsent
    PROVE  /\ items(e) \in Data /\ e # Unsynced
           /\ e = Absent => items(e) = Nothing
           /\ e # Absent => e.data \in Data /\ items(e) = e.data /\ e.kind # "absent"
           /\ e = Absent => e.kind = "absent"
<1>1. CASE e = Absent
  BY <1>1, Constants DEF items, Absent, Unsynced
<1>2. CASE e # Absent
  <2>1. e \in Entry
    BY <1>2 DEF EntryOrAbsent
  <2>2. e.data \in Data /\ e.kind \in {"file", "link"}
    BY <2>1 DEF Entry
  <2>3. Unsynced.kind = "unsynced"
    BY DEF Unsynced
  <2> QED BY <1>2, <2>2, <2>3 DEF items
<1> QED BY <1>1, <1>2

\* Only kind and data of an entry count (sameLocal in plan.go): the same entries have
\* the same items.
LEMMA SameItems ==
    ASSUME NEW d \in EntryOrAbsent, NEW e \in EntryOrAbsent, NEW m, SameEntry(d, e, m)
    PROVE  items(d) = items(e) /\ (d = Absent <=> e = Absent)
<1>1. d.kind = e.kind /\ d.data = e.data
  BY DEF SameEntry
<1> QED BY <1>1, ItemsAre DEF items

\* A state's entry is an entry, unless the state lists none.
LEMMA StateFields ==
    ASSUME NEW s \in EntryState
    PROVE  /\ s.etag \in Nat
           /\ s # NoState => s.entry \in EntryOrAbsent
           /\ s.etag > 0 => s # NoState
           /\ s.entry # Unsynced => s.entry \in EntryOrAbsent
BY DEF EntryState, NoState

\* A state that is not NoState.
LEMMA StateIs ==
    ASSUME NEW n \in Nat, NEW e \in EntryOrAbsent
    PROVE  /\ [etag |-> n, entry |-> e] \in EntryState /\ [etag |-> n, entry |-> e] # NoState
           /\ [etag |-> n, entry |-> e].etag = n /\ [etag |-> n, entry |-> e].entry = e
<1>1. e # Unsynced
  BY ItemsAre
<1> QED BY <1>1 DEF EntryState, NoState

-----------------------------------------------------------------------------
(* What a write makes of a file *)

\* Of a well-formed machine: what its file, its base and its rules are.
LEMMA MachineIs ==
    ASSUME TypeOK, NEW m \in Machine
    PROVE  /\ file[m] \in EntryOrAbsent /\ current(m) \in Data /\ base[m] \in Data /\ was[m] \in Data
           /\ st[m] \in EntryState /\ held[m] \subseteq Item /\ behind[m] \subseteq Item
           /\ hidden[m] \subseteq Item /\ missing[m] \subseteq Value
           /\ run[m] \in Run /\ store \in Object /\ store.etag \in Nat
           /\ store.entry \in EntryOrAbsent /\ items(store.entry) \in Data
           /\ st[m].etag \in Nat /\ st[m].etag <= store.etag
           /\ edited(m) \subseteq Item
           /\ store.etag = 0 => store = NoObject
           /\ store.entry # Absent => store.etag # 0
<1>1. /\ file[m] \in EntryOrAbsent /\ base[m] \in Data /\ was[m] \in Data
      /\ st[m] \in EntryState /\ held[m] \subseteq Item /\ behind[m] \subseteq Item
      /\ hidden[m] \subseteq Item /\ missing[m] \subseteq Value
      /\ store \in Object /\ st[m].etag <= store.etag /\ (store # NoObject => store.etag > 0)
  BY DEF TypeOK
<1>2. run[m] \in Run
  BY DEF TypeOK, Run
<1>3. current(m) \in Data
  BY <1>1, ItemsAre DEF current
<1>4. store.etag \in Nat /\ store.entry \in EntryOrAbsent
  BY <1>1 DEF Object
<1>5. items(store.entry) \in Data
  BY <1>4, ItemsAre
<1>6. edited(m) \subseteq Item
  BY DEF edited
<1>7. store.etag = 0 => store = NoObject
  BY <1>1, <1>4
<1>8. store.entry # Absent => store.etag # 0
  BY <1>7 DEF NoObject
<1> QED BY <1>1, <1>2, <1>3, <1>4, <1>5, <1>6, <1>7, <1>8, StateFields

\* What writeStructured leaves: the synced items, but for those that the machine hides or
\* holds back; and what the next scan makes of it.
LEMMA WrittenIs ==
    ASSUME TypeOK, NEW m \in Machine, NEW d \in Data
    PROVE  /\ written(m, d) \in Data /\ scanned(m, d) \in Data
           /\ keepHere(m, d) \subseteq Item /\ stayed(m, d) \subseteq Item
           /\ \A i \in Item :
                 written(m, d)[i] = IF i \in keepHere(m, d) \cup hidden[m] THEN current(m)[i] ELSE d[i]
           /\ Left(written(m, d), d, keepHere(m, d), hidden[m] \cup stayed(m, d))
           /\ Alike(File(scanned(m, d)), d, hidden[m] \cup stayed(m, d))
<1>1. current(m) \in [Item -> Value \cup {NoValue}] /\ d \in [Item -> Value \cup {NoValue}]
  BY MachineIs, Constants
<1>2. keepHere(m, d) \subseteq Item /\ stayed(m, d) \subseteq Item
  BY DEF keepHere, HeldNames, stayed
<1>3. written(m, d) = [i \in Item |-> IF i \in keepHere(m, d) \cup hidden[m] THEN current(m)[i] ELSE d[i]]
  BY DEF written, Apply
<1>4. written(m, d) \in [Item -> Value \cup {NoValue}]
  BY <1>1, <1>3
<1>5. scanned(m, d) = [i \in Item |-> IF i \in keepHere(m, d) /\ written(m, d)[i] = NoValue
                                      THEN d[i] ELSE written(m, d)[i]]
  BY DEF scanned
<1>6. scanned(m, d) \in [Item -> Value \cup {NoValue}]
  BY <1>1, <1>4, <1>5
<1>7. \A i \in Item : i \in keepHere(m, d) /\ i \notin stayed(m, d) => written(m, d)[i] \in {NoValue, d[i]}
  BY DEF stayed
<1>8. Left(written(m, d), d, keepHere(m, d), hidden[m] \cup stayed(m, d))
  BY <1>3, <1>7 DEF Left
<1>9. items(File(scanned(m, d))) = scanned(m, d)
  BY <1>6, FileIs, Constants
<1>10. Alike(File(scanned(m, d)), d, hidden[m] \cup stayed(m, d))
  BY <1>3, <1>5, <1>7, <1>9 DEF Alike
<1> QED BY <1>2, <1>3, <1>4, <1>6, <1>8, <1>10, Constants

\* What the scan gives to the planner: the file, but what is hidden or held back reads as
\* in the base.
LEMMA LocalIs ==
    ASSUME TypeOK, NEW m \in Machine
    PROVE  /\ local(m) \in EntryOrAbsent /\ (local(m) = Absent <=> file[m] = Absent)
           /\ local(m) # Absent =>
                 /\ local(m).kind = "file" /\ local(m).data \in Data /\ items(local(m)) = local(m).data
                 /\ \A i \in Item :
                       local(m).data[i] = IF i \in hidden[m] \/ (i \in held[m] /\ current(m)[i] = NoValue)
                                          THEN base[m][i] ELSE current(m)[i]
<1>1. CASE file[m] = Absent
  BY <1>1, ItemsAre, MachineIs DEF local
<1>2. CASE file[m] # Absent
  <2> PICK d : d = file[m].data
    OBVIOUS
  <2>1. d \in Data /\ current(m) = d
    BY <1>2, MachineIs, ItemsAre DEF current
  <2>2. d \in [Item -> Value \cup {NoValue}] /\ base[m] \in [Item -> Value \cup {NoValue}]
    BY <2>1, MachineIs, Constants
  <2> DEFINE l == [i \in Item |-> IF i \in hidden[m] \/ (i \in held[m] /\ d[i] = NoValue)
                                  THEN base[m][i] ELSE d[i]]
  <2>3. Pin(withHeld(d, base[m], held[m]), base[m], hidden[m]) = l
    BY DEF Pin, withHeld
  <2>4. l \in [Item -> Value \cup {NoValue}]
    BY <2>2
  <2>5. \A i \in Item : l[i] = IF i \in hidden[m] \/ (i \in held[m] /\ d[i] = NoValue)
                               THEN base[m][i] ELSE d[i]
    OBVIOUS
  <2> HIDE DEF l
  <2>6. local(m) = File(l)
    BY <1>2, <2>3 DEF local
  <2>7. l \in Data
    BY <2>4, Constants
  <2> QED BY <1>2, <2>1, <2>5, <2>6, <2>7, FileIs
<1> QED BY <1>1, <1>2

\* What is on disk and what the planner sees of it differ only where they may.
LEMMA CurrentIsLeft ==
    ASSUME TypeOK, NEW m \in Machine, NEW names, hidden[m] \subseteq names
    PROVE  Left(current(m), items(local(m)), held[m], names)
<1>1. CASE local(m) = Absent
  BY <1>1, LocalIs DEF Left, current
<1>2. CASE local(m) # Absent
  BY <1>2, LocalIs DEF Left
<1> QED BY <1>1, <1>2

-----------------------------------------------------------------------------
(* The plan *)

\* The decision on a structured file: its first sync asks nothing here.
decision(m, l, s, o) == decide(l, o.etag, s, o, FALSE, TRUE, m)

\* Nothing is decided when neither side has changed, and only then.
LEMMA DecidesNothing ==
    ASSUME NEW m, NEW l, NEW o, NEW s, NEW a, a = decision(m, l, s, o)
    PROVE  (a.kind = "none" => a = NoAction) /\ (a = NoAction => localUnchanged(l, s, m) /\ remoteUnchanged(o.etag, s))
<1> PICK same \in BOOLEAN : same = localUnchanged(l, s, m)
  BY DEF localUnchanged, SameEntry
<1> PICK seen \in BOOLEAN : seen = remoteUnchanged(o.etag, s)
  BY DEF remoteUnchanged
<1> PICK k : k = IF same THEN OnlyRemoteChanged(l, o.etag, s, o, m)
                 ELSE IF seen THEN OnlyLocalChanged(l, s, FALSE)
                 ELSE BothChanged(l, o.etag, s, o, FALSE, m)
  OBVIOUS
<1>1. k # "none"
  BY DEF OnlyRemoteChanged, OnlyLocalChanged, BothChanged
<1> PICK c : c = uploadCondition(k, o.etag, s, o)
  OBVIOUS
<1> PICK keep \in BOOLEAN : keep = (k = "download" /\ ~same /\ s = NoState)
  OBVIOUS
<1>2. ~(same /\ seen) => a = [kind |-> k, local |-> l, remote |-> o, ifMatch |-> c, keep |-> keep]
  BY DEF decide, decision
<1>3. same /\ seen => a = NoAction
  BY DEF decide, decision
<1>4. ~(same /\ seen) => a.kind = k
  <2> DEFINE b == [kind |-> k, local |-> l, remote |-> o, ifMatch |-> c, keep |-> keep]
  <2>1. ~(same /\ seen) => a = b
    BY <1>2
  <2>2. b.kind = k
    OBVIOUS
  <2> HIDE DEF b
  <2> QED BY <2>1, <2>2
<1>5. NoAction.kind = "none"
  BY DEF NoAction
<1>6. a.kind = "none" => same /\ seen
  BY <1>1, <1>4
<1>7. a = NoAction => a.kind = "none"
  BY <1>5
<1> QED BY <1>3, <1>6, <1>7

\* What a decision (decide in plan.go) is about, and what it needs to be made, when the
\* user has adopted what is there.
LEMMA DecideNeeds ==
    ASSUME NEW m, NEW l \in EntryOrAbsent, NEW o \in Object, NEW s \in EntryState,
           o.etag = 0 => o = NoObject,
           NEW a, a = decision(m, l, s, o), a.kind # "none"
    PROVE  /\ a.local = l /\ a.remote = o /\ a.keep \in BOOLEAN
           /\ a.kind \in LocalKinds \cup UploadKinds \cup OtherKinds
           /\ a.kind \in LocalKinds \cup {"record", "conflict"} =>
                 o.etag # 0 /\ (s = NoState \/ s.etag # o.etag)
           /\ a.kind = "download" =>
                 /\ o.entry # Absent
                 /\ a.keep => s = NoState /\ l # Absent
                 /\ a.keep \/ l = Absent \/ (s # NoState /\ SameEntry(l, s.entry, m))
           /\ a.keep => a.kind = "download"
           /\ a.kind = "remove" => o.entry = Absent
           /\ a.kind = "upload" =>
                 /\ l # Absent /\ a.ifMatch \in {0, o.etag}
                 /\ o.entry = Absent \/ (s # NoState /\ s.etag = o.etag)
           /\ a.kind = "upload-delete" => l = Absent /\ o.etag # 0
           /\ a.kind = "record" => SameEntry(l, o.entry, m)
           /\ a.kind = "conflict" => l # Absent /\ o.entry # Absent /\ s # NoState
<1> PICK same \in BOOLEAN : same = localUnchanged(l, s, m)
  BY DEF localUnchanged, SameEntry
<1> PICK seen \in BOOLEAN : seen = remoteUnchanged(o.etag, s)
  BY DEF remoteUnchanged
<1> DEFINE kind == IF same THEN OnlyRemoteChanged(l, o.etag, s, o, m)
                   ELSE IF seen THEN OnlyLocalChanged(l, s, FALSE)
                   ELSE BothChanged(l, o.etag, s, o, FALSE, m)
<1> PICK k : k = kind
  OBVIOUS
<1> PICK c : c = uploadCondition(k, o.etag, s, o)
  OBVIOUS
<1>1. /\ ~(same /\ seen)
      /\ a = [kind |-> k, local |-> l, remote |-> o, ifMatch |-> c,
              keep |-> k = "download" /\ ~same /\ s = NoState]
  <2>1. NoAction.kind = "none"
    BY DEF NoAction
  <2> QED BY <2>1 DEF decide, decision
<1> PICK keep \in BOOLEAN : keep = (k = "download" /\ ~same /\ s = NoState)
  OBVIOUS
<1>2. a.kind = k /\ a.local = l /\ a.remote = o /\ a.ifMatch = c /\ a.keep = keep
  <2> DEFINE b == [kind |-> k, local |-> l, remote |-> o, ifMatch |-> c, keep |-> keep]
  <2>1. a = b
    BY <1>1
  <2>2. b.kind = k /\ b.local = l /\ b.remote = o /\ b.ifMatch = c /\ b.keep = keep
    OBVIOUS
  <2> HIDE DEF b
  <2> QED BY <2>1, <2>2
<1>3. a.keep <=> k = "download" /\ ~same /\ s = NoState
  BY <1>2
<1>4. o.etag = 0 => o.entry = Absent
  BY DEF NoObject
<1>5. seen => o.etag = 0 \/ (s # NoState /\ s.etag = o.etag)
  BY DEF remoteUnchanged
<1>6. same => (s = NoState /\ l = Absent) \/ (s # NoState /\ SameEntry(l, s.entry, m))
  BY DEF localUnchanged
<1>7. l = Absent /\ s = NoState => same
  BY DEF localUnchanged
<1>8. k \in LocalKinds \cup UploadKinds \cup OtherKinds
  BY DEF OnlyRemoteChanged, OnlyLocalChanged, BothChanged, LocalKinds, UploadKinds, OtherKinds
<1>9. k \in LocalKinds \cup {"record", "conflict"} => o.etag # 0 /\ ~seen
  BY <1>1 DEF OnlyRemoteChanged, OnlyLocalChanged, BothChanged, LocalKinds
<1>10. ~seen => s = NoState \/ s.etag # o.etag \/ s.etag = 0
  BY DEF remoteUnchanged
<1>11. sameContent(Absent, o, m) <=> o.entry = Absent
  <2> PICK e \in EntryOrAbsent : e = o.entry
    BY DEF Object
  <2>1. e.kind = "absent" => e = Absent
    BY ItemsAre
  <2> QED BY <2>1 DEF sameContent, SameEntry, Absent
<1>12. k = "download" => o.entry # Absent
  BY <1>11 DEF OnlyRemoteChanged, OnlyLocalChanged, BothChanged
<1>13. k = "download" /\ ~same /\ s # NoState => l = Absent
  BY DEF OnlyRemoteChanged, OnlyLocalChanged, BothChanged
<1>14. k = "remove" => o.entry = Absent
  BY DEF OnlyRemoteChanged, OnlyLocalChanged, BothChanged
<1>15. k = "upload" => o.entry = Absent \/ seen
  BY <1>4 DEF OnlyRemoteChanged, OnlyLocalChanged, BothChanged
<1>16. k = "upload" /\ ~same => l # Absent
  BY <1>7, <1>11 DEF OnlyRemoteChanged, OnlyLocalChanged, BothChanged, sameContent
<1>17. k = "upload" /\ same => o.etag = 0 /\ s.entry # Absent
  BY DEF OnlyRemoteChanged, OnlyLocalChanged, BothChanged
<1>18. s = NoState /\ o.etag = 0 => seen
  BY DEF remoteUnchanged
<1>19. s # NoState /\ SameEntry(Absent, s.entry, m) => s.entry = Absent
  BY StateFields, ItemsAre DEF SameEntry, Absent
<1>20. k = "upload" => l # Absent
  BY <1>1, <1>6, <1>16, <1>17, <1>18, <1>19
<1>21. k = "upload" => c \in {0, o.etag}
  <2>1. remoteUnchanged(o.etag, s) /\ o.etag # 0 => s.etag = o.etag
    BY DEF remoteUnchanged
  <2>2. CASE k = "upload"
    BY <2>1, <2>2 DEF uploadCondition, UploadKinds
  <2> QED BY <2>2
<1>22. k = "upload-delete" => l = Absent /\ seen /\ s # NoState
  BY DEF OnlyRemoteChanged, OnlyLocalChanged, BothChanged
<1>23. k = "upload-delete" => o.etag # 0
  BY <1>22 DEF remoteUnchanged
<1>24. k = "record" => SameEntry(l, o.entry, m)
  BY DEF OnlyRemoteChanged, OnlyLocalChanged, BothChanged, sameContent
<1>25. k = "conflict" => l # Absent /\ o.entry # Absent /\ s # NoState
  BY <1>11 DEF OnlyRemoteChanged, OnlyLocalChanged, BothChanged
<1>26. s.etag = 0 => s.etag # o.etag \/ o.etag = 0
  OBVIOUS
<1> HIDE DEF kind
<1>27. k \in LocalKinds \cup {"record", "conflict"} => o.etag # 0 /\ (s = NoState \/ s.etag # o.etag)
  BY <1>9, <1>10, <1>26
<1>28. k = "download" =>
         /\ o.entry # Absent
         /\ a.keep => s = NoState /\ l # Absent
         /\ a.keep \/ l = Absent \/ (s # NoState /\ SameEntry(l, s.entry, m))
  BY <1>3, <1>6, <1>7, <1>12, <1>13
<1>29. k = "upload" => /\ l # Absent /\ c \in {0, o.etag}
                       /\ o.entry = Absent \/ (s # NoState /\ s.etag = o.etag)
  BY <1>4, <1>5, <1>15, <1>20, <1>21
<1> QED
  BY <1>2, <1>3, <1>8, <1>14, <1>22, <1>23, <1>24, <1>25, <1>27, <1>28, <1>29

\* This machine's changes stay: where l differs from b, x has l's item.
KeepsOwn(x, l, b) == \A i \in Item : l[i] # b[i] => x[i] = l[i]

\* Only this machine's changes are sent: where x differs from r, it has l's item, which is
\* not b's.
SendsOwn(x, l, r, b) == \A i \in Item : x[i] # r[i] => x[i] = l[i] /\ l[i] # b[i]

\* Merging three ways keeps what this side changed and takes what only the other changed;
\* without conflicts nobody's change is lost (Merge3).
LEMMA MergeKeeps ==
    ASSUME NEW b \in Data, NEW l \in Data, NEW r \in Data
    PROVE  /\ Merge3(b, l, r, FALSE) \in Data
           /\ KeepsOwn(Merge3(b, l, r, FALSE), l, b) /\ SendsOwn(Merge3(b, l, r, FALSE), l, r, b)
           /\ conflicts(b, l, r) = {} => KeepsOwn(Merge3(b, l, r, FALSE), r, b)
<1> DEFINE x == Merge3(b, l, r, FALSE)
<1>1. \A i \in Item : x[i] = IF l[i] = b[i] THEN r[i] ELSE l[i]
  BY DEF Merge3, resolve
<1>2. x \in [Item -> Value \cup {NoValue}]
  BY Constants DEF Merge3, resolve
<1>3. conflicts(b, l, r) = {} => \A i \in Item : l[i] = r[i] \/ l[i] = b[i] \/ r[i] = b[i]
  BY DEF conflicts
<1> HIDE DEF x
<1>4. KeepsOwn(x, l, b) /\ SendsOwn(x, l, r, b)
  BY <1>1 DEF KeepsOwn, SendsOwn
<1>5. conflicts(b, l, r) = {} => KeepsOwn(x, r, b)
  BY <1>1, <1>3 DEF KeepsOwn
<1>6. x \in Data
  BY <1>2, Constants
<1> QED BY <1>4, <1>5, <1>6 DEF x

\* The first merge adds what only this side has.
LEMMA FirstMergeAdds ==
    ASSUME NEW l \in Data, NEW r \in Data
    PROVE  /\ Merge3(Nothing, l, r, TRUE) \in Data
           /\ SendsOwn(Merge3(Nothing, l, r, TRUE), l, r, Nothing)
<1> DEFINE x == Merge3(Nothing, l, r, TRUE)
<1>1. \A i \in Item : Nothing[i] = NoValue
  BY DEF Nothing
<1>2. \A i \in Item : x[i] = IF l[i] = NoValue \/ r[i] # NoValue THEN r[i] ELSE l[i]
  BY <1>1 DEF Merge3, resolve
<1>3. x \in [Item -> Value \cup {NoValue}]
  BY Constants DEF Merge3, resolve
<1> HIDE DEF x
<1>4. SendsOwn(x, l, r, Nothing)
  BY <1>1, <1>2 DEF SendsOwn
<1>5. x \in Data
  BY <1>3, Constants
<1> QED BY <1>4, <1>5 DEF x

\* A merge is tried of a conflict and of a first sync; else the decision stands.
Tried(a) == a.local # Absent /\ a.remote.entry # Absent /\ (a.kind = "conflict" \/ a.keep)

\* mergeStructured leaves a decision that is not about a merge, and those whose
\* changes meet in an item.
LEMMA Untried ==
    ASSUME NEW a, NEW b,
           ~Tried(a) \/ (~a.keep /\ conflicts(b, a.local.data, a.remote.entry.data) # {})
    PROVE  mergeStructured(a, b) = withMerged(a, Nothing)
BY DEF mergeStructured, Tried

\* What a merge gives: what it writes has both sides' items, and it is a download or an
\* upload when it is one of the sides.
LEMMA MergeGives ==
    ASSUME NEW a, NEW b \in Data, NEW l, NEW r, NEW e, Tried(a), a.local.data = l, l \in Data,
           a.remote.entry.data = r, r \in Data, a.remote.etag = e,
           a.keep \in BOOLEAN, a.keep \/ conflicts(b, l, r) = {}
    PROVE  LET c == mergeStructured(a, b) IN
           /\ c.kind \in {"download", "upload", "merge"}
           /\ c.local = a.local /\ c.remote = a.remote /\ c.ifMatch \in {0, e} /\ c.merged \in Data
           /\ SendsOwn(c.merged, l, r, IF a.keep THEN Nothing ELSE b)
           /\ ~a.keep => KeepsOwn(c.merged, l, b)
           /\ c.kind = "download" => c.merged = r
           /\ c.kind = "upload" => c.merged = l
           /\ c.kind = "merge" => c.ifMatch = e
<1> PICK x : x = Merge3(IF a.keep THEN Nothing ELSE b, l, r, a.keep)
  OBVIOUS
<1> DEFINE c == mergeStructured(a, b)
<1>1. c = [kind |-> IF x = r THEN "download" ELSE IF x = l THEN "upload" ELSE "merge",
           local |-> a.local, remote |-> a.remote, keep |-> a.keep, merged |-> x,
           ifMatch |-> IF x = r THEN 0 ELSE e]
  BY DEF mergeStructured, Tried
<1>2. /\ c.local = a.local /\ c.remote = a.remote /\ c.merged = x
      /\ c.kind = IF x = r THEN "download" ELSE IF x = l THEN "upload" ELSE "merge"
      /\ c.ifMatch = IF x = r THEN 0 ELSE e
  BY <1>1
<1> HIDE DEF c
<1>3. /\ c.kind \in {"download", "upload", "merge"} /\ c.ifMatch \in {0, e}
      /\ c.kind = "download" => x = r
      /\ c.kind = "upload" => x = l
      /\ c.kind = "merge" => c.ifMatch = e
  BY <1>2
<1>4. x \in Data /\ SendsOwn(x, l, r, IF a.keep THEN Nothing ELSE b) /\ (~a.keep => KeepsOwn(x, l, b))
  <2>1. CASE a.keep = TRUE
    BY <2>1, FirstMergeAdds
  <2>2. CASE a.keep = FALSE
    BY <2>2, MergeKeeps
  <2> QED BY <2>1, <2>2
<1> QED BY <1>2, <1>3, <1>4 DEF c

\* What a download may be about: the object, which the user's changes do not meet, or the
\* items of the last sync once more.
NewItems(m, a) ==
    /\ a.remote = store /\ store.etag # 0 /\ store.entry # Absent
    /\ \/ local(m) = Absent \/ st[m] = NoState
       \/ SameEntry(local(m), st[m].entry, m)
       \/ KeepsOwn(store.entry.data, local(m).data, base[m])
SameItemsAgain(m, a) ==
    /\ a.remote.etag = st[m].etag /\ a.remote.entry = File(base[m])
    /\ st[m] # NoState /\ st[m].etag = store.etag /\ store.etag # 0
    /\ local(m) # Absent /\ SameEntry(local(m), st[m].entry, m)

\* The items that count as those of the last sync.
from(m) == IF st[m] = NoState THEN Nothing ELSE base[m]

\* What is planned, and why it may be.
PlanFits(m, a) ==
    /\ a.kind = "download" => NewItems(m, a) \/ SameItemsAgain(m, a)
    /\ a.kind = "merge" =>
          /\ local(m) # Absent /\ store.entry # Absent /\ store.etag # 0
          /\ a.merged \in Data /\ a.ifMatch = store.etag
          /\ st[m] = NoState \/ KeepsOwn(a.merged, local(m).data, base[m])
          /\ SendsOwn(a.merged, local(m).data, store.entry.data, from(m))
    /\ a.kind = "upload" =>
          /\ local(m) # Absent /\ a.local = local(m)
          /\ a.ifMatch \in {0, store.etag}
          /\ \/ store.entry = Absent
             \/ st[m] # NoState /\ st[m].etag = store.etag
             \/ SendsOwn(local(m).data, local(m).data, store.entry.data, from(m))
    /\ a.kind # "upload-delete"
    /\ a.kind = "record" =>
          /\ a.local = local(m) /\ a.remote = store /\ store.etag # 0
          /\ SameEntry(local(m), store.entry, m)
          /\ st[m] = NoState \/ st[m].etag # store.etag
    /\ a.kind = "none" =>
          /\ \/ st[m] = NoState /\ local(m) = Absent /\ store.etag = 0
             \/ st[m] # NoState /\ st[m].etag = store.etag /\ SameEntry(local(m), st[m].entry, m)
          /\ local(m) = Absent \/ m \notin based \/ released(m) = {}

\* No decision means that neither side has changed.
LEMMA QuietMeans ==
    ASSUME TypeOK, NEW m \in Machine, NEW l \in EntryOrAbsent,
           NEW d, d = decision(m, l, st[m], store), d.kind = "none"
    PROVE  \/ st[m] = NoState /\ l = Absent /\ store.etag = 0
           \/ /\ st[m] # NoState /\ st[m].etag = store.etag /\ store.etag # 0
              /\ SameEntry(l, st[m].entry, m)
<1>1. localUnchanged(l, st[m], m) /\ remoteUnchanged(store.etag, st[m])
  BY DecidesNothing
<1> QED BY <1>1 DEF localUnchanged, remoteUnchanged

\* What protectStructured makes of a decision: no deletion.
LEMMA Protects ==
    ASSUME NEW k, NEW l, NEW r, NEW n, NEW p \in BOOLEAN, NEW x,
           NEW a, a = protectStructured([kind |-> k, local |-> l, remote |-> r,
                                         ifMatch |-> n, keep |-> p, merged |-> x])
    PROVE  /\ a.local = l /\ a.remote = r
           /\ k = "upload-delete" => a.kind = IF r.entry = Absent THEN "forget" ELSE "download"
           /\ k = "remove" /\ l # Absent => a.kind = "upload" /\ a.ifMatch = r.etag
           /\ k # "upload-delete" /\ ~(k = "remove" /\ l # Absent) => a.kind = k /\ a.ifMatch = n
<1>1. CASE k = "upload-delete" /\ r.entry = Absent
  <2> DEFINE b == [kind |-> "forget", local |-> l, remote |-> r, ifMatch |-> n, keep |-> p, merged |-> x]
  <2>1. a = b
    BY <1>1 DEF protectStructured
  <2>2. b.kind = "forget" /\ b.local = l /\ b.remote = r
    OBVIOUS
  <2> HIDE DEF b
  <2> QED BY <1>1, <2>1, <2>2
<1>2. CASE k = "upload-delete" /\ r.entry # Absent
  <2> DEFINE b == [kind |-> "download", local |-> l, remote |-> r, ifMatch |-> n, keep |-> p, merged |-> x]
  <2>1. a = b
    BY <1>2 DEF protectStructured
  <2>2. b.kind = "download" /\ b.local = l /\ b.remote = r
    OBVIOUS
  <2> HIDE DEF b
  <2> QED BY <1>2, <2>1, <2>2
<1>3. CASE k = "remove" /\ l # Absent
  <2> DEFINE b == [kind |-> "upload", local |-> l, remote |-> r, ifMatch |-> r.etag, keep |-> p, merged |-> x]
  <2>1. a = b
    BY <1>3 DEF protectStructured
  <2>2. b.kind = "upload" /\ b.local = l /\ b.remote = r /\ b.ifMatch = r.etag
    OBVIOUS
  <2> HIDE DEF b
  <2> QED BY <1>3, <2>1, <2>2
<1>4. CASE k # "upload-delete" /\ ~(k = "remove" /\ l # Absent)
  <2> DEFINE b == [kind |-> k, local |-> l, remote |-> r, ifMatch |-> n, keep |-> p, merged |-> x]
  <2>1. a = b
    BY <1>4 DEF protectStructured
  <2>2. b.kind = k /\ b.local = l /\ b.remote = r /\ b.ifMatch = n
    OBVIOUS
  <2> HIDE DEF b
  <2> QED BY <1>4, <2>1, <2>2
<1> QED BY <1>1, <1>2, <1>3, <1>4

\* What is planned may be done: an upload or a merge sends only this machine's changes, a
\* download meets none, and nothing planned means that both sides are as they were.
LEMMA PlanGives ==
    ASSUME TypeOK, NEW m \in Machine, NEW a, a = plan(m)
    PROVE  PlanFits(m, a)
<1>0. /\ st[m] \in EntryState /\ store \in Object /\ (store.etag = 0 => store = NoObject)
      /\ local(m) \in EntryOrAbsent /\ base[m] \in Data
      /\ store.entry # Absent => store.etag # 0
      /\ store.entry \in EntryOrAbsent /\ store.etag \in Nat
  BY MachineIs, LocalIs
<1> PICK l \in EntryOrAbsent : l = local(m)
  BY <1>0
<1> PICK d : d = decision(m, l, st[m], store)
  OBVIOUS
<1>1. a = IF d.kind = "none" THEN release(m) ELSE protectStructured(mergeStructured(d, base[m]))
  BY DEF plan, decision
<1>2. CASE d.kind = "none"
  <2>1. \/ st[m] = NoState /\ l = Absent /\ store.etag = 0
        \/ /\ st[m] # NoState /\ st[m].etag = store.etag /\ store.etag # 0
           /\ SameEntry(l, st[m].entry, m)
    BY <1>2, QuietMeans
  <2>2. CASE l = Absent \/ m \notin based \/ released(m) = {}
    <3>1. a.kind = "none"
      BY <1>1, <1>2, <2>2 DEF release, withMerged, NoAction
    <3> QED BY <2>1, <2>2, <3>1 DEF PlanFits
  <2>3. CASE l # Absent /\ m \in based /\ released(m) # {}
    <3> DEFINE r == [etag |-> st[m].etag, entry |-> File(base[m]), writer |-> Nobody]
    <3>1. a = [kind |-> "download", local |-> l, ifMatch |-> 0, keep |-> FALSE, merged |-> Nothing, remote |-> r]
      BY <1>1, <1>2, <2>3 DEF release
    <3>2. r.etag = st[m].etag /\ r.entry = File(base[m])
      OBVIOUS
    <3> HIDE DEF r
    <3>3. a.kind = "download" /\ a.remote = r
      BY <3>1
    <3>4. SameItemsAgain(m, a)
      BY <2>1, <2>3, <3>2, <3>3 DEF SameItemsAgain
    <3> QED BY <3>3, <3>4 DEF PlanFits
  <2> QED BY <2>2, <2>3
<1>3. CASE d.kind # "none"
  <2> PICK c : c = mergeStructured(d, base[m])
    OBVIOUS
  <2>0. a = protectStructured(c)
    BY <1>1, <1>3
  <2>1. /\ d.local = l /\ d.remote = store /\ d.keep \in BOOLEAN
        /\ d.kind \in LocalKinds \cup UploadKinds \cup OtherKinds
        /\ d.kind \in LocalKinds \cup {"record", "conflict"} =>
              store.etag # 0 /\ (st[m] = NoState \/ st[m].etag # store.etag)
        /\ d.kind = "download" =>
              /\ store.entry # Absent
              /\ d.keep => st[m] = NoState /\ l # Absent
              /\ d.keep \/ l = Absent \/ (st[m] # NoState /\ SameEntry(l, st[m].entry, m))
        /\ d.keep => d.kind = "download"
        /\ d.kind = "remove" => store.entry = Absent
        /\ d.kind = "upload" =>
              /\ l # Absent /\ d.ifMatch \in {0, store.etag}
              /\ store.entry = Absent \/ (st[m] # NoState /\ st[m].etag = store.etag)
        /\ d.kind = "upload-delete" => l = Absent /\ store.etag # 0
        /\ d.kind = "record" => SameEntry(l, store.entry, m)
        /\ d.kind = "conflict" => l # Absent /\ store.entry # Absent /\ st[m] # NoState
    BY <1>0, <1>3, DecideNeeds
  <2>2. CASE ~Tried(d) \/ (~d.keep /\ conflicts(base[m], d.local.data, d.remote.entry.data) # {})
    <3>1. c = [kind |-> d.kind, local |-> l, remote |-> store, ifMatch |-> d.ifMatch,
               keep |-> d.keep, merged |-> Nothing]
      BY <2>1, <2>2, Untried DEF withMerged
    <3>2. /\ a.local = l /\ a.remote = store
          /\ d.kind = "upload-delete" => a.kind = IF store.entry = Absent THEN "forget" ELSE "download"
          /\ d.kind = "remove" /\ l # Absent => a.kind = "upload" /\ a.ifMatch = store.etag
          /\ d.kind # "upload-delete" /\ ~(d.kind = "remove" /\ l # Absent) =>
                a.kind = d.kind /\ a.ifMatch = d.ifMatch
      BY <2>0, <2>1, <3>1, Protects
    <3>3. ~d.keep
      BY <2>1, <2>2 DEF Tried
    <3>4. CASE d.kind = "upload-delete"
      <4>1. a.kind \in {"forget", "download"} /\ (a.kind = "download" => store.entry # Absent)
        BY <3>2, <3>4
      <4>2. a.kind = "download" => NewItems(m, a)
        BY <2>1, <3>2, <3>4, <4>1 DEF NewItems
      <4> QED BY <4>1, <4>2 DEF PlanFits
    <3>5. CASE d.kind = "remove" /\ l # Absent
      BY <2>1, <3>2, <3>5 DEF PlanFits
    <3>6. CASE d.kind = "remove" /\ l = Absent
      BY <3>2, <3>6 DEF PlanFits
    <3>7. CASE d.kind = "download"
      <4>1. NewItems(m, a)
        BY <2>1, <3>2, <3>3, <3>7 DEF NewItems, LocalKinds
      <4> QED BY <3>2, <3>7, <4>1 DEF PlanFits
    <3>8. CASE d.kind = "upload"
      BY <2>1, <3>2, <3>8 DEF PlanFits
    <3>9. CASE d.kind = "record"
      BY <2>1, <3>2, <3>9 DEF PlanFits
    <3>10. CASE d.kind \in {"forget", "conflict"}
      BY <3>2, <3>10 DEF PlanFits
    <3> QED BY <2>1, <3>4, <3>5, <3>6, <3>7, <3>8, <3>9, <3>10 DEF LocalKinds, UploadKinds, OtherKinds
  <2>3. CASE Tried(d) /\ (d.keep \/ conflicts(base[m], d.local.data, d.remote.entry.data) = {})
    <3>0. l # Absent /\ store.entry # Absent /\ (d.kind = "conflict" \/ d.keep)
      BY <2>1, <2>3 DEF Tried
    <3>1. l.data \in Data /\ store.entry.data \in Data
      BY <1>0, <3>0, ItemsAre
    <3> PICK p \in BOOLEAN : p = d.keep
      BY <2>1
    <3>2. /\ c.kind \in {"download", "upload", "merge"}
          /\ c.local = d.local /\ c.remote = d.remote /\ c.ifMatch \in {0, store.etag} /\ c.merged \in Data
          /\ SendsOwn(c.merged, l.data, store.entry.data, IF d.keep THEN Nothing ELSE base[m])
          /\ ~d.keep => KeepsOwn(c.merged, l.data, base[m])
          /\ c.kind = "download" => c.merged = store.entry.data
          /\ c.kind = "upload" => c.merged = l.data
          /\ c.kind = "merge" => c.ifMatch = store.etag
      <4>1. d.local.data = l.data /\ d.remote.entry.data = store.entry.data /\ d.remote.etag = store.etag
        BY <2>1
      <4> QED BY <1>0, <2>1, <2>3, <3>1, <4>1, MergeGives
    <3>3. a = c
      BY <2>0, <3>2 DEF protectStructured
    <3>4. d.keep => st[m] = NoState
      BY <2>1
    <3>5. ~d.keep => st[m] # NoState
      BY <2>1, <3>0
    <3>6. (IF d.keep THEN Nothing ELSE base[m]) = from(m)
      BY <3>4, <3>5 DEF from
    <3>7. SendsOwn(c.merged, l.data, store.entry.data, from(m))
      BY <3>2, <3>6
    <3>8. store.etag # 0
      BY <1>0, <3>0
    <3>9. CASE c.kind = "download"
      <4>1. st[m] = NoState \/ KeepsOwn(store.entry.data, local(m).data, base[m])
        BY <3>2, <3>4, <3>9
      <4>2. a.remote = store
        BY <2>1, <3>2, <3>3
      <4>3. NewItems(m, a)
        BY <3>0, <3>8, <4>1, <4>2 DEF NewItems
      <4> QED BY <3>3, <3>9, <4>3 DEF PlanFits
    <3>10. CASE c.kind = "upload"
      <4>1. SendsOwn(local(m).data, local(m).data, store.entry.data, from(m))
        BY <3>2, <3>7, <3>10
      <4> QED BY <2>1, <3>0, <3>2, <3>3, <3>10, <4>1 DEF PlanFits
    <3>11. CASE c.kind = "merge"
      <4>1. st[m] = NoState \/ KeepsOwn(a.merged, local(m).data, base[m])
        BY <3>2, <3>3, <3>4
      <4> QED BY <3>0, <3>2, <3>3, <3>7, <3>8, <3>11, <4>1 DEF PlanFits
    <3> QED BY <3>2, <3>9, <3>10, <3>11
  <2> QED BY <2>1, <2>2, <2>3
<1> QED BY <1>2, <1>3

-----------------------------------------------------------------------------
(* The steps *)

\* A machine that a step leaves alone stays as it was, also when the object is replaced.
LEMMA LeftAlone ==
    ASSUME Fits, NEW n \in Machine,
           run'[n] = run[n], st'[n] = st[n], base'[n] = base[n], held'[n] = held[n],
           behind'[n] = behind[n], was'[n] = was[n], hidden' = hidden,
           n \in torn' <=> n \in torn, n \in baseless' <=> n \in baseless,
           store' = store \/ (store'.etag \in Nat /\ store'.etag > store.etag)
    PROVE  SavedFits(n)' /\ RunFits(n)'
<1>0. TypeOK /\ SavedFits(n) /\ RunFits(n)
  BY DEF Fits
<1>1. st[n].etag \in Nat /\ store.etag \in Nat /\ st[n].etag <= store.etag
      /\ run[n] \in Run /\ run[n].ifMatch \in Nat /\ run[n].st.etag \in Nat
  BY <1>0, MachineIs, StateFields DEF Run
<1>2. /\ own(n)' = own(n) /\ ownSoon(n)' = ownSoon(n) /\ (again(n)' <=> again(n))
      /\ (planned(n)' <=> planned(n)) /\ (sending(n)' <=> sending(n)) /\ (settling(n)' <=> settling(n))
      /\ Minds(run[n].file, n)' <=> Minds(run[n].file, n)
  BY DEF own, ownSoon, again, planned, sending, settling, Minds
<1>3. CASE store' = store
  <2>1. SavedFits(n)'
    BY <1>0, <1>2, <1>3 DEF SavedFits
  <2>2. RunFits(n)'
    BY <1>0, <1>2, <1>3 DEF RunFits, Theirs
  <2> QED BY <2>1, <2>2
<1>4. CASE store'.etag \in Nat /\ store'.etag > store.etag
  <2>1. st'[n].etag # store'.etag
    BY <1>1, <1>4
  <2>2. SavedFits(n)'
    BY <1>0, <1>2, <2>1 DEF SavedFits
  <2>3. sending(n) =>
          /\ run'[n].ifMatch <= store'.etag
          /\ run'[n].ifMatch # store'.etag
    BY <1>0, <1>1, <1>4 DEF RunFits
  <2>4. settling(n) =>
          /\ run'[n].st.etag <= store'.etag
          /\ IsAt(run[n].st, items(run[n].content), store)'
    <3>1. settling(n) => run'[n].st.etag <= store'.etag /\ run'[n].st.etag # store'.etag
      BY <1>0, <1>1, <1>4 DEF RunFits
    <3> QED BY <3>1 DEF IsAt
  <2>5. RunFits(n)'
    BY <1>0, <1>2, <2>3, <2>4 DEF RunFits
  <2> QED BY <2>2, <2>5
<1> QED BY <1>3, <1>4

\* The next phase of a run is noted, and only that machine's.
LEMMA RunIs ==
    ASSUME TypeOK, NEW m \in Machine, NEW phase \in {"read", "upload", "base"}, NEW now \in Data,
           NEW content \in EntryOrAbsent, NEW n \in Nat, NEW s \in EntryState,
           NEW names \in SUBSET Item, NEW left \in SUBSET Item,
           Continue(m, phase, now, content, n, s, names, left)
    PROVE  /\ run' \in [Machine -> Run]
           /\ \A k \in Machine : k # m => run'[k] = run[k]
           /\ run'[m].phase = phase /\ run'[m].content = content /\ run'[m].ifMatch = n
           /\ run'[m].st = s /\ run'[m].held = names /\ run'[m].file = now
           /\ run'[m].seen = current(m) /\ run'[m].edited = edited(m) /\ run'[m].behind = left
           /\ run'[m].wrote <=> phase = "base"
<1> PICK e : e = edited(m)
  OBVIOUS
<1> PICK w \in BOOLEAN : w = (phase = "base")
  OBVIOUS
<1> PICK c \in Data : c = current(m)
  BY MachineIs
<1> DEFINE r == [phase |-> phase, content |-> content, ifMatch |-> n, st |-> s, held |-> names,
                 file |-> now, seen |-> c, edited |-> e, behind |-> left, wrote |-> w]
<1>1. run' = [run EXCEPT ![m] = r]
  BY DEF Continue
<1>2. e \in SUBSET Item
  BY MachineIs
<1>3. r \in Run
  BY <1>2 DEF Run
<1>4. /\ r.phase = phase /\ r.content = content /\ r.ifMatch = n /\ r.st = s /\ r.held = names
      /\ r.file = now /\ r.seen = c /\ r.edited = e /\ r.behind = left /\ r.wrote = w
  OBVIOUS
<1>5. run \in [Machine -> Run]
  BY DEF TypeOK, Run
<1> HIDE DEF r
<1>6. run'[m] = r /\ \A k \in Machine : k # m => run'[k] = run[k]
  BY <1>1, <1>5
<1>7. run' \in [Machine -> Run]
  BY <1>1, <1>3, <1>5
<1> QED BY <1>4, <1>6, <1>7

\* What the planner sees as changed on this machine, the user changed there, or the
\* machine's own version had stayed.
LEMMA ChangedHere ==
    ASSUME Fits, NEW m \in Machine, run[m].phase = "idle", m \notin torn \cup baseless,
           local(m) # Absent, NEW i \in Item, local(m).data[i] # from(m)[i]
    PROVE  i \in (edited(m) \ hidden[m]) \cup behind[m]
<1>0. TypeOK /\ SavedFits(m)
  BY DEF Fits
<1>1. from(m) = base[m]
  BY <1>0 DEF SavedFits, from
<1>2. local(m).data[i] = IF i \in hidden[m] \/ (i \in held[m] /\ current(m)[i] = NoValue)
                         THEN base[m][i] ELSE current(m)[i]
  BY <1>0, LocalIs
<1>3. i \notin hidden[m] /\ ~(i \in held[m] /\ current(m)[i] = NoValue) /\ current(m)[i] # base[m][i]
  BY <1>1, <1>2
<1>4. Left(was[m], base[m], held[m], own(m))
  BY <1>0 DEF SavedFits
<1>5. i \in own(m) \/ was[m][i] = base[m][i] \/ (i \in held[m] /\ was[m][i] = NoValue)
  BY <1>4 DEF Left
<1>6. i \in behind[m] \/ current(m)[i] # was[m][i]
  BY <1>3, <1>5 DEF own
<1>7. file[m] # Absent /\ current(m) = file[m].data
  BY <1>0, LocalIs DEF current, items
<1> QED BY <1>3, <1>6, <1>7 DEF edited

\* What a write counts as synced, when it has changed nothing, is what was synced before.
LEMMA NothingWritten ==
    ASSUME TypeOK, NEW m \in Machine, file[m] # Absent
    PROVE  \A i \in Item : Apply(was[m], current(m), edited(m))[i] = was[m][i]
<1>1. current(m) = file[m].data
  BY DEF current, items
<1> QED BY <1>1 DEF Apply, edited

\* A download is of the object, or of what the base has already when that is the object's
\* too: its base and its state will fit the object (NewItems, SameItemsAgain).
LEMMA DownloadIsAt ==
    ASSUME Fits, NEW m \in Machine, NEW a, a = plan(m), a.kind = "download"
    PROVE  /\ (a.remote.entry.data = items(store.entry) /\ store.entry # Absent) \/ SameItemsAgain(m, a)
           /\ a.remote.entry.data \in Data
           /\ a.remote.etag = store.etag /\ store.etag # 0
           /\ m \notin baseless => a.remote.entry.data = items(store.entry) /\ store.entry # Absent
           /\ m \notin baseless /\ st[m].etag = a.remote.etag =>
                 a.remote.entry.data = base[m] /\ Alike(st[m].entry, base[m], own(m))
<1>0. TypeOK /\ SavedFits(m)
  BY DEF Fits
<1>1. NewItems(m, a) \/ SameItemsAgain(m, a)
  BY <1>0, PlanGives DEF PlanFits
<1>2. st[m].etag # 0 => st[m] # NoState
  BY DEF NoState
<1>3. m \notin baseless /\ st[m].etag = store.etag /\ store.etag # 0 =>
        /\ base[m] = items(store.entry) /\ (st[m].entry = Absent <=> store.entry = Absent)
        /\ Alike(st[m].entry, base[m], own(m))
  BY <1>0, <1>2 DEF SavedFits, IsAt
<1>4. CASE NewItems(m, a)
  <2>1. a.remote = store /\ store.etag # 0 /\ store.entry # Absent
    BY <1>4 DEF NewItems
  <2>2. store.entry.data = items(store.entry) /\ items(store.entry) \in Data
    BY <1>0, <2>1, MachineIs, ItemsAre
  <2> QED BY <1>3, <2>1, <2>2
<1>5. CASE SameItemsAgain(m, a)
  <2>1. /\ a.remote.etag = st[m].etag /\ a.remote.entry = File(base[m])
        /\ st[m] # NoState /\ st[m].etag = store.etag /\ store.etag # 0
        /\ local(m) # Absent /\ SameEntry(local(m), st[m].entry, m)
    BY <1>5 DEF SameItemsAgain
  <2>2. a.remote.entry.data = base[m] /\ base[m] \in Data
    BY <1>0, <2>1, MachineIs, FileIs
  <2>3. st[m].entry # Absent
    <3>1. st[m].entry \in EntryOrAbsent /\ local(m) \in EntryOrAbsent
      BY <1>0, <2>1, MachineIs, StateFields, LocalIs
    <3> QED BY <2>1, <3>1, SameItems
  <2> QED BY <1>3, <1>5, <2>1, <2>2, <2>3
<1> QED BY <1>1, <1>4, <1>5

\* What an idle machine has saved still fits when its run has begun.
LEMMA BeginFits ==
    ASSUME Fits, NEW m \in Machine, run[m].phase = "idle",
           UNCHANGED <<base, st, held, store, hidden, was, torn, baseless, behind>>
    PROVE  SavedFits(m)'
<1>0. SavedFits(m)
  BY DEF Fits
<1>1. own(m)' = own(m)
  BY DEF own
<1> QED BY <1>0, <1>1 DEF SavedFits

\* What is to be written minds what the run has seen: this machine's changes are in it,
\* or there are none.
LEMMA PlanMinds ==
    ASSUME Fits, NEW m \in Machine, run[m].phase = "idle", NEW d \in Data,
           \/ st[m] = NoState \/ local(m) = Absent
           \/ SameEntry(local(m), st[m].entry, m)
           \/ KeepsOwn(d, local(m).data, base[m]),
           st[m] # NoState, m \notin torn \cup baseless,
           NEW i \in edited(m) \ (own(m) \cup held[m]), current(m)[i] # base[m][i]
    PROVE  d[i] = current(m)[i]
<1>0. TypeOK /\ SavedFits(m)
  BY DEF Fits
<1>1. i \in Item /\ i \notin hidden[m] /\ i \notin held[m]
  BY <1>0, MachineIs DEF own
<1>2. local(m) # Absent
  BY <1>0, LocalIs DEF edited
<1>3. local(m) \in EntryOrAbsent /\ local(m).data[i] = current(m)[i] /\ items(local(m)) = local(m).data
  BY <1>0, <1>1, <1>2, LocalIs
<1>4. CASE KeepsOwn(d, local(m).data, base[m])
  BY <1>1, <1>3, <1>4 DEF KeepsOwn
<1>5. CASE SameEntry(local(m), st[m].entry, m)
  <2>1. items(st[m].entry) = items(local(m))
    BY <1>0, <1>3, <1>5, SameItems, MachineIs, StateFields
  <2>2. Alike(st[m].entry, base[m], own(m))
    BY <1>0 DEF SavedFits
  <2> QED BY <1>1, <1>3, <2>1, <2>2 DEF Alike
<1> QED BY <1>2, <1>4, <1>5

\* What a sync that will write the file has planned.
LEMMA FetchIs ==
    ASSUME Fits, NEW m \in Machine, run[m].phase = "idle",
           NEW d \in Data, NEW n \in Nat, NEW e \in Nat, Fetch(m, d, n, e),
           \/ st[m] = NoState \/ local(m) = Absent
           \/ SameEntry(local(m), st[m].entry, m)
           \/ KeepsOwn(d, local(m).data, base[m])
    PROVE  /\ TypeOK' /\ SavedFits(m)' /\ \A j \in Machine : j # m => SavedFits(j)' /\ RunFits(j)'
           /\ run'[m].phase = "read" /\ run'[m].ifMatch = n /\ run'[m].st.etag = e
           /\ run'[m].st.entry = File(d) /\ run'[m].content = File(d) /\ run'[m].file = d
           /\ run'[m].edited = edited(m) /\ run'[m].behind = {}
           /\ File(d) # Absent /\ File(d) # Unsynced /\ items(File(d)) = d /\ File(d).data = d
           /\ Alike(run[m].st.entry, items(run[m].content), ownSoon(m))'
           /\ Left(run[m].file, items(run[m].content), run[m].held, ownSoon(m))'
           /\ ~run'[m].wrote /\ Minds(run[m].file, m)'
<1>0. TypeOK
  BY DEF Fits
<1> PICK c \in EntryOrAbsent : c = File(d)
  BY FileIs
<1>1. c # Absent /\ c # Unsynced /\ items(c) = d /\ c.data = d
  BY FileIs
<1> PICK t : t = [etag |-> e, entry |-> c]
  OBVIOUS
<1>2. t \in EntryState /\ t.etag = e /\ t.entry = c
  BY StateIs
<1>3. Continue(m, "read", d, c, n, t, {}, {})
      /\ UNCHANGED <<file, base, based, st, held, store, missing, hidden, was, torn, baseless, behind, budget>>
  BY DEF Fetch
<1>4. /\ run' \in [Machine -> Run]
      /\ \A j \in Machine : j # m => run'[j] = run[j]
      /\ run'[m].phase = "read" /\ run'[m].content = c /\ run'[m].ifMatch = n
      /\ run'[m].st = t /\ run'[m].held = {} /\ run'[m].file = d
      /\ run'[m].seen = current(m) /\ run'[m].edited = edited(m) /\ run'[m].behind = {}
      /\ run'[m].wrote <=> FALSE
  <2> PICK phase : phase = "read"
    OBVIOUS
  <2> PICK k \in SUBSET Item : k = {}
    OBVIOUS
  <2>1. Continue(m, phase, d, c, n, t, k, k) /\ phase \in {"read", "upload", "base"}
    BY <1>3
  <2>2. /\ run' \in [Machine -> Run]
        /\ \A j \in Machine : j # m => run'[j] = run[j]
        /\ run'[m].phase = phase /\ run'[m].content = c /\ run'[m].ifMatch = n
        /\ run'[m].st = t /\ run'[m].held = k /\ run'[m].file = d
        /\ run'[m].seen = current(m) /\ run'[m].edited = edited(m) /\ run'[m].behind = k
        /\ run'[m].wrote <=> phase = "base"
    BY <1>0, <1>2, <2>1, RunIs
  <2> QED BY <2>2
<1>5. TypeOK'
  BY <1>0, <1>3, <1>4 DEF TypeOK, Run
<1>6. \A j \in Machine : j # m => SavedFits(j)' /\ RunFits(j)'
  BY <1>3, <1>4, LeftAlone
<1>7. SavedFits(m)'
  BY <1>3, BeginFits
<1>8. Minds(run[m].file, m)'
  <2>1. own(m)' = own(m) /\ held' = held /\ st' = st /\ base' = base /\ torn' = torn /\ baseless' = baseless
    BY <1>3 DEF own
  <2>2. ASSUME st[m] # NoState, m \notin torn \cup baseless,
               NEW i \in edited(m) \ (own(m) \cup held[m]), current(m)[i] # base[m][i]
        PROVE  d[i] = current(m)[i]
    BY <2>2, PlanMinds
  <2> QED BY <1>4, <2>1, <2>2 DEF Minds
<1>9. Alike(run[m].st.entry, items(run[m].content), ownSoon(m))'
      /\ Left(run[m].file, items(run[m].content), run[m].held, ownSoon(m))'
  BY <1>1, <1>2, <1>4 DEF Alike, Left
<1> QED BY <1>1, <1>2, <1>4, <1>5, <1>6, <1>7, <1>8, <1>9

\* What was downloaded is the base and the state to be saved.
LEMMA DownloadFits ==
    ASSUME Fits, NEW m \in Machine, run[m].phase = "idle", NEW a, a = plan(m), Download(m, a)
    PROVE  Fits'
<1>0. TypeOK /\ SavedFits(m) /\ RunFits(m)
  BY DEF Fits
<1> PICK d : d = a.remote.entry.data
  OBVIOUS
<1> PICK n : n = a.remote.etag
  OBVIOUS
<1>1. /\ d \in Data /\ n = store.etag /\ store.etag # 0
      /\ m \notin baseless => d = items(store.entry) /\ store.entry # Absent
      /\ m \notin baseless /\ st[m].etag = n => d = base[m] /\ Alike(st[m].entry, base[m], own(m))
      /\ (d = items(store.entry) /\ store.entry # Absent) \/ SameItemsAgain(m, a)
  BY DownloadIsAt DEF Download
<1>2. SameItemsAgain(m, a) => st[m].etag = n /\ st[m].etag # 0
  BY <1>1 DEF SameItemsAgain
<1>3. store.etag \in Nat /\ st[m].etag \in Nat /\ st[m].etag <= store.etag
  BY <1>0, MachineIs
<1>4. Fetch(m, d, 0, n)
      /\ UNCHANGED <<base, st, store, hidden, baseless, behind>>
  BY DEF Download, Fetch
<1>5. \/ st[m] = NoState \/ local(m) = Absent
      \/ SameEntry(local(m), st[m].entry, m)
      \/ KeepsOwn(d, local(m).data, base[m])
  <2>1. NewItems(m, a) \/ SameItemsAgain(m, a)
    BY <1>0, PlanGives DEF PlanFits, Download
  <2> QED BY <2>1 DEF NewItems, SameItemsAgain
<1>6. /\ TypeOK' /\ SavedFits(m)' /\ \A j \in Machine : j # m => SavedFits(j)' /\ RunFits(j)'
      /\ run'[m].phase = "read" /\ run'[m].ifMatch = 0 /\ run'[m].st.etag = n
      /\ run'[m].st.entry = File(d) /\ run'[m].content = File(d) /\ run'[m].file = d
      /\ run'[m].behind = {}
      /\ File(d) # Absent /\ items(File(d)) = d
      /\ Alike(run[m].st.entry, items(run[m].content), ownSoon(m))'
      /\ Left(run[m].file, items(run[m].content), run[m].held, ownSoon(m))'
      /\ ~run'[m].wrote /\ Minds(run[m].file, m)'
  BY <1>1, <1>3, <1>4, <1>5, FetchIs
<1>7. own(m)' = own(m) /\ ~sending(m)' /\ (again(m)' <=> st[m].etag # 0 /\ st[m].etag = n)
  BY <1>4, <1>6 DEF own, sending, again
<1>8. RunFits(m)'
  <2>1. run'[m].st.etag > 0 /\ run'[m].st.etag <= store'.etag /\ st'[m].etag <= run'[m].st.etag
    BY <1>1, <1>3, <1>4, <1>6
  <2>2. (m \notin baseless \/ ~again(m) => IsAt(run[m].st, items(run[m].content), store))'
    <3>1. m \notin baseless \/ ~again(m)' => d = items(store.entry) /\ store.entry # Absent
      BY <1>1, <1>2, <1>7
    <3> QED BY <1>4, <1>6, <3>1 DEF IsAt
  <2>3. (m \notin baseless /\ (again(m) \/ run[m].phase = "save") =>
            base[m] = items(run[m].content))'
    BY <1>1, <1>4, <1>6, <1>7
  <2>4. (m \notin baseless /\ again(m) => Alike(st[m].entry, base[m], own(m)))'
    BY <1>1, <1>4, <1>7 DEF Alike
  <2> QED BY <1>6, <1>7, <2>1, <2>2, <2>3, <2>4 DEF RunFits
<1> QED BY <1>6, <1>8 DEF Fits

\* What was merged has the changes of this machine alone, for the store.
LEMMA MergeFits ==
    ASSUME Fits, NEW m \in Machine, run[m].phase = "idle", NEW a, a = plan(m), Merge(m, a)
    PROVE  Fits'
<1>0. TypeOK /\ SavedFits(m) /\ RunFits(m)
  BY DEF Fits
<1> PICK d : d = a.merged
  OBVIOUS
<1>1. /\ local(m) # Absent /\ store.entry # Absent /\ store.etag # 0
      /\ d \in Data /\ a.ifMatch = store.etag
      /\ st[m] = NoState \/ KeepsOwn(d, local(m).data, base[m])
      /\ SendsOwn(d, local(m).data, store.entry.data, from(m))
  BY <1>0, PlanGives DEF Merge, PlanFits
<1> PICK n \in Nat : n = store.etag
  BY <1>0, MachineIs
<1>2. Fetch(m, d, n, 0)
      /\ UNCHANGED <<store, torn, baseless, behind, hidden>>
  BY <1>1 DEF Merge, Fetch
<1>3. /\ TypeOK' /\ SavedFits(m)' /\ \A j \in Machine : j # m => SavedFits(j)' /\ RunFits(j)'
      /\ run'[m].phase = "read" /\ run'[m].ifMatch = n /\ run'[m].st.etag = 0
      /\ run'[m].st.entry = File(d) /\ run'[m].content = File(d) /\ run'[m].file = d
      /\ run'[m].edited = edited(m) /\ run'[m].behind = {}
      /\ File(d) # Absent /\ File(d) # Unsynced /\ items(File(d)) = d /\ File(d).data = d
      /\ Alike(run[m].st.entry, items(run[m].content), ownSoon(m))'
      /\ Left(run[m].file, items(run[m].content), run[m].held, ownSoon(m))'
      /\ ~run'[m].wrote /\ Minds(run[m].file, m)'
  BY <1>1, <1>2, FetchIs
<1>4. RunFits(m)'
  <2>1. run'[m].ifMatch <= store'.etag /\ ~settling(m)'
    BY <1>1, <1>2, <1>3 DEF settling
  <2>2. m \notin torn \cup baseless => Theirs(run[m].content.data, items(store.entry), m)'
    <3> SUFFICES ASSUME m \notin torn \cup baseless, NEW i \in Item, d[i] # items(store.entry)[i]
                 PROVE  i \in (edited(m) \ hidden[m]) \cup behind[m]
      BY <1>2, <1>3 DEF Theirs
    <3>1. items(store.entry) = store.entry.data
      BY <1>1 DEF items
    <3>2. local(m).data[i] # from(m)[i]
      BY <1>1, <3>1 DEF SendsOwn
    <3> QED BY <1>1, <3>2, ChangedHere
  <2> QED BY <1>2, <1>3, <2>1, <2>2 DEF RunFits
<1> QED BY <1>3, <1>4 DEF Fits

\* What the run makes of the file it has read: what is hidden or held back in it stays.
LEMMA ReadFits ==
    ASSUME Fits, NEW m \in Machine, Read(m)
    PROVE  Fits'
<1>0. /\ TypeOK /\ SavedFits(m) /\ RunFits(m) /\ run[m] \in Run /\ run[m].phase = "read"
      /\ UNCHANGED <<file, base, based, st, held, store, missing, hidden, was, torn, baseless, behind, budget>>
  BY MachineIs DEF Fits, Read
<1> PICK x : x = run[m]
  OBVIOUS
<1>1. x \in Run /\ x.phase = "read" /\ planned(m) /\ x.content # Absent /\ x.content \in EntryOrAbsent
      /\ x.st \in EntryState
  BY <1>0 DEF Run, planned, RunFits
<1> PICK d \in Data : d = x.content.data
  BY <1>1, ItemsAre
<1>2. items(x.content) = d /\ x.file = d
  BY <1>0, <1>1, ItemsAre DEF RunFits
<1> PICK k \in SUBSET Item : k = keepHere(m, d)
  BY <1>0, WrittenIs
<1> PICK y \in SUBSET Item : y = stayed(m, d)
  BY <1>0, WrittenIs
<1> PICK w \in Data : w = written(m, d)
  BY <1>0, WrittenIs
<1> PICK c \in Data : c = current(m)
  BY <1>0, MachineIs
<1>3. /\ Left(w, d, k, hidden[m] \cup y)
      /\ Alike(File(scanned(m, d)), d, hidden[m] \cup y)
      /\ \A i \in Item : w[i] = IF i \in k \cup hidden[m] THEN c[i] ELSE d[i]
      /\ scanned(m, d) \in Data
  BY <1>0, WrittenIs
<1> PICK e \in EntryOrAbsent : e = File(scanned(m, d))
  BY <1>3, FileIs
<1>4. e # Absent /\ e # Unsynced
  BY <1>3, FileIs
<1> PICK t : t = [etag |-> x.st.etag, entry |-> e]
  OBVIOUS
<1>5. t \in EntryState /\ t.etag = x.st.etag /\ t.entry = e
  BY <1>1, StateFields, StateIs
<1> PICK z : z = Apply(c, x.seen, k \cup hidden[m])
  OBVIOUS
<1>6. z \in Data /\ \A i \in Item : z[i] = IF i \in k \cup hidden[m] THEN c[i] ELSE x.seen[i]
  <2>1. z = [i \in Item |-> IF i \in k \cup hidden[m] THEN c[i] ELSE x.seen[i]]
    BY DEF Apply
  <2>2. c \in [Item -> Value \cup {NoValue}] /\ x.seen \in [Item -> Value \cup {NoValue}]
    BY <1>1, Constants DEF Run
  <2> QED BY <2>1, <2>2, Constants
<1> DEFINE r == [x EXCEPT !.phase = "write", !.file = w, !.st = t, !.held = k, !.behind = y, !.seen = z]
<1>7. run' = [run EXCEPT ![m] = r]
  <2>1. run' = [run EXCEPT ![m] = [run[m] EXCEPT
                   !.phase = "write", !.file = written(m, d),
                   !.st = [etag |-> x.st.etag, entry |-> File(scanned(m, d))],
                   !.held = keepHere(m, d), !.behind = stayed(m, d),
                   !.seen = Apply(current(m), x.seen, keepHere(m, d) \cup hidden[m])]]
    BY DEF Read
  <2> QED BY <2>1
<1>8. /\ r \in Run /\ r.phase = "write" /\ r.file = w /\ r.st = t /\ r.held = k /\ r.behind = y /\ r.seen = z
      /\ r.content = x.content /\ r.ifMatch = x.ifMatch /\ r.edited = x.edited /\ (r.wrote <=> x.wrote)
  BY <1>1, <1>5, <1>6 DEF Run
<1> HIDE DEF r
<1>9. run'[m] = r /\ (\A j \in Machine : j # m => run'[j] = run[j]) /\ run' \in [Machine -> Run]
  <2>1. run \in [Machine -> Run]
    BY <1>0 DEF TypeOK, Run
  <2> QED BY <1>7, <1>8, <2>1
<1>90. /\ run'[m].phase = "write" /\ run'[m].file = w /\ run'[m].st = t /\ run'[m].held = k
       /\ run'[m].behind = y /\ run'[m].seen = z /\ run'[m].content = x.content
       /\ run'[m].ifMatch = x.ifMatch /\ run'[m].edited = x.edited /\ (run'[m].wrote <=> x.wrote)
  BY <1>8, <1>9
<1>10. TypeOK'
  BY <1>0, <1>9 DEF TypeOK, Run
<1>11. \A j \in Machine : j # m => SavedFits(j)' /\ RunFits(j)'
  BY <1>0, <1>9, LeftAlone
<1>12. /\ own(m)' = own(m) /\ ownSoon(m)' = hidden[m] \cup y /\ (again(m)' <=> again(m))
       /\ planned(m)' /\ (sending(m)' <=> sending(m)) /\ (settling(m)' <=> settling(m))
  BY <1>0, <1>1, <1>5, <1>90 DEF own, ownSoon, again, planned, sending, settling
<1>13. SavedFits(m)'
  BY <1>0, <1>1, <1>90, <1>12 DEF SavedFits
<1>14. Minds(run[m].file, m)'
  <2> SUFFICES ASSUME st[m] # NoState, m \notin torn \cup baseless,
                      NEW i \in x.edited \ (own(m) \cup held[m]), z[i] # base[m][i]
               PROVE  w[i] = z[i]
    BY <1>0, <1>90, <1>12 DEF Minds
  <2>1. i \in Item /\ i \notin hidden[m]
    BY <1>1 DEF Run, own
  <2>2. i \notin k => d[i] = x.seen[i]
    <3>1. Minds(run[m].file, m)
      BY <1>0, <1>1 DEF RunFits
    <3> QED BY <1>2, <1>6, <2>1, <3>1 DEF Minds
  <2> QED BY <1>3, <1>6, <2>1, <2>2
<1>15. RunFits(m)'
  <2>1. Alike(run[m].st.entry, items(run[m].content), ownSoon(m))'
        /\ Left(run[m].file, items(run[m].content), run[m].held, ownSoon(m))'
    BY <1>2, <1>3, <1>5, <1>90, <1>12 DEF Alike, Left
  <2>2. \A i \in hidden[m]' : run'[m].file[i] = run'[m].seen[i]
    <3>1. hidden[m]' = hidden[m] /\ hidden[m] \subseteq Item
      BY <1>0, MachineIs
    <3> QED BY <1>3, <1>6, <1>90, <3>1
  <2>3. /\ ~run'[m].wrote /\ run'[m].content # Absent /\ run'[m].phase = "write"
        /\ run'[m].st.entry # Absent
    BY <1>0, <1>1, <1>4, <1>5, <1>90 DEF RunFits
  <2>4. sending(m) =>
          /\ run'[m].st.etag = 0 /\ run'[m].st.entry # Absent /\ run'[m].st.entry # Unsynced
          /\ run'[m].ifMatch <= store'.etag
          /\ (m \notin torn \cup baseless /\ run[m].ifMatch = store.etag /\ store.entry # Absent =>
                 Theirs(run[m].content.data, items(store.entry), m))'
    <3>1. sending(m) =>
            /\ x.st.etag = 0 /\ x.ifMatch <= store.etag
            /\ m \notin torn \cup baseless /\ x.ifMatch = store.etag /\ store.entry # Absent =>
                  Theirs(d, items(store.entry), m)
      BY <1>0 DEF RunFits
    <3>2. sending(m) /\ m \notin torn \cup baseless /\ x.ifMatch = store.etag /\ store.entry # Absent =>
            Theirs(run[m].content.data, items(store.entry), m)'
      <4> SUFFICES ASSUME sending(m), m \notin torn \cup baseless, x.ifMatch = store.etag, store.entry # Absent,
                          NEW i \in Item, d[i] # items(store.entry)[i]
                   PROVE  i \in (x.edited \ hidden[m]) \cup behind[m] \cup y
        BY <1>0, <1>90 DEF Theirs
      <4>1. i \in (x.edited \ hidden[m]) \cup behind[m] \cup x.behind
        BY <3>1 DEF Theirs
      <4>2. x.behind = {}
        BY <1>0, <1>1 DEF RunFits
      <4> QED BY <4>1, <4>2
    <3> QED BY <1>0, <1>4, <1>5, <1>90, <3>1, <3>2
  <2>5. settling(m) =>
          /\ run'[m].st.etag > 0 /\ run'[m].st.etag <= store'.etag
          /\ st'[m].etag <= run'[m].st.etag
          /\ (m \notin baseless \/ ~again(m) => IsAt(run[m].st, items(run[m].content), store))'
          /\ (m \notin baseless /\ again(m) => base[m] = items(run[m].content))'
          /\ (m \notin baseless /\ again(m) => Alike(st[m].entry, base[m], own(m)))'
    <3>1. settling(m) =>
            /\ x.st.etag > 0 /\ x.st.etag <= store.etag /\ st[m].etag <= x.st.etag
            /\ m \notin baseless \/ ~again(m) => IsAt(x.st, d, store)
            /\ m \notin baseless /\ again(m) => base[m] = d /\ Alike(st[m].entry, base[m], own(m))
      BY <1>0, <1>2 DEF RunFits
    <3>2. x.st.entry # Absent
      BY <1>0, <1>1 DEF RunFits
    <3>3. IsAt(x.st, d, store) => IsAt(run[m].st, items(run[m].content), store)'
      BY <1>0, <1>2, <1>4, <1>5, <1>90, <3>2 DEF IsAt
    <3> QED BY <1>0, <1>2, <1>5, <1>90, <1>12, <3>1, <3>3 DEF Alike
  <2> QED BY <1>12, <1>14, <2>1, <2>2, <2>3, <2>4, <2>5 DEF RunFits
<1> QED BY <1>10, <1>11, <1>13, <1>15 DEF Fits

\* The file is written, and what counts as left there by a sync.
LEMMA WriteFits ==
    ASSUME Fits, NEW m \in Machine, Write(m)
    PROVE  Fits'
<1>0. /\ TypeOK /\ SavedFits(m) /\ RunFits(m) /\ run[m] \in Run /\ run[m].phase = "write"
      /\ UNCHANGED <<base, based, st, held, store, missing, hidden, torn, baseless, behind, budget>>
  BY MachineIs DEF Fits, Write
<1> PICK x : x = run[m]
  OBVIOUS
<1>1. x \in Run /\ x.phase = "write" /\ planned(m) /\ x.file \in Data /\ x.ifMatch \in Nat
  BY <1>0 DEF Run, planned
<1> PICK f : f = File(x.file)
  OBVIOUS
<1>2. f \in EntryOrAbsent
  BY <1>1, FileIs
<1> PICK p : p = IF x.ifMatch = 0 THEN "base" ELSE "upload"
  OBVIOUS
<1> PICK b \in BOOLEAN : b = (x.ifMatch = 0 \/ file' # file)
  OBVIOUS
<1> DEFINE r == [x EXCEPT !.phase = p, !.wrote = b]
<1>3. run' = [run EXCEPT ![m] = r] /\ file' = [file EXCEPT ![m] = f]
  BY DEF Write
<1>4. /\ r \in Run /\ r.phase = p /\ (r.wrote <=> b) /\ r.st = x.st /\ r.content = x.content
      /\ r.ifMatch = x.ifMatch /\ r.held = x.held /\ r.file = x.file /\ r.behind = x.behind
      /\ r.edited = x.edited
  BY <1>1 DEF Run
<1> HIDE DEF r
<1>5. run'[m] = r /\ (\A j \in Machine : j # m => run'[j] = run[j]) /\ run' \in [Machine -> Run]
  <2>1. run \in [Machine -> Run]
    BY <1>0 DEF TypeOK, Run
  <2> QED BY <1>3, <1>4, <2>1
<1> PICK w : w = Apply(was[m], x.file, edited(m))
  OBVIOUS
<1>6. w \in Data /\ \A i \in Item : w[i] = IF i \in edited(m) THEN was[m][i] ELSE x.file[i]
  <2>1. w = [i \in Item |-> IF i \in edited(m) THEN was[m][i] ELSE x.file[i]]
    BY DEF Apply
  <2>2. was[m] \in [Item -> Value \cup {NoValue}] /\ x.file \in [Item -> Value \cup {NoValue}]
    BY <1>0, <1>1, MachineIs, Constants
  <2> QED BY <2>1, <2>2, Constants
<1>7. /\ file' \in [Machine -> EntryOrAbsent] /\ file'[m] = f
      /\ was' \in [Machine -> Data] /\ was'[m] = w
      /\ \A j \in Machine : j # m => was'[j] = was[j]
  <2>1. was' = [was EXCEPT ![m] = w]
    BY DEF Write
  <2>2. file \in [Machine -> EntryOrAbsent] /\ was \in [Machine -> Data]
    BY <1>0 DEF TypeOK
  <2> QED BY <1>2, <1>3, <1>6, <2>1, <2>2
<1>8. TypeOK'
  BY <1>0, <1>5, <1>7 DEF TypeOK, Run
<1>9. \A j \in Machine : j # m => SavedFits(j)' /\ RunFits(j)'
  BY <1>0, <1>5, <1>7, LeftAlone
<1>10. /\ own(m)' = own(m) /\ ownSoon(m)' = ownSoon(m) /\ (again(m)' <=> again(m)) /\ ~planned(m)'
       /\ (sending(m)' <=> sending(m)) /\ (settling(m)' <=> settling(m))
       /\ (sending(m) <=> p = "upload") /\ (settling(m) <=> p = "base")
  BY <1>0, <1>1, <1>4, <1>5 DEF own, ownSoon, again, planned, sending, settling
<1>11. ~b => \A i \in Item : w[i] = was[m][i]
  <2> SUFFICES ASSUME ~b, NEW i \in Item PROVE w[i] = was[m][i]
    OBVIOUS
  <2>1. file[m] = f
    BY <1>7
  <2>2. file[m] # Absent /\ file[m].data = x.file
    BY <1>1, <2>1, FileIs
  <2> QED BY <1>6, <2>2 DEF edited
<1>12. SavedFits(m)'
  <2>1. m \notin torn \cup baseless => Left(was[m], base[m], held[m], own(m))
    BY <1>0, <1>1 DEF SavedFits
  <2>2. m \notin torn \cup baseless /\ ~b => Left(was[m], base[m], held[m], own(m))'
    BY <1>0, <1>7, <1>10, <1>11, <2>1 DEF Left
  <2>3. m \notin torn \cup baseless =>
          /\ st[m] = NoState => base[m] = Nothing
          /\ st[m] # NoState => Alike(st[m].entry, base[m], own(m))
    BY <1>0, <1>1 DEF SavedFits
  <2>4. p = "upload" \/ p = "base"
    OBVIOUS
  <2> QED BY <1>0, <1>4, <1>5, <1>10, <2>2, <2>3, <2>4 DEF SavedFits
<1>13. RunFits(m)'
  <2>1. Alike(run[m].st.entry, items(run[m].content), ownSoon(m))'
        /\ Left(run[m].file, items(run[m].content), run[m].held, ownSoon(m))'
    BY <1>0, <1>4, <1>5, <1>10 DEF RunFits, Alike, Left
  <2>2. p = "base" => run'[m].wrote
    BY <1>4, <1>5
  <2>3. sending(m) =>
          /\ run'[m].st.etag = 0 /\ run'[m].st.entry # Absent /\ run'[m].st.entry # Unsynced
          /\ run'[m].content # Absent /\ run'[m].ifMatch <= store'.etag
          /\ (m \notin torn \cup baseless /\ run[m].ifMatch = store.etag /\ store.entry # Absent =>
                 Theirs(run[m].content.data, items(store.entry), m))'
    BY <1>0, <1>4, <1>5 DEF RunFits, Theirs
  <2>4. settling(m) =>
          /\ run'[m].st.etag > 0 /\ run'[m].st.etag <= store'.etag
          /\ st'[m].etag <= run'[m].st.etag
          /\ (m \notin baseless \/ ~again(m) => IsAt(run[m].st, items(run[m].content), store))'
          /\ (m \notin baseless /\ again(m) => base[m] = items(run[m].content))'
          /\ (m \notin baseless /\ again(m) => Alike(st[m].entry, base[m], own(m)))'
    BY <1>0, <1>4, <1>5, <1>10 DEF RunFits, IsAt, Alike
  <2>5. run'[m].phase = p /\ p \in {"base", "upload"}
    BY <1>4, <1>5
  <2> QED BY <1>10, <2>1, <2>2, <2>3, <2>4, <2>5 DEF RunFits
<1> QED BY <1>8, <1>9, <1>12, <1>13 DEF Fits

\* What is uploaded has the changes of this machine alone.
LEMMA UploadFits ==
    ASSUME Fits, NEW m \in Machine, run[m].phase = "idle", NEW a, a = plan(m), Upload(m, a)
    PROVE  Fits'
<1>0. TypeOK /\ SavedFits(m) /\ RunFits(m)
  BY DEF Fits
<1>1. PlanFits(m, a)
  BY <1>0, PlanGives
<1>2. a.kind = "upload"
  BY <1>1 DEF Upload, UploadKinds, PlanFits
<1>3. /\ local(m) # Absent /\ a.local = local(m)
      /\ a.ifMatch \in {0, store.etag}
      /\ \/ store.entry = Absent
         \/ st[m] # NoState /\ st[m].etag = store.etag
         \/ SendsOwn(local(m).data, local(m).data, store.entry.data, from(m))
  BY <1>1, <1>2 DEF PlanFits
<1> PICK e \in EntryOrAbsent : e = local(m)
  BY <1>0, LocalIs
<1> PICK n \in Nat : n = a.ifMatch
  BY <1>0, <1>3, MachineIs
<1> PICK w \in Data : w = current(m)
  BY <1>0, MachineIs
<1> PICK k \in SUBSET Item : k = held[m]
  BY <1>0, MachineIs
<1> PICK y \in SUBSET Item : y = behind[m]
  BY <1>0, MachineIs
<1> PICK t : t = [etag |-> 0, entry |-> e]
  OBVIOUS
<1>4. t \in EntryState /\ t.etag = 0 /\ t.entry = e /\ e # Absent /\ e # Unsynced
  BY <1>3, StateIs, ItemsAre
<1>5. Continue(m, "upload", w, e, n, t, k, y)
      /\ UNCHANGED <<file, base, based, st, held, store, missing, hidden, was, torn, baseless, behind, budget>>
  BY <1>2, <1>3 DEF Upload
<1>6. /\ run' \in [Machine -> Run]
      /\ \A j \in Machine : j # m => run'[j] = run[j]
      /\ run'[m].phase = "upload" /\ run'[m].content = e /\ run'[m].ifMatch = n
      /\ run'[m].st = t /\ run'[m].held = k /\ run'[m].file = w /\ run'[m].behind = y
      /\ run'[m].edited = edited(m)
  <2> PICK phase : phase = "upload"
    OBVIOUS
  <2>1. Continue(m, phase, w, e, n, t, k, y) /\ phase \in {"read", "upload", "base"}
    BY <1>5
  <2> QED BY <1>0, <1>4, <2>1, RunIs
<1>8. TypeOK'
  BY <1>0, <1>5, <1>6 DEF TypeOK, Run
<1>9. \A j \in Machine : j # m => SavedFits(j)' /\ RunFits(j)'
  BY <1>5, <1>6, LeftAlone
<1>11. SavedFits(m)'
  <2>1. was' = was
    BY <1>5
  <2> QED BY <1>5, <1>6, <2>1, BeginFits
<1>12. RunFits(m)'
  <2>1. Alike(run[m].st.entry, items(run[m].content), ownSoon(m))'
    BY <1>4, <1>6 DEF Alike
  <2>2. Left(run[m].file, items(run[m].content), run[m].held, ownSoon(m))'
    <3>1. Left(w, items(e), k, hidden[m] \cup y)
      BY <1>0, CurrentIsLeft
    <3>2. ownSoon(m)' = hidden[m] \cup y
      BY <1>5, <1>6 DEF ownSoon
    <3> QED BY <1>6, <3>1, <3>2 DEF Left
  <2>3. run'[m].st.etag = 0 /\ run'[m].st.entry # Absent /\ run'[m].st.entry # Unsynced
        /\ run'[m].content # Absent /\ run'[m].ifMatch <= store'.etag
    <3>1. n <= store.etag
      BY <1>0, <1>3, MachineIs
    <3> QED BY <1>4, <1>5, <1>6, <3>1
  <2>4. m \notin torn \cup baseless /\ store.entry # Absent => Theirs(run[m].content.data, items(store.entry), m)'
    <3> SUFFICES ASSUME m \notin torn \cup baseless, store.entry # Absent,
                        NEW i \in Item, e.data[i] # items(store.entry)[i]
                 PROVE  i \in (edited(m) \ hidden[m]) \cup behind[m]
      BY <1>5, <1>6 DEF Theirs
    <3>1. items(store.entry) = store.entry.data
      BY DEF items
    <3>2. local(m).data[i] # from(m)[i]
      <4>1. CASE st[m] # NoState /\ st[m].etag = store.etag
        <5>1. base[m] = items(store.entry)
          BY <1>0, <4>1 DEF SavedFits, IsAt
        <5> QED BY <4>1, <5>1 DEF from
      <4>2. CASE SendsOwn(local(m).data, local(m).data, store.entry.data, from(m))
        BY <3>1, <4>2 DEF SendsOwn
      <4> QED BY <1>3, <4>1, <4>2
    <3> QED BY <1>3, <3>2, ChangedHere
  <2>5. ~planned(m)' /\ ~settling(m)' /\ run'[m].phase = "upload"
    BY <1>6 DEF planned, settling
  <2>6. torn' = torn /\ baseless' = baseless /\ store' = store
    BY <1>5
  <2> QED BY <2>1, <2>2, <2>3, <2>4, <2>5, <2>6 DEF RunFits
<1> QED BY <1>8, <1>9, <1>11, <1>12 DEF Fits

\* What both sides have is the base and the state to be saved.
LEMMA RecordFits ==
    ASSUME Fits, NEW m \in Machine, run[m].phase = "idle", NEW a, a = plan(m), Record(m, a)
    PROVE  Fits'
<1>0. TypeOK /\ SavedFits(m) /\ RunFits(m)
  BY DEF Fits
<1>1. /\ a.local = local(m) /\ a.remote = store /\ store.etag # 0
      /\ SameEntry(local(m), store.entry, m)
      /\ st[m] = NoState \/ st[m].etag # store.etag
  BY <1>0, PlanGives DEF Record, PlanFits
<1> PICK e \in EntryOrAbsent : e = local(m)
  BY <1>0, LocalIs
<1> PICK n \in Nat : n = store.etag
  BY <1>0, MachineIs
<1> PICK w \in Data : w = current(m)
  BY <1>0, MachineIs
<1> PICK k \in SUBSET Item : k = IF e = Absent THEN {} ELSE held[m]
  BY <1>0, MachineIs
<1> PICK y \in SUBSET Item : y = behind[m]
  BY <1>0, MachineIs
<1> PICK t : t = [etag |-> n, entry |-> e]
  OBVIOUS
<1>4. t \in EntryState /\ t.etag = n /\ t.entry = e
  BY StateIs
<1>5. Continue(m, "base", w, e, 0, t, k, y)
      /\ UNCHANGED <<file, base, based, st, held, store, missing, hidden, was, torn, baseless, behind, budget>>
  BY <1>1 DEF Record
<1>6. /\ run' \in [Machine -> Run]
      /\ \A j \in Machine : j # m => run'[j] = run[j]
      /\ run'[m].phase = "base" /\ run'[m].content = e
      /\ run'[m].st = t /\ run'[m].held = k /\ run'[m].file = w /\ run'[m].behind = y
      /\ run'[m].wrote <=> TRUE
  <2> PICK phase : phase = "base"
    OBVIOUS
  <2>1. Continue(m, phase, w, e, 0, t, k, y) /\ phase \in {"read", "upload", "base"}
    BY <1>5
  <2> QED BY <1>0, <1>4, <2>1, RunIs
<1>8. TypeOK'
  BY <1>0, <1>5, <1>6 DEF TypeOK, Run
<1>9. \A j \in Machine : j # m => SavedFits(j)' /\ RunFits(j)'
  BY <1>5, <1>6, LeftAlone
<1>11. SavedFits(m)'
  BY <1>5, <1>6, BeginFits
<1>12. RunFits(m)'
  <2>1. Alike(run[m].st.entry, items(run[m].content), ownSoon(m))'
    BY <1>4, <1>6 DEF Alike
  <2>2. Left(run[m].file, items(run[m].content), run[m].held, ownSoon(m))'
    <3>1. Left(w, items(e), k, hidden[m] \cup y)
      <4>1. CASE e = Absent
        BY <1>0, <4>1, LocalIs DEF Left, current
      <4>2. CASE e # Absent
        BY <1>0, <4>2, CurrentIsLeft
      <4> QED BY <4>1, <4>2
    <3>2. ownSoon(m)' = hidden[m] \cup y
      BY <1>5, <1>6 DEF ownSoon
    <3> QED BY <1>6, <3>1, <3>2 DEF Left
  <2>3. st[m].etag \in Nat /\ st[m].etag <= n /\ n > 0
    BY <1>0, <1>1, MachineIs
  <2>4. run'[m].wrote /\ run'[m].st.etag > 0 /\ run'[m].st.etag <= store'.etag
        /\ st'[m].etag <= run'[m].st.etag
    <3>1. run'[m].st.etag = n /\ store'.etag = n /\ st' = st
      BY <1>4, <1>5, <1>6
    <3>2. run'[m].wrote
      BY <1>6
    <3> QED BY <2>3, <3>1, <3>2
  <2>5. IsAt(run[m].st, items(run[m].content), store)'
    <3>1. items(e) = items(store.entry) /\ (e = Absent <=> store.entry = Absent)
      BY <1>0, <1>1, MachineIs, SameItems
    <3> QED BY <1>4, <1>5, <1>6, <3>1 DEF IsAt
  <2>6. ~again(m)'
    BY <1>1, <1>4, <1>5, <1>6 DEF again, NoState
  <2>7. ~planned(m)' /\ ~sending(m)' /\ run'[m].phase = "base"
    BY <1>6 DEF planned, sending
  <2> QED BY <2>1, <2>2, <2>4, <2>5, <2>6, <2>7 DEF RunFits
<1> QED BY <1>8, <1>9, <1>11, <1>12 DEF Fits

\* An idle run promises nothing.
LEMMA IdleIs == Idle \in Run /\ Idle.phase = "idle"
<1>1. Absent \in EntryOrAbsent /\ NoState \in EntryState /\ Nothing \in Data
  BY Constants DEF EntryOrAbsent, EntryState
<1> PICK e \in EntryOrAbsent : e = Absent
  BY <1>1
<1> PICK s \in EntryState : s = NoState
  BY <1>1
<1> PICK d \in Data : d = Nothing
  BY <1>1
<1>2. Idle = [phase |-> "idle", content |-> e, ifMatch |-> 0, st |-> s, held |-> {},
              file |-> d, seen |-> d, edited |-> {}, behind |-> {}, wrote |-> FALSE]
  BY DEF Idle
<1> QED BY <1>2 DEF Run

\* What a machine has saved fits after its run was given up or killed: when it had written
\* something, the machine is torn.
LEMMA StopFits ==
    ASSUME Fits, NEW m \in Machine, run[m].phase # "idle",
           UNCHANGED <<base, st, held, store, hidden, was, baseless, behind>>,
           run' = [run EXCEPT ![m] = Idle],
           torn' = IF run[m].wrote THEN torn \cup {m} ELSE torn
    PROVE  \A j \in Machine : SavedFits(j)' /\ RunFits(j)'
<1>0. TypeOK /\ SavedFits(m) /\ RunFits(m)
      /\ run[m].phase \in {"idle", "read", "write", "upload", "base", "save"}
  BY MachineIs DEF Fits, Run
<1>1. run'[m] = Idle /\ \A j \in Machine : j # m => run'[j] = run[j]
  BY <1>0 DEF TypeOK
<1>2. \A j \in Machine : j # m => SavedFits(j)' /\ RunFits(j)'
  BY <1>1, LeftAlone
<1>3. RunFits(m)'
  BY <1>1, IdleIs DEF RunFits, planned, sending, settling
<1>4. own(m)' = own(m) /\ ~planned(m)'
  BY <1>1, IdleIs DEF own, planned
<1>5. ASSUME run[m].wrote PROVE SavedFits(m)'
  <2>1. m \in torn'
    BY <1>5
  <2> QED BY <1>0, <1>4, <2>1 DEF SavedFits
<1>6. ASSUME ~run[m].wrote PROVE SavedFits(m)'
  <2>1. (planned(m) \/ run[m].phase = "upload") /\ run[m].phase \notin {"base", "save"} /\ torn' = torn
    BY <1>0, <1>6 DEF RunFits, planned
  <2>2. run'[m].phase = "idle"
    BY <1>1, IdleIs
  <2> QED BY <1>0, <1>4, <1>6, <2>1, <2>2 DEF SavedFits
<1>7. SavedFits(m)'
  BY <1>5, <1>6
<1> QED BY <1>2, <1>3, <1>7

\* A kill leaves what was saved.
LEMMA CrashFits ==
    ASSUME Fits, NEW m \in Machine, Crash(m)
    PROVE  Fits'
<1>1. \A j \in Machine : SavedFits(j)' /\ RunFits(j)'
  BY StopFits DEF Crash
<1>2. TypeOK'
  BY IdleIs DEF Fits, TypeOK, Crash, Run
<1> QED BY <1>1, <1>2 DEF Fits

\* The object gets a new ETag: no state but that of this run can be about it.
LEMMA PutFits ==
    ASSUME Fits, NEW m \in Machine, Put(m)
    PROVE  Fits'
<1>0. TypeOK /\ SavedFits(m) /\ RunFits(m) /\ run[m] \in Run /\ run[m].phase = "upload"
      /\ sending(m)
      /\ UNCHANGED <<file, base, based, st, held, missing, hidden, was, baseless, behind>>
  BY MachineIs DEF Fits, Put, sending
<1>1. CASE run[m].ifMatch # store.etag
  <2>1. run' = [run EXCEPT ![m] = Idle] /\ store' = store
        /\ torn' = IF run[m].wrote THEN torn \cup {m} ELSE torn
    BY <1>1 DEF Put
  <2>2. \A j \in Machine : SavedFits(j)' /\ RunFits(j)'
    BY <1>0, <2>1, StopFits
  <2>3. TypeOK'
    BY <1>0, <2>1, IdleIs DEF TypeOK, Run
  <2> QED BY <2>2, <2>3 DEF Fits
<1>2. CASE run[m].ifMatch = store.etag
  <2> PICK n : n = store.etag + 1
    OBVIOUS
  <2> PICK x : x = run[m]
    OBVIOUS
  <2> DEFINE y == [x EXCEPT !.phase = "base", !.wrote = TRUE, !.st.etag = n]
  <2>1. store' = [etag |-> n, entry |-> x.content, writer |-> m]
        /\ run' = [run EXCEPT ![m] = y] /\ torn' = torn
    BY <1>2 DEF Put, newETag
  <2>2. store.etag \in Nat /\ n \in Nat /\ n > store.etag /\ n > 0
        /\ st[m].etag \in Nat /\ st[m].etag <= store.etag
        /\ \A j \in Machine : st[j].etag \in Nat /\ st[j].etag <= store.etag
    BY <1>0, MachineIs
  <2>3. /\ Alike(x.st.entry, items(x.content), hidden[m] \cup x.behind)
        /\ Left(x.file, items(x.content), x.held, hidden[m] \cup x.behind)
        /\ x.st.entry # Absent /\ x.st.entry # Unsynced /\ x.content # Absent
    BY <1>0 DEF RunFits, ownSoon
  <2>4. x \in Run /\ x.st \in EntryState /\ x.content \in EntryOrAbsent
    BY <1>0 DEF Run
  <2>5. x.st.entry \in EntryOrAbsent /\ x.st \in [etag : Nat, entry : EntryOrAbsent]
    BY <2>3, <2>4, StateFields DEF EntryState, NoState
  <2>6. [x.st EXCEPT !.etag = n] \in [etag : Nat, entry : EntryOrAbsent]
    BY <2>2, <2>5
  <2>7. [x.st EXCEPT !.etag = n] \in EntryState
    BY <2>6 DEF EntryState
  <2>8. /\ y \in Run /\ y.phase = "base" /\ y.wrote /\ y.st.etag = n /\ y.st.entry = x.st.entry
        /\ y.content = x.content /\ y.held = x.held /\ y.file = x.file /\ y.behind = x.behind
    <3> PICK s : s = [x.st EXCEPT !.etag = n]
      OBVIOUS
    <3>1. s \in EntryState /\ s.etag = n /\ s.entry = x.st.entry
      BY <2>5, <2>7
    <3>2. y = [x EXCEPT !.phase = "base", !.wrote = TRUE, !.st = s]
      BY <2>4 DEF Run
    <3> QED BY <2>4, <3>1, <3>2 DEF Run
  <2> HIDE DEF y
  <2>9. store'.etag = n /\ store'.entry = x.content /\ store' \in Object
    BY <2>1, <2>2, <2>4 DEF Object
  <2>10. run'[m] = y /\ (\A j \in Machine : j # m => run'[j] = run[j]) /\ run' \in [Machine -> Run]
    <3>1. run \in [Machine -> Run]
      BY <1>0 DEF TypeOK, Run
    <3> QED BY <2>1, <2>8, <3>1
  <2>11. TypeOK'
    <3>1. \A j \in Machine : st'[j].etag <= store'.etag
      BY <1>0, <2>2, <2>9
    <3>2. store'.etag > 0
      BY <2>2, <2>9
    <3> QED BY <1>0, <2>1, <2>9, <2>10, <3>1, <3>2 DEF TypeOK, Run
  <2>12. \A j \in Machine : j # m => SavedFits(j)' /\ RunFits(j)'
    BY <1>0, <2>1, <2>2, <2>9, <2>10, LeftAlone
  <2>13. st'[m].etag # store'.etag /\ ~again(m)' /\ ~planned(m)' /\ ~sending(m)'
    BY <1>0, <2>2, <2>8, <2>9, <2>10 DEF again, planned, sending
  <2>14. SavedFits(m)'
    BY <1>0, <2>8, <2>10, <2>13 DEF SavedFits
  <2>15. RunFits(m)'
    <3>1. Alike(run[m].st.entry, items(run[m].content), ownSoon(m))'
      BY <1>0, <2>3, <2>8, <2>10 DEF Alike, ownSoon
    <3>2. Left(run[m].file, items(run[m].content), run[m].held, ownSoon(m))'
      BY <1>0, <2>3, <2>8, <2>10 DEF Left, ownSoon
    <3>3. run'[m].wrote /\ run'[m].st.etag > 0 /\ run'[m].st.etag <= store'.etag
          /\ st'[m].etag <= run'[m].st.etag
      <4>1. run'[m].st.etag = n /\ store'.etag = n /\ st'[m].etag = st[m].etag /\ run'[m].wrote
        BY <1>0, <2>8, <2>9, <2>10
      <4> QED BY <2>2, <4>1
    <3>4. IsAt(run[m].st, items(run[m].content), store)'
      BY <2>3, <2>8, <2>9, <2>10 DEF IsAt
    <3>5. run'[m].phase = "base"
      BY <2>8, <2>10
    <3> QED BY <2>13, <3>1, <3>2, <3>3, <3>4, <3>5 DEF RunFits
  <2> QED BY <2>11, <2>12, <2>14, <2>15 DEF Fits
<1> QED BY <1>1, <1>2

\* Once the base is written, it is that of the state that follows.  A base that is not
\* written was right already when the run writes the same items again.
LEMMA SaveBaseFits ==
    ASSUME Fits, NEW m \in Machine, SaveBase(m)
    PROVE  Fits'
<1>0. /\ TypeOK /\ SavedFits(m) /\ RunFits(m) /\ run[m] \in Run /\ run[m].phase = "base"
      /\ run' = [run EXCEPT ![m].phase = "save"]
      /\ UNCHANGED <<file, st, held, store, missing, hidden, was, behind>>
  BY MachineIs DEF Fits, SaveBase
<1>00. settling(m)
  BY <1>0 DEF settling
<1> PICK x : x = run[m]
  OBVIOUS
<1> DEFINE y == [x EXCEPT !.phase = "save"]
<1>1. /\ y \in Run /\ y.phase = "save" /\ (y.wrote <=> x.wrote) /\ y.st = x.st /\ y.content = x.content
      /\ y.held = x.held /\ y.file = x.file /\ y.behind = x.behind
  BY <1>0 DEF Run
<1>2. run' = [run EXCEPT ![m] = y]
  BY <1>0
<1> HIDE DEF y
<1>3. run'[m] = y /\ (\A j \in Machine : j # m => run'[j] = run[j]) /\ run' \in [Machine -> Run]
  <2>1. run \in [Machine -> Run]
    BY <1>0 DEF TypeOK, Run
  <2> QED BY <1>1, <1>2, <2>1
<1>4. items(x.content) \in Data
  BY <1>0, ItemsAre DEF Run
<1>5. \/ /\ base' = [base EXCEPT ![m] = items(x.content)] /\ torn' = torn \ {m}
         /\ based' = IF x.content = Absent THEN based \ {m} ELSE based \cup {m}
         /\ baseless' = IF again(m) THEN baseless ELSE baseless \ {m}
      \/ base' = base /\ based' = based /\ torn' = torn /\ baseless' = baseless \cup {m}
  BY DEF SaveBase
<1>6. TypeOK'
  <2>1. base' \in [Machine -> Data] /\ torn' \subseteq Machine /\ baseless' \subseteq Machine
    BY <1>0, <1>4, <1>5 DEF TypeOK
  <2>2. based' \subseteq Machine /\ \A j \in Machine \ based' : base'[j] = Nothing
    <3>1. x.content = Absent => items(x.content) = Nothing
      BY DEF items
    <3> QED BY <1>0, <1>5, <3>1 DEF TypeOK
  <2> QED BY <1>0, <1>3, <2>1, <2>2 DEF TypeOK, Run
<1>7. \A j \in Machine : j # m => base'[j] = base[j] /\ (j \in torn' <=> j \in torn)
                                  /\ (j \in baseless' <=> j \in baseless)
  BY <1>0, <1>5 DEF TypeOK
<1>8. \A j \in Machine : j # m => SavedFits(j)' /\ RunFits(j)'
  BY <1>0, <1>3, <1>7, LeftAlone
<1>9. (again(m)' <=> again(m)) /\ own(m)' = own(m) /\ ownSoon(m)' = ownSoon(m)
  BY <1>0, <1>1, <1>3 DEF again, own, ownSoon
<1>10. /\ Alike(x.st.entry, items(x.content), ownSoon(m))
       /\ Left(x.file, items(x.content), x.held, ownSoon(m))
       /\ x.wrote /\ x.st.etag > 0 /\ x.st.etag <= store.etag /\ st[m].etag <= x.st.etag
       /\ m \notin baseless \/ ~again(m) => IsAt(x.st, items(x.content), store)
       /\ m \notin baseless /\ again(m) => base[m] = items(x.content) /\ Alike(st[m].entry, base[m], own(m))
  BY <1>0, <1>00 DEF RunFits
<1>11. m \notin baseless' => base'[m] = items(x.content) /\ (again(m) => m \notin baseless)
  BY <1>0, <1>5 DEF TypeOK
<1>12. m \notin baseless' /\ again(m) => base'[m] = base[m] /\ m \notin baseless
  BY <1>10, <1>11
<1>13. SavedFits(m)'
  <2>1. (st[m] # NoState => st[m].etag > 0)'
    BY <1>0 DEF SavedFits
  <2>2. (st[m] # NoState /\ m \notin baseless /\ st[m].etag = store.etag =>
            IsAt(st[m], base[m], store) /\ Alike(st[m].entry, base[m], own(m)))'
    <3> SUFFICES ASSUME st[m] # NoState, m \notin baseless', st[m].etag = store.etag
                 PROVE  (IsAt(st[m], base[m], store) /\ Alike(st[m].entry, base[m], own(m)))'
      BY <1>0
    <3>1. st[m].etag = x.st.etag /\ st[m].etag # 0
      <4>1. st[m].etag \in Nat /\ store.etag \in Nat /\ x.st.etag \in Nat
        BY <1>0, MachineIs, StateFields DEF Run
      <4> QED BY <1>10, <4>1
    <3>2. again(m)
      BY <3>1 DEF again
    <3>3. IsAt(st[m], base[m], store) /\ Alike(st[m].entry, base[m], own(m))
      BY <1>0, <1>12, <3>2 DEF SavedFits
    <3> QED BY <1>0, <1>9, <1>12, <3>2, <3>3 DEF IsAt, Alike
  <2>3. (m \notin torn \cup baseless =>
          /\ run[m].phase \notin {"base", "save"} \/ again(m) =>
                /\ st[m] = NoState => base[m] = Nothing
                /\ st[m] # NoState => Alike(st[m].entry, base[m], own(m)))'
    <3> SUFFICES ASSUME m \notin baseless', again(m)
                 PROVE  (/\ st[m] = NoState => base[m] = Nothing
                         /\ st[m] # NoState => Alike(st[m].entry, base[m], own(m)))'
      BY <1>1, <1>3, <1>9
    <3>1. st[m] # NoState
      BY DEF again, NoState
    <3> QED BY <1>0, <1>9, <1>10, <1>12, <3>1 DEF Alike
  <2>4. ~(run'[m].phase = "idle" \/ planned(m)' \/ run'[m].phase = "upload")
    BY <1>1, <1>3 DEF planned
  <2> QED BY <2>1, <2>2, <2>3, <2>4 DEF SavedFits
<1>14. RunFits(m)'
  <2>1. Alike(run[m].st.entry, items(run[m].content), ownSoon(m))'
        /\ Left(run[m].file, items(run[m].content), run[m].held, ownSoon(m))'
    BY <1>1, <1>3, <1>9, <1>10 DEF Alike, Left
  <2>2. run'[m].wrote /\ run'[m].st.etag > 0 /\ run'[m].st.etag <= store'.etag
        /\ st'[m].etag <= run'[m].st.etag
    BY <1>0, <1>1, <1>3, <1>10
  <2>3. m \notin baseless' \/ ~again(m) => IsAt(run[m].st, items(run[m].content), store)'
    BY <1>0, <1>1, <1>3, <1>10, <1>12 DEF IsAt
  <2>4. m \notin baseless' => (base[m] = items(run[m].content))'
    BY <1>1, <1>3, <1>11
  <2>5. m \notin baseless' /\ again(m) => Alike(st[m].entry, base[m], own(m))'
    BY <1>0, <1>9, <1>10, <1>12 DEF Alike
  <2>6. ~planned(m)' /\ ~sending(m)' /\ run'[m].phase = "save"
    BY <1>1, <1>3 DEF planned, sending
  <2> QED BY <1>9, <2>1, <2>2, <2>3, <2>4, <2>5, <2>6 DEF RunFits
<1> QED BY <1>6, <1>8, <1>13, <1>14 DEF Fits

\* What the run has kept ready for its end is what is saved.
LEMMA SaveStateFits ==
    ASSUME Fits, NEW m \in Machine, SaveState(m)
    PROVE  Fits'
<1>0. /\ TypeOK /\ SavedFits(m) /\ RunFits(m) /\ run[m] \in Run /\ run[m].phase = "save"
      /\ st' = [st EXCEPT ![m] = run[m].st] /\ held' = [held EXCEPT ![m] = run[m].held]
      /\ behind' = [behind EXCEPT ![m] = run[m].behind] /\ was' = [was EXCEPT ![m] = run[m].file]
      /\ run' = [run EXCEPT ![m] = Idle]
      /\ settling(m)
      /\ UNCHANGED <<file, base, based, store, missing, hidden, torn, baseless, budget>>
  BY MachineIs DEF Fits, SaveState, settling
<1> PICK x : x = run[m]
  OBVIOUS
<1>1. x.st \in EntryState /\ x.held \in SUBSET Item /\ x.behind \in SUBSET Item /\ x.file \in Data
      /\ x.st.etag \in Nat
  BY <1>0, StateFields DEF Run
<1>2. /\ Alike(x.st.entry, items(x.content), hidden[m] \cup x.behind)
      /\ Left(x.file, items(x.content), x.held, hidden[m] \cup x.behind)
      /\ x.st.etag > 0 /\ x.st.etag <= store.etag
      /\ m \notin baseless => IsAt(x.st, items(x.content), store) /\ base[m] = items(x.content)
  BY <1>0 DEF RunFits, ownSoon
<1>3. TypeOK'
  <2>1. \A j \in Machine : st'[j].etag <= store'.etag
    BY <1>0, <1>2 DEF TypeOK
  <2> QED BY <1>0, <1>1, <2>1, IdleIs DEF TypeOK, Run
<1>4. /\ st'[m] = x.st /\ held'[m] = x.held /\ behind'[m] = x.behind /\ was'[m] = x.file /\ run'[m] = Idle
      /\ \A j \in Machine : j # m =>
            st'[j] = st[j] /\ held'[j] = held[j] /\ behind'[j] = behind[j] /\ was'[j] = was[j] /\ run'[j] = run[j]
  BY <1>0 DEF TypeOK
<1>5. \A j \in Machine : j # m => SavedFits(j)' /\ RunFits(j)'
  BY <1>0, <1>4, LeftAlone
<1>6. own(m)' = hidden[m] \cup x.behind
  BY <1>0, <1>4 DEF own
<1>7. x.st # NoState
  BY <1>2 DEF NoState
<1>8. m \notin baseless => Alike(st[m].entry, base[m], own(m))' /\ Left(was[m], base[m], held[m], own(m))'
  BY <1>0, <1>2, <1>4, <1>6 DEF Alike, Left
<1>9. m \notin baseless => IsAt(st[m], base[m], store)'
  BY <1>0, <1>2, <1>4 DEF IsAt
<1>10. SavedFits(m)'
  BY <1>0, <1>2, <1>4, <1>7, <1>8, <1>9 DEF SavedFits
<1>11. RunFits(m)'
  BY <1>4, IdleIs DEF RunFits, planned, sending, settling
<1> QED BY <1>3, <1>5, <1>10, <1>11 DEF Fits

\* A user who keeps this machine's file makes it the object, as it is.
LEMMA KeepLocalFits ==
    ASSUME Fits, NEW m \in Machine, KeepLocal(m)
    PROVE  Fits'
<1>0. TypeOK /\ SavedFits(m) /\ RunFits(m) /\ run[m].phase = "idle"
  BY DEF Fits, KeepLocal, Differs
<1> PICK n : n = store.etag + 1
  OBVIOUS
<1> PICK f \in EntryOrAbsent : f = file[m]
  BY <1>0, MachineIs
<1> PICK d \in Data : d = current(m)
  BY <1>0, MachineIs
<1>1. d = items(f)
  BY DEF current
<1> PICK o : o = [etag |-> n, entry |-> f, writer |-> m]
  OBVIOUS
<1> PICK t : t = [etag |-> n, entry |-> f]
  OBVIOUS
<1>2. store.etag \in Nat /\ n \in Nat /\ n > store.etag /\ n > 0
      /\ \A j \in Machine : st[j].etag \in Nat /\ st[j].etag <= store.etag
  BY <1>0, MachineIs
<1>3. t \in EntryState /\ t # NoState /\ t.etag = n /\ t.entry = f
  BY <1>2, StateIs
<1>4. o \in Object /\ o.etag = n /\ o.entry = f
  BY <1>2 DEF Object
<1> PICK k : k = IF f = Absent THEN {} ELSE held[m]
  OBVIOUS
<1>5. k \in SUBSET Item
  BY <1>0, MachineIs
<1>6. /\ store' = o /\ st' = [st EXCEPT ![m] = t] /\ held' = [held EXCEPT ![m] = k]
      /\ base' = [base EXCEPT ![m] = d] /\ was' = [was EXCEPT ![m] = d]
      /\ based' = IF f = Absent THEN based \ {m} ELSE based \cup {m}
      /\ torn' = torn \ {m} /\ baseless' = baseless \ {m}
      /\ UNCHANGED <<file, run, missing, hidden, behind>>
  BY DEF KeepLocal, newETag
<1>7. TypeOK'
  <2>2. based' \subseteq Machine /\ \A j \in Machine \ based' : base'[j] = Nothing
    <3>1. f = Absent => d = Nothing
      BY <1>1 DEF items
    <3> QED BY <1>0, <1>6, <3>1 DEF TypeOK
  <2>1. \A j \in Machine : st'[j].etag <= store'.etag
    BY <1>0, <1>2, <1>3, <1>4, <1>6 DEF TypeOK
  <2> QED BY <1>0, <1>2, <1>3, <1>4, <1>5, <1>6, <2>1, <2>2 DEF TypeOK
<1>8. /\ st'[m] = t /\ base'[m] = d /\ was'[m] = d
      /\ \A j \in Machine : j # m =>
            /\ st'[j] = st[j] /\ held'[j] = held[j] /\ base'[j] = base[j] /\ was'[j] = was[j]
            /\ (j \in torn' <=> j \in torn) /\ (j \in baseless' <=> j \in baseless)
  BY <1>0, <1>6 DEF TypeOK
<1>9. \A j \in Machine : j # m => SavedFits(j)' /\ RunFits(j)'
  BY <1>2, <1>4, <1>6, <1>8, LeftAlone
<1>10. Alike(st[m].entry, base[m], own(m))' /\ Left(was[m], base[m], held[m], own(m))'
  BY <1>1, <1>3, <1>8 DEF Alike, Left
<1>11. IsAt(st[m], base[m], store)'
  BY <1>1, <1>3, <1>4, <1>6, <1>8 DEF IsAt
<1>12. SavedFits(m)'
  BY <1>2, <1>3, <1>8, <1>10, <1>11 DEF SavedFits
<1>13. RunFits(m)'
  BY <1>0, <1>6 DEF RunFits, planned, sending, settling
<1> QED BY <1>7, <1>9, <1>12, <1>13 DEF Fits

\* A user who keeps the other version gets what a download would have left.
LEMMA KeepRemoteFits ==
    ASSUME Fits, NEW m \in Machine, KeepRemote(m)
    PROVE  Fits'
<1>0. TypeOK /\ SavedFits(m) /\ RunFits(m) /\ run[m].phase = "idle" /\ store # NoObject
  BY DEF Fits, KeepRemote, Differs
<1> PICK d \in Data : d = items(store.entry)
  BY <1>0, MachineIs
<1> PICK n \in Nat : n = store.etag
  BY <1>0, MachineIs
<1> PICK gone \in BOOLEAN : gone = (store.entry = Absent)
  OBVIOUS
<1> PICK w : w = written(m, d)
  OBVIOUS
<1> PICK s : s = scanned(m, d)
  OBVIOUS
<1> PICK k : k = keepHere(m, d)
  OBVIOUS
<1> PICK y : y = stayed(m, d)
  OBVIOUS
<1>1. /\ w \in Data /\ s \in Data /\ k \in SUBSET Item /\ y \in SUBSET Item
      /\ Left(w, d, k, hidden[m] \cup y) /\ Alike(File(s), d, hidden[m] \cup y)
  BY <1>0, WrittenIs
<1>2. File(s) \in EntryOrAbsent /\ File(w) \in EntryOrAbsent /\ File(s) # Absent
      /\ Absent \in EntryOrAbsent /\ Nothing \in Data
  BY <1>1, FileIs, Constants DEF EntryOrAbsent
<1> PICK e \in EntryOrAbsent : e = IF gone THEN Absent ELSE File(s)
  BY <1>2
<1> PICK f \in EntryOrAbsent : f = IF gone THEN Absent ELSE File(w)
  BY <1>2
<1> PICK x \in Data : x = IF gone THEN Nothing ELSE w
  BY <1>1, <1>2
<1> PICK t : t = [etag |-> n, entry |-> e]
  OBVIOUS
<1>3. t \in EntryState /\ t # NoState /\ t.etag = n /\ t.entry = e
  BY StateIs
<1>4. /\ file' = [file EXCEPT ![m] = f] /\ was' = [was EXCEPT ![m] = x]
      /\ st' = [st EXCEPT ![m] = t] /\ held' = [held EXCEPT ![m] = k]
      /\ behind' = [behind EXCEPT ![m] = y] /\ base' = [base EXCEPT ![m] = d]
      /\ based' = IF gone THEN based \ {m} ELSE based \cup {m}
      /\ torn' = torn \ {m} /\ baseless' = baseless \ {m}
      /\ UNCHANGED <<store, run, missing, hidden>>
  BY DEF KeepRemote
<1>5. n > 0
  BY <1>0, MachineIs
<1>6. TypeOK'
  <2>1. \A j \in Machine : st'[j].etag <= store'.etag
    BY <1>0, <1>3, <1>4 DEF TypeOK
  <2>2. based' \subseteq Machine /\ \A j \in Machine \ based' : base'[j] = Nothing
    <3>1. gone => d = Nothing
      BY DEF items
    <3> QED BY <1>0, <1>4, <3>1 DEF TypeOK
  <2> QED BY <1>0, <1>1, <1>3, <1>4, <2>1, <2>2 DEF TypeOK
<1>7. /\ st'[m] = t /\ base'[m] = d /\ was'[m] = x /\ held'[m] = k /\ behind'[m] = y
      /\ \A j \in Machine : j # m =>
            /\ st'[j] = st[j] /\ held'[j] = held[j] /\ base'[j] = base[j] /\ was'[j] = was[j]
            /\ behind'[j] = behind[j]
            /\ (j \in torn' <=> j \in torn) /\ (j \in baseless' <=> j \in baseless)
  BY <1>0, <1>4 DEF TypeOK
<1>8. \A j \in Machine : j # m => SavedFits(j)' /\ RunFits(j)'
  BY <1>4, <1>7, LeftAlone
<1>9. own(m)' = hidden[m] \cup y
  BY <1>4, <1>7 DEF own
<1>10. Alike(e, d, hidden[m] \cup y) /\ Left(x, d, k, hidden[m] \cup y) /\ (e = Absent <=> store.entry = Absent)
  <2>1. CASE gone
    <3>1. d = Nothing /\ e = Absent /\ x = Nothing /\ items(e) = Nothing
      BY <2>1 DEF items
    <3> QED BY <2>1, <3>1 DEF Alike, Left
  <2>2. CASE ~gone
    BY <1>1, <1>2, <2>2
  <2> QED BY <2>1, <2>2
<1>11. Alike(st[m].entry, base[m], own(m))' /\ Left(was[m], base[m], held[m], own(m))'
  BY <1>3, <1>7, <1>9, <1>10 DEF Alike, Left
<1>12. IsAt(st[m], base[m], store)'
  BY <1>3, <1>4, <1>7, <1>10 DEF IsAt
<1>13. SavedFits(m)'
  BY <1>3, <1>5, <1>7, <1>11, <1>12 DEF SavedFits
<1>14. RunFits(m)'
  BY <1>0, <1>4 DEF RunFits, planned, sending, settling
<1> QED BY <1>6, <1>8, <1>13, <1>14 DEF Fits

\* What the user and his tools do to the file, or install, touches nothing that was saved.
LEMMA UserFits ==
    ASSUME Fits, NEW m \in Machine,
           \/ \E i \in Item, v \in Value \cup {NoValue} : Edit(m, i, v)
           \/ Delete(m)
           \/ \E v \in Value : Install(m, v)
    PROVE  Fits'
<1>0. TypeOK
  BY DEF Fits
<1>1. UNCHANGED <<base, based, st, held, store, run, hidden, was, torn, baseless, behind>>
  BY DEF Edit, Delete, Install
<1>2. \A j \in Machine : SavedFits(j)' /\ RunFits(j)'
  BY <1>1, LeftAlone
<1>3. file' \in [Machine -> EntryOrAbsent] /\ missing' \in [Machine -> SUBSET Value]
  <2>1. ASSUME NEW i \in Item, NEW v \in Value \cup {NoValue}, Edit(m, i, v)
        PROVE  file' \in [Machine -> EntryOrAbsent] /\ missing' \in [Machine -> SUBSET Value]
    <3> PICK d : d = [current(m) EXCEPT ![i] = v]
      OBVIOUS
    <3>1. current(m) \in [Item -> Value \cup {NoValue}]
      BY <1>0, MachineIs, Constants
    <3>2. d \in Data
      BY <3>1, Constants
    <3>3. File(d) \in EntryOrAbsent
      BY <3>2, FileIs
    <3>4. file' = [file EXCEPT ![m] = File(d)] /\ missing' = missing
      BY <2>1 DEF Edit
    <3> QED BY <1>0, <3>3, <3>4 DEF TypeOK
  <2>2. ASSUME Delete(m)
        PROVE  file' \in [Machine -> EntryOrAbsent] /\ missing' \in [Machine -> SUBSET Value]
    <3>1. Absent \in EntryOrAbsent
      BY DEF EntryOrAbsent
    <3> QED BY <1>0, <2>2, <3>1 DEF TypeOK, Delete
  <2>3. ASSUME NEW v \in Value, Install(m, v)
        PROVE  file' \in [Machine -> EntryOrAbsent] /\ missing' \in [Machine -> SUBSET Value]
    BY <1>0, <2>3 DEF TypeOK, Install
  <2> QED BY <2>1, <2>2, <2>3
<1>4. TypeOK'
  BY <1>0, <1>1, <1>3 DEF TypeOK
<1> QED BY <1>2, <1>4 DEF Fits

-----------------------------------------------------------------------------
(* The invariant *)

\* At the start nothing is saved and nothing runs.
LEMMA InitFits == Init => Fits
<1> SUFFICES ASSUME Init PROVE Fits
  OBVIOUS
<1>1. /\ base = [m \in Machine |-> Nothing] /\ st = [m \in Machine |-> NoState]
      /\ held = [m \in Machine |-> {}] /\ behind = [m \in Machine |-> {}]
      /\ store = NoObject /\ run = [m \in Machine |-> Idle] /\ was = [m \in Machine |-> Nothing]
      /\ torn = {} /\ baseless = {} /\ based = {}
  BY DEF Init
<1>2. /\ file \in [Machine -> EntryOrAbsent]
      /\ missing \in [Machine -> SUBSET Value] /\ hidden \in [Machine -> SUBSET Item]
  <2> PICK start \in Starts : file = start.file /\ missing = start.missing /\ hidden = start.hidden
    BY DEF Init
  <2>1. /\ start.file \in [Machine -> {Absent} \cup {[kind |-> "file", data |-> d, exec |-> FALSE] : d \in Data}]
        /\ start.missing \in [Machine -> SUBSET Value] /\ start.hidden \in [Machine -> SUBSET Item]
    BY StructuredAssumption
  <2>2. ASSUME NEW d \in Data PROVE [kind |-> "file", data |-> d, exec |-> FALSE] \in EntryOrAbsent
    BY FileIs DEF File
  <2>3. {Absent} \cup {[kind |-> "file", data |-> d, exec |-> FALSE] : d \in Data} \subseteq EntryOrAbsent
    BY <2>2 DEF EntryOrAbsent
  <2> QED BY <2>1, <2>3
<1>3. NoState \in EntryState /\ NoState.etag = 0
  BY DEF EntryState, NoState
<1>4. store \in Object /\ store.etag = 0
  BY <1>1 DEF Object, NoObject, EntryOrAbsent
<1>5. TypeOK
  BY <1>1, <1>2, <1>3, <1>4, IdleIs, Constants DEF TypeOK, Run
<1>6. ASSUME NEW m \in Machine PROVE SavedFits(m) /\ RunFits(m)
  <2>1. st[m] = NoState /\ base[m] = Nothing /\ was[m] = Nothing /\ run[m].phase = "idle"
    BY <1>1, IdleIs
  <2>2. Left(was[m], base[m], held[m], own(m))
    BY <2>1 DEF Left
  <2> QED BY <2>1, <2>2 DEF SavedFits, RunFits, planned, sending, settling
<1> QED BY <1>5, <1>6 DEF Fits

\* Every step keeps the invariant.
LEMMA NextFits == Fits /\ [Next]_vars => Fits'
<1> SUFFICES ASSUME Fits, [Next]_vars PROVE Fits'
  OBVIOUS
<1>1. CASE UNCHANGED vars
  <2>1. \A j \in Machine : SavedFits(j)' /\ RunFits(j)'
    BY <1>1, LeftAlone DEF vars
  <2>2. TypeOK'
    BY <1>1 DEF Fits, TypeOK, vars
  <2> QED BY <2>1, <2>2 DEF Fits
<1>2. CASE Next
  <2> PICK m \in Machine :
        \/ SyncStep(m) \/ Crash(m)
        \/ KeepLocal(m) \/ KeepRemote(m)
        \/ \E i \in Item, v \in Value \cup {NoValue} : Edit(m, i, v)
        \/ Delete(m)
        \/ \E v \in Value : Install(m, v)
    BY <1>2 DEF Next
  <2>1. CASE SyncStep(m)
    <3>1. ASSUME run[m].phase = "idle", NEW a, a = plan(m),
                 Download(m, a) \/ Merge(m, a) \/ Upload(m, a) \/ Record(m, a)
          PROVE  Fits'
      BY <3>1, DownloadFits, MergeFits, UploadFits, RecordFits
    <3> QED BY <2>1, <3>1, ReadFits, WriteFits, PutFits, SaveBaseFits, SaveStateFits DEF SyncStep
  <2> QED BY <2>1, CrashFits, KeepLocalFits, KeepRemoteFits, UserFits
<1> QED BY <1>1, <1>2

\* The invariant holds of every state.
LEMMA AlwaysFits == Spec => []Fits
<1> QED BY InitFits, NextFits, PTL DEF Spec

\* Type correctness: no run, kill or edit leaves values that the program cannot have.
THEOREM StructuredTypes == Spec => []TypeOK
<1>1. Fits => TypeOK
  BY DEF Fits
<1> QED BY <1>1, AlwaysFits, PTL

-----------------------------------------------------------------------------
(* What rests *)

\* An idle machine with nothing planned has the items of the object.
LEMMA FitsRest == Fits => RestingAgree
<1> SUFFICES ASSUME Fits, NEW m \in Machine, run[m].phase = "idle",
                    NEW a, a = plan(m), a.kind = "none", m \notin baseless
             PROVE  /\ file[m] = Absent => store.entry = Absent
                    /\ \A i \in Item \ (hidden[m] \cup HeldNames(storeItems, missing[m]) \cup behind[m]) :
                            current(m)[i] = storeItems[i]
  BY DEF RestingAgree
<1>0. TypeOK /\ SavedFits(m)
  BY DEF Fits
<1>1. /\ \/ st[m] = NoState /\ local(m) = Absent /\ store.etag = 0
         \/ st[m] # NoState /\ st[m].etag = store.etag /\ SameEntry(local(m), st[m].entry, m)
      /\ local(m) = Absent \/ m \notin based \/ released(m) = {}
  BY <1>0, PlanGives DEF PlanFits
<1>2. local(m) \in EntryOrAbsent /\ (local(m) = Absent <=> file[m] = Absent)
  BY <1>0, LocalIs
<1>3. local(m) = Absent => current(m) = Nothing /\ items(local(m)) = Nothing
  BY <1>2 DEF current, items
<1>4. CASE st[m] = NoState /\ local(m) = Absent /\ store.etag = 0
  <2>1. store.entry = Absent
    BY <1>0, <1>4, MachineIs DEF NoObject
  <2>2. storeItems = Nothing
    BY <2>1 DEF storeItems, items
  <2> QED BY <1>3, <1>4, <2>1, <2>2
<1>5. CASE st[m] # NoState /\ st[m].etag = store.etag /\ SameEntry(local(m), st[m].entry, m)
  <2>1. /\ base[m] = storeItems /\ (st[m].entry = Absent <=> store.entry = Absent)
        /\ Alike(st[m].entry, base[m], own(m))
    BY <1>0, <1>5 DEF SavedFits, IsAt, storeItems
  <2>2. items(local(m)) = items(st[m].entry) /\ (local(m) = Absent <=> st[m].entry = Absent)
    BY <1>0, <1>2, <1>5, SameItems, MachineIs, StateFields
  <2>3. ASSUME NEW i \in Item, i \notin hidden[m] \cup behind[m], i \notin HeldNames(storeItems, missing[m])
        PROVE  current(m)[i] = storeItems[i]
    <3>1. items(local(m))[i] = storeItems[i]
      BY <2>1, <2>2, <2>3 DEF Alike, own
    <3>2. CASE local(m) = Absent
      BY <1>3, <3>1, <3>2
    <3>3. CASE local(m) # Absent
      <4>1. items(local(m))[i] = IF i \in held[m] /\ current(m)[i] = NoValue THEN base[m][i] ELSE current(m)[i]
        BY <1>0, <2>3, <3>3, LocalIs
      <4>2. CASE i \notin held[m]
        BY <3>1, <4>1, <4>2
      <4>3. CASE i \in held[m]
        <5>1. m \notin based
          BY <1>1, <2>1, <2>3, <3>3, <4>3 DEF released
        <5>3. base[m] = Nothing
          BY <1>0, <5>1 DEF TypeOK
        <5>2. base[m][i] = NoValue
          BY <5>3 DEF Nothing
        <5> QED BY <2>1, <3>1, <4>1, <5>2
      <4> QED BY <4>2, <4>3
    <3> QED BY <3>2, <3>3
  <2> QED BY <1>2, <2>1, <2>2, <2>3
<1> QED BY <1>1, <1>4, <1>5

\* A machine whose sync finds nothing to do has the store's version of every item, but for
\* those it hides, cannot use or kept its own version of (decide, Merge3, release).
THEOREM RestingMachinesAgree == Spec => []RestingAgree
BY AlwaysFits, FitsRest, PTL

-----------------------------------------------------------------------------
(* What a step does *)

\* Only a machine's own sync, or its end, changes its run.
LEMMA OwnRun ==
    ASSUME TypeOK, Next, NEW m \in Machine, run'[m] # run[m]
    PROVE  SyncStep(m) \/ Crash(m)
<1> PICK n \in Machine :
        \/ SyncStep(n) \/ Crash(n)
        \/ KeepLocal(n) \/ KeepRemote(n)
        \/ \E i \in Item, v \in Value \cup {NoValue} : Edit(n, i, v)
        \/ Delete(n)
        \/ \E v \in Value : Install(n, v)
  BY DEF Next
<1>1. ~(KeepLocal(n) \/ KeepRemote(n) \/ (\E i \in Item, v \in Value \cup {NoValue} : Edit(n, i, v))
        \/ Delete(n) \/ (\E v \in Value : Install(n, v)))
  BY DEF KeepLocal, KeepRemote, Edit, Delete, Install
<1>2. CASE n = m
  BY <1>1, <1>2
<1>3. CASE n # m
  <2>1. \E r : run' = [run EXCEPT ![n] = r]
    <3>1. CASE Crash(n)
      BY <3>1 DEF Crash
    <3>2. CASE SyncStep(n)
      BY <3>2 DEF SyncStep, Download, Merge, Fetch, Read, Write, Upload, Record, Put, SaveBase,
                  SaveState, Continue
    <3> QED BY <1>1, <3>1, <3>2
  <2>2. run'[m] = run[m]
    BY <1>3, <2>1 DEF TypeOK
  <2> QED BY <2>2
<1> QED BY <1>2, <1>3

\* What puts an object is a put that was not lost, of what the run was about to put.
LEMMA PutsAre ==
    ASSUME TypeOK, Next, NEW m \in Machine, puts(m)
    PROVE  run[m].ifMatch = store.etag /\ store'.entry = run[m].content
<1>1. run[m].phase = "upload" /\ run'[m].phase = "base"
  BY DEF puts
<1>2. SyncStep(m) \/ Crash(m)
  BY <1>1, OwnRun
<1>3. run' # [run EXCEPT ![m] = Idle]
  BY <1>1, IdleIs DEF TypeOK
<1>4. Put(m)
  BY <1>1, <1>2, <1>3 DEF SyncStep, Crash, Read, Write, SaveBase, SaveState
<1> QED BY <1>3, <1>4 DEF Put

\* A put changes no item but those the run was allowed to change.
LEMMA FitsSend ==
    Fits /\ [Next]_vars =>
        [\A m \in Machine :
            puts(m) /\ store.entry # Absent /\ m \notin torn \cup baseless =>
                \A i \in Item : storeItems'[i] # storeItems[i] =>
                    i \in (run[m].edited \ hidden[m]) \cup behind[m] \cup run[m].behind]_vars
<1> SUFFICES ASSUME Fits, Next, NEW m \in Machine,
                    puts(m), store.entry # Absent, m \notin torn \cup baseless,
                    NEW i \in Item, storeItems'[i] # storeItems[i]
             PROVE  i \in (run[m].edited \ hidden[m]) \cup behind[m] \cup run[m].behind
  OBVIOUS
<1>1. TypeOK /\ RunFits(m) /\ run[m].phase = "upload"
  BY DEF Fits, puts
<1>2. run[m].ifMatch = store.etag /\ store'.entry = run[m].content
  BY <1>1, PutsAre
<1>3. run[m].content # Absent /\ Theirs(run[m].content.data, items(store.entry), m)
  BY <1>1, <1>2 DEF RunFits, sending
<1>4. storeItems' = run[m].content.data
  BY <1>2, <1>3 DEF storeItems, items
<1> QED BY <1>3, <1>4 DEF Theirs, storeItems

\* An upload changes an item in the store only if the user of that machine changed this
\* item since its last sync (withHeld, Pin, Merge3), while the base is that of the state.
THEOREM OnlyOwnEditsAreSent == Spec => OnlyOwnEditsSent
BY FitsSend, AlwaysFits, PTL DEF Spec, OnlyOwnEditsSent

\* What a sync writes into the file is what it has made of it.
LEMMA WritesAre ==
    ASSUME TypeOK, Next, NEW m \in Machine, writes(m)
    PROVE  file'[m] = File(run[m].file) /\ run[m].file \in Data
<1>1. run[m].phase = "write" /\ run'[m].phase \in {"upload", "base"}
  BY DEF writes
<1>2. SyncStep(m) \/ Crash(m)
  BY <1>1, OwnRun
<1>3. run' # [run EXCEPT ![m] = Idle]
  BY <1>1, IdleIs DEF TypeOK
<1>4. Write(m)
  BY <1>1, <1>2, <1>3 DEF SyncStep, Crash, Read, Put, SaveBase, SaveState
<1> QED BY <1>4, MachineIs DEF Write, TypeOK, Run

\* A write changes no item that the user had changed when the run looked.
LEMMA FitsKeep ==
    Fits /\ [Next]_vars =>
        [\A m \in Machine :
            writes(m) /\ file[m] # Absent =>
                \A i \in Item :
                    file[m].data[i] = run[m].seen[i] /\ file'[m].data[i] # file[m].data[i] =>
                        /\ i \notin hidden[m]
                        /\ i \in run[m].edited \ (behind[m] \cup held[m]) /\ file[m].data[i] # base[m][i] =>
                             st[m] = NoState \/ m \in torn \cup baseless]_vars
<1> SUFFICES ASSUME Fits, Next, NEW m \in Machine, writes(m), file[m] # Absent, NEW i \in Item,
                    file[m].data[i] = run[m].seen[i], file'[m].data[i] # file[m].data[i]
             PROVE  /\ i \notin hidden[m]
                    /\ i \in run[m].edited \ (behind[m] \cup held[m]) /\ file[m].data[i] # base[m][i] =>
                         st[m] = NoState \/ m \in torn \cup baseless
  OBVIOUS
<1>1. TypeOK /\ RunFits(m) /\ run[m].phase = "write" /\ planned(m)
  BY DEF Fits, writes, planned
<1>2. file'[m].data = run[m].file
  BY <1>1, WritesAre, FileIs
<1>3. run[m].file[i] # run[m].seen[i]
  BY <1>2
<1>4. i \notin hidden[m]
  BY <1>1, <1>3 DEF RunFits
<1>5. Minds(run[m].file, m)
  BY <1>1 DEF RunFits
<1> QED BY <1>3, <1>4, <1>5 DEF Minds, own

\* A write changes no hidden item, and none that the user had changed since the last sync
\* when the run looked, except where it meets the shared file for the first time (Hiding,
\* Merge3, mergeStructured) or the base is not that of the state.
THEOREM EditsStay == Spec => EditsAreKept
BY FitsKeep, AlwaysFits, PTL DEF Spec, EditsAreKept

\* No step of a run leaves a file or an object deleted that was there.
LEMMA FitsDeleteNothing ==
    Fits /\ [Next]_vars =>
        [\A m \in Machine : run'[m] # run[m] =>
            /\ file[m] # Absent => file'[m] # Absent
            /\ store.entry # Absent => store'.entry # Absent]_vars
<1> SUFFICES ASSUME Fits, Next, NEW m \in Machine, run'[m] # run[m]
             PROVE  /\ file[m] # Absent => file'[m] # Absent
                    /\ store.entry # Absent => store'.entry # Absent
  OBVIOUS
<1>0. TypeOK /\ RunFits(m)
  BY DEF Fits
<1>1. SyncStep(m) \/ Crash(m)
  BY <1>0, OwnRun
<1>2. CASE Crash(m) \/ Read(m) \/ SaveBase(m) \/ SaveState(m)
  BY <1>2 DEF Crash, Read, SaveBase, SaveState
<1>3. CASE Put(m)
  <2>1. file' = file /\ run[m].content # Absent
    BY <1>0, <1>3 DEF Put, RunFits, sending
  <2>2. store' = store \/ store'.entry = run[m].content
    BY <1>3 DEF Put
  <2> QED BY <2>1, <2>2
<1>4. CASE Write(m)
  <2>1. run[m].file \in Data /\ file \in [Machine -> EntryOrAbsent]
    BY <1>0, MachineIs DEF TypeOK, Run
  <2>2. store' = store /\ file'[m] = File(run[m].file)
    BY <1>4, <2>1 DEF Write
  <2> QED BY <2>1, <2>2, FileIs
<1>5. ASSUME NEW a, Download(m, a) \/ Merge(m, a) \/ Upload(m, a) \/ Record(m, a)
      PROVE  /\ file[m] # Absent => file'[m] # Absent
             /\ store.entry # Absent => store'.entry # Absent
  BY <1>5 DEF Download, Merge, Fetch, Upload, Record
<1> QED BY <1>1, <1>2, <1>3, <1>4, <1>5 DEF SyncStep

\* No sync ever deletes a structured file, on a machine or in the store
\* (protectStructured).
THEOREM NothingIsDeleted == Spec => NeverDeleted
BY FitsDeleteNothing, AlwaysFits, PTL DEF Spec, NeverDeleted
=============================================================================
