----------------------------- MODULE UndoProofs -----------------------------
(***************************************************************************)
(* What a change on one machine can lose: its types, that at every point   *)
(* of a change each content there was is on disk or in the backup, and     *)
(* that a step which fails and is rolled back leaves the disk as it was.   *)
(***************************************************************************)
EXTENDS Undo, SequenceTheorems, TLAPS

-----------------------------------------------------------------------------
(* What everything is *)

\* What can be at a path of a skill.
SkillPath == {"claude", "agents"} \cup FilePath
AtSkill == Dir \cup {Absent, Link}
AtFile(p) == {Absent, Present} \cup (IF p = "codexConfig" THEN {Link} ELSE {})

Item == [path : {"registry"}, was : [Kind -> Decision]]
          \cup {it \in [path : ConfigPath \cup HookPath, was : {Absent, Present, Link}] : it.was \in AtFile(it.path)}
          \cup [path : SkillPath, was : AtSkill]

BackupSet == [id : Nat, items : Seq(Item), manifest : BOOLEAN, undone : BOOLEAN,
              before : Disk, apartBefore : SUBSET Kind, pristine : BOOLEAN, cut : BOOLEAN, linked : BOOLEAN]

\* A single write, with what it is about.
OpFits(p) ==
    /\ p.do \in {"write", "unlink"} => [path |-> p.path, val |-> p.val] \in Written
    /\ p.do = "move" => p.path \in {"claude", "agents"} /\ p.val \in {"claude", "agents"}
    /\ p.do = "add" => p.path \in ConfigPath /\ p.val \in ConfigPath

Proc == [job : {"none", "step", "sync", "hooks", "undo"},
         phase : {"idle", "change", "rollback", "restore"},
         todo : Seq(Op), left : Nat, id : Nat]

\* Writes that fit their job.
Todo(s, job) ==
    /\ s \in Seq(Op)
    /\ \A i \in DOMAIN s : OpFits(s[i]) /\ (s[i].do = "decide" => job = "step")

\* Backups with IDs that grow up to n.
Sets(bs, n) ==
    /\ bs \in Seq(BackupSet) /\ n \in Nat
    /\ \A i \in DOMAIN bs : bs[i].id \in 1..n
    /\ \A i, j \in DOMAIN bs : i < j => bs[i].id < bs[j].id

\* What is remembered.
Remembered ==
    /\ journal \in 0..lastID
    /\ memory \in [Kind -> Decision \cup {"unset"}]
    /\ apart \subseteq Kind
    /\ troubles \in 0..MaxTroubles
    /\ intent.do \in {"none", "share", "unshare", "undo"}
    /\ intent.do \in {"share", "unshare"} =>
          intent.kind \in Kind /\ intent.tool \in {"claude", "codex"}

\* The bookkeeping: what a process has before it fits what it is doing, and it has
\* its backup.
ProcFits ==
    /\ proc \in Proc
    /\ proc.phase = "idle" <=> proc.job = "none"
    /\ proc.phase = "idle" => proc = NoProc
    /\ proc.phase = "change" => proc.job \in {"step", "sync", "hooks"}
    /\ proc.phase = "rollback" => proc.job = "step"
    /\ proc.phase = "restore" => proc.job = "undo"
    /\ proc.job = "step" => intent.do \in {"share", "unshare"}
    /\ Todo(proc.todo, proc.job)
    /\ proc.phase # "idle" => \E i \in DOMAIN backups : backups[i].id = proc.id
    /\ proc.phase \in {"rollback", "restore"} => proc.left <= Len(mine.items)

Shaped ==
    /\ disk \in Disk
    /\ Sets(backups, lastID)
    /\ Remembered
    /\ ProcFits

-----------------------------------------------------------------------------
(* Why nothing is lost *)

\* A write that leaves the skill alone.
SparesSkill(p) ==
    \/ p.do \in {"save", "same", "add", "decide"}
    \/ p.do = "write" /\ p.path \in ConfigPath \cup HookPath

\* The path is saved before the first write.
SavedFirst(s, q) ==
    \E i \in DOMAIN s :
        /\ s[i].do = "save" /\ s[i].path = q
        /\ \A h \in 1..i : s[h].do = "save"

\* No write is to the skill.
Spares(s) == \A i \in DOMAIN s : SparesSkill(s[i])

\* A step, or the hooks: a place of the skill is saved as it was, or is as it was and
\* will be saved before the first write, or there is no write to it.
PlaceKept(q) ==
    \/ \E j \in DOMAIN mine.items :
          mine.items[j].path = q /\ mine.items[j].was = mine.before[q]
    \/ disk[q] = mine.before[q] /\ (SavedFirst(proc.todo, q) \/ Spares(proc.todo))

\* A sync: every write follows the save of its path.
Alternates(s) ==
    \A i \in DOMAIN s :
        /\ s[i].do = "save" => i + 1 \in DOMAIN s /\ s[i + 1].do # "save"
        /\ s[i].do # "save" =>
              /\ s[i].do \in {"write", "unlink", "link", "replace"}
              /\ s[i].do # "write" => s[i].path = "claude"
              /\ i > 1 => s[i - 1].do = "save" /\ s[i - 1].path = s[i].path

\* What the next write of a sync replaces is saved.
NextIsSaved ==
    proc.todo # <<>> /\ next.do # "save" =>
        {at(disk, next.path)} \cap Content \subseteq contentsOf(mine)

Keeps ==
    /\ proc.job = "sync" => Alternates(proc.todo)
    /\ proc.phase = "change" /\ mine.pristine =>
          /\ proc.job \in {"step", "hooks"} => PlaceKept("claude") /\ PlaceKept("agents")
          /\ proc.job = "sync" => NextIsSaved /\ NothingLost

Fits == Shaped /\ Keeps

-----------------------------------------------------------------------------
(* Why a step can be rolled back *)

\* The places of a disk.
Place == {"claude", "agents", "registry"} \cup ConfigPath \cup HookPath

\* The places that a write of a step can change.
touches(p) ==
    CASE p.do \in {"write", "add"} -> {p.path}
      [] p.do = "link"            -> {"claude"}
      [] p.do = "move"            -> {p.path, p.val}
      [] p.do = "adapt"           -> {"agents"}
      [] p.do = "decide"          -> {"registry"}
      [] OTHER                    -> {}

\* What is saved, and what will be.
savedIn(b) == {b.items[j].path : j \in DOMAIN b.items}
savesOf(s) == {s[i].path : i \in {j \in DOMAIN s : s[j].do = "save"}}

\* The saves come first, and every write is to what is saved then.
Prepared(s, done) ==
    \A i \in DOMAIN s :
        /\ s[i].do = "save" => s[i].path \in Place /\ \A h \in 1..i : s[h].do = "save"
        /\ s[i].do # "save" =>
              /\ s[i].do \in {"write", "add", "link", "move", "same", "adapt", "decide"}
              /\ touches(s[i]) \subseteq Place \cap (done \cup savesOf(s))

\* What a backup has of a place is what was there.
SavedAsBefore(b) ==
    \A j \in DOMAIN b.items : b.items[j].path \in Place /\ b.items[j].was = b.before[b.items[j].path]

\* What may differ: what is saved, and a linked config.toml.
mayDiffer(b) == savedIn(b) \cup aside(b)

\* A place that is not as before is saved; of a rollback, among what it has left.  A
\* linked config.toml is exempt.
CanRollBack ==
    proc.job = "step" /\ mine.pristine =>
        /\ SavedAsBefore(mine)
        /\ proc.phase = "change" =>
              /\ Prepared(proc.todo, mayDiffer(mine))
              /\ \A q \in Place : disk[q] = mine.before[q] \/ q \in mayDiffer(mine)
              /\ proc.todo # <<>> /\ next.do = "save" => disk = mine.before
        /\ proc.phase = "rollback" =>
              \A q \in Place \ aside(mine) : disk[q] = mine.before[q] \/ \E j \in 1..proc.left : mine.items[j].path = q

-----------------------------------------------------------------------------
(* Sequences *)

\* Changing one place of a sequence.
LEMMA ExceptKeeps ==
    ASSUME NEW S, NEW s \in Seq(S), NEW i \in DOMAIN s, NEW e \in S
    PROVE  /\ [s EXCEPT ![i] = e] \in Seq(S)
           /\ DOMAIN [s EXCEPT ![i] = e] = DOMAIN s
           /\ [s EXCEPT ![i] = e][i] = e
           /\ \A j \in DOMAIN s : j # i => [s EXCEPT ![i] = e][j] = s[j]
BY ExceptSeq

\* A sequence made place by place.
LEMMA MadeSeq ==
    ASSUME NEW S, NEW n \in Nat, NEW t, DOMAIN t = 1..n, t = [i \in DOMAIN t |-> t[i]],
           \A i \in 1..n : t[i] \in S
    PROVE  t \in Seq(S) /\ Len(t) = n
<1>1. t = [i \in 1..n |-> t[i]]
  OBVIOUS
<1> QED BY <1>1, IsASeq

\* One sequence after the other.
LEMMA ConcatKeeps ==
    ASSUME NEW S, NEW s \in Seq(S), NEW t \in Seq(S)
    PROVE  /\ s \o t \in Seq(S)
           /\ Len(s \o t) = Len(s) + Len(t)
           /\ \A i \in 1..Len(s) : (s \o t)[i] = s[i]
           /\ \A i \in 1..Len(t) : (s \o t)[Len(s) + i] = t[i]
BY ConcatProperties

\* All but one of the elements.
LEMMA RemoveKeeps ==
    ASSUME NEW S, NEW s \in Seq(S), NEW i \in DOMAIN s
    PROVE  /\ RemoveAt(s, i) \in Seq(S)
           /\ Len(RemoveAt(s, i)) = Len(s) - 1
           /\ \A j \in DOMAIN RemoveAt(s, i) :
                 RemoveAt(s, i)[j] = IF j < i THEN s[j] ELSE s[j + 1]
<1>0. Len(s) \in Nat /\ i \in 1..Len(s)
  BY LenProperties
<1> DEFINE u == SubSeq(s, 1, i - 1)
           v == SubSeq(s, i + 1, Len(s))
           t == RemoveAt(s, i)
<1>1. u \in Seq(S) /\ Len(u) = i - 1 /\ \A j \in 1..(i - 1) : u[j] = s[j]
  BY <1>0, SubSeqProperties
<1>2. v \in Seq(S) /\ Len(v) = Len(s) - i /\ \A j \in 1..(Len(s) - i) : v[j] = s[i + j]
  BY <1>0, SubSeqProperties
<1>3. t = u \o v
  BY DEF RemoveAt
<1> HIDE DEF u, v, t
<1>4. /\ t \in Seq(S) /\ Len(t) = Len(u) + Len(v)
      /\ \A j \in 1..Len(u) : t[j] = u[j]
      /\ \A j \in 1..Len(v) : t[Len(u) + j] = v[j]
  <2>1. u \in Seq(S) /\ v \in Seq(S)
    BY <1>1, <1>2
  <2>2. /\ u \o v \in Seq(S) /\ Len(u \o v) = Len(u) + Len(v)
        /\ \A j \in 1..Len(u) : (u \o v)[j] = u[j]
        /\ \A j \in 1..Len(v) : (u \o v)[Len(u) + j] = v[j]
    BY <2>1, ConcatKeeps
  <2> QED BY <1>3, <2>2
<1>5. /\ Len(t) = Len(s) - 1
      /\ \A j \in 1..(Len(s) - 1) : t[j] = IF j < i THEN s[j] ELSE s[j + 1]
  <2> PICK n \in Nat : n = Len(s)
    BY <1>0
  <2>1. i \in 1..n /\ Len(u) = i - 1 /\ Len(v) = n - i
    BY <1>0, <1>1, <1>2
  <2>2. Len(t) = n - 1
    BY <1>4, <2>1
  <2>3. ASSUME NEW j \in 1..(n - 1), j < i PROVE t[j] = s[j]
    <3>1. j \in 1..(i - 1) /\ j \in 1..Len(u)
      BY <2>1, <2>3
    <3>2. t[j] = u[j]
      BY <1>4, <3>1
    <3>3. u[j] = s[j]
      BY <1>1, <3>1
    <3> QED BY <3>2, <3>3
  <2>4. ASSUME NEW j \in 1..(n - 1), ~(j < i) PROVE t[j] = s[j + 1]
    <3> PICK h : h = j - (i - 1)
      OBVIOUS
    <3>1. h \in 1..(n - i) /\ (i - 1) + h = j /\ i + h = j + 1
      BY <2>1, <2>4
    <3>2. t[(i - 1) + h] = v[h]
      BY <1>4, <2>1, <3>1
    <3>3. v[h] = s[i + h]
      BY <1>2, <3>1
    <3> QED BY <3>1, <3>2, <3>3
  <2> QED BY <2>2, <2>3, <2>4
<1>6. DOMAIN t = 1..(Len(s) - 1)
  BY <1>4, <1>5, LenProperties
<1> QED BY <1>4, <1>5, <1>6 DEF t

-----------------------------------------------------------------------------
(* The disk *)

\* The constants that tell what a place holds apart.
LEMMA Constants ==
    /\ Absent \notin Content /\ Empty \notin Content /\ Link \notin Content /\ Present \notin Content
    /\ Absent # Link /\ Absent # Present /\ Link # Present /\ Absent # Empty
    /\ Adapt \in [Content -> Content] /\ SyncPlans \subseteq Seq(Written)
    /\ MaxChanges \in Nat /\ MaxTroubles \in Nat /\ keepBackups \in Nat \ {0}
BY ContentAssumption, UndoAssumption DEF Absent, Empty, Link, Present

\* A path of a skill leads to one of its two places, every other to itself.
LEMMA Places ==
    ASSUME NEW d, NEW p \in Path
    PROVE  /\ place(d, p) \in {"claude", "agents", "registry"} \cup ConfigPath \cup HookPath
           /\ p \in SkillPath <=> place(d, p) \in {"claude", "agents"}
           /\ p \notin FilePath => place(d, p) = p
BY DEF place, Path, SkillPath, FilePath, ConfigPath, HookPath

\* Putting a skill's content, a link or nothing into one of its places.
LEMMA PutSkill ==
    ASSUME NEW d \in Disk, NEW q \in {"claude", "agents"}, NEW v \in AtSkill
    PROVE  /\ [d EXCEPT ![q] = v] \in Disk
           /\ [d EXCEPT ![q] = v][q] = v
           /\ \A x \in {"claude", "agents"} \ {q} : [d EXCEPT ![q] = v][x] = d[x]
           /\ [d EXCEPT ![q] = v].registry = d.registry
BY DEF Disk, AtSkill

\* Putting a file there, or away.
LEMMA PutFile ==
    ASSUME NEW d \in Disk, NEW q \in ConfigPath \cup HookPath, NEW v \in AtFile(q)
    PROVE  /\ [d EXCEPT ![q] = v] \in Disk
           /\ [d EXCEPT ![q] = v].claude = d.claude /\ [d EXCEPT ![q] = v].agents = d.agents
BY DEF Disk, AtFile, ConfigPath, HookPath

\* What is at the paths.
LEMMA AtPaths ==
    ASSUME NEW d \in Disk, NEW p \in Path
    PROVE  /\ p \in SkillPath => at(d, p) \in AtSkill
           /\ p \in ConfigPath \cup HookPath => at(d, p) \in AtFile(p)
           /\ p = "registry" => at(d, p) \in [Kind -> Decision]
           /\ item(d, p) \in Item
<1>1. CASE p \in SkillPath
  <2>1. place(d, p) \in {"claude", "agents"}
    BY <1>1, Places
  <2>2. d[place(d, p)] \in AtSkill /\ Absent \in AtSkill
    BY <2>1 DEF Disk, AtSkill
  <2> QED BY <1>1, <2>2 DEF at, item, Item, SkillPath, FilePath, ConfigPath, HookPath
<1>2. CASE p \in ConfigPath \cup HookPath
  <2>1. place(d, p) = p
    BY <1>2 DEF place, ConfigPath, HookPath
  <2>2. d[p] \in AtFile(p)
    BY <1>2 DEF Disk, AtFile, ConfigPath, HookPath
  <2>3. p \notin FilePath /\ p \notin SkillPath /\ p # "registry"
    BY <1>2 DEF SkillPath, FilePath, ConfigPath, HookPath
  <2>4. at(d, p) = d[p]
    BY <2>1, <2>3 DEF at
  <2>5. item(d, p) \in Item
    BY <1>2, <2>2, <2>4 DEF item, Item, AtFile
  <2> QED BY <1>2, <2>2, <2>3, <2>4, <2>5
<1>3. CASE p = "registry"
  <2>1. place(d, p) = p
    BY <1>3 DEF place
  <2>2. d[p] \in [Kind -> Decision]
    BY <1>3 DEF Disk
  <2> QED BY <1>3, <2>1, <2>2 DEF at, item, Item, SkillPath, FilePath, ConfigPath, HookPath
<1> QED BY <1>1, <1>2, <1>3 DEF Path, SkillPath

\* A write leaves a disk.
LEMMA EffectFits ==
    ASSUME NEW d \in Disk, NEW p \in Op, OpFits(p)
    PROVE  effect(d, p) \in Disk
<1>1. CASE p.do \in {"write", "unlink"}
  <2> PICK x : x = p.path
    OBVIOUS
  <2> PICK v : v = p.val
    OBVIOUS
  <2>1. x \in Path /\ [path |-> x, val |-> v] \in Written
    BY <1>1 DEF Op, OpFits
  <2>2. \/ x \in SkillPath /\ v \in AtSkill
        \/ x \in ConfigPath \cup HookPath /\ v \in AtFile(x)
    BY <2>1 DEF Written, SkillPath, AtSkill, AtFile, FilePath, ConfigPath, Dir
  <2>3. [d EXCEPT ![place(d, x)] = v] \in Disk
    BY <2>1, <2>2, Places, PutSkill, PutFile DEF FilePath, ConfigPath, HookPath
  <2> QED BY <1>1, <2>3 DEF effect, put
<1>2. CASE p.do \in {"link", "replace"}
  BY <1>2 DEF effect, Disk
<1>3. CASE p.do = "move"
  <2> PICK x \in {"claude", "agents"} : x = p.path
    BY <1>3 DEF OpFits
  <2> PICK y \in {"claude", "agents"} : y = p.val
    BY <1>3 DEF OpFits
  <2>1. place(d, y) = y /\ \A e : place(e, x) = x
    BY DEF place
  <2>2. at(d, x) \in AtSkill
    BY AtPaths DEF Path, SkillPath
  <2> PICK e : e = [d EXCEPT ![y] = at(d, x)]
    OBVIOUS
  <2>3. e \in Disk
    BY <2>2, PutSkill
  <2>4. [e EXCEPT ![x] = Absent] \in Disk
    BY <2>3, PutSkill DEF AtSkill
  <2> QED BY <1>3, <2>1, <2>4 DEF effect, put
<1>4. CASE p.do = "adapt"
  BY <1>4, Constants DEF effect, Disk, Dir
<1>5. CASE p.do = "add"
  <2> PICK x \in ConfigPath : x = p.path
    BY <1>5 DEF OpFits
  <2>1. place(d, x) = x
    BY DEF place, ConfigPath
  <2>2. [d EXCEPT ![x] = Present] \in Disk
    BY PutFile DEF AtFile
  <2> QED BY <1>5, <2>1, <2>2 DEF effect, put
<1>6. CASE p.do \notin {"write", "unlink", "link", "replace", "move", "adapt", "add"}
  BY <1>6 DEF effect
<1> QED BY <1>1, <1>2, <1>3, <1>4, <1>5, <1>6

\* What was saved can be put back.
LEMMA RestoredFits ==
    ASSUME NEW d \in Disk, NEW x \in Item
    PROVE  restored(d, x) \in Disk
<1>1. CASE x \in [path : {"registry"}, was : [Kind -> Decision]]
  BY <1>1 DEF restored, put, place, FilePath, Disk
<1>2. CASE x.path \in ConfigPath \cup HookPath /\ x.was \in AtFile(x.path)
  <2>1. place(d, x.path) = x.path /\ x.path \notin FilePath
    BY <1>2 DEF place, FilePath, ConfigPath, HookPath
  <2> QED BY <1>2, <2>1, PutFile DEF restored, put
<1>3. CASE x \in [path : SkillPath, was : AtSkill]
  <2>1. place(d, x.path) \in {"claude", "agents"}
    BY <1>3, Places DEF Path, SkillPath
  <2>2. x.was \in AtSkill /\ Empty \in AtSkill
    BY <1>3 DEF AtSkill, Dir
  <2> QED BY <2>1, <2>2, PutSkill DEF restored, put
<1> QED BY <1>1, <1>2, <1>3 DEF Item

-----------------------------------------------------------------------------
(* The backups *)

\* What is in one of two sequences is in the one after the other, and nothing else.
LEMMA ConcatElements ==
    ASSUME NEW S, NEW s \in Seq(S), NEW t \in Seq(S), NEW i \in DOMAIN (s \o t)
    PROVE  (\E j \in DOMAIN s : (s \o t)[i] = s[j]) \/ (\E j \in DOMAIN t : (s \o t)[i] = t[j])
<1> DEFINE u == s \o t
<1>1. /\ u \in Seq(S) /\ Len(u) = Len(s) + Len(t)
      /\ \A j \in 1..Len(s) : u[j] = s[j]
      /\ \A j \in 1..Len(t) : u[Len(s) + j] = t[j]
  BY ConcatKeeps
<1>2. Len(s) \in Nat /\ Len(t) \in Nat /\ DOMAIN s = 1..Len(s) /\ DOMAIN t = 1..Len(t)
  BY LenProperties
<1> HIDE DEF u
<1>3. i \in 1..Len(u)
  BY <1>1, LenProperties DEF u
<1>4. CASE i <= Len(s)
  BY <1>1, <1>2, <1>3, <1>4 DEF u
<1>5. CASE ~(i <= Len(s))
  <2> PICK j : j = i - Len(s)
    OBVIOUS
  <2>1. j \in 1..Len(t) /\ Len(s) + j = i
    BY <1>1, <1>2, <1>3, <1>5
  <2>2. u[Len(s) + j] = t[j]
    BY <1>1, <2>1
  <2> QED BY <1>2, <2>1, <2>2 DEF u
<1> QED BY <1>4, <1>5

\* An ID is that of one backup.
LEMMA IdsDiffer ==
    ASSUME NEW bs, NEW n, Sets(bs, n), NEW i \in DOMAIN bs, NEW j \in DOMAIN bs,
           bs[i].id = bs[j].id
    PROVE  i = j
<1>1. i \in Nat /\ j \in Nat
  BY LenProperties DEF Sets
<1>2. bs[i].id \in Nat /\ bs[j].id \in Nat
  BY DEF Sets
<1>3. (i < j => bs[i].id < bs[j].id) /\ (j < i => bs[j].id < bs[i].id)
  BY DEF Sets
<1> QED BY <1>1, <1>2, <1>3

\* The backup with an ID.
LEMMA IndexIs ==
    ASSUME Sets(backups, lastID), NEW i \in DOMAIN backups
    PROVE  index(backups[i].id) = i
<1> PICK id : id = backups[i].id
  OBVIOUS
<1>1. index(id) \in DOMAIN backups /\ backups[index(id)].id = id
  BY DEF index
<1> QED BY <1>1, IdsDiffer

\* The backup of a process at work.
LEMMA MineIs ==
    ASSUME Shaped, proc.phase # "idle"
    PROVE  /\ index(proc.id) \in DOMAIN backups /\ mine = backups[index(proc.id)]
           /\ mine \in BackupSet /\ mine.id = proc.id
<1> PICK i \in DOMAIN backups : backups[i].id = proc.id
  BY DEF Shaped, ProcFits
<1>1. index(proc.id) = i
  BY IndexIs DEF Shaped
<1>2. backups[i] \in BackupSet
  BY ElementOfSeq DEF Shaped, Sets
<1> QED BY <1>1, <1>2 DEF mine

\* In the next state, the backup with the process's ID is its backup.
LEMMA MineIsNext ==
    ASSUME Sets(backups', lastID'), NEW i \in DOMAIN backups', backups'[i].id = proc'.id
    PROVE  index(proc.id)' = i /\ mine' = backups'[i] /\ mine' \in BackupSet
<1>1. index(proc.id)' \in DOMAIN backups' /\ backups'[index(proc.id)'].id = proc'.id
  BY DEF index
<1>2. index(proc.id)' = i
  BY <1>1, IdsDiffer
<1> QED BY <1>2, ElementOfSeq DEF mine, Sets

\* As long as the backups and the process's ID stay.
LEMMA MineStays ==
    ASSUME Shaped, proc.phase # "idle", backups' = backups, lastID' = lastID, proc'.id = proc.id
    PROVE  mine' = mine /\ \E i \in DOMAIN backups' : backups'[i].id = proc'.id
<1> PICK i : i = index(proc.id)
  OBVIOUS
<1>1. i \in DOMAIN backups /\ mine = backups[i] /\ backups[i].id = proc.id
  BY MineIs
<1>2. Sets(backups', lastID') /\ i \in DOMAIN backups' /\ backups'[i].id = proc'.id
  BY <1>1 DEF Shaped
<1> QED BY <1>1, <1>2, MineIsNext

\* When something else touches the disk, only the pristine marks go.
LEMMA TouchedSets ==
    ASSUME NEW bs, NEW n, Sets(bs, n), NEW id
    PROVE  /\ Sets(touchedBy(id, bs), n) /\ DOMAIN touchedBy(id, bs) = DOMAIN bs
           /\ \A i \in DOMAIN bs :
                 /\ touchedBy(id, bs)[i].id = bs[i].id
                 /\ touchedBy(id, bs)[i].items = bs[i].items
                 /\ touchedBy(id, bs)[i].before = bs[i].before
                 /\ touchedBy(id, bs)[i].pristine = TRUE => bs[i].id = id
<1> DEFINE t == touchedBy(id, bs)
<1>1. DOMAIN t = DOMAIN bs
  BY DEF touchedBy
<1>2. ASSUME NEW i \in DOMAIN bs
      PROVE  /\ t[i] \in BackupSet
             /\ t[i].id = bs[i].id /\ t[i].items = bs[i].items /\ t[i].before = bs[i].before
             /\ t[i].pristine = TRUE => bs[i].id = id
  <2>1. bs[i] \in BackupSet
    BY ElementOfSeq DEF Sets
  <2>2. t[i] = IF bs[i].id = id THEN bs[i] ELSE [bs[i] EXCEPT !.pristine = FALSE]
    BY DEF touchedBy
  <2> QED BY <2>1, <2>2 DEF BackupSet
<1>3. t \in Seq(BackupSet)
  <2>1. Len(bs) \in Nat /\ DOMAIN bs = 1..Len(bs)
    BY LenProperties DEF Sets
  <2>2. t = [i \in DOMAIN t |-> t[i]]
    BY DEF touchedBy
  <2> HIDE DEF t
  <2> QED BY <1>1, <1>2, <2>1, <2>2, MadeSeq
<1> HIDE DEF t
<1>4. Sets(t, n)
  BY <1>1, <1>2, <1>3 DEF Sets
<1> QED BY <1>1, <1>2, <1>4 DEF t

\* A new backup comes last.
LEMMA AppendedSets ==
    ASSUME NEW bs, NEW n, Sets(bs, n), NEW b \in BackupSet, b.id = n + 1
    PROVE  /\ Sets(Append(bs, b), n + 1)
           /\ Len(bs) + 1 \in DOMAIN Append(bs, b)
           /\ Append(bs, b)[Len(bs) + 1] = b
<1>1. /\ bs \in Seq(BackupSet) /\ n \in Nat
      /\ Len(bs) \in Nat /\ DOMAIN bs = 1..Len(bs)
  BY LenProperties DEF Sets
<1> DEFINE t == Append(bs, b)
<1>2. /\ t \in Seq(BackupSet) /\ Len(t) = Len(bs) + 1
      /\ \A i \in 1..Len(bs) : t[i] = bs[i]
      /\ t[Len(bs) + 1] = b
  BY <1>1, AppendProperties
<1>3. DOMAIN t = 1..(Len(bs) + 1)
  BY <1>2, LenProperties
<1> HIDE DEF t
<1>4. ASSUME NEW i \in DOMAIN t PROVE t[i].id \in 1..(n + 1)
  BY <1>1, <1>2, <1>3, <1>4 DEF Sets
<1>5. ASSUME NEW i \in DOMAIN t, NEW j \in DOMAIN t, i < j PROVE t[i].id < t[j].id
  <2>1. i \in 1..Len(bs) /\ t[i] = bs[i] /\ bs[i].id \in 1..n
    BY <1>1, <1>2, <1>3, <1>5 DEF Sets
  <2>2. CASE j = Len(bs) + 1
    BY <1>1, <1>2, <2>1, <2>2
  <2>3. CASE j # Len(bs) + 1
    <3>1. j \in 1..Len(bs) /\ t[j] = bs[j]
      BY <1>1, <1>2, <1>3, <2>3
    <3> QED BY <1>1, <1>5, <2>1, <3>1 DEF Sets
  <2> QED BY <2>2, <2>3
<1>6. Sets(t, n + 1)
  BY <1>1, <1>2, <1>4, <1>5 DEF Sets
<1> QED BY <1>1, <1>2, <1>3, <1>6 DEF t

\* A backup that changes keeps its ID.
LEMMA UpdatedSets ==
    ASSUME NEW bs, NEW n, Sets(bs, n), NEW i \in DOMAIN bs, NEW b \in BackupSet, b.id = bs[i].id
    PROVE  /\ Sets([bs EXCEPT ![i] = b], n)
           /\ i \in DOMAIN [bs EXCEPT ![i] = b]
           /\ [bs EXCEPT ![i] = b][i] = b
<1> DEFINE t == [bs EXCEPT ![i] = b]
<1>1. /\ t \in Seq(BackupSet) /\ DOMAIN t = DOMAIN bs /\ t[i] = b
      /\ \A j \in DOMAIN bs : j # i => t[j] = bs[j]
  BY ExceptKeeps DEF Sets
<1>2. \A j \in DOMAIN bs : t[j].id = bs[j].id
  BY <1>1
<1> HIDE DEF t
<1>3. Sets(t, n)
  BY <1>1, <1>2 DEF Sets
<1> QED BY <1>1, <1>3 DEF t

\* The newest backups stay, with their IDs.
LEMMA LastSets ==
    ASSUME NEW bs, NEW n, Sets(bs, n), NEW f \in Nat, f <= Len(bs)
    PROVE  Sets(SubSeq(bs, f + 1, Len(bs)), n)
<1> PICK m : m = Len(bs)
  OBVIOUS
<1>1. bs \in Seq(BackupSet) /\ m \in Nat /\ DOMAIN bs = 1..m /\ f <= m
  BY LenProperties DEF Sets
<1> DEFINE t == SubSeq(bs, f + 1, m)
<1>2. /\ t \in Seq(BackupSet) /\ Len(t) = m - f
      /\ \A i \in 1..(m - f) : t[i] = bs[f + i]
  BY <1>1, SubSeqProperties
<1>3. DOMAIN t = 1..(m - f)
  BY <1>2, LenProperties
<1> HIDE DEF t
<1>4. \A i \in DOMAIN t : f + i \in DOMAIN bs /\ t[i] = bs[f + i] /\ i \in Nat
  BY <1>1, <1>2, <1>3
<1>5. \A i, j \in DOMAIN t : i < j => f + i < f + j
  BY <1>4
<1>6. Sets(t, n)
  BY <1>2, <1>4, <1>5 DEF Sets
<1> QED BY <1>6 DEF t

\* What pruning leaves are backups with their IDs (backup.go, prune).
LEMMA PrunedSets ==
    ASSUME NEW bs, NEW n, Sets(bs, n), NEW k \in Nat \ {0}
    PROVE  Sets(pruned(bs, k), n)
<1> PICK m : m = Len(bs)
  OBVIOUS
<1>1. m \in Nat
  BY LenProperties DEF Sets
<1>2. CASE m > k
  <2> PICK f : f = m - k
    OBVIOUS
  <2>1. f \in Nat /\ f <= m /\ m - k + 1 = f + 1
    BY <1>1, <1>2
  <2>2. Sets(SubSeq(bs, f + 1, m), n)
    BY <2>1, LastSets
  <2> QED BY <1>2, <2>1, <2>2 DEF pruned
<1>3. CASE ~(m > k)
  <2>1. Sets(SubSeq(bs, 0 + 1, m), n)
    BY <1>1, LastSets
  <2>2. 0 + 1 = 1
    OBVIOUS
  <2> QED BY <1>3, <2>1, <2>2 DEF pruned
<1> QED BY <1>2, <1>3

\* The other backups stay, with their IDs.
LEMMA RemovedSets ==
    ASSUME NEW bs, NEW n, Sets(bs, n), NEW i \in DOMAIN bs
    PROVE  Sets(RemoveAt(bs, i), n)
<1> DEFINE t == RemoveAt(bs, i)
<1>1. /\ bs \in Seq(BackupSet) /\ Len(bs) \in Nat /\ DOMAIN bs = 1..Len(bs)
  BY LenProperties DEF Sets
<1>2. /\ t \in Seq(BackupSet) /\ Len(t) = Len(bs) - 1
      /\ \A j \in DOMAIN t : t[j] = IF j < i THEN bs[j] ELSE bs[j + 1]
  BY <1>1, RemoveKeeps
<1>3. DOMAIN t = 1..(Len(bs) - 1)
  BY <1>2, LenProperties
<1> HIDE DEF t
<1> DEFINE g(j) == IF j < i THEN j ELSE j + 1
<1>4. \A j \in DOMAIN t : g(j) \in DOMAIN bs /\ t[j] = bs[g(j)]
  BY <1>1, <1>2, <1>3
<1>5. \A j, h \in DOMAIN t : j < h => g(j) < g(h)
  BY <1>1, <1>3
<1> HIDE DEF g
<1> QED BY <1>2, <1>4, <1>5 DEF Sets, t

-----------------------------------------------------------------------------
(* What a process has before it *)

\* No write, one, two or three.
LEMMA NoWrite ==
    ASSUME NEW job
    PROVE  Todo(<<>>, job)
BY DEF Todo

\* One write that fits is a list of such writes.
LEMMA OneWrite ==
    ASSUME NEW job, NEW a \in Op, OpFits(a), a.do = "decide" => job = "step"
    PROVE  Todo(<<a>>, job)
BY DEF Todo

\* So are two.
LEMMA TwoWrites ==
    ASSUME NEW job, NEW a \in Op, NEW b \in Op, OpFits(a), OpFits(b),
           "decide" \in {a.do, b.do} => job = "step"
    PROVE  Todo(<<a, b>>, job)
BY DEF Todo

\* And three.
LEMMA ThreeWrites ==
    ASSUME NEW job, NEW a \in Op, NEW b \in Op, NEW c \in Op, OpFits(a), OpFits(b), OpFits(c),
           "decide" \in {a.do, b.do, c.do} => job = "step"
    PROVE  Todo(<<a, b, c>>, job)
BY DEF Todo

\* Some writes after others.
LEMMA MoreWrites ==
    ASSUME NEW job, NEW s, NEW t, Todo(s, job), Todo(t, job)
    PROVE  Todo(s \o t, job)
<1> DEFINE u == s \o t
<1>1. u \in Seq(Op) /\ s \in Seq(Op) /\ t \in Seq(Op)
  BY ConcatKeeps DEF Todo
<1>2. \A i \in DOMAIN u : (\E j \in DOMAIN s : u[i] = s[j]) \/ (\E j \in DOMAIN t : u[i] = t[j])
  BY <1>1, ConcatElements
<1> HIDE DEF u
<1>3. Todo(u, job)
  BY <1>1, <1>2 DEF Todo
<1> QED BY <1>3 DEF u

\* The writes from one of them on.
LEMMA LastWrites ==
    ASSUME NEW job, NEW s, Todo(s, job), NEW f \in Nat
    PROVE  /\ Todo(SubSeq(s, f + 1, Len(s)), job)
           /\ DOMAIN SubSeq(s, f + 1, Len(s)) = 1..(Len(s) - f)
           /\ \A i \in 1..(Len(s) - f) : f + i \in DOMAIN s /\ SubSeq(s, f + 1, Len(s))[i] = s[f + i]
<1> PICK m : m = Len(s)
  OBVIOUS
<1>1. s \in Seq(Op) /\ m \in Nat /\ DOMAIN s = 1..m
  BY LenProperties DEF Todo
<1> DEFINE t == SubSeq(s, f + 1, m)
<1>2. /\ t \in Seq(Op)
      /\ Len(t) = IF f + 1 <= m THEN m - f ELSE 0
      /\ \A i \in 1..(m - f) : t[i] = s[f + i]
  BY <1>1, SubSeqProperties
<1>3. DOMAIN t = 1..(m - f)
  BY <1>1, <1>2, LenProperties
<1> HIDE DEF t
<1>4. \A i \in 1..(m - f) : f + i \in DOMAIN s
  BY <1>1
<1>5. Todo(t, job)
  BY <1>2, <1>3, <1>4 DEF Todo
<1> QED BY <1>2, <1>3, <1>4, <1>5 DEF t

\* The writes after the first.
LEMMA TailWrites ==
    ASSUME NEW job, NEW s, Todo(s, job), s # <<>>
    PROVE  /\ Todo(Tail(s), job)
           /\ 1 \in DOMAIN s /\ Head(s) = s[1] /\ Head(s) \in Op /\ OpFits(Head(s))
           /\ DOMAIN Tail(s) = 1..(Len(s) - 1)
           /\ \A i \in DOMAIN Tail(s) : i + 1 \in DOMAIN s /\ Tail(s)[i] = s[i + 1]
<1> PICK m : m = Len(s)
  OBVIOUS
<1>1. s \in Seq(Op) /\ m \in Nat /\ DOMAIN s = 1..m /\ m # 0
  BY LenProperties, EmptySeq DEF Todo
<1> DEFINE t == Tail(s)
<1>2. Head(s) = s[1] /\ t \in Seq(Op) /\ Len(t) = m - 1 /\ \A i \in 1..(m - 1) : t[i] = s[i + 1]
  BY <1>1, HeadTailProperties
<1>3. DOMAIN t = 1..(m - 1)
  BY <1>2, LenProperties
<1> HIDE DEF t
<1>4. \A i \in 1..(m - 1) : i + 1 \in DOMAIN s
  BY <1>1
<1>5. Todo(t, job)
  BY <1>2, <1>3, <1>4 DEF Todo
<1>6. 1 \in DOMAIN s
  BY <1>1
<1>7. s[1] \in Op
  BY <1>1, <1>6, ElementOfSeq
<1>8. OpFits(s[1])
  BY <1>6 DEF Todo
<1> QED BY <1>2, <1>3, <1>4, <1>5, <1>6, <1>7, <1>8 DEF t

\* A save, and a decision, are writes that fit.
LEMMA SaveFits ==
    ASSUME NEW p \in Path
    PROVE  /\ Do("save", p, Absent) \in Op /\ OpFits(Do("save", p, Absent))
           /\ Do("save", p, Absent).do = "save" /\ Do("save", p, Absent).path = p
           /\ Do("decide", p, Absent) \in Op /\ OpFits(Do("decide", p, Absent))
           /\ SparesSkill(Do("save", p, Absent)) /\ SparesSkill(Do("decide", p, Absent))
BY DEF Do, Op, OpFits, SparesSkill

\* A step begins with the saves of its paths, in their order, and of the registry.
LEMMA SavesFit ==
    ASSUME NEW p \in Seq(Path), NEW job
    PROVE  /\ Todo(saves(Append(p, "registry")), job) /\ Spares(saves(Append(p, "registry")))
           /\ \A i \in DOMAIN saves(Append(p, "registry")) : saves(Append(p, "registry"))[i].do = "save"
           /\ \A i \in 1..Len(p) : /\ i \in DOMAIN saves(Append(p, "registry"))
                                 /\ saves(Append(p, "registry"))[i].path = p[i]
<1> DEFINE t == Append(p, "registry")
           s == saves(t)
<1> PICK n \in Nat : n = Len(p)
  BY LenProperties
<1>1. t \in Seq(Path) /\ Len(t) = n + 1 /\ \A i \in 1..n : t[i] = p[i]
  BY AppendProperties DEF Path
<1>2. DOMAIN t = 1..(n + 1)
  BY <1>1, LenProperties
<1> HIDE DEF t
<1>3. DOMAIN s = 1..(n + 1) /\ s = [i \in DOMAIN s |-> s[i]]
  BY <1>2 DEF saves
<1>4. \A i \in 1..(n + 1) : t[i] \in Path /\ s[i] = Do("save", t[i], Absent)
  BY <1>1, <1>2, ElementOfSeq DEF saves
<1> HIDE DEF s
<1>5. \A i \in 1..(n + 1) : /\ s[i] \in Op /\ OpFits(s[i]) /\ SparesSkill(s[i])
                            /\ s[i].do = "save" /\ s[i].path = t[i]
  BY <1>4, SaveFits
<1>6. s \in Seq(Op)
  <2>1. n + 1 \in Nat
    OBVIOUS
  <2> QED BY <1>3, <1>5, <2>1, MadeSeq
<1>7. Todo(s, job) /\ Spares(s)
  BY <1>3, <1>5, <1>6 DEF Todo, Spares
<1>8. \A i \in 1..n : i \in DOMAIN s /\ s[i].path = p[i]
  BY <1>1, <1>3, <1>5
<1> QED BY <1>3, <1>5, <1>7, <1>8 DEF s, t

\* A step has its saves before it, then its writes, then its decision.
LEMMA StepTodo ==
    ASSUME NEW e, NEW kind \in Kind, NEW tool \in {"claude", "codex"},
           NEW change, Todo(change, "step"), kind = "mcp" => Spares(change)
    PROVE  /\ Todo(step(paths(e, kind, tool), change), "step")
           /\ \A q \in {"claude", "agents"} :
                 SavedFirst(step(paths(e, kind, tool), change), q) \/ Spares(step(paths(e, kind, tool), change))
<1> DEFINE last == <<Do("decide", "registry", Absent)>>
           first == saves(Append(paths(e, kind, tool), "registry"))
           s == (first \o change) \o last
<1>1. step(paths(e, kind, tool), change) = s
  BY DEF step
<1>2. Todo(last, "step") /\ Spares(last)
  <2>1. /\ Do("decide", "registry", Absent) \in Op /\ OpFits(Do("decide", "registry", Absent))
        /\ SparesSkill(Do("decide", "registry", Absent))
    BY SaveFits DEF Path
  <2>2. Todo(last, "step")
    BY <2>1, OneWrite
  <2> QED BY <2>1, <2>2 DEF Spares
<1>3. /\ Todo(first, "step") /\ Spares(first)
      /\ \A i \in DOMAIN first : first[i].do = "save"
      /\ kind = "skill" => 1 \in DOMAIN first /\ 2 \in DOMAIN first
                           /\ first[1].path = "claude" /\ first[2].path = "agents"
  <2> PICK p : p = paths(e, kind, tool)
    OBVIOUS
  <2>1. p \in Seq(Path)
    <3>1. <<"claude", "agents">> \in Seq(Path)
      BY DEF Path
    <3>2. serverFile(e, tool) \in Path
      BY DEF serverFile, Path, ConfigPath
    <3>3. <<serverFile(e, tool)>> \in Seq(Path)
      BY <3>2
    <3> QED BY <3>1, <3>3 DEF paths
  <2>2. kind = "skill" => Len(p) = 2 /\ p[1] = "claude" /\ p[2] = "agents"
    BY DEF paths
  <2> DEFINE f == saves(Append(p, "registry"))
  <2>3. /\ Todo(f, "step") /\ Spares(f) /\ \A i \in DOMAIN f : f[i].do = "save"
        /\ \A i \in 1..Len(p) : i \in DOMAIN f /\ f[i].path = p[i]
    BY <2>1, SavesFit
  <2>4. first = f
    OBVIOUS
  <2> HIDE DEF f, first
  <2>5. Todo(first, "step") /\ Spares(first) /\ \A i \in DOMAIN first : first[i].do = "save"
    BY <2>3, <2>4
  <2>6. kind = "skill" => 1 \in DOMAIN first /\ 2 \in DOMAIN first
                         /\ first[1].path = "claude" /\ first[2].path = "agents"
    BY <2>2, <2>3, <2>4
  <2> QED BY <2>5, <2>6
<1> HIDE DEF first, last
<1> DEFINE u == first \o change
<1>4. Todo(u, "step")
  BY <1>3, MoreWrites
<1>5. s = u \o last
  OBVIOUS
<1>6. Todo(s, "step")
  BY <1>2, <1>4, <1>5, MoreWrites
<1>7. CASE kind = "mcp"
  <2>1. Spares(u)
    <3>1. first \in Seq(Op) /\ change \in Seq(Op)
      BY <1>3 DEF Todo
    <3>2. \A i \in DOMAIN u : (\E j \in DOMAIN first : u[i] = first[j]) \/ (\E j \in DOMAIN change : u[i] = change[j])
      BY <3>1, ConcatElements
    <3> HIDE DEF u
    <3> QED BY <1>3, <1>7, <3>2 DEF Spares
  <2> HIDE DEF u
  <2>2. Spares(s)
    <3>1. u \in Seq(Op) /\ last \in Seq(Op)
      BY <1>2, <1>4 DEF Todo
    <3>2. \A i \in DOMAIN (u \o last) : (\E j \in DOMAIN u : (u \o last)[i] = u[j]) \/ (\E j \in DOMAIN last : (u \o last)[i] = last[j])
      BY <3>1, ConcatElements
    <3> DEFINE w == u \o last
    <3>3. \A i \in DOMAIN w : (\E j \in DOMAIN u : w[i] = u[j]) \/ (\E j \in DOMAIN last : w[i] = last[j])
      BY <3>2
    <3> HIDE DEF w
    <3>4. Spares(w)
      BY <1>2, <2>1, <3>3 DEF Spares
    <3> QED BY <1>5, <3>4 DEF w
  <2> QED BY <1>1, <1>6, <2>2
<1>8. CASE kind = "skill"
  <2> PICK n \in Nat : n = Len(first)
    BY <1>3, LenProperties DEF Todo
  <2>1. first \in Seq(Op) /\ change \in Seq(Op) /\ last \in Seq(Op) /\ u \in Seq(Op) /\ s \in Seq(Op)
    BY <1>2, <1>3, <1>4, <1>6 DEF Todo
  <2>2. DOMAIN first = 1..n /\ n >= 2
    BY <1>3, <1>8, <2>1, LenProperties
  <2>3. Len(u) = n + Len(change) /\ Len(change) \in Nat /\ Len(last) \in Nat /\ \A i \in 1..n : u[i] = first[i]
    BY <2>1, ConcatKeeps, LenProperties
  <2>4. Len(s) = Len(u) + Len(last) /\ \A i \in 1..Len(u) : s[i] = u[i]
    BY <1>5, <2>1, ConcatKeeps
  <2>5. DOMAIN s = 1..Len(s)
    BY <2>1, LenProperties
  <2> HIDE DEF u, s
  <2>6. \A i \in 1..n : i \in DOMAIN s /\ s[i] = first[i]
    BY <2>2, <2>3, <2>4, <2>5
  <2>7. s[1].do = "save" /\ s[2].do = "save" /\ s[1].path = "claude" /\ s[2].path = "agents"
        /\ 1 \in DOMAIN s /\ 2 \in DOMAIN s
    BY <1>3, <1>8, <2>2, <2>6
  <2>8. SavedFirst(s, "claude")
    BY <2>7 DEF SavedFirst
  <2>9. SavedFirst(s, "agents")
    <3>1. \A h \in 1..2 : s[h].do = "save"
      BY <2>7
    <3> QED BY <2>7, <3>1 DEF SavedFirst
  <2> QED BY <1>1, <1>6, <2>8, <2>9 DEF s
<1> QED BY <1>7, <1>8 DEF Kind

\* What shares or unshares.
LEMMA ChangesFit ==
    ASSUME NEW d, NEW tool \in {"claude", "codex"}
    PROVE  /\ Todo(shareSkill(d, tool), "step") /\ Todo(unshareSkill(tool), "step")
           /\ Todo(shareMCP(d, tool), "step") /\ Spares(shareMCP(d, tool))
           /\ Todo(unshareMCP(tool), "step") /\ Spares(unshareMCP(tool))
<1> PICK same, away, adapt, out, in, link :
        /\ same = Do("same", "claude", Absent) /\ away = Do("write", "claude", Absent)
        /\ adapt = Do("adapt", "agents", Absent) /\ out = Do("move", "claude", "agents")
        /\ in = Do("move", "agents", "claude") /\ link = Do("link", "claude", Absent)
  OBVIOUS
<1>1. \A p \in {same, away, adapt, out, in, link} : p \in Op /\ OpFits(p) /\ p.do # "decide"
  BY DEF Do, Op, OpFits, Written, Path
<1>2. Todo(shareSkill(d, tool), "step")
  <2>1. Todo(<<link>>, "step")
    BY <1>1, OneWrite
  <2>2. Todo(<<>>, "step")
    BY NoWrite
  <2>3. Todo(<<same, away, adapt>>, "step")
    BY <1>1, ThreeWrites
  <2>4. Todo(<<out, adapt>>, "step")
    BY <1>1, TwoWrites
  <2> PICK first : first = CASE tool = "claude"        -> <<>>
                             [] d.agents \in Dir      -> <<same, away, adapt>>
                             [] OTHER                 -> <<out, adapt>>
    OBVIOUS
  <2>5. Todo(first, "step")
    BY <2>2, <2>3, <2>4
  <2>6. Todo(first \o <<link>>, "step")
    BY <2>1, <2>5, MoreWrites
  <2> QED BY <2>6 DEF shareSkill
<1>3. Todo(unshareSkill(tool), "step")
  <2>1. Todo(<<away>>, "step") /\ Todo(<<in>>, "step")
    BY <1>1, OneWrite
  <2>2. Todo(<<>>, "step")
    BY NoWrite
  <2> PICK last : last = IF tool = "claude" THEN <<in>> ELSE <<>>
    OBVIOUS
  <2>3. Todo(<<away>> \o last, "step")
    BY <2>1, <2>2, MoreWrites
  <2> QED BY <2>3 DEF unshareSkill
<1> PICK f \in ConfigPath : f = serverFile(d, tool)
  BY DEF serverFile, ConfigPath
<1> PICK g \in ConfigPath : g = serverFile(d, other(tool))
  BY DEF serverFile, ConfigPath
<1> PICK h \in {"codexConfig", "claudeJSON"} : h = IF tool = "claude" THEN "codexConfig" ELSE "claudeJSON"
  OBVIOUS
<1> PICK add, remove : add = Do("add", f, g) /\ remove = Do("write", h, Absent)
  OBVIOUS
<1>4. \A p \in {add, remove} : p \in Op /\ OpFits(p) /\ p.do # "decide" /\ SparesSkill(p)
  BY DEF Do, Op, OpFits, SparesSkill, Written, Path, ConfigPath
<1>5. Todo(<<add>>, "step") /\ Todo(<<remove>>, "step")
  BY <1>4, OneWrite
<1>6. Spares(<<add>>) /\ Spares(<<remove>>)
  BY <1>4 DEF Spares
<1> QED BY <1>2, <1>3, <1>5, <1>6 DEF shareMCP, unshareMCP

\* What edits the hooks.
LEMMA HooksFit ==
    ASSUME NEW d, NEW v \in {Absent, Present}
    PROVE  Todo(hookSteps(d, v), "hooks") /\ Spares(hookSteps(d, v))
<1> DEFINE edit(p) == IF d[p] = v THEN <<>> ELSE <<Do("save", p, Absent), Do("write", p, v)>>
<1>1. ASSUME NEW p \in HookPath
      PROVE  Todo(edit(p), "hooks") /\ Spares(edit(p))
  <2> PICK a, b : a = Do("save", p, Absent) /\ b = Do("write", p, v)
    OBVIOUS
  <2>1. \A x \in {a, b} : x \in Op /\ OpFits(x) /\ x.do # "decide" /\ SparesSkill(x)
    BY DEF Do, Op, OpFits, SparesSkill, Written, Path
  <2>2. Todo(<<a, b>>, "hooks") /\ Spares(<<a, b>>)
    <3>1. Todo(<<a, b>>, "hooks")
      BY <2>1, TwoWrites
    <3> QED BY <2>1, <3>1 DEF Spares
  <2>3. Todo(<<>>, "hooks") /\ Spares(<<>>)
    BY NoWrite DEF Spares
  <2> QED BY <2>2, <2>3
<1> PICK s, t : s = edit("settings") /\ t = edit("hooksJSON")
  OBVIOUS
<1>2. Todo(s, "hooks") /\ Spares(s) /\ Todo(t, "hooks") /\ Spares(t)
  BY <1>1 DEF HookPath
<1>3. hookSteps(d, v) = s \o t
  BY DEF hookSteps
<1> DEFINE u == s \o t
<1>4. Todo(u, "hooks")
  BY <1>2, MoreWrites
<1>5. \A i \in DOMAIN u : (\E j \in DOMAIN s : u[i] = s[j]) \/ (\E j \in DOMAIN t : u[i] = t[j])
  <2>1. s \in Seq(Op) /\ t \in Seq(Op)
    BY <1>2 DEF Todo
  <2> QED BY <2>1, ConcatElements
<1> HIDE DEF u
<1>6. Spares(u)
  BY <1>2, <1>5 DEF Spares
<1> QED BY <1>3, <1>4, <1>6 DEF u

\* What a sync does: every path is saved, then written.
LEMMA SyncFits ==
    ASSUME NEW d, NEW plan \in SyncPlans
    PROVE  /\ Todo(syncSteps(d, plan), "sync") /\ Alternates(syncSteps(d, plan))
           /\ syncSteps(d, plan) # <<>> => syncSteps(d, plan)[1].do = "save"
<1> PICK n \in Nat : n = Len(plan)
  BY Constants, LenProperties
<1>1. plan \in Seq(Written) /\ DOMAIN plan = 1..n
  BY Constants, LenProperties
<1> DEFINE s == syncSteps(d, plan)
           half(i) == (i + 1) \div 2
           of(i) == plan[half(i)]
<1>2. \A i \in 1..(2 * n) : half(i) \in 1..n
  OBVIOUS
<1>10. \A i \in 1..(2 * n) : i % 2 = 1 => i + 1 \in 1..(2 * n) /\ (i + 1) % 2 # 1
  OBVIOUS
<1>11. ASSUME NEW i \in 1..(2 * n), i % 2 # 1
      PROVE  \E j \in 1..(2 * n) : j = i - 1 /\ j % 2 = 1 /\ half(j) = half(i)
  <2> PICK j \in 1..(2 * n) : j = i - 1
    BY <1>11
  <2>1. j % 2 = 1 /\ half(j) = half(i)
    BY <1>11
  <2> QED BY <2>1
<1>3. DOMAIN s = 1..(2 * n) /\ s = [i \in DOMAIN s |-> s[i]]
  BY DEF syncSteps
<1>4. \A i \in 1..(2 * n) : s[i] = IF i % 2 = 1 THEN Do("save", of(i).path, Absent) ELSE syncWrite(d, of(i))
  BY DEF syncSteps
<1> HIDE DEF s, half
<1>5. ASSUME NEW i \in 1..(2 * n)
      PROVE  /\ s[i] \in Op /\ OpFits(s[i]) /\ s[i].path = of(i).path
             /\ s[i].do = "save" <=> i % 2 = 1
             /\ s[i].do \in {"save", "write", "unlink", "link", "replace"}
             /\ s[i].do \notin {"save", "write"} => s[i].path = "claude"
  <2> PICK h : h = half(i)
    OBVIOUS
  <2>0. h \in DOMAIN plan
    <3>1. h \in 1..n
      BY <1>2
    <3> QED BY <1>1, <3>1
  <2>5. plan[h] \in Written
    BY <1>1, <2>0, ElementOfSeq
  <2> PICK to \in Written : to = of(i)
    BY <2>5
  <2> PICK x : x = to.path
    OBVIOUS
  <2> PICK v : v = to.val
    OBVIOUS
  <2>1. x \in Path /\ v \in Content \cup {Absent, Link, Present} /\ [path |-> x, val |-> v] \in Written
    BY DEF Written, Path, ConfigPath
  <2>2. /\ Do("save", x, Absent) \in Op /\ OpFits(Do("save", x, Absent))
        /\ Do("write", x, v) \in Op /\ OpFits(Do("write", x, v))
        /\ \A k \in {"unlink", "link", "replace"} : Do(k, "claude", Absent) \in Op /\ OpFits(Do(k, "claude", Absent))
    BY <2>1 DEF Do, Op, OpFits, Path, Written
  <2>3. CASE i % 2 = 1
    BY <1>4, <2>2, <2>3 DEF Do
  <2>4. CASE i % 2 # 1
    <3>1. s[i] = IF x = "claude"
                 THEN Do(IF v = Absent THEN "unlink"
                         ELSE IF d.claude \in Content /\ d.claude = d.agents THEN "replace" ELSE "link", "claude", Absent)
                 ELSE Do("write", x, v)
      BY <1>4, <2>4 DEF syncWrite
    <3> QED BY <2>2, <2>4, <3>1 DEF Do
  <2> QED BY <2>3, <2>4
<1>6. s \in Seq(Op)
  <2>1. 2 * n \in Nat
    OBVIOUS
  <2> QED BY <1>3, <1>5, <2>1, MadeSeq
<1>7. Todo(s, "sync")
  <2>1. \A i \in DOMAIN s : OpFits(s[i]) /\ s[i].do # "decide"
    BY <1>3, <1>5
  <2> QED BY <1>6, <2>1 DEF Todo
<1>8. Alternates(s)
  <2>1. ASSUME NEW i \in 1..(2 * n), i % 2 = 1
        PROVE  i + 1 \in 1..(2 * n) /\ s[i + 1].do # "save" /\ s[i].do = "save"
    <3> PICK j : j = i + 1
      OBVIOUS
    <3>1. j \in 1..(2 * n) /\ j % 2 # 1
      BY <1>10, <2>1
    <3> QED BY <1>5, <2>1, <3>1
  <2>2. ASSUME NEW i \in 1..(2 * n), i % 2 # 1
        PROVE  /\ s[i].do # "save" /\ s[i].do \in {"write", "unlink", "link", "replace"}
               /\ s[i].do # "write" => s[i].path = "claude"
               /\ s[i - 1].do = "save" /\ s[i - 1].path = s[i].path
    <3> PICK j \in 1..(2 * n) : j = i - 1 /\ j % 2 = 1 /\ half(j) = half(i)
      BY <1>11, <2>2
    <3>2. s[j].do = "save" /\ s[j].path = of(j).path
      BY <1>5
    <3> QED BY <1>5, <2>2, <3>2
  <2> QED BY <1>3, <2>1, <2>2 DEF Alternates
<1>9. s # <<>> => s[1].do = "save"
  <2> SUFFICES ASSUME s # <<>> PROVE s[1].do = "save"
    OBVIOUS
  <2>1. Len(s) \in Nat \ {0} /\ DOMAIN s = 1..Len(s)
    BY <1>6, EmptySeq, LenProperties
  <2>2. 1 \in 1..(2 * n) /\ 1 % 2 = 1
    BY <1>3, <2>1
  <2> QED BY <1>5, <2>2
<1> QED BY <1>7, <1>8, <1>9 DEF s

-----------------------------------------------------------------------------
(* Backups and their contents *)

\* A save adds an item at the end.
LEMMA SavedIs ==
    ASSUME NEW b \in BackupSet, NEW d \in Disk, NEW p \in Path
    PROVE  /\ saved(b, d, p) \in BackupSet /\ saved(b, d, p).id = b.id
           /\ saved(b, d, p).before = b.before /\ saved(b, d, p).pristine = b.pristine
           /\ \A j \in DOMAIN b.items : j \in DOMAIN saved(b, d, p).items /\ saved(b, d, p).items[j] = b.items[j]
           /\ Len(b.items) + 1 \in DOMAIN saved(b, d, p).items
           /\ saved(b, d, p).items[Len(b.items) + 1] = [path |-> p, was |-> at(d, p)]
<1> PICK x \in Item : x = item(d, p)
  BY AtPaths
<1> PICK s \in Seq(Item) : s = b.items
  BY DEF BackupSet
<1> PICK n \in Nat : n = Len(s)
  BY LenProperties
<1> DEFINE t == Append(s, x)
<1>1. /\ t \in Seq(Item) /\ Len(t) = n + 1 /\ t[n + 1] = x
      /\ \A j \in 1..n : t[j] = s[j]
  BY AppendProperties
<1>2. DOMAIN s = 1..n /\ DOMAIN t = 1..(n + 1)
  BY <1>1, LenProperties
<1>3. saved(b, d, p) = [b EXCEPT !.items = t]
  BY DEF saved
<1> HIDE DEF t
<1>4. [b EXCEPT !.items = t] \in BackupSet
  BY <1>1 DEF BackupSet
<1>5. /\ [b EXCEPT !.items = t].id = b.id /\ [b EXCEPT !.items = t].before = b.before
      /\ [b EXCEPT !.items = t].pristine = b.pristine /\ [b EXCEPT !.items = t].items = t
  BY DEF BackupSet
<1>6. \A j \in 1..n : j \in 1..(n + 1)
  OBVIOUS
<1> QED BY <1>1, <1>2, <1>3, <1>4, <1>5, <1>6 DEF item

\* What is saved can be given back.
LEMMA SavedHolds ==
    ASSUME NEW b \in BackupSet, NEW d \in Disk, NEW p \in Path
    PROVE  /\ contentsOf(b) \subseteq contentsOf(saved(b, d, p))
           /\ p # "registry" => {at(d, p)} \cap Content \subseteq contentsOf(saved(b, d, p))
<1> PICK c : c = saved(b, d, p)
  OBVIOUS
<1>1. /\ \A j \in DOMAIN b.items : j \in DOMAIN c.items /\ c.items[j] = b.items[j]
      /\ Len(b.items) + 1 \in DOMAIN c.items
      /\ c.items[Len(b.items) + 1] = [path |-> p, was |-> at(d, p)]
  BY SavedIs
<1>2. contentsOf(b) \subseteq contentsOf(c)
  BY <1>1 DEF contentsOf
<1>3. p # "registry" => {at(d, p)} \cap Content \subseteq contentsOf(c)
  <2> PICK v : v = at(d, p)
    OBVIOUS
  <2>1. CASE p \in SkillPath
    BY <1>1, <2>1 DEF contentsOf, SkillPath
  <2>2. CASE p \in ConfigPath \cup HookPath
    BY <2>2, AtPaths, Constants DEF AtFile
  <2> QED BY <2>1, <2>2 DEF Path, SkillPath
<1> QED BY <1>2, <1>3

\* A mark that a backup gets leaves the rest of it.
LEMMA Marked ==
    ASSUME NEW b \in BackupSet
    PROVE  /\ \A m \in BOOLEAN : LET c == [b EXCEPT !.manifest = m, !.cut = TRUE]
                                  IN c \in BackupSet /\ c.id = b.id
           /\ [b EXCEPT !.cut = TRUE] \in BackupSet /\ [b EXCEPT !.cut = TRUE].id = b.id
           /\ [b EXCEPT !.manifest = TRUE] \in BackupSet /\ [b EXCEPT !.manifest = TRUE].id = b.id
           /\ [b EXCEPT !.undone = TRUE] \in BackupSet /\ [b EXCEPT !.undone = TRUE].id = b.id
BY DEF BackupSet

\* A new backup.
LEMMA NewBackupIs ==
    ASSUME NEW n \in Nat, NEW linked \in BOOLEAN, Shaped
    PROVE  /\ newBackup(n, disk, apart, linked) \in BackupSet
           /\ newBackup(n, disk, apart, linked).id = n /\ newBackup(n, disk, apart, linked).before = disk
<1>1. disk \in Disk /\ apart \in SUBSET Kind
  BY DEF Shaped, Remembered
<1>2. <<>> \in Seq(Item)
  BY EmptySeq
<1> QED BY <1>1, <1>2 DEF newBackup, BackupSet

-----------------------------------------------------------------------------
(* The steps *)

\* What the backups and the process need is kept where nothing is at work.
LEMMA Idle ==
    ASSUME proc' = NoProc
    PROVE  ProcFits' /\ Keeps'
<1>1. proc'.job = "none" /\ proc'.phase = "idle" /\ proc'.todo = <<>> /\ proc'.left = 0 /\ proc'.id = 0
  BY DEF NoProc
<1>2. Todo(proc'.todo, proc'.job)
  BY <1>1, NoWrite
<1>3. proc' \in Proc
  BY <1>2, EmptySeq DEF NoProc, Proc
<1> QED BY <1>1, <1>2, <1>3 DEF ProcFits, Keeps

\* Nothing that matters to what a process has before it changes.
LEMMA Undisturbed ==
    ASSUME Fits, UNCHANGED <<disk, backups, lastID, proc>>,
           proc.job = "step" => intent'.do \in {"share", "unshare"}
    PROVE  disk' \in Disk /\ Sets(backups', lastID') /\ ProcFits' /\ Keeps'
<1>1. disk' \in Disk /\ Sets(backups', lastID')
  BY DEF Fits, Shaped
<1>2. CASE proc.phase = "idle"
  BY <1>2, Idle DEF Fits, Shaped, ProcFits
<1>3. CASE proc.phase # "idle"
  <2>1. mine' = mine
    BY <1>3, MineStays DEF Fits
  <2>2. ProcFits'
    BY <1>3, <2>1 DEF Fits, Shaped, ProcFits
  <2>3. Keeps'
    BY <2>1 DEF Fits, Keeps, PlaceKept, NextIsSaved, NothingLost, next
  <2> QED BY <1>1, <2>2, <2>3
<1> QED BY <1>1, <1>2, <1>3

\* A question to share only says what is wanted.
LEMMA AskShareFits ==
    ASSUME Fits, NEW kind \in Kind, NEW tool \in {"claude", "codex"}, NEW same \in BOOLEAN,
           AskShare(kind, tool, same)
    PROVE  Fits'
<1>1. Remembered'
  BY DEF AskShare, Fits, Shaped, Remembered, Unset, Kind, Decision
<1>2. proc.job # "step"
  BY DEF AskShare, Fits, Shaped, ProcFits, NoIntent
<1> QED BY <1>1, <1>2, Undisturbed DEF AskShare, Fits, Shaped

\* So does one to unshare.
LEMMA AskUnshareFits ==
    ASSUME Fits, NEW kind \in Kind, NEW tool \in {"claude", "codex"}, AskUnshare(kind, tool)
    PROVE  Fits'
<1>1. Remembered'
  BY DEF AskUnshare, Fits, Shaped, Remembered, Unset, Kind, Decision
<1>2. proc.job # "step"
  BY DEF AskUnshare, Fits, Shaped, ProcFits, NoIntent
<1> QED BY <1>1, <1>2, Undisturbed DEF AskUnshare, Fits, Shaped

\* And one to undo.
LEMMA AskUndoFits ==
    ASSUME Fits, NEW id, AskUndo(id)
    PROVE  Fits'
<1>1. Remembered'
  BY DEF AskUndo, Fits, Shaped, Remembered, Unset, Kind, Decision
<1>2. proc.job # "step"
  BY DEF AskUndo, Fits, Shaped, ProcFits, NoIntent
<1> QED BY <1>1, <1>2, Undisturbed DEF AskUndo, Fits, Shaped

\* A decision that is only recorded touches nothing that a process needs.
LEMMA MarkFits ==
    ASSUME Fits, NEW kind \in Kind, NEW decision \in Decision, Mark(kind, decision)
    PROVE  Fits'
<1>1. disk' \in Disk
  BY DEF Mark, Fits, Shaped, Disk
<1>2. Sets(backups', lastID')
  BY TouchedSets DEF Mark, Fits, Shaped
<1>3. Remembered'
  BY Constants DEF Mark, Trouble, Fits, Shaped, Remembered, Unset
<1>4. proc' = NoProc
  BY DEF Mark, Fits, Shaped, ProcFits
<1> QED BY <1>1, <1>2, <1>3, <1>4, Idle DEF Fits, Shaped

\* Nor does one of an offer.
LEMMA NeverFits ==
    ASSUME Fits, NEW kind \in Kind, NEW decision \in {"claude-only", "codex-only"}, Never(kind, decision)
    PROVE  Fits'
<1> PICK r : r = withDecisions(disk.registry, [memory EXCEPT ![kind] = decision])
  OBVIOUS
<1>1. r \in [Kind -> Decision]
  <2>1. [memory EXCEPT ![kind] = decision] \in [Kind -> Decision \cup {"unset"}]
    BY DEF Fits, Shaped, Remembered, Decision
  <2> QED BY <2>1 DEF withDecisions, Fits, Shaped, Disk
<1>2. disk' \in Disk
  BY <1>1 DEF Never, Fits, Shaped, Disk
<1>3. Sets(backups', lastID')
  BY TouchedSets DEF Never, Fits, Shaped
<1>4. Remembered'
  BY Constants DEF Never, Fits, Shaped, Remembered, Unset
<1>5. proc' = NoProc
  BY DEF Never, Fits, Shaped, ProcFits
<1> QED BY <1>2, <1>3, <1>4, <1>5, Idle DEF Fits, Shaped

\* A process that takes the lock: its backup is new, and the disk is as it was.
LEMMA StartFits ==
    ASSUME Fits, NEW job \in {"step", "sync", "hooks"}, NEW todo, Start(job, todo),
           Todo(todo, job), disk' = disk,
           job = "step" => intent'.do \in {"share", "unshare"},
           job = "sync" => Alternates(todo) /\ (todo # <<>> => todo[1].do = "save"),
           job # "sync" => \A q \in {"claude", "agents"} : SavedFirst(todo, q) \/ Spares(todo)
    PROVE  /\ Sets(backups', lastID') /\ ProcFits' /\ Keeps'
           /\ mine' = newBackup(lastID + 1, disk, apart, configLinked(job))
           /\ proc'.job = job /\ proc'.phase = "change" /\ proc'.todo = todo
<1> PICK n \in Nat : n = lastID
  BY DEF Fits, Shaped, Sets
<1> PICK bs : bs = touchedBy(0, backups)
  OBVIOUS
<1> PICK b : b = newBackup(n + 1, disk, apart, configLinked(job))
  OBVIOUS
<1>1. Sets(bs, n)
  BY TouchedSets DEF Fits, Shaped
<1>2. b \in BackupSet /\ b.id = n + 1 /\ b.before = disk
  <2>1. n + 1 \in Nat /\ configLinked(job) \in BOOLEAN
    BY DEF configLinked
  <2> QED BY <2>1, NewBackupIs DEF Fits
<1> PICK i : i = Len(bs) + 1
  OBVIOUS
<1>3. backups' = Append(bs, b) /\ lastID' = n + 1
  BY DEF Start
<1>4. Sets(backups', lastID') /\ i \in DOMAIN backups' /\ backups'[i] = b
  BY <1>1, <1>2, <1>3, AppendedSets
<1>5. /\ proc'.job = job /\ proc'.phase = "change" /\ proc'.todo = todo
      /\ proc'.id = n + 1 /\ proc' \in Proc
  BY DEF Start, Proc, Todo
<1>6. mine' = b /\ \E k \in DOMAIN backups' : backups'[k].id = proc'.id
  BY <1>2, <1>4, <1>5, MineIsNext
<1>7. ProcFits'
  BY <1>5, <1>6 DEF ProcFits
<1>8. Keeps'
  <2>1. mine'.before = disk'
    BY <1>2, <1>6
  <2>2. job # "sync" => PlaceKept("claude")' /\ PlaceKept("agents")'
    BY <1>5, <2>1 DEF PlaceKept
  <2>3. job = "sync" => NextIsSaved'
    <3>1. job = "sync" /\ todo # <<>> => Head(todo).do = "save"
      BY TailWrites
    <3> QED BY <1>5, <3>1 DEF NextIsSaved, next
  <2>4. NothingLost'
    BY <2>1 DEF NothingLost
  <2> QED BY <1>5, <2>2, <2>3, <2>4 DEF Keeps
<1> QED BY <1>4, <1>5, <1>6, <1>7, <1>8

\* Sharing starts with saves of all its places.
LEMMA StartShareFits ==
    ASSUME Fits, StartShare
    PROVE  Fits'
<1> PICK kind \in Kind : kind = intent.kind
  BY DEF StartShare, Fits, Shaped, Remembered
<1> PICK tool \in {"claude", "codex"} : tool = intent.tool
  BY DEF StartShare, Fits, Shaped, Remembered
<1> PICK change : change = IF kind = "skill" THEN shareSkill(disk, tool) ELSE shareMCP(disk, tool)
  OBVIOUS
<1>1. Todo(change, "step") /\ (kind = "mcp" => Spares(change))
  BY ChangesFit
<1> PICK todo : todo = step(paths(intent.seen, kind, tool), change)
  OBVIOUS
<1>2. /\ Todo(todo, "step")
      /\ \A q \in {"claude", "agents"} : SavedFirst(todo, q) \/ Spares(todo)
  BY <1>1, StepTodo
<1>3. Start("step", todo) /\ UNCHANGED <<disk, journal, memory, intent, apart, troubles>>
  BY DEF StartShare
<1>4. intent'.do \in {"share", "unshare"}
  BY DEF StartShare
<1>5. Sets(backups', lastID') /\ ProcFits' /\ Keeps'
  BY <1>2, <1>3, <1>4, StartFits
<1>6. Remembered'
  BY <1>3 DEF Start, Fits, Shaped, Sets, Remembered
<1> QED BY <1>3, <1>5, <1>6 DEF Fits, Shaped

\* So does unsharing.
LEMMA StartUnshareFits ==
    ASSUME Fits, StartUnshare
    PROVE  Fits'
<1> PICK kind \in Kind : kind = intent.kind
  BY DEF StartUnshare, Fits, Shaped, Remembered
<1> PICK tool \in {"claude", "codex"} : tool = intent.tool
  BY DEF StartUnshare, Fits, Shaped, Remembered
<1> PICK change : change = IF kind = "skill" THEN unshareSkill(tool) ELSE unshareMCP(tool)
  OBVIOUS
<1>1. Todo(change, "step") /\ (kind = "mcp" => Spares(change))
  BY ChangesFit
<1> PICK todo : todo = step(paths(intent.seen, kind, other(tool)), change)
  OBVIOUS
<1>2. /\ Todo(todo, "step")
      /\ \A q \in {"claude", "agents"} : SavedFirst(todo, q) \/ Spares(todo)
  <2>1. other(tool) \in {"claude", "codex"}
    BY DEF other
  <2> QED BY <1>1, <2>1, StepTodo
<1>3. Start("step", todo) /\ UNCHANGED <<disk, journal, memory, intent, apart, troubles>>
  BY DEF StartUnshare
<1>4. intent'.do \in {"share", "unshare"}
  BY DEF StartUnshare
<1>5. Sets(backups', lastID') /\ ProcFits' /\ Keeps'
  BY <1>2, <1>3, <1>4, StartFits
<1>6. Remembered'
  BY <1>3 DEF Start, Fits, Shaped, Sets, Remembered
<1> QED BY <1>3, <1>5, <1>6 DEF Fits, Shaped

\* Editing the hooks spares the skill.
LEMMA StartHooksFits ==
    ASSUME Fits, NEW v \in {Absent, Present}, StartHooks(v)
    PROVE  Fits'
<1> PICK todo : todo = hookSteps(disk, v)
  OBVIOUS
<1>1. Todo(todo, "hooks") /\ Spares(todo)
  BY HooksFit
<1>2. Start("hooks", todo) /\ UNCHANGED <<disk, journal, memory, intent, apart, troubles>>
  BY DEF StartHooks
<1>3. Sets(backups', lastID') /\ ProcFits' /\ Keeps'
  BY <1>1, <1>2, StartFits
<1>4. Remembered'
  BY <1>2 DEF Start, Fits, Shaped, Sets, Remembered
<1> QED BY <1>2, <1>3, <1>4 DEF Fits, Shaped

\* A sync starts with a save.
LEMMA StartSyncFits ==
    ASSUME Fits, NEW plan \in SyncPlans, StartSync(plan)
    PROVE  Fits'
<1> PICK todo : todo = syncSteps(disk, plan)
  OBVIOUS
<1>1. Todo(todo, "sync") /\ Alternates(todo) /\ (todo # <<>> => todo[1].do = "save")
  BY SyncFits
<1>2. Start("sync", todo) /\ UNCHANGED <<disk, memory, intent, troubles>>
  BY DEF StartSync
<1>3. Sets(backups', lastID') /\ ProcFits' /\ Keeps'
  BY <1>1, <1>2, StartFits
<1>4. Remembered'
  BY <1>2 DEF StartSync, Start, Fits, Shaped, Sets, Remembered
<1> QED BY <1>2, <1>3, <1>4 DEF Fits, Shaped

\* An undo starts with all of its backup still to be put back.
LEMMA StartUndoFits ==
    ASSUME Fits, StartUndo
    PROVE  Fits'
<1>1. disk' \in Disk /\ Remembered' /\ lastID' = lastID
  BY DEF StartUndo, Fits, Shaped, Remembered, NoIntent
<1>2. proc = NoProc
  BY DEF StartUndo, Fits, Shaped, ProcFits
<1>3. CASE proc' = proc /\ backups' = backups
  BY <1>1, <1>2, <1>3, Idle DEF Fits, Shaped
<1>4. ASSUME NEW i \in DOMAIN backups, backups[i].id = intent.id,
             proc' = [job |-> "undo", phase |-> "restore", todo |-> <<>>, id |-> intent.id,
                      left |-> Len(backups[index(intent.id)].items)],
             backups' = touchedBy(intent.id, backups)
      PROVE  Fits'
  <2>1. index(intent.id) = i
    BY <1>4, IndexIs DEF Fits, Shaped
  <2>2. Sets(backups', lastID') /\ i \in DOMAIN backups' /\ backups'[i].id = intent.id
        /\ backups'[i].items = backups[i].items
    <3> PICK id, bs : id = intent.id /\ bs = touchedBy(id, backups)
      OBVIOUS
    <3>1. Sets(bs, lastID) /\ DOMAIN bs = DOMAIN backups /\ bs[i].id = backups[i].id
          /\ bs[i].items = backups[i].items
      <4>1. Sets(backups, lastID)
        BY DEF Fits, Shaped
      <4>2. Sets(touchedBy(id, backups), lastID)
        BY <4>1, TouchedSets
      <4>3. DOMAIN touchedBy(id, backups) = DOMAIN backups
        BY <4>1, TouchedSets
      <4>4. touchedBy(id, backups)[i].id = backups[i].id
        BY <4>1, TouchedSets
      <4>5. touchedBy(id, backups)[i].items = backups[i].items
        BY <4>1, TouchedSets
      <4> QED BY <4>2, <4>3, <4>4, <4>5
    <3> QED BY <1>1, <1>4, <3>1
  <2>3. backups[i] \in BackupSet
    BY ElementOfSeq DEF Fits, Shaped, Sets
  <2>4. Len(backups[i].items) \in Nat /\ backups[i].id \in Nat
    BY <2>3, LenProperties DEF BackupSet
  <2>5. /\ proc'.job = "undo" /\ proc'.phase = "restore" /\ proc'.todo = <<>>
        /\ proc'.id = intent.id /\ proc'.left = Len(backups[i].items)
    BY <1>4, <2>1
  <2>6. mine' = backups'[i]
    BY <2>2, <2>5, MineIsNext
  <2>7. Todo(proc'.todo, proc'.job)
    BY <2>5, NoWrite
  <2>8. proc' \in Proc
    BY <1>4, <2>1, <2>4, EmptySeq DEF Proc
  <2>9. ProcFits'
    BY <2>2, <2>4, <2>5, <2>6, <2>7, <2>8 DEF ProcFits
  <2>10. Keeps'
    BY <2>5 DEF Keeps
  <2> QED BY <1>1, <2>2, <2>9, <2>10 DEF Fits, Shaped
<1> QED BY <1>3, <1>4 DEF StartUndo

-----------------------------------------------------------------------------
(* The steps of a change *)

\* What holds of the writes of a sync, or of a step, holds of the last of them.
LEMMA LastAlternate ==
    ASSUME NEW job, NEW s, Todo(s, job), Alternates(s), NEW f \in Nat,
           f \in DOMAIN s => s[f].do # "save"
    PROVE  /\ Alternates(SubSeq(s, f + 1, Len(s)))
           /\ SubSeq(s, f + 1, Len(s)) # <<>> => Head(SubSeq(s, f + 1, Len(s))).do = "save" \/ f = 0
<1> PICK m \in Nat : m = Len(s)
  BY LenProperties DEF Todo
<1> DEFINE t == SubSeq(s, f + 1, m)
<1>1. /\ Todo(t, job) /\ DOMAIN t = 1..(m - f)
      /\ \A i \in 1..(m - f) : f + i \in DOMAIN s /\ t[i] = s[f + i]
  BY LastWrites
<1>2. DOMAIN s = 1..m
  BY LenProperties DEF Todo
<1> HIDE DEF t
<1>3. Alternates(t)
  <2> SUFFICES ASSUME NEW i \in 1..(m - f)
               PROVE  /\ t[i].do = "save" => i + 1 \in 1..(m - f) /\ t[i + 1].do # "save"
                      /\ t[i].do # "save" =>
                            /\ t[i].do \in {"write", "unlink", "link", "replace"}
                            /\ t[i].do # "write" => t[i].path = "claude"
                            /\ i > 1 => t[i - 1].do = "save" /\ t[i - 1].path = t[i].path
    BY <1>1 DEF Alternates
  <2> PICK k \in 1..m : k = f + i
    BY <1>1, <1>2
  <2>1. t[i] = s[k] /\ k \in DOMAIN s
    BY <1>1, <1>2
  <2>2. CASE t[i].do = "save"
    <3>1. k + 1 \in 1..m /\ s[k + 1].do # "save"
      BY <1>2, <2>1, <2>2 DEF Alternates
    <3>2. i + 1 \in 1..(m - f) /\ f + (i + 1) = k + 1
      BY <3>1
    <3> QED BY <1>1, <2>2, <3>1, <3>2
  <2>3. CASE t[i].do # "save"
    <3>1. /\ s[k].do \in {"write", "unlink", "link", "replace"}
          /\ s[k].do # "write" => s[k].path = "claude"
          /\ k > 1 => s[k - 1].do = "save" /\ s[k - 1].path = s[k].path
      BY <2>1, <2>3 DEF Alternates
    <3>2. i > 1 => i - 1 \in 1..(m - f) /\ f + (i - 1) = k - 1 /\ k > 1
      OBVIOUS
    <3> QED BY <1>1, <2>1, <2>3, <3>1, <3>2
  <2> QED BY <2>2, <2>3
<1>4. t # <<>> => Head(t).do = "save" \/ f = 0
  <2> SUFFICES ASSUME t # <<>>, f # 0 PROVE Head(t).do = "save"
    OBVIOUS
  <2>1. Head(t) = t[1] /\ 1 \in DOMAIN t
    BY <1>1, TailWrites
  <2> PICK k : k = f + 1
    OBVIOUS
  <2>2. t[1] = s[k] /\ k \in DOMAIN s /\ k - 1 = f /\ f \in DOMAIN s /\ k > 1
    BY <1>1, <1>2, <2>1
  <2>3. s[k - 1].do # "save"
    BY <2>2
  <2>4. s[k].do = "save"
    BY <2>2, <2>3 DEF Alternates
  <2> QED BY <2>1, <2>2, <2>4
<1> QED BY <1>3, <1>4 DEF t

\* The writes of a sync after the first still alternate with saves.
LEMMA TailAlternates ==
    ASSUME NEW job, NEW s, Todo(s, job), Alternates(s), s # <<>>
    PROVE  /\ Alternates(Tail(s))
           /\ Tail(s) # <<>> /\ Head(s).do # "save" => Head(Tail(s)).do = "save"
           /\ Head(s).do = "save" =>
                 Tail(s) # <<>> /\ Head(Tail(s)).do # "save" /\ Head(Tail(s)).path = Head(s).path
<1> PICK m \in Nat : m = Len(s)
  BY LenProperties DEF Todo
<1> DEFINE t == Tail(s)
<1>1. /\ Todo(t, job) /\ DOMAIN t = 1..(m - 1) /\ 1 \in DOMAIN s /\ Head(s) = s[1]
      /\ \A i \in 1..(m - 1) : i + 1 \in DOMAIN s /\ t[i] = s[i + 1]
  BY TailWrites
<1>2. DOMAIN s = 1..m
  BY LenProperties DEF Todo
<1> HIDE DEF t
<1>3. Alternates(t)
  <2> SUFFICES ASSUME NEW i \in 1..(m - 1)
               PROVE  /\ t[i].do = "save" => i + 1 \in 1..(m - 1) /\ t[i + 1].do # "save"
                      /\ t[i].do # "save" =>
                            /\ t[i].do \in {"write", "unlink", "link", "replace"}
                            /\ t[i].do # "write" => t[i].path = "claude"
                            /\ i > 1 => t[i - 1].do = "save" /\ t[i - 1].path = t[i].path
    BY <1>1 DEF Alternates
  <2> PICK k \in 1..m : k = i + 1
    BY <1>1, <1>2
  <2>1. t[i] = s[k] /\ k \in DOMAIN s
    BY <1>1, <1>2
  <2>2. CASE t[i].do = "save"
    <3>1. k + 1 \in 1..m /\ s[k + 1].do # "save"
      BY <1>2, <2>1, <2>2 DEF Alternates
    <3>2. i + 1 \in 1..(m - 1) /\ (i + 1) + 1 = k + 1
      BY <3>1
    <3> QED BY <1>1, <2>2, <3>1, <3>2
  <2>3. CASE t[i].do # "save"
    <3>1. /\ s[k].do \in {"write", "unlink", "link", "replace"}
          /\ s[k].do # "write" => s[k].path = "claude"
          /\ k > 1 => s[k - 1].do = "save" /\ s[k - 1].path = s[k].path
      BY <2>1, <2>3 DEF Alternates
    <3>2. i > 1 => i - 1 \in 1..(m - 1) /\ (i - 1) + 1 = k - 1 /\ k > 1
      OBVIOUS
    <3> QED BY <1>1, <2>1, <2>3, <3>1, <3>2
  <2> QED BY <2>2, <2>3
<1>4. t # <<>> => Head(t) = s[2] /\ 2 \in DOMAIN s
  <2> SUFFICES ASSUME t # <<>> PROVE Head(t) = s[2] /\ 2 \in DOMAIN s
    OBVIOUS
  <2>1. Head(t) = t[1] /\ 1 \in DOMAIN t
    BY <1>1, TailWrites
  <2>2. t[1] = s[1 + 1] /\ 1 + 1 \in DOMAIN s /\ 1 + 1 = 2
    BY <1>1, <2>1
  <2> QED BY <2>1, <2>2
<1> PICK k : k = 2
  OBVIOUS
<1> PICK h : h = 1
  OBVIOUS
<1>5. h + 1 = k /\ k - 1 = h /\ k > 1 /\ Head(s) = s[h] /\ (t # <<>> => Head(t) = s[k])
  BY <1>1, <1>4
<1>6. /\ s[h].do = "save" => h + 1 \in DOMAIN s /\ s[h + 1].do # "save"
      /\ k \in DOMAIN s /\ s[k].do # "save" => s[k - 1].do = "save" /\ s[k - 1].path = s[k].path
  BY <1>1, <1>5 DEF Alternates
<1>7. s[h].do = "save" => t # <<>>
  <2> SUFFICES ASSUME s[h].do = "save" PROVE t # <<>>
    OBVIOUS
  <2>1. k \in 1..m
    BY <1>2, <1>5, <1>6
  <2>2. h \in DOMAIN t
    BY <1>1, <2>1
  <2> QED BY <2>2
<1>8. t # <<>> => k \in DOMAIN s
  BY <1>4
<1>9. /\ t # <<>> /\ Head(s).do # "save" => Head(t).do = "save"
      /\ Head(s).do = "save" => t # <<>> /\ Head(t).do # "save" /\ Head(t).path = Head(s).path
  BY <1>5, <1>6, <1>7, <1>8
<1> QED BY <1>3, <1>9 DEF t

\* What is saved first is saved by the next write, or still first after it.
LEMMA TailSaves ==
    ASSUME NEW job, NEW s, Todo(s, job), s # <<>>, NEW q
    PROVE  /\ SavedFirst(s, q) => Head(s).do = "save" /\ (Head(s).path = q \/ SavedFirst(Tail(s), q))
           /\ Spares(s) => SparesSkill(Head(s)) /\ Spares(Tail(s))
<1> PICK m \in Nat : m = Len(s)
  BY LenProperties DEF Todo
<1> DEFINE t == Tail(s)
<1>1. /\ DOMAIN t = 1..(m - 1) /\ 1 \in DOMAIN s /\ Head(s) = s[1]
      /\ \A i \in 1..(m - 1) : i + 1 \in DOMAIN s /\ t[i] = s[i + 1]
  BY TailWrites
<1>2. DOMAIN s = 1..m
  BY LenProperties DEF Todo
<1> HIDE DEF t
<1>3. ASSUME SavedFirst(s, q)
      PROVE  s[1].do = "save" /\ (s[1].path = q \/ SavedFirst(t, q))
  <2> PICK i \in DOMAIN s : s[i].do = "save" /\ s[i].path = q /\ \A h \in 1..i : s[h].do = "save"
    BY <1>3 DEF SavedFirst
  <2>1. i \in 1..m /\ 1 \in 1..i
    BY <1>2
  <2>2. s[1].do = "save"
    BY <2>1
  <2>3. CASE i # 1
    <3> PICK k : k = i - 1
      OBVIOUS
    <3>1. k \in 1..(m - 1) /\ k + 1 = i
      BY <2>1, <2>3
    <3>2. t[k] = s[i]
      BY <1>1, <3>1
    <3>3. \A h \in 1..k : t[h].do = "save"
      <4> SUFFICES ASSUME NEW h \in 1..k PROVE t[h].do = "save"
        OBVIOUS
      <4>1. h \in 1..(m - 1) /\ h + 1 \in 1..i
        BY <2>1, <3>1
      <4> QED BY <1>1, <4>1
    <3> QED BY <1>1, <2>2, <3>1, <3>2, <3>3 DEF SavedFirst
  <2> QED BY <2>2, <2>3
<1>4. Spares(s) => SparesSkill(s[1]) /\ Spares(t)
  BY <1>1 DEF Spares
<1> QED BY <1>1, <1>3, <1>4 DEF t

\* A write that spares the skill leaves both its places.
LEMMA SparesPlaces ==
    ASSUME NEW d \in Disk, NEW p \in Op, OpFits(p), SparesSkill(p)
    PROVE  effect(d, p).claude = d.claude /\ effect(d, p).agents = d.agents
<1>1. CASE p.do \in {"save", "same", "decide"}
  BY <1>1 DEF effect
<1>2. CASE p.do = "add"
  <2> PICK x \in ConfigPath : x = p.path
    BY <1>2 DEF OpFits
  <2>1. place(d, x) = x
    BY DEF place, ConfigPath
  <2>2. effect(d, p) = [d EXCEPT ![x] = Present]
    BY <1>2, <2>1 DEF effect, put
  <2>3. Present \in AtFile(x)
    BY DEF AtFile
  <2> QED BY <2>2, <2>3, PutFile
<1>3. CASE p.do = "write" /\ p.path \in ConfigPath \cup HookPath
  <2> PICK x \in ConfigPath \cup HookPath : x = p.path
    BY <1>3
  <2> PICK v : v = p.val
    OBVIOUS
  <2>1. place(d, x) = x
    BY DEF place, ConfigPath, HookPath
  <2>2. effect(d, p) = [d EXCEPT ![x] = v]
    BY <1>3, <2>1 DEF effect, put
  <2>3. [d EXCEPT ![x] = v].claude = d.claude /\ [d EXCEPT ![x] = v].agents = d.agents
    BY DEF Disk, ConfigPath, HookPath
  <2> QED BY <2>2, <2>3
<1> QED BY <1>1, <1>2, <1>3 DEF SparesSkill

\* The writes of a sync.
LEMMA SyncWrites ==
    ASSUME NEW job, NEW s, Todo(s, job), Alternates(s), s # <<>>, Head(s).do # "save"
    PROVE  /\ Head(s).do \in {"write", "unlink", "link", "replace"} /\ Head(s).path # "registry"
           /\ Head(s).do # "write" => Head(s).path = "claude"
<1>1. 1 \in DOMAIN s /\ Head(s) = s[1] /\ OpFits(Head(s))
  BY TailWrites
<1>2. ASSUME NEW i \in DOMAIN s, s[i].do # "save"
      PROVE  s[i].do \in {"write", "unlink", "link", "replace"} /\ (s[i].do # "write" => s[i].path = "claude")
  BY <1>2 DEF Alternates
<1> PICK w : w = Head(s)
  OBVIOUS
<1>3. w.do \in {"write", "unlink", "link", "replace"} /\ (w.do # "write" => w.path = "claude") /\ OpFits(w)
  BY <1>1, <1>2
<1>4. w.path # "registry"
  BY <1>3 DEF OpFits, Written, FilePath, ConfigPath, HookPath
<1> QED BY <1>3, <1>4

\* A save adds what is at its path to the process's backup.
LEMMA SaveDoes ==
    ASSUME Fits, Save
    PROVE  /\ mine \in BackupSet /\ next.path \in Path /\ mine' = saved(mine, disk, next.path)
           /\ proc'.job = proc.job /\ proc'.phase = "change" /\ proc'.todo = Tail(proc.todo)
           /\ Sets(backups', lastID') /\ ProcFits'
<1> PICK s : s = proc.todo
  OBVIOUS
<1> PICK job : job = proc.job
  OBVIOUS
<1> PICK i : i = index(proc.id)
  OBVIOUS
<1> PICK m : m = mine
  OBVIOUS
<1>1. /\ Todo(s, job) /\ s # <<>> /\ proc.phase = "change" /\ proc \in Proc /\ job # "none"
  BY DEF Save, Fits, Shaped, ProcFits
<1>2. i \in DOMAIN backups /\ m = backups[i] /\ m \in BackupSet /\ m.id = proc.id
  BY <1>1, MineIs DEF Fits
<1>3. Todo(Tail(s), job) /\ Head(s) \in Op
  BY <1>1, TailWrites
<1> PICK p \in Path : p = Head(s).path
  BY <1>3 DEF Op
<1> PICK b : b = saved(m, disk, p)
  OBVIOUS
<1>4. /\ b \in BackupSet /\ b.id = m.id /\ b.before = m.before /\ b.pristine = m.pristine
      /\ \A j \in DOMAIN m.items : j \in DOMAIN b.items /\ b.items[j] = m.items[j]
      /\ Len(m.items) + 1 \in DOMAIN b.items
      /\ b.items[Len(m.items) + 1] = [path |-> p, was |-> at(disk, p)]
  BY <1>2, SavedIs DEF Fits, Shaped
<1>5. /\ backups' = [backups EXCEPT ![i] = b] /\ lastID' = lastID /\ disk' = disk
      /\ proc' = [proc EXCEPT !.todo = Tail(s)]
  BY DEF Save, UpdateMine, next
<1>6. /\ proc'.job = job /\ proc'.phase = "change" /\ proc'.todo = Tail(s) /\ proc'.id = proc.id
      /\ proc' \in Proc
  BY <1>1, <1>3, <1>5 DEF Proc, Todo
<1>7. Sets(backups', lastID') /\ i \in DOMAIN backups' /\ backups'[i] = b
  <2>1. Sets(backups, lastID) /\ b.id = backups[i].id
    BY <1>2, <1>4 DEF Fits, Shaped
  <2>2. Sets([backups EXCEPT ![i] = b], lastID)
    BY <1>2, <1>4, <2>1, UpdatedSets
  <2>3. i \in DOMAIN [backups EXCEPT ![i] = b] /\ [backups EXCEPT ![i] = b][i] = b
    BY <1>2, <1>4, <2>1, UpdatedSets
  <2> QED BY <1>5, <2>2, <2>3
<1>8. mine' = b /\ \E k \in DOMAIN backups' : backups'[k].id = proc'.id
  BY <1>2, <1>4, <1>6, <1>7, MineIsNext
<1>9. ProcFits'
  BY <1>1, <1>3, <1>6, <1>8 DEF Save, Fits, Shaped, ProcFits
<1>10. next.path = p /\ proc.job = job /\ proc.todo = s
  BY DEF next
<1> QED BY <1>2, <1>6, <1>7, <1>8, <1>9, <1>10

\* A save keeps what is at its path.
LEMMA SaveStepFits ==
    ASSUME Fits, Save
    PROVE  Fits'
<1> PICK s : s = proc.todo
  OBVIOUS
<1> PICK job : job = proc.job
  OBVIOUS
<1> PICK m : m = mine
  OBVIOUS
<1> PICK p : p = next.path
  OBVIOUS
<1> PICK b : b = saved(m, disk, p)
  OBVIOUS
<1>1. Todo(s, job) /\ s # <<>> /\ proc.phase = "change" /\ Head(s).do = "save" /\ p = Head(s).path
  BY DEF Save, next, Fits, Shaped, ProcFits
<1>2. m \in BackupSet /\ p \in Path /\ mine' = b
  BY SaveDoes
<1>3. Todo(Tail(s), job)
  BY <1>1, TailWrites
<1>4. /\ b.before = m.before /\ b.pristine = m.pristine
      /\ \A j \in DOMAIN m.items : j \in DOMAIN b.items /\ b.items[j] = m.items[j]
      /\ Len(m.items) + 1 \in DOMAIN b.items
      /\ b.items[Len(m.items) + 1] = [path |-> p, was |-> at(disk, p)]
  BY <1>2, SavedIs DEF Fits, Shaped
<1>5. disk' = disk
  BY DEF Save
<1>6. /\ proc'.job = job /\ proc'.phase = "change" /\ proc'.todo = Tail(s)
  BY SaveDoes
<1>7. Sets(backups', lastID')
  BY SaveDoes
<1>8. mine' = b
  BY <1>2
<1>9. ProcFits'
  BY SaveDoes
<1>10. Keeps'
  <2>1. job = "sync" => Alternates(Tail(s))
    BY <1>1, TailAlternates DEF Fits, Keeps
  <2>2. ASSUME job \in {"step", "hooks"}, m.pristine, NEW q \in {"claude", "agents"}
        PROVE  PlaceKept(q)'
    <3>1. PlaceKept(q)
      BY <1>1, <2>2 DEF Fits, Keeps
    <3>2. place(disk, q) = q
      BY DEF place
    <3>3. CASE \E j \in DOMAIN m.items : m.items[j].path = q /\ m.items[j].was = m.before[q]
      BY <1>4, <1>8, <3>3 DEF PlaceKept
    <3>4. CASE disk[q] = m.before[q] /\ SavedFirst(s, q)
      <4>1. CASE p = q
        BY <1>4, <1>8, <3>2, <3>4, <4>1 DEF PlaceKept, at, FilePath
      <4>2. CASE SavedFirst(Tail(s), q)
        BY <1>4, <1>5, <1>6, <1>8, <3>4, <4>2 DEF PlaceKept
      <4> QED BY <1>1, <3>4, <4>1, <4>2, TailSaves
    <3>5. CASE disk[q] = m.before[q] /\ Spares(s)
      <4>1. Spares(Tail(s))
        BY <1>1, <3>5, TailSaves
      <4> QED BY <1>4, <1>5, <1>6, <1>8, <3>5, <4>1 DEF PlaceKept
    <3> QED BY <3>1, <3>3, <3>4, <3>5 DEF PlaceKept
  <2>3. ASSUME job = "sync", m.pristine
        PROVE  NextIsSaved' /\ NothingLost'
    <3>1. Alternates(s) /\ NothingLost /\ Head(s).do = "save"
      BY <1>1, <2>3 DEF Save, next, Fits, Keeps
    <3> PICK t : t = Tail(s)
      OBVIOUS
    <3>2. t # <<>> /\ Head(t).path = p /\ Head(t).do # "save"
      BY <1>1, <3>1, TailAlternates
    <3>3. p # "registry"
      BY <1>3, <2>1, <2>3, <3>2, SyncWrites
    <3>4. contentsOf(m) \subseteq contentsOf(b) /\ {at(disk, p)} \cap Content \subseteq contentsOf(b)
      BY <1>2, <3>3, SavedHolds DEF Fits, Shaped
    <3>5. NextIsSaved'
      BY <1>5, <1>6, <1>8, <3>2, <3>4 DEF NextIsSaved, next
    <3>6. onDisk(m.before) \subseteq onDisk(disk) \cup contentsOf(m)
      BY <1>1, <2>3, <3>1 DEF NothingLost
    <3>7. NothingLost'
      BY <1>4, <1>5, <1>8, <3>4, <3>6 DEF NothingLost
    <3> QED BY <3>5, <3>7
  <2> QED BY <1>4, <1>6, <1>8, <2>1, <2>2, <2>3 DEF Keeps
<1>11. Remembered' /\ disk' \in Disk
  BY DEF Save, Fits, Shaped, Remembered
<1> QED BY <1>7, <1>9, <1>10, <1>11 DEF Fits, Shaped

\* A write of a sync takes no more off the disk than what is at its path.
LEMMA WriteTakes ==
    ASSUME NEW d \in Disk, NEW p \in Op, OpFits(p), p.do \in {"write", "unlink", "link", "replace"},
           p.do # "write" => p.path = "claude", p.path # "registry"
    PROVE  onDisk(d) \subseteq onDisk(effect(d, p)) \cup ({at(d, p.path)} \cap Content)
<1>1. CASE p.do \in {"link", "replace"}
  <2>1. effect(d, p).agents = d.agents /\ at(d, p.path) = d.claude
    BY <1>1 DEF effect, at, place, Disk, FilePath
  <2> QED BY <2>1 DEF onDisk
<1>2. CASE p.do \in {"write", "unlink"}
  <2> PICK x \in Path \ {"registry"} : x = p.path
    BY DEF Op
  <2> PICK v : v = p.val
    OBVIOUS
  <2> PICK q : q = place(d, x)
    OBVIOUS
  <2>1. effect(d, p) = [d EXCEPT ![q] = v] /\ {d[q]} \cap Content \subseteq {at(d, x)} \cap Content
    BY <1>2, Constants DEF effect, put, at
  <2>2. q \in {"claude", "agents"} \cup ConfigPath \cup HookPath
    BY DEF place, Path, FilePath
  <2>3. q # "claude" => [d EXCEPT ![q] = v].claude = d.claude
    BY DEF Disk
  <2>4. q # "agents" => [d EXCEPT ![q] = v].agents = d.agents
    BY DEF Disk
  <2>5. CASE q = "claude"
    BY <2>1, <2>4, <2>5 DEF onDisk
  <2>6. CASE q = "agents"
    BY <2>1, <2>3, <2>6 DEF onDisk
  <2>7. CASE q \in ConfigPath \cup HookPath
    BY <2>1, <2>3, <2>4, <2>7 DEF onDisk, ConfigPath, HookPath
  <2> QED BY <2>2, <2>5, <2>6, <2>7
<1> QED BY <1>1, <1>2

\* A process has done its next write, and its backup is as it was.
LEMMA GoesOn ==
    ASSUME Fits, proc.phase = "change", proc.todo # <<>>, proc' = [proc EXCEPT !.todo = Tail(@)],
           backups' = backups, lastID' = lastID, intent' = intent
    PROVE  /\ Sets(backups', lastID') /\ ProcFits' /\ mine' = mine
           /\ proc'.job = proc.job /\ proc'.phase = "change" /\ proc'.todo = Tail(proc.todo)
<1>1. Todo(proc.todo, proc.job) /\ proc \in Proc
  BY DEF Fits, Shaped, ProcFits
<1>2. Todo(Tail(proc.todo), proc.job)
  BY <1>1, TailWrites
<1> PICK t : t = Tail(proc.todo)
  OBVIOUS
<1>3. /\ proc'.job = proc.job /\ proc'.phase = "change" /\ proc'.todo = t
      /\ proc'.id = proc.id /\ proc' \in Proc
  BY <1>1, <1>2 DEF Proc, Todo
<1>4. mine' = mine /\ \E i \in DOMAIN backups' : backups'[i].id = proc'.id
  BY <1>3, MineStays DEF Fits
<1>5. Todo(proc'.todo, proc'.job)
  BY <1>2, <1>3
<1>6. ProcFits'
  BY <1>3, <1>4, <1>5 DEF Fits, Shaped, ProcFits
<1>7. Sets(backups', lastID')
  BY DEF Fits, Shaped
<1> QED BY <1>3, <1>4, <1>6, <1>7

\* After a write that is no save, what was kept of a place of the skill is kept
\* when the write left it.
LEMMA PlaceStaysKept ==
    ASSUME Fits, NEW q \in {"claude", "agents"}, PlaceKept(q), proc.todo # <<>>, next.do # "save",
           SparesSkill(next) => disk'[q] = disk[q],
           mine' = mine, proc'.todo = Tail(proc.todo)
    PROVE  PlaceKept(q)'
<1> PICK s : s = proc.todo
  OBVIOUS
<1>1. Todo(s, proc.job) /\ s # <<>>
  BY DEF Fits, Shaped, ProcFits
<1>2. CASE \E j \in DOMAIN mine.items : mine.items[j].path = q /\ mine.items[j].was = mine.before[q]
  BY <1>2 DEF PlaceKept
<1>3. ~SavedFirst(s, q)
  BY <1>1, TailSaves DEF next
<1>4. CASE disk[q] = mine.before[q] /\ Spares(s)
  <2>1. SparesSkill(next) /\ Spares(Tail(s))
    BY <1>1, <1>4, TailSaves DEF next
  <2> QED BY <1>4, <2>1 DEF PlaceKept
<1> QED BY <1>2, <1>3, <1>4 DEF PlaceKept

\* A write takes away only what is in the backup.
LEMMA WriteFits ==
    ASSUME Fits, Write
    PROVE  Fits'
<1>1. proc.phase = "change" /\ proc.todo # <<>> /\ next.do \notin {"save", "decide"} /\ disk' = effect(disk, next)
  BY DEF Write
<1>2. Todo(proc.todo, proc.job) /\ disk \in Disk
  BY DEF Fits, Shaped, ProcFits
<1>3. next \in Op /\ OpFits(next)
  BY <1>1, <1>2, TailWrites DEF next
<1>4. disk' \in Disk
  BY <1>1, <1>2, <1>3, EffectFits
<1>5. /\ Sets(backups', lastID') /\ ProcFits' /\ mine' = mine
      /\ proc'.job = proc.job /\ proc'.phase = "change" /\ proc'.todo = Tail(proc.todo)
  BY GoesOn DEF Write
<1>6. Remembered'
  BY DEF Write, Fits, Shaped, Remembered
<1>7. ASSUME proc.job \in {"step", "hooks"}, mine.pristine, NEW q \in {"claude", "agents"}
      PROVE  PlaceKept(q)'
  <2>1. PlaceKept(q)
    BY <1>1, <1>7 DEF Fits, Keeps
  <2>2. SparesSkill(next) => disk'[q] = disk[q]
    BY <1>1, <1>2, <1>3, SparesPlaces
  <2> QED BY <1>1, <1>5, <2>1, <2>2, PlaceStaysKept
<1>8. proc.job = "sync" => Alternates(Tail(proc.todo))
  BY <1>1, <1>2, TailAlternates DEF Fits, Keeps
<1>9. ASSUME proc.job = "sync", mine.pristine
      PROVE  NextIsSaved' /\ NothingLost'
  <2>1. Alternates(proc.todo) /\ NextIsSaved /\ NothingLost
    BY <1>1, <1>9 DEF Fits, Keeps
  <2>2. NextIsSaved'
    <3>1. Tail(proc.todo) # <<>> => Head(Tail(proc.todo)).do = "save"
      BY <1>1, <1>2, <2>1, TailAlternates DEF next
    <3> QED BY <1>5, <3>1 DEF NextIsSaved, next
  <2>3. next.do \in {"write", "unlink", "link", "replace"} /\ next.path # "registry" /\ (next.do # "write" => next.path = "claude")
    BY <1>1, <1>2, <2>1, SyncWrites DEF next
  <2>4. onDisk(disk) \subseteq onDisk(disk') \cup ({at(disk, next.path)} \cap Content)
    BY <1>1, <1>2, <1>3, <2>3, WriteTakes
  <2>5. {at(disk, next.path)} \cap Content \subseteq contentsOf(mine)
    BY <1>1, <2>1 DEF NextIsSaved
  <2>6. onDisk(mine.before) \subseteq onDisk(disk) \cup contentsOf(mine)
    BY <1>1, <1>9, <2>1 DEF NothingLost
  <2>7. NothingLost'
    BY <1>5, <2>4, <2>5, <2>6 DEF NothingLost
  <2> QED BY <2>2, <2>7
<1>10. Keeps'
  BY <1>5, <1>7, <1>8, <1>9 DEF Keeps
<1> QED BY <1>4, <1>5, <1>6, <1>10 DEF Fits, Shaped

\* A step that records its decision has what it needs.
LEMMA DecideFits ==
    ASSUME Fits, Decide
    PROVE  Fits'
<1>1. proc.phase = "change" /\ proc.todo # <<>> /\ next.do = "decide"
  BY DEF Decide
<1>2. Todo(proc.todo, proc.job) /\ disk \in Disk
  BY DEF Fits, Shaped, ProcFits
<1>3. proc.job = "step"
  <2> PICK s : s = proc.todo
    OBVIOUS
  <2>1. 1 \in DOMAIN s /\ next = s[1]
    BY <1>1, <1>2, TailWrites DEF next
  <2> QED BY <1>1, <1>2, <2>1 DEF Todo
<1>4. intent.do \in {"share", "unshare"} /\ intent.kind \in Kind /\ intent.tool \in {"claude", "codex"}
  BY <1>3 DEF Fits, Shaped, ProcFits, Remembered
<1>5. decided \in [Kind -> Decision \cup {"unset"}]
  BY <1>4 DEF decided, Decision, Fits, Shaped, Remembered
<1> PICK r : r = withDecisions(disk.registry, decided)
  OBVIOUS
<1>6. r \in [Kind -> Decision]
  BY <1>2, <1>5 DEF withDecisions, Disk
<1>7. disk' = [disk EXCEPT !.registry = r]
  BY DEF Decide
<1>8. disk' \in Disk /\ disk'["claude"] = disk["claude"] /\ disk'["agents"] = disk["agents"]
  BY <1>2, <1>6, <1>7 DEF Disk
<1>9. /\ Sets(backups', lastID') /\ ProcFits' /\ mine' = mine
      /\ proc'.job = proc.job /\ proc'.phase = "change" /\ proc'.todo = Tail(proc.todo)
  BY GoesOn DEF Decide
<1>10. Remembered'
  BY <1>4 DEF Decide, Fits, Shaped, Remembered, Unset
<1>11. ASSUME mine.pristine, NEW q \in {"claude", "agents"}
       PROVE  PlaceKept(q)'
  <2>1. PlaceKept(q)
    BY <1>1, <1>3, <1>11 DEF Fits, Keeps
  <2> QED BY <1>1, <1>8, <1>9, <2>1, PlaceStaysKept
<1>12. Keeps'
  BY <1>3, <1>9, <1>11 DEF Keeps
<1> QED BY <1>8, <1>9, <1>10, <1>12 DEF Fits, Shaped

\* A write that fails leaves the writes of the job that still run, or a rollback.
LEMMA FailsFits ==
    ASSUME Fits, Fails
    PROVE  Fits'
<1>1. /\ proc.phase = "change" /\ proc.todo # <<>> /\ proc' = afterFailure
      /\ disk' = disk /\ backups' = backups /\ lastID' = lastID /\ intent' = intent
  BY DEF Fails
<1>2. Todo(proc.todo, proc.job) /\ proc \in Proc /\ proc.job \in {"step", "sync", "hooks"}
  BY <1>1 DEF Fits, Shaped, ProcFits
<1>3. Sets(backups', lastID') /\ disk' \in Disk
  BY <1>1 DEF Fits, Shaped
<1>4. Len(mine.items) \in Nat
  BY <1>1, MineIs, LenProperties DEF Fits, BackupSet
<1>5. Remembered'
  <2>1. next.do = "decide" => decided \in [Kind -> Decision \cup {"unset"}]
    <3>1. next.do = "decide" => proc.job = "step"
      <4> PICK s : s = proc.todo
        OBVIOUS
      <4>1. 1 \in DOMAIN s /\ next = s[1]
        BY <1>1, <1>2, TailWrites DEF next
      <4> QED BY <1>2, <4>1 DEF Todo
    <3>2. proc.job = "step" => decided \in [Kind -> Decision \cup {"unset"}]
      BY DEF decided, Decision, Fits, Shaped, ProcFits, Remembered
    <3> QED BY <3>1, <3>2
  <2>2. troubles' \in 0..MaxTroubles
    BY Constants DEF Fails, Trouble, Fits, Shaped, Remembered
  <2> QED BY <2>1, <2>2 DEF Fails, Fits, Shaped, Remembered
<1>6. CASE proc.job = "step"
  <2>1. proc' = [proc EXCEPT !.phase = "rollback", !.todo = <<>>, !.left = Len(mine.items)]
    BY <1>1, <1>6 DEF afterFailure
  <2>2. /\ proc'.job = "step" /\ proc'.phase = "rollback" /\ proc'.todo = <<>> /\ proc'.id = proc.id
        /\ proc'.left = Len(mine.items) /\ proc' \in Proc
    BY <1>2, <1>4, <1>6, <2>1, EmptySeq DEF Proc
  <2>3. mine' = mine /\ \E i \in DOMAIN backups' : backups'[i].id = proc'.id
    BY <1>1, <2>2, MineStays DEF Fits
  <2>4. Todo(proc'.todo, proc'.job)
    BY <2>2, NoWrite
  <2>5. ProcFits'
    BY <1>1, <1>4, <1>6, <2>2, <2>3, <2>4 DEF Fits, Shaped, ProcFits
  <2>6. Keeps'
    BY <2>2 DEF Keeps
  <2> QED BY <1>3, <1>5, <2>5, <2>6 DEF Fits, Shaped
<1>7. CASE proc.job = "hooks"
  <2>1. proc' = [proc EXCEPT !.todo = <<>>]
    BY <1>1, <1>7 DEF afterFailure
  <2>2. /\ proc'.job = "hooks" /\ proc'.phase = "change" /\ proc'.todo = <<>> /\ proc'.id = proc.id
        /\ proc' \in Proc
    BY <1>1, <1>2, <1>7, <2>1, EmptySeq DEF Proc
  <2>3. mine' = mine /\ \E i \in DOMAIN backups' : backups'[i].id = proc'.id
    BY <1>1, <2>2, MineStays DEF Fits
  <2>4. Todo(proc'.todo, proc'.job)
    BY <2>2, NoWrite
  <2>5. ProcFits'
    BY <2>2, <2>3, <2>4 DEF ProcFits
  <2>6. ASSUME mine.pristine, NEW q \in {"claude", "agents"}
        PROVE  PlaceKept(q)'
    <3>1. PlaceKept(q)
      BY <1>1, <1>7, <2>6 DEF Fits, Keeps
    <3>2. Spares(proc'.todo)
      BY <2>2 DEF Spares
    <3> QED BY <1>1, <2>3, <3>1, <3>2 DEF PlaceKept
  <2>7. Keeps'
    BY <2>2, <2>3, <2>6 DEF Keeps
  <2> QED BY <1>3, <1>5, <2>5, <2>7 DEF Fits, Shaped
<1>8. CASE proc.job = "sync"
  <2> PICK s : s = proc.todo
    OBVIOUS
  <2> PICK f \in {1, 2} : f = IF next.do = "save" THEN 2 ELSE 1
    OBVIOUS
  <2> PICK t : t = SubSeq(s, f + 1, Len(s))
    OBVIOUS
  <2>1. Alternates(s) /\ 1 \in DOMAIN s /\ next = s[1] /\ Todo(s, "sync") /\ s # <<>>
    BY <1>1, <1>2, <1>8, TailWrites DEF next, Fits, Keeps
  <2>2. f \in DOMAIN s => s[f].do # "save"
    <3>1. \A h \in DOMAIN s : s[h].do = "save" => h + 1 \in DOMAIN s /\ s[h + 1].do # "save"
      BY <2>1 DEF Alternates
    <3>2. next.do = "save" => s[2].do # "save"
      <4> PICK h, k : h = 1 /\ k = 2
        OBVIOUS
      <4>1. h + 1 = k
        OBVIOUS
      <4> QED BY <2>1, <3>1, <4>1
    <3> QED BY <2>1, <3>2
  <2>3. Todo(t, "sync")
    BY <2>1, LastWrites
  <2>4. Alternates(t) /\ (t # <<>> => Head(t).do = "save")
    <3>1. f \in Nat /\ f # 0
      OBVIOUS
    <3>2. Alternates(SubSeq(s, f + 1, Len(s)))
      BY ONLY <2>1, <2>2, <3>1, LastAlternate
    <3>3. SubSeq(s, f + 1, Len(s)) # <<>> => Head(SubSeq(s, f + 1, Len(s))).do = "save" \/ f = 0
      BY ONLY <2>1, <2>2, <3>1, LastAlternate
    <3> DEFINE u == SubSeq(s, f + 1, Len(s))
    <3>4. Alternates(u) /\ (u # <<>> => Head(u).do = "save")
      BY ONLY <3>1, <3>2, <3>3
    <3>5. t = u
      OBVIOUS
    <3> HIDE DEF u
    <3> QED BY ONLY <3>4, <3>5
  <2>5. proc' = [proc EXCEPT !.todo = t]
    <3>1. proc' = [proc EXCEPT !.todo = SubSeq(s, IF next.do = "save" THEN 3 ELSE 2, Len(s))]
      BY <1>1, <1>8 DEF afterFailure
    <3>2. (IF next.do = "save" THEN 3 ELSE 2) = f + 1
      OBVIOUS
    <3> QED BY <3>1, <3>2
  <2>6. /\ proc'.job = "sync" /\ proc'.phase = "change" /\ proc'.todo = t /\ proc'.id = proc.id
        /\ proc' \in Proc
    BY <1>1, <1>2, <1>8, <2>3, <2>5 DEF Proc, Todo
  <2>7. mine' = mine /\ \E i \in DOMAIN backups' : backups'[i].id = proc'.id
    BY <1>1, <2>6, MineStays DEF Fits
  <2>8. Todo(proc'.todo, proc'.job)
    BY <2>3, <2>6
  <2>9. ProcFits'
    BY <2>6, <2>7, <2>8 DEF ProcFits
  <2>10. NextIsSaved'
    BY <2>4, <2>6 DEF NextIsSaved, next
  <2>11. mine.pristine => NothingLost'
    BY <1>1, <1>8, <2>7 DEF NothingLost, Fits, Keeps
  <2>12. Keeps'
    BY <2>4, <2>6, <2>7, <2>10, <2>11 DEF Keeps
  <2> QED BY <1>3, <1>5, <2>9, <2>12 DEF Fits, Shaped
<1> QED BY <1>2, <1>6, <1>7, <1>8

-----------------------------------------------------------------------------
(* The ends of a change, undo, and the environment *)

\* A change that is over frees the lock and completes its backup.
LEMMA FinishFits ==
    ASSUME Fits, Finish
    PROVE  Fits'
<1> PICK i : i = index(proc.id)
  OBVIOUS
<1>1. i \in DOMAIN backups /\ backups[i] \in BackupSet /\ Sets(backups, lastID)
  BY MineIs DEF Finish, Fits, Shaped
<1> PICK b : b = [backups[i] EXCEPT !.manifest = TRUE]
  OBVIOUS
<1>2. b \in BackupSet /\ b.id = backups[i].id
  BY <1>1, Marked
<1>3. Sets([backups EXCEPT ![i] = b], lastID)
  BY ONLY <1>1, <1>2, UpdatedSets
<1> PICK done : done = [backups EXCEPT ![i] = b]
  OBVIOUS
<1>4. Sets(done, lastID) /\ Sets(pruned(done, keepBackups), lastID)
  BY <1>3, Constants, PrunedSets
<1>5. backups' = (IF proc.job = "sync" THEN pruned(done, keepBackups) ELSE done) /\ lastID' = lastID
  BY DEF Finish
<1>6. Sets(backups', lastID')
  BY <1>4, <1>5
<1>7. Remembered'
  BY DEF Finish, Fits, Shaped, Sets, Remembered, NoIntent
<1>8. disk' \in Disk /\ proc' = NoProc
  BY DEF Finish, Fits, Shaped
<1> QED BY <1>6, <1>7, <1>8, Idle DEF Fits, Shaped

\* Putting one saved place back.
LEMMA RestoreFits ==
    ASSUME Fits, Restore
    PROVE  Fits'
<1>1. /\ proc.phase \in {"rollback", "restore"} /\ proc.left > 0 /\ proc.left <= Len(mine.items)
      /\ Todo(proc.todo, proc.job) /\ proc \in Proc /\ proc.left \in Nat
  BY DEF Restore, Fits, Shaped, ProcFits, Proc
<1>2. mine \in BackupSet
  BY <1>1, MineIs DEF Fits
<1> PICK x : x = nextItem(mine, proc.left)
  OBVIOUS
<1>3. x \in Item
  <2> PICK s \in Seq(Item) : s = mine.items
    BY <1>2 DEF BackupSet
  <2> PICK n \in Nat : n = proc.left
    BY <1>1
  <2>1. n \in 1..Len(s) /\ x = s[n]
    BY <1>1, LenProperties DEF nextItem
  <2> QED BY <2>1, ElementOfSeq
<1>4. disk' \in Disk
  BY <1>3, RestoredFits DEF Restore, Fits, Shaped
<1>5. proc' = [proc EXCEPT !.left = @ - 1] /\ backups' = backups /\ lastID' = lastID /\ intent' = intent
  BY DEF Restore
<1>6. /\ proc'.job = proc.job /\ proc'.phase = proc.phase /\ proc'.todo = proc.todo /\ proc'.id = proc.id
      /\ proc'.left = proc.left - 1 /\ proc' \in Proc
  BY <1>1, <1>5 DEF Proc
<1>7. mine' = mine /\ \E i \in DOMAIN backups' : backups'[i].id = proc'.id
  BY <1>1, <1>5, <1>6, MineStays DEF Fits
<1> PICK n : n = Len(mine.items)
  OBVIOUS
<1>8. n \in Nat
  BY <1>2, LenProperties DEF BackupSet
<1>9. proc.left - 1 <= n
  BY <1>1, <1>8
<1>10. ProcFits'
  BY <1>1, <1>5, <1>6, <1>7, <1>9 DEF Fits, Shaped, ProcFits
<1>11. Keeps'
  BY <1>1, <1>6, <1>10 DEF ProcFits, Keeps
<1>12. Remembered' /\ Sets(backups', lastID')
  BY DEF Restore, Fits, Shaped, Remembered
<1> QED BY <1>4, <1>10, <1>11, <1>12 DEF Fits, Shaped

\* A place that cannot be put back ends an undo.
LEMMA RestoreFailsFits ==
    ASSUME Fits, RestoreFails
    PROVE  Fits'
<1> PICK i : i = index(proc.id)
  OBVIOUS
<1> PICK m : m = mine
  OBVIOUS
<1>1. i \in DOMAIN backups /\ m = backups[i] /\ m \in BackupSet /\ Sets(backups, lastID)
  BY MineIs DEF RestoreFails, Fits, Shaped
<1> PICK b : b = [m EXCEPT !.manifest = @ \/ proc.phase = "rollback", !.cut = TRUE]
  OBVIOUS
<1>2. b \in BackupSet /\ b.id = backups[i].id
  <2> PICK e \in BOOLEAN : e = (m.manifest \/ proc.phase = "rollback")
    BY <1>1 DEF BackupSet
  <2>1. b = [m EXCEPT !.manifest = e, !.cut = TRUE]
    OBVIOUS
  <2> QED BY <1>1, <2>1, Marked
<1>3. Sets([backups EXCEPT ![i] = b], lastID)
  BY ONLY <1>1, <1>2, UpdatedSets
<1>4. backups' = [backups EXCEPT ![i] = b] /\ lastID' = lastID
  BY DEF RestoreFails, UpdateMine
<1>5. Sets(backups', lastID')
  BY <1>1, <1>3, <1>4
<1>6. Remembered'
  BY Constants DEF RestoreFails, Trouble, Fits, Shaped, Remembered, NoIntent
<1>7. disk' \in Disk /\ proc' = NoProc
  BY DEF RestoreFails, Fits, Shaped
<1> QED BY <1>5, <1>6, <1>7, Idle DEF Fits, Shaped

\* A rollback that is over frees the lock and drops its backup.
LEMMA RolledBackFits ==
    ASSUME Fits, RolledBack
    PROVE  Fits'
<1>1. index(proc.id) \in DOMAIN backups /\ mine \in BackupSet /\ Sets(backups, lastID)
  BY MineIs DEF RolledBack, Fits, Shaped
<1>2. Sets(backups', lastID')
  BY <1>1, RemovedSets DEF RolledBack
<1>3. mine.apartBefore \subseteq Kind
  BY <1>1 DEF BackupSet
<1>4. Remembered'
  BY <1>3 DEF RolledBack, apartAgain, Fits, Shaped, Remembered, NoIntent, Kind
<1>5. disk' \in Disk /\ proc' = NoProc
  BY DEF RolledBack, Fits, Shaped
<1> QED BY <1>2, <1>4, <1>5, Idle DEF Fits, Shaped

\* An undo that is over marks its backup.
LEMMA UndoneFits ==
    ASSUME Fits, Undone
    PROVE  Fits'
<1> PICK i : i = index(proc.id)
  OBVIOUS
<1> PICK m : m = mine
  OBVIOUS
<1>1. i \in DOMAIN backups /\ m = backups[i] /\ m \in BackupSet /\ Sets(backups, lastID)
  BY MineIs DEF Undone, Fits, Shaped
<1> PICK b : b = [m EXCEPT !.undone = TRUE]
  OBVIOUS
<1>2. b \in BackupSet /\ b.id = backups[i].id
  BY <1>1, Marked
<1>3. Sets([backups EXCEPT ![i] = b], lastID)
  BY ONLY <1>1, <1>2, UpdatedSets
<1>4. Sets(backups', lastID')
  BY <1>3 DEF Undone, UpdateMine
<1>5. m.apartBefore \subseteq Kind
  BY <1>1 DEF BackupSet
<1>6. Remembered'
  BY <1>5 DEF Undone, apartAgain, Fits, Shaped, Remembered, Kind
<1>7. disk' \in Disk /\ proc' = NoProc
  BY DEF Undone, Fits, Shaped
<1> QED BY <1>4, <1>6, <1>7, Idle DEF Fits, Shaped

\* A user's edit in the middle makes the backup no longer the process's alone.
LEMMA UserEditFits ==
    ASSUME Fits, NEW p \in FilePath, NEW c \in Content, UserEdit(p, c)
    PROVE  Fits' /\ (proc.phase # "idle" => ~mine'.pristine)
<1>1. disk' \in Disk
  <2>1. place(disk, p) \in {"claude", "agents"}
    BY DEF place, FilePath
  <2>2. [disk EXCEPT ![place(disk, p)] = c] \in Disk
    BY <2>1, PutSkill DEF AtSkill, Dir, Fits, Shaped
  <2> QED BY <2>2 DEF UserEdit, put
<1>2. Sets(backups, lastID) /\ backups' = touchedBy(0, backups) /\ lastID' = lastID
      /\ proc' = proc /\ intent' = intent
  BY DEF UserEdit, Fits, Shaped
<1>3. Sets(backups', lastID')
  BY <1>2, TouchedSets
<1>4. Remembered'
  BY Constants DEF UserEdit, Trouble, Fits, Shaped, Remembered
<1>5. CASE proc.phase = "idle"
  BY <1>1, <1>2, <1>3, <1>4, <1>5, Idle DEF Fits, Shaped, ProcFits
<1>6. CASE proc.phase # "idle"
  <2> PICK i : i = index(proc.id)
    OBVIOUS
  <2> PICK m : m = mine
    OBVIOUS
  <2>1. i \in DOMAIN backups /\ m = backups[i] /\ m.id = proc.id
    BY <1>6, MineIs DEF Fits
  <2>2. DOMAIN backups' = DOMAIN backups
    BY <1>2, TouchedSets
  <2> PICK id : id = 0
    OBVIOUS
  <2>3. backups'[i].id = m.id
    <3>1. touchedBy(id, backups)[i].id = backups[i].id
      BY ONLY <1>2, <2>1, TouchedSets
    <3> QED BY <1>2, <2>1, <3>1
  <2>4. backups'[i].items = m.items
    <3>1. touchedBy(id, backups)[i].items = backups[i].items
      BY ONLY <1>2, <2>1, TouchedSets
    <3> QED BY <1>2, <2>1, <3>1
  <2>5. backups'[i].pristine = TRUE => m.id = 0
    <3>1. touchedBy(id, backups)[i].pristine = TRUE => backups[i].id = id
      BY ONLY <1>2, <2>1, TouchedSets
    <3> QED BY <1>2, <2>1, <3>1
  <2>6. m.id # 0
    BY <1>2, <2>1 DEF Sets
  <2>7. mine' = backups'[i] /\ mine' \in BackupSet /\ \E k \in DOMAIN backups' : backups'[k].id = proc'.id
    BY <1>2, <1>3, <2>1, <2>2, <2>3, MineIsNext
  <2>8. ~mine'.pristine
    BY <2>5, <2>6, <2>7 DEF BackupSet
  <2>9. ProcFits'
    BY <1>2, <1>6, <2>4, <2>7 DEF Fits, Shaped, ProcFits
  <2>10. Keeps'
    BY <1>2, <2>8 DEF Fits, Keeps
  <2> QED BY <1>1, <1>3, <1>4, <2>8, <2>9, <2>10 DEF Fits, Shaped
<1> QED BY <1>5, <1>6

\* A crash leaves nothing at work.
LEMMA CrashFits ==
    ASSUME Fits, Crash
    PROVE  Fits'
<1>1. disk' \in Disk /\ proc' = NoProc
  BY DEF Crash, Fits, Shaped
<1>3. Sets(backups', lastID')
  <2> PICK i : i = index(proc.id)
    OBVIOUS
  <2> PICK m : m = mine
    OBVIOUS
  <2>1. i \in DOMAIN backups /\ m = backups[i] /\ m \in BackupSet /\ Sets(backups, lastID)
    BY MineIs DEF Crash, Fits, Shaped, ProcFits
  <2> PICK b : b = [m EXCEPT !.cut = TRUE]
    OBVIOUS
  <2>2. b \in BackupSet /\ b.id = backups[i].id
    BY <2>1, Marked
  <2>3. Sets([backups EXCEPT ![i] = b], lastID)
    BY ONLY <2>1, <2>2, UpdatedSets
  <2>4. (backups' = [backups EXCEPT ![i] = b] \/ backups' = backups) /\ lastID' = lastID
    BY DEF Crash, UpdateMine
  <2> QED BY <2>1, <2>3, <2>4
<1>2. Remembered'
  BY Constants DEF Crash, Trouble, Fits, Shaped, Remembered, NoIntent, Unset
<1> QED BY <1>1, <1>2, <1>3, Idle DEF Fits, Shaped

-----------------------------------------------------------------------------
(* The theorems *)

\* At first nothing is at work and there is no backup.
LEMMA InitFits == Init => Fits
<1> SUFFICES ASSUME Init PROVE Fits
  OBVIOUS
<1>1. disk \in Disk
  BY UndoAssumption DEF Init, Disk, Dir, Decision
<1>2. Sets(backups, lastID)
  <2>1. backups = <<>> /\ lastID = 0
    BY DEF Init
  <2>2. <<>> \in Seq(BackupSet) /\ \A i \in DOMAIN <<>> : FALSE
    BY EmptySeq
  <2> QED BY <2>1, <2>2 DEF Sets
<1>3. Remembered
  BY Constants DEF Init, Remembered, Unset, NoIntent
<1>4. proc.job = "none" /\ proc.phase = "idle" /\ proc = NoProc /\ proc.todo = <<>>
  BY DEF Init, NoProc
<1>5. proc \in Proc /\ Todo(proc.todo, proc.job)
  <2>1. Todo(<<>>, proc.job)
    BY NoWrite
  <2> QED BY <1>4, <2>1, EmptySeq DEF NoProc, Proc
<1>6. ProcFits /\ Keeps
  BY <1>4, <1>5 DEF ProcFits, Keeps
<1> QED BY <1>1, <1>2, <1>3, <1>6 DEF Fits, Shaped

\* Every step keeps the bookkeeping.
LEMMA NextFits == Fits /\ [Next]_vars => Fits'
<1> SUFFICES ASSUME Fits, [Next]_vars PROVE Fits'
  OBVIOUS
<1>1. ASSUME NEW kind \in Kind, NEW tool \in {"claude", "codex"}, NEW same \in BOOLEAN,
             AskShare(kind, tool, same)
      PROVE  Fits'
  BY <1>1, AskShareFits
<1>2. ASSUME NEW kind \in Kind, NEW tool \in {"claude", "codex"}, AskUnshare(kind, tool)
      PROVE  Fits'
  BY <1>2, AskUnshareFits
<1>3. ASSUME NEW id \in 1..lastID, AskUndo(id)
      PROVE  Fits'
  BY <1>3, AskUndoFits
<1>4. ASSUME NEW kind \in Kind, NEW decision \in Decision, Mark(kind, decision)
      PROVE  Fits'
  BY <1>4, MarkFits
<1>22. ASSUME NEW kind \in Kind, NEW decision \in {"claude-only", "codex-only"}, Never(kind, decision)
      PROVE  Fits'
  BY <1>22, NeverFits
<1>5. CASE StartShare
  BY <1>5, StartShareFits
<1>6. CASE StartUnshare
  BY <1>6, StartUnshareFits
<1>7. CASE StartUndo
  BY <1>7, StartUndoFits
<1>8. ASSUME NEW v \in {Absent, Present}, StartHooks(v)
      PROVE  Fits'
  BY <1>8, StartHooksFits
<1>9. ASSUME NEW plan \in SyncPlans, StartSync(plan)
      PROVE  Fits'
  BY <1>9, StartSyncFits
<1>10. CASE Save
  BY <1>10, SaveStepFits
<1>11. CASE Write
  BY <1>11, WriteFits
<1>12. CASE Decide
  BY <1>12, DecideFits
<1>13. CASE Fails
  BY <1>13, FailsFits
<1>14. CASE Finish
  BY <1>14, FinishFits
<1>15. CASE Restore
  BY <1>15, RestoreFits
<1>16. CASE RestoreFails
  BY <1>16, RestoreFailsFits
<1>17. CASE RolledBack
  BY <1>17, RolledBackFits
<1>18. CASE Undone
  BY <1>18, UndoneFits
<1>19. ASSUME NEW p \in FilePath, NEW c \in Content, UserEdit(p, c)
       PROVE  Fits'
  BY <1>19, UserEditFits
<1>20. CASE Crash
  BY <1>20, CrashFits
<1>21. CASE UNCHANGED vars
  <2>1. UNCHANGED <<disk, backups, lastID, proc, journal, memory, intent, apart, troubles>>
    BY <1>21 DEF vars
  <2>2. Remembered'
    BY <2>1 DEF Fits, Shaped, Remembered
  <2>3. proc.job = "step" => intent'.do \in {"share", "unshare"}
    BY <2>1 DEF Fits, Shaped, ProcFits
  <2> QED BY <2>1, <2>2, <2>3, Undisturbed DEF Fits, Shaped
<1> QED BY <1>1, <1>2, <1>3, <1>4, <1>5, <1>6, <1>7, <1>8, <1>9, <1>10, <1>11, <1>12, <1>13,
           <1>14, <1>15, <1>16, <1>17, <1>18, <1>19, <1>20, <1>21, <1>22 DEF Next

\* The backups, the process that holds the lock and what is saved fit together.
THEOREM BackupsFit == Spec => []Fits
<1>1. Init => Fits
  BY InitFits
<1>2. Fits /\ [Next]_vars => Fits'
  BY NextFits
<1> QED BY <1>1, <1>2, PTL DEF Spec

\* What the bookkeeping says of the types.
LEMMA FitsTypes == Fits => TypeOK
<1> SUFFICES ASSUME Fits PROVE TypeOK
  OBVIOUS
<1>1. ASSUME NEW i \in DOMAIN backups
      PROVE  /\ backups[i].id \in 1..lastID
             /\ backups[i].manifest \in BOOLEAN /\ backups[i].undone \in BOOLEAN
             /\ \A j \in DOMAIN backups[i].items : backups[i].items[j].path \in Path
  <2> PICK b \in BackupSet : b = backups[i]
    BY ElementOfSeq DEF Fits, Shaped, Sets
  <2>1. \A j \in DOMAIN b.items : b.items[j].path \in Path
    <3>1. b.items \in Seq(Item)
      BY DEF BackupSet
    <3>2. \A x \in Item : x.path \in Path
      BY DEF Item, Path, SkillPath
    <3> QED BY <3>1, <3>2, ElementOfSeq
  <2>2. b.manifest \in BOOLEAN /\ b.undone \in BOOLEAN
    BY DEF BackupSet
  <2>3. backups[i].id \in 1..lastID
    BY DEF Fits, Shaped, Sets
  <2> QED BY <2>1, <2>2, <2>3
<1>2. \A i, j \in DOMAIN backups : i < j => backups[i].id < backups[j].id
  BY DEF Fits, Shaped, Sets
<1> QED BY <1>1, <1>2 DEF Fits, Shaped, Sets, Remembered, ProcFits, Proc, Todo, TypeOK

\* Every place holds what can be there, backup IDs grow, and a process that does
\* something has the backup it writes to (Engine.newBackup, withLock).
THEOREM UndoTypes == Spec => []TypeOK
<1>1. Spec => []Fits
  BY BackupsFit
<1> QED BY <1>1, FitsTypes, PTL

\* At every point where a share, an unshare, a hook edit or a sync can be killed,
\* each content that the skill had is on the disk or in the backup (backupSet.save
\* before every write).
THEOREM NothingIsLost == Spec => []NothingLost
<1>1. Fits => NothingLost
  <2> SUFFICES ASSUME Fits, proc.phase = "change", mine.pristine
               PROVE  onDisk(mine.before) \subseteq onDisk(disk) \cup contentsOf(mine)
    BY DEF NothingLost
  <2>1. CASE proc.job = "sync"
    BY <2>1 DEF Fits, Keeps, NothingLost
  <2>2. CASE proc.job \in {"step", "hooks"}
    <3>1. \A q \in {"claude", "agents"} :
              \/ \E j \in DOMAIN mine.items : mine.items[j].path = q /\ mine.items[j].was = mine.before[q]
              \/ disk[q] = mine.before[q]
      BY <2>2 DEF Fits, Keeps, PlaceKept
    <3>2. \A q \in {"claude", "agents"} :
              {mine.before[q]} \cap Content \subseteq {disk[q]} \cup contentsOf(mine)
      BY <3>1 DEF contentsOf
    <3> QED BY <3>2 DEF onDisk
  <2> QED BY <2>1, <2>2 DEF Fits, Shaped, ProcFits
<1>2. Spec => []Fits
  BY BackupsFit
<1> QED BY <1>1, <1>2, PTL

-----------------------------------------------------------------------------
(* What a step has before it *)

\* Writes to what is saved.
AfterSaves(t, done) ==
    \A i \in DOMAIN t :
        /\ t[i].do \in {"write", "add", "link", "move", "same", "adapt", "decide"}
        /\ touches(t[i]) \subseteq Place \cap done

\* Such writes after the saves.
LEMMA WritesAfterSaves ==
    ASSUME NEW job, NEW s, NEW t, Todo(s, job), Todo(t, job),
           NEW free, Prepared(s, free), AfterSaves(t, free \cup savesOf(s))
    PROVE  Prepared(s \o t, free) /\ savesOf(s) \subseteq savesOf(s \o t)
<1> PICK m, n \in Nat : m = Len(s) /\ n = Len(t)
  BY LenProperties DEF Todo
<1> DEFINE u == s \o t
<1>1. DOMAIN s = 1..m /\ DOMAIN t = 1..n
  BY LenProperties DEF Todo
<1>2. DOMAIN u = 1..(m + n) /\ (\A i \in 1..m : u[i] = s[i]) /\ (\A i \in 1..n : u[m + i] = t[i])
  <2>1. u \in Seq(Op) /\ Len(u) = m + n /\ (\A i \in 1..m : u[i] = s[i]) /\ (\A i \in 1..n : u[m + i] = t[i])
    BY ConcatKeeps DEF Todo
  <2> QED BY <2>1, LenProperties
<1> HIDE DEF u
<1>3. savesOf(s) \subseteq savesOf(u)
  <2>1. \A i \in 1..m : i \in 1..(m + n)
    OBVIOUS
  <2> QED BY <1>1, <1>2, <2>1 DEF savesOf
<1>4. ASSUME NEW i \in 1..m
      PROVE  /\ u[i].do = "save" => u[i].path \in Place /\ \A h \in 1..i : u[h].do = "save"
             /\ u[i].do # "save" =>
                  /\ u[i].do \in {"write", "add", "link", "move", "same", "adapt", "decide"}
                  /\ touches(u[i]) \subseteq Place \cap (free \cup savesOf(u))
  <2>1. u[i] = s[i] /\ \A h \in 1..i : h \in 1..m
    BY <1>2
  <2>2. /\ s[i].do = "save" => s[i].path \in Place /\ \A h \in 1..i : s[h].do = "save"
        /\ s[i].do # "save" =>
              /\ s[i].do \in {"write", "add", "link", "move", "same", "adapt", "decide"}
              /\ touches(s[i]) \subseteq Place \cap (free \cup savesOf(s))
    BY <1>1 DEF Prepared
  <2> QED BY <1>2, <1>3, <2>1, <2>2
<1>5. ASSUME NEW i \in 1..(m + n), i \notin 1..m
      PROVE  /\ u[i].do # "save"
             /\ u[i].do \in {"write", "add", "link", "move", "same", "adapt", "decide"}
             /\ touches(u[i]) \subseteq Place \cap (free \cup savesOf(u))
  <2> PICK k : k = i - m
    OBVIOUS
  <2>1. k \in 1..n /\ m + k = i
    BY <1>5
  <2>2. u[i] = t[k]
    BY <1>2, <2>1
  <2>3. t[k].do \in {"write", "add", "link", "move", "same", "adapt", "decide"} /\ touches(t[k]) \subseteq Place \cap (free \cup savesOf(s))
    BY <1>1, <2>1 DEF AfterSaves
  <2> QED BY <1>3, <2>2, <2>3
<1>6. Prepared(u, free)
  BY <1>2, <1>4, <1>5 DEF Prepared
<1> QED BY <1>3, <1>6 DEF u

\* Writes after writes.
LEMMA WritesAfterWrites ==
    ASSUME NEW job, NEW s, NEW t, Todo(s, job), Todo(t, job), NEW done,
           AfterSaves(s, done), AfterSaves(t, done)
    PROVE  AfterSaves(s \o t, done)
<1> DEFINE u == s \o t
<1>1. \A i \in DOMAIN u : (\E j \in DOMAIN s : u[i] = s[j]) \/ (\E j \in DOMAIN t : u[i] = t[j])
  <2>1. s \in Seq(Op) /\ t \in Seq(Op)
    BY DEF Todo
  <2> QED BY <2>1, ConcatElements
<1> HIDE DEF u
<1>2. AfterSaves(u, done)
  BY <1>1 DEF AfterSaves
<1> QED BY <1>2 DEF u

\* A step saves its paths and the registry before it writes to them.
LEMMA StepPrepared ==
    ASSUME NEW p \in Seq(Place), NEW change, Todo(change, "step"),
           NEW free, AfterSaves(change, free \cup {p[i] : i \in 1..Len(p)})
    PROVE  Prepared(step(p, change), free)
<1> PICK n \in Nat : n = Len(p)
  BY LenProperties
<1> DEFINE t == Append(p, "registry")
           first == saves(t)
           last == <<Do("decide", "registry", Absent)>>
<1>1. t \in Seq(Place) /\ Len(t) = n + 1 /\ (\A i \in 1..n : t[i] = p[i]) /\ t[n + 1] = "registry"
  BY AppendProperties DEF Place
<1>2. DOMAIN t = 1..(n + 1)
  BY <1>1, LenProperties
<1>3. p \in Seq(Path)
  <2>1. \A i \in 1..n : p[i] \in Path
    <3>1. \A i \in 1..n : p[i] \in Place
      BY ElementOfSeq
    <3> QED BY <3>1 DEF Place, Path
  <2> QED BY <2>1, LenProperties, MadeSeq
<1>4. Todo(first, "step")
  BY <1>3, SavesFit
<1> HIDE DEF t
<1>5. DOMAIN first = 1..(n + 1) /\ \A i \in 1..(n + 1) : first[i] = Do("save", t[i], Absent)
  BY <1>2 DEF saves
<1> HIDE DEF first, last
<1>6. \A i \in 1..(n + 1) : first[i].do = "save" /\ first[i].path = t[i] /\ t[i] \in Place
  <2>1. \A i \in 1..(n + 1) : t[i] \in Place
    BY <1>1, <1>2, ElementOfSeq
  <2> QED BY <1>5, <2>1 DEF Do
<1>7. Prepared(first, free)
  <2>1. \A i \in 1..(n + 1) : \A h \in 1..i : h \in 1..(n + 1)
    OBVIOUS
  <2> QED BY <1>5, <1>6, <2>1 DEF Prepared
<1>8. /\ {p[i] : i \in 1..n} \subseteq savesOf(first)
      /\ "registry" \in savesOf(first)
  <2>1. n + 1 \in 1..(n + 1) /\ \A i \in 1..n : i \in 1..(n + 1)
    OBVIOUS
  <2>2. \A i \in 1..(n + 1) : t[i] \in savesOf(first)
    BY <1>5, <1>6 DEF savesOf
  <2> QED BY <1>1, <2>1, <2>2
<1>9. AfterSaves(change, free \cup savesOf(first))
  BY <1>8 DEF AfterSaves
<1>10. Todo(last, "step") /\ AfterSaves(last, {"registry"})
  <2> PICK w : w = Do("decide", "registry", Absent)
    OBVIOUS
  <2>1. w \in Op /\ OpFits(w)
    BY SaveFits DEF Path
  <2>2. w.do = "decide" /\ touches(w) = {"registry"}
    BY DEF Do, touches
  <2>3. Todo(<<w>>, "step")
    BY <2>1, OneWrite
  <2>4. AfterSaves(<<w>>, {"registry"})
    BY <2>2 DEF AfterSaves, Place
  <2> QED BY <2>3, <2>4 DEF last
<1> DEFINE u == first \o change
<1>11. Todo(u, "step") /\ Prepared(u, free) /\ savesOf(first) \subseteq savesOf(u)
  BY <1>4, <1>7, <1>9, MoreWrites, WritesAfterSaves
<1> HIDE DEF u
<1>12. AfterSaves(last, free \cup savesOf(u))
  BY <1>8, <1>10, <1>11 DEF AfterSaves
<1>13. Prepared(u \o last, free)
  BY <1>10, <1>11, <1>12, WritesAfterSaves
<1>14. step(p, change) = u \o last
  BY DEF step, u, first, last, t
<1> QED BY <1>13, <1>14

\* What shares or unshares writes to what the step has saved.
LEMMA ChangesPrepared ==
    ASSUME NEW d, NEW e, NEW kind \in Kind, NEW tool \in {"claude", "codex"}, NEW free,
           kind = "mcp" /\ Link \in {d.codexConfig, e.codexConfig} => free = {"codexConfig", "codexTarget"}
    PROVE  /\ Prepared(step(paths(e, kind, tool),
                            IF kind = "skill" THEN shareSkill(d, tool) ELSE shareMCP(d, tool)), free)
           /\ Prepared(step(paths(e, kind, other(tool)),
                            IF kind = "skill" THEN unshareSkill(tool) ELSE unshareMCP(tool)), free)
<1> PICK same, away, adapt, out, in, link :
        /\ same = Do("same", "claude", Absent) /\ away = Do("write", "claude", Absent)
        /\ adapt = Do("adapt", "agents", Absent) /\ out = Do("move", "claude", "agents")
        /\ in = Do("move", "agents", "claude") /\ link = Do("link", "claude", Absent)
  OBVIOUS
<1> PICK both : both = {"claude", "agents"}
  OBVIOUS
<1>1. \A p \in {same, away, adapt, out, in, link} : p \in Op /\ OpFits(p) /\ p.do # "decide"
  BY DEF Do, Op, OpFits, Written, Path
<1>2. \A p \in {same, away, adapt, out, in, link} :
          /\ p.do \in {"write", "add", "link", "move", "same", "adapt", "decide"}
          /\ touches(p) \subseteq Place \cap both
  BY DEF Do, touches, Place
<1>3. AfterSaves(shareSkill(d, tool), both)
  <2>1. Todo(<<link>>, "step") /\ AfterSaves(<<link>>, both)
    <3>1. Todo(<<link>>, "step")
      BY <1>1, OneWrite
    <3> QED BY <1>2, <3>1 DEF AfterSaves
  <2>2. Todo(<<>>, "step") /\ AfterSaves(<<>>, both)
    BY NoWrite DEF AfterSaves
  <2>3. Todo(<<same, away, adapt>>, "step") /\ AfterSaves(<<same, away, adapt>>, both)
    <3>1. Todo(<<same, away, adapt>>, "step")
      BY <1>1, ThreeWrites
    <3> QED BY <1>2, <3>1 DEF AfterSaves
  <2>4. Todo(<<out, adapt>>, "step") /\ AfterSaves(<<out, adapt>>, both)
    <3>1. Todo(<<out, adapt>>, "step")
      BY <1>1, TwoWrites
    <3> QED BY <1>2, <3>1 DEF AfterSaves
  <2> PICK first : first = CASE tool = "claude"        -> <<>>
                             [] d.agents \in Dir      -> <<same, away, adapt>>
                             [] OTHER                 -> <<out, adapt>>
    OBVIOUS
  <2>5. Todo(first, "step") /\ AfterSaves(first, both)
    BY <2>2, <2>3, <2>4
  <2>6. AfterSaves(first \o <<link>>, both)
    BY <2>1, <2>5, WritesAfterWrites
  <2> QED BY <2>6 DEF shareSkill
<1>4. AfterSaves(unshareSkill(tool), both)
  <2>1. Todo(<<away>>, "step") /\ Todo(<<in>>, "step")
    BY <1>1, OneWrite
  <2>2. AfterSaves(<<away>>, both) /\ AfterSaves(<<in>>, both)
    BY <1>2 DEF AfterSaves
  <2>3. Todo(<<>>, "step") /\ AfterSaves(<<>>, both)
    BY NoWrite DEF AfterSaves
  <2> PICK last : last = IF tool = "claude" THEN <<in>> ELSE <<>>
    OBVIOUS
  <2>4. Todo(last, "step") /\ AfterSaves(last, both)
    BY <2>1, <2>2, <2>3
  <2>5. AfterSaves(<<away>> \o last, both)
    BY <2>1, <2>2, <2>4, WritesAfterWrites
  <2> QED BY <2>5 DEF unshareSkill
<1> PICK f \in ConfigPath : f = serverFile(e, tool)
  BY DEF serverFile, ConfigPath
<1> PICK g \in ConfigPath : g = serverFile(e, other(tool))
  BY DEF serverFile, ConfigPath
<1>5. ASSUME kind = "mcp"
      PROVE  AfterSaves(shareMCP(d, tool), free \cup {f}) /\ AfterSaves(unshareMCP(tool), free \cup {g})
  <2> PICK x \in ConfigPath : x = serverFile(d, tool)
    BY DEF serverFile, ConfigPath
  <2> PICK y \in ConfigPath : y = IF tool = "claude" THEN "codexConfig" ELSE "claudeJSON"
    BY DEF ConfigPath
  <2>0. x \in free \cup {f} /\ y \in free \cup {g}
    BY <1>5 DEF serverFile, other
  <2> PICK add, remove : add = Do("add", x, serverFile(d, other(tool))) /\ remove = Do("write", y, Absent)
    OBVIOUS
  <2>1. add.do = "add" /\ touches(add) = {x} /\ remove.do = "write" /\ touches(remove) = {y}
    BY DEF Do, touches
  <2>2. AfterSaves(<<add>>, free \cup {f}) /\ AfterSaves(<<remove>>, free \cup {g})
    BY <2>0, <2>1 DEF AfterSaves, Place
  <2> QED BY <2>2 DEF shareMCP, unshareMCP
<1>6. CASE kind = "skill"
  <2> PICK p : p = <<"claude", "agents">>
    OBVIOUS
  <2>1. p \in Seq(Place) /\ {p[i] : i \in 1..Len(p)} = both
    <3>1. <<"claude", "agents">> \in Seq(Place)
      BY DEF Place
    <3>2. Len(p) = 2 /\ p[1] = "claude" /\ p[2] = "agents"
      OBVIOUS
    <3>3. \A i \in 1..Len(p) : i = 1 \/ i = 2
      BY <3>2
    <3> QED BY <3>1, <3>2, <3>3
  <2>2. Todo(shareSkill(d, tool), "step") /\ Todo(unshareSkill(tool), "step")
    BY ChangesFit
  <2>3. Prepared(step(p, shareSkill(d, tool)), free) /\ Prepared(step(p, unshareSkill(tool)), free)
    <3>1. AfterSaves(shareSkill(d, tool), free \cup both) /\ AfterSaves(unshareSkill(tool), free \cup both)
      BY <1>3, <1>4 DEF AfterSaves
    <3> QED BY <2>1, <2>2, <3>1, StepPrepared
  <2>4. paths(e, kind, tool) = p /\ paths(e, kind, other(tool)) = p
    BY <1>6 DEF paths
  <2> QED BY <1>6, <2>3, <2>4
<1>7. CASE kind = "mcp"
  <2>1. ASSUME NEW h \in ConfigPath
        PROVE  <<h>> \in Seq(Place) /\ {<<h>>[i] : i \in 1..Len(<<h>>)} = {h}
    <3>1. h \in Place
      BY DEF Place
    <3> QED BY <3>1
  <2>2. Todo(shareMCP(d, tool), "step") /\ Todo(unshareMCP(tool), "step")
    BY ChangesFit
  <2>3. Prepared(step(<<f>>, shareMCP(d, tool)), free)
    BY <1>5, <1>7, <2>1, <2>2, StepPrepared
  <2>4. Prepared(step(<<g>>, unshareMCP(tool)), free)
    BY <1>5, <1>7, <2>1, <2>2, StepPrepared
  <2>5. paths(e, kind, tool) = <<f>> /\ paths(e, kind, other(tool)) = <<g>>
    BY <1>7 DEF paths
  <2> QED BY <1>7, <2>3, <2>4, <2>5
<1> QED BY <1>6, <1>7 DEF Kind

\* A step that begins.
LEMMA StartCanRollBack ==
    ASSUME Fits, NEW todo, Start("step", todo), Todo(todo, "step"), disk' = disk,
           mine' = newBackup(lastID + 1, disk, apart, configLinked("step")),
           Prepared(todo, IF configLinked("step") THEN {"codexConfig", "codexTarget"} ELSE {}),
           proc'.phase = "change", proc'.todo = todo
    PROVE  CanRollBack'
<1>1. mine'.before = disk' /\ mine'.items = <<>>
  BY DEF newBackup
<1>2. /\ mayDiffer(mine') = IF configLinked("step") THEN {"codexConfig", "codexTarget"} ELSE {}
      /\ SavedAsBefore(mine')
  BY <1>1 DEF savedIn, mayDiffer, aside, newBackup, SavedAsBefore
<1> QED BY <1>1, <1>2 DEF CanRollBack

-----------------------------------------------------------------------------
(* A step can be rolled back after every write *)

\* The first write, and the others after it.
LEMMA TailPrepared ==
    ASSUME NEW job, NEW s, Todo(s, job), s # <<>>, NEW done, Prepared(s, done)
    PROVE  /\ Head(s).do = "save" =>
                 Head(s).path \in Place /\ Prepared(Tail(s), done \cup {Head(s).path})
           /\ Head(s).do # "save" =>
                 /\ Head(s).do \in {"write", "add", "link", "move", "same", "adapt", "decide"}
                 /\ touches(Head(s)) \subseteq Place \cap done
                 /\ Prepared(Tail(s), done)
                 /\ Tail(s) # <<>> => Head(Tail(s)).do # "save"
<1> PICK m \in Nat : m = Len(s)
  BY LenProperties DEF Todo
<1> DEFINE t == Tail(s)
           w == Head(s)
<1>1. /\ DOMAIN t = 1..(m - 1) /\ 1 \in DOMAIN s /\ w = s[1]
      /\ \A i \in 1..(m - 1) : i + 1 \in DOMAIN s /\ t[i] = s[i + 1]
  BY TailWrites
<1>2. DOMAIN s = 1..m
  BY LenProperties DEF Todo
<1>3. t # <<>> => 1 \in DOMAIN t /\ Head(t) = t[1]
  <2>1. Todo(t, job)
    BY TailWrites
  <2> QED BY <2>1, TailWrites
<1> DEFINE h == Head(t)
<1>4. t # <<>> => 1 \in DOMAIN t /\ h = t[1]
  BY <1>3
<1> HIDE DEF t, w, h
<1>5. ASSUME NEW i \in 1..m, i # 1
      PROVE  \E k \in 1..(m - 1) : t[k] = s[i] /\ k + 1 = i
  <2> PICK k : k = i - 1
    OBVIOUS
  <2>1. k \in 1..(m - 1) /\ k + 1 = i
    BY <1>5
  <2> QED BY <1>1, <2>1
<1>6. ASSUME w.do = "save"
      PROVE  w.path \in Place /\ Prepared(t, done \cup {w.path})
  <2> PICK more : more = done \cup {w.path}
    OBVIOUS
  <2>1. w.path \in Place
    BY <1>1, <1>6 DEF Prepared
  <2>2. done \cup savesOf(s) \subseteq more \cup savesOf(t)
    <3> SUFFICES ASSUME NEW q \in savesOf(s) PROVE q = w.path \/ q \in savesOf(t)
      OBVIOUS
    <3> PICK i \in 1..m : s[i].do = "save" /\ q = s[i].path
      BY <1>2 DEF savesOf
    <3>1. CASE i = 1
      BY <1>1, <3>1
    <3>2. CASE i # 1
      <4> PICK k \in 1..(m - 1) : t[k] = s[i]
        BY <1>5, <3>2
      <4>1. k \in DOMAIN t /\ t[k].do = "save" /\ t[k].path = q
        BY <1>1
      <4> QED BY <4>1 DEF savesOf
    <3> QED BY <3>1, <3>2
  <2>3. ASSUME NEW i \in 1..(m - 1)
        PROVE  /\ t[i].do = "save" => t[i].path \in Place /\ \A k \in 1..i : t[k].do = "save"
               /\ t[i].do # "save" =>
                     /\ t[i].do \in {"write", "add", "link", "move", "same", "adapt", "decide"}
                     /\ touches(t[i]) \subseteq Place \cap (more \cup savesOf(t))
    <3> PICK k \in DOMAIN s : k = i + 1 /\ t[i] = s[k]
      BY <1>1
    <3>1. /\ s[k].do = "save" => s[k].path \in Place /\ \A x \in 1..k : s[x].do = "save"
          /\ s[k].do # "save" =>
                /\ s[k].do \in {"write", "add", "link", "move", "same", "adapt", "decide"}
                /\ touches(s[k]) \subseteq Place \cap (done \cup savesOf(s))
      BY DEF Prepared
    <3>2. \A x \in 1..i : x \in 1..(m - 1) /\ x + 1 \in 1..k
      OBVIOUS
    <3>3. t[i].do = "save" => \A x \in 1..i : t[x].do = "save"
      BY <1>1, <3>1, <3>2
    <3> QED BY <2>2, <3>1, <3>3
  <2>4. Prepared(t, more)
    BY <1>1, <2>3 DEF Prepared
  <2> QED BY <2>1, <2>4
<1>7. ASSUME w.do # "save"
      PROVE  /\ w.do \in {"write", "add", "link", "move", "same", "adapt", "decide"}
             /\ touches(w) \subseteq Place \cap done
             /\ Prepared(t, done)
             /\ t # <<>> => h.do # "save"
  <2>1. \A i \in 1..m : s[i].do # "save"
    <3> SUFFICES ASSUME NEW i \in 1..m, s[i].do = "save" PROVE FALSE
      OBVIOUS
    <3>1. \A x \in 1..i : s[x].do = "save"
      BY <1>2 DEF Prepared
    <3>2. 1 \in 1..i
      OBVIOUS
    <3> QED BY <1>1, <1>7, <3>1, <3>2
  <2>2. savesOf(s) = {}
    BY <1>2, <2>1 DEF savesOf
  <2>3. \A i \in 1..m : /\ s[i].do \in {"write", "add", "link", "move", "same", "adapt", "decide"}
                        /\ touches(s[i]) \subseteq Place \cap done
    BY <1>2, <2>1, <2>2 DEF Prepared
  <2>4. \A i \in 1..(m - 1) : /\ t[i].do \in {"write", "add", "link", "move", "same", "adapt", "decide"}
                              /\ touches(t[i]) \subseteq Place \cap done
    BY <1>1, <1>2, <2>3
  <2>5. Prepared(t, done)
    BY <1>1, <2>4 DEF Prepared
  <2>6. t # <<>> => h.do # "save"
    BY <1>1, <1>4, <2>4
  <2> QED BY <1>1, <1>2, <2>3, <2>5, <2>6
<1> QED BY <1>6, <1>7 DEF t, w, h

\* A write changes the places that it touches.
LEMMA TouchesOnly ==
    ASSUME NEW d \in Disk, NEW p \in Op, OpFits(p), NEW q \in Place, q \notin touches(p),
           p.do \in {"write", "add", "link", "move", "same", "adapt"}, touches(p) \subseteq Place
    PROVE  effect(d, p)[q] = d[q]
<1>1. CASE p.do \in {"write", "add"}
  <2> PICK x : x = p.path
    OBVIOUS
  <2>1. x \in Place /\ x # q /\ place(d, x) = x
    BY <1>1 DEF touches, Place, place, ConfigPath, HookPath
  <2>2. \E v : effect(d, p) = [d EXCEPT ![x] = v]
    BY <1>1, <2>1 DEF effect, put
  <2> QED BY <2>1, <2>2 DEF Disk, Place, ConfigPath, HookPath
<1>2. CASE p.do = "link"
  BY <1>2 DEF touches, effect, Disk, Place, ConfigPath, HookPath
<1>3. CASE p.do = "move"
  <2> PICK x, y \in {"claude", "agents"} : x = p.path /\ y = p.val
    BY <1>3 DEF OpFits
  <2>1. x # q /\ y # q /\ \A e : place(e, x) = x /\ place(e, y) = y
    BY <1>3 DEF touches, place
  <2> PICK v : v = at(d, x)
    OBVIOUS
  <2>2. effect(d, p) = [[d EXCEPT ![y] = v] EXCEPT ![x] = Absent]
    BY <1>3, <2>1 DEF effect, put
  <2> QED BY <2>1, <2>2 DEF Disk, Place, ConfigPath, HookPath
<1>4. CASE p.do = "adapt"
  BY <1>4 DEF touches, effect, Disk, Place, ConfigPath, HookPath
<1>5. CASE p.do = "same"
  BY <1>5 DEF effect
<1> QED BY <1>1, <1>2, <1>3, <1>4, <1>5

\* After a write that is no save.
LEMMA WriteCanRollBack ==
    ASSUME Fits, CanRollBack, proc.phase = "change", proc.todo # <<>>, next.do # "save",
           mine' = mine, proc'.job = proc.job, proc'.phase = "change", proc'.todo = Tail(proc.todo),
           touches(next) \subseteq Place => \A q \in Place \ touches(next) : disk'[q] = disk[q]
    PROVE  CanRollBack'
<1> SUFFICES ASSUME proc.job = "step", mine.pristine
             PROVE  CanRollBack'
  BY DEF CanRollBack
<1> PICK s : s = proc.todo
  OBVIOUS
<1> PICK w : w = next
  OBVIOUS
<1>1. Todo(s, "step") /\ s # <<>> /\ w = Head(s)
  BY DEF Fits, Shaped, ProcFits, next
<1>2. /\ SavedAsBefore(mine) /\ Prepared(s, mayDiffer(mine))
      /\ \A q \in Place : disk[q] = mine.before[q] \/ q \in mayDiffer(mine)
  BY DEF CanRollBack
<1>3. /\ touches(w) \subseteq Place \cap mayDiffer(mine) /\ Prepared(Tail(s), mayDiffer(mine))
      /\ Tail(s) # <<>> => Head(Tail(s)).do # "save"
  BY <1>1, <1>2, TailPrepared
<1>4. \A q \in Place : disk'[q] = mine.before[q] \/ q \in mayDiffer(mine)
  BY <1>2, <1>3
<1>5. proc'.todo # <<>> => next'.do # "save"
  BY <1>3 DEF next
<1> QED BY <1>2, <1>3, <1>4, <1>5 DEF CanRollBack

\* A save adds to what a rollback puts back.
LEMMA SaveCanRollBack ==
    ASSUME Fits, CanRollBack, Save
    PROVE  CanRollBack'
<1> PICK s : s = proc.todo
  OBVIOUS
<1> PICK m : m = mine
  OBVIOUS
<1> PICK p : p = next.path
  OBVIOUS
<1> PICK b : b = saved(m, disk, p)
  OBVIOUS
<1>1. /\ Todo(s, proc.job) /\ s # <<>> /\ proc.phase = "change" /\ Head(s).do = "save" /\ p = Head(s).path
      /\ next.do = "save" /\ disk' = disk
  BY DEF Save, next, Fits, Shaped, ProcFits
<1>2. /\ m \in BackupSet /\ p \in Path /\ mine' = b
      /\ proc'.job = proc.job /\ proc'.phase = "change" /\ proc'.todo = Tail(s)
  BY SaveDoes
<1>3. b \in BackupSet /\ b.before = m.before /\ b.pristine = m.pristine /\ b.linked = m.linked
  BY <1>2, SavedIs DEF saved, BackupSet, Fits, Shaped
<1> SUFFICES ASSUME proc.job = "step", m.pristine
             PROVE  CanRollBack'
  BY <1>2, <1>3 DEF CanRollBack
<1>4. SavedAsBefore(m) /\ Prepared(s, mayDiffer(m)) /\ disk = m.before
  BY <1>1 DEF CanRollBack
<1>5. p \in Place /\ Prepared(Tail(s), mayDiffer(m) \cup {p})
  BY <1>1, <1>4, TailPrepared
<1>6. /\ DOMAIN b.items = DOMAIN m.items \cup {Len(m.items) + 1}
      /\ \A j \in DOMAIN m.items : b.items[j] = m.items[j]
      /\ b.items[Len(m.items) + 1] = [path |-> p, was |-> at(disk, p)]
  <2> PICK x \in Seq(Item) : x = m.items
    BY <1>2 DEF BackupSet
  <2> PICK n \in Nat : n = Len(x)
    BY LenProperties
  <2>1. item(disk, p) \in Item
    BY <1>2, AtPaths DEF Fits, Shaped
  <2> DEFINE y == Append(x, item(disk, p))
  <2>2. /\ y \in Seq(Item) /\ Len(y) = n + 1 /\ y[n + 1] = item(disk, p)
        /\ \A j \in 1..n : y[j] = x[j]
    BY <2>1, AppendProperties
  <2>3. DOMAIN x = 1..n /\ DOMAIN y = 1..(n + 1)
    BY <2>2, LenProperties
  <2>4. b.items = y
    BY <1>2 DEF saved, BackupSet
  <2> HIDE DEF y
  <2>5. 1..(n + 1) = 1..n \cup {n + 1}
    OBVIOUS
  <2> QED BY <2>2, <2>3, <2>4, <2>5 DEF item
<1>7. mayDiffer(b) = mayDiffer(m) \cup {p}
  BY <1>3, <1>6 DEF mayDiffer, aside, savedIn
<1>8. SavedAsBefore(b)
  <2>1. at(disk, p) = m.before[p]
    BY <1>4, <1>5 DEF at, place, Place, FilePath, ConfigPath, HookPath
  <2> QED BY <1>3, <1>4, <1>5, <1>6, <2>1 DEF SavedAsBefore
<1> QED BY <1>1, <1>2, <1>3, <1>4, <1>5, <1>7, <1>8 DEF CanRollBack

\* A write fails, and the rollback begins.
LEMMA FailsCanRollBack ==
    ASSUME Fits, CanRollBack, Fails, proc.job = "step"
    PROVE  CanRollBack'
<1> PICK n : n = Len(mine.items)
  OBVIOUS
<1>1. /\ proc.phase = "change" /\ proc' = [proc EXCEPT !.phase = "rollback", !.todo = <<>>, !.left = n]
      /\ disk' = disk /\ backups' = backups /\ lastID' = lastID /\ proc \in Proc
  BY DEF Fails, afterFailure, Fits, Shaped, ProcFits
<1>2. proc'.job = "step" /\ proc'.phase = "rollback" /\ proc'.left = n /\ proc'.id = proc.id
  BY <1>1 DEF Proc
<1>3. mine' = mine
  BY <1>1, <1>2, MineStays DEF Fits
<1>4. DOMAIN mine.items = 1..n
  BY <1>1, MineIs, LenProperties DEF Fits, BackupSet
<1> SUFFICES ASSUME mine.pristine
             PROVE  CanRollBack'
  BY <1>3 DEF CanRollBack
<1>5. SavedAsBefore(mine) /\ \A q \in Place : disk[q] = mine.before[q] \/ q \in mayDiffer(mine)
  BY <1>1 DEF CanRollBack
<1>6. \A q \in Place \ aside(mine) : disk[q] = mine.before[q] \/ \E j \in 1..n : mine.items[j].path = q
  BY <1>4, <1>5 DEF savedIn, mayDiffer
<1> QED BY <1>1, <1>2, <1>3, <1>5, <1>6 DEF CanRollBack

\* One more place is as before.
LEMMA RestoreCanRollBack ==
    ASSUME Fits, CanRollBack, Restore, proc.job = "step"
    PROVE  CanRollBack'
<1> PICK n : n = proc.left
  OBVIOUS
<1>1. /\ proc.phase = "rollback" /\ proc \in Proc /\ n \in Nat /\ n > 0 /\ n <= Len(mine.items)
      /\ proc' = [proc EXCEPT !.left = n - 1] /\ backups' = backups /\ lastID' = lastID
  BY DEF Restore, Fits, Shaped, ProcFits, Proc
<1>2. proc'.job = "step" /\ proc'.phase = "rollback" /\ proc'.left = n - 1 /\ proc'.id = proc.id
  BY <1>1 DEF Proc
<1>3. mine' = mine
  BY <1>1, <1>2, MineStays DEF Fits
<1> SUFFICES ASSUME mine.pristine
             PROVE  CanRollBack'
  BY <1>3 DEF CanRollBack
<1>4. /\ SavedAsBefore(mine)
      /\ \A q \in Place \ aside(mine) : disk[q] = mine.before[q] \/ \E j \in 1..n : mine.items[j].path = q
  BY <1>1 DEF CanRollBack
<1> PICK x : x = mine.items[n]
  OBVIOUS
<1>5. n \in DOMAIN mine.items
  <2> PICK m \in Nat : m = Len(mine.items) /\ DOMAIN mine.items = 1..m
    BY <1>1, MineIs, LenProperties DEF Fits, BackupSet
  <2> QED BY <1>1
<1>6. x.path \in Place /\ x.was = mine.before[x.path]
  BY <1>4, <1>5 DEF SavedAsBefore
<1> PICK p \in Place : p = x.path
  BY <1>6
<1>7. disk' = [disk EXCEPT ![p] = mine.before[p]]
  <2>1. place(disk, p) = p /\ p \notin FilePath
    BY DEF place, Place, FilePath, ConfigPath, HookPath
  <2>2. disk' = restored(disk, x)
    BY DEF Restore, nextItem
  <2> QED BY <1>6, <2>1, <2>2 DEF restored, put
<1>8. ASSUME NEW q \in Place \ aside(mine)
      PROVE  disk'[q] = mine.before[q] \/ \E j \in 1..(n - 1) : mine.items[j].path = q
  <2>1. CASE q = p
    BY <1>7, <2>1 DEF Fits, Shaped, Disk, Place, ConfigPath, HookPath
  <2>2. CASE q # p
    <3>1. disk'[q] = disk[q]
      BY <1>7, <2>2 DEF Fits, Shaped, Disk, Place, ConfigPath, HookPath
    <3>2. ASSUME NEW j \in 1..n, mine.items[j].path = q
          PROVE  j \in 1..(n - 1)
      BY <1>1, <2>2, <3>2
    <3> QED BY <1>4, <3>1, <3>2
  <2> QED BY <2>1, <2>2
<1> QED BY <1>2, <1>3, <1>4, <1>8 DEF CanRollBack

\* Nothing that it needs changes.
LEMMA UndisturbedRollBack ==
    ASSUME Fits, CanRollBack, UNCHANGED <<disk, backups, lastID, proc>>
    PROVE  CanRollBack'
<1>1. CASE proc.phase = "idle"
  BY <1>1 DEF Fits, Shaped, ProcFits, CanRollBack
<1>2. CASE proc.phase # "idle"
  <2>1. mine' = mine
    BY <1>2, MineStays DEF Fits
  <2> QED BY <2>1 DEF CanRollBack, next
<1> QED BY <1>1, <1>2

\* A step that is not to be rolled back needs nothing.
LEMMA NoStep ==
    ASSUME proc'.job # "step"
    PROVE  CanRollBack'
BY DEF CanRollBack

\* Every step keeps that a failed step can be rolled back.
LEMMA NextCanRollBack == Fits /\ CanRollBack /\ [Next]_vars => CanRollBack'
<1> SUFFICES ASSUME Fits, CanRollBack, [Next]_vars PROVE CanRollBack'
  OBVIOUS
<1>0. NoProc.job # "step"
  BY DEF NoProc
<1>1. ASSUME NEW kind \in Kind, NEW tool \in {"claude", "codex"}, NEW same \in BOOLEAN,
             AskShare(kind, tool, same)
      PROVE  CanRollBack'
  BY <1>1, UndisturbedRollBack DEF AskShare
<1>2. ASSUME NEW kind \in Kind, NEW tool \in {"claude", "codex"}, AskUnshare(kind, tool)
      PROVE  CanRollBack'
  BY <1>2, UndisturbedRollBack DEF AskUnshare
<1>3. ASSUME NEW id \in 1..lastID, AskUndo(id)
      PROVE  CanRollBack'
  BY <1>3, UndisturbedRollBack DEF AskUndo
<1>4. ASSUME NEW kind \in Kind, NEW decision \in Decision, Mark(kind, decision)
      PROVE  CanRollBack'
  BY <1>4, NoStep DEF Mark, Fits, Shaped, ProcFits
<1>22. ASSUME NEW kind \in Kind, NEW decision \in {"claude-only", "codex-only"}, Never(kind, decision)
      PROVE  CanRollBack'
  BY <1>22, NoStep DEF Never
<1>5. CASE StartShare
  <2> PICK kind \in Kind : kind = intent.kind
    BY <1>5 DEF StartShare, Fits, Shaped, Remembered
  <2> PICK tool \in {"claude", "codex"} : tool = intent.tool
    BY <1>5 DEF StartShare, Fits, Shaped, Remembered
  <2> PICK change : change = IF kind = "skill" THEN shareSkill(disk, tool) ELSE shareMCP(disk, tool)
    OBVIOUS
  <2> PICK todo : todo = step(paths(intent.seen, kind, tool), change)
    OBVIOUS
  <2>1. Todo(change, "step") /\ (kind = "mcp" => Spares(change))
    BY ChangesFit
  <2>2. Todo(todo, "step") /\ \A q \in {"claude", "agents"} : SavedFirst(todo, q) \/ Spares(todo)
    BY <2>1, StepTodo
  <2>3. Prepared(todo, IF configLinked("step") THEN {"codexConfig", "codexTarget"} ELSE {})
    BY ChangesPrepared DEF configLinked
  <2>4. Start("step", todo) /\ disk' = disk /\ intent'.do \in {"share", "unshare"}
    BY <1>5 DEF StartShare
  <2>5. mine' = newBackup(lastID + 1, disk, apart, configLinked("step")) /\ proc'.phase = "change" /\ proc'.todo = todo
    BY <2>2, <2>4, StartFits
  <2> QED BY <2>2, <2>3, <2>4, <2>5, StartCanRollBack
<1>6. CASE StartUnshare
  <2> PICK kind \in Kind : kind = intent.kind
    BY <1>6 DEF StartUnshare, Fits, Shaped, Remembered
  <2> PICK tool \in {"claude", "codex"} : tool = intent.tool
    BY <1>6 DEF StartUnshare, Fits, Shaped, Remembered
  <2> PICK change : change = IF kind = "skill" THEN unshareSkill(tool) ELSE unshareMCP(tool)
    OBVIOUS
  <2> PICK todo : todo = step(paths(intent.seen, kind, other(tool)), change)
    OBVIOUS
  <2>1. Todo(change, "step") /\ (kind = "mcp" => Spares(change)) /\ other(tool) \in {"claude", "codex"}
    BY ChangesFit DEF other
  <2>2. Todo(todo, "step") /\ \A q \in {"claude", "agents"} : SavedFirst(todo, q) \/ Spares(todo)
    BY <2>1, StepTodo
  <2>3. Prepared(todo, IF configLinked("step") THEN {"codexConfig", "codexTarget"} ELSE {})
    BY ChangesPrepared DEF configLinked
  <2>4. Start("step", todo) /\ disk' = disk /\ intent'.do \in {"share", "unshare"}
    BY <1>6 DEF StartUnshare
  <2>5. mine' = newBackup(lastID + 1, disk, apart, configLinked("step")) /\ proc'.phase = "change" /\ proc'.todo = todo
    BY <2>2, <2>4, StartFits
  <2> QED BY <2>2, <2>3, <2>4, <2>5, StartCanRollBack
<1>7. CASE StartUndo
  <2>1. proc'.job # "step"
    BY <1>7 DEF StartUndo
  <2> QED BY <2>1, NoStep
<1>8. ASSUME NEW v \in {Absent, Present}, StartHooks(v)
      PROVE  CanRollBack'
  <2>1. proc'.job # "step"
    BY <1>8 DEF StartHooks, Start
  <2> QED BY <2>1, NoStep
<1>9. ASSUME NEW plan \in SyncPlans, StartSync(plan)
      PROVE  CanRollBack'
  <2>1. proc'.job # "step"
    BY <1>9 DEF StartSync, Start
  <2> QED BY <2>1, NoStep
<1>10. CASE Save
  BY <1>10, SaveCanRollBack
<1>11. CASE Write
  <2>1. /\ proc.phase = "change" /\ proc.todo # <<>> /\ next.do # "save" /\ disk' = effect(disk, next)
        /\ disk \in Disk /\ Todo(proc.todo, proc.job)
    BY <1>11 DEF Write, Fits, Shaped, ProcFits
  <2>2. next \in Op /\ OpFits(next) /\ next.do # "decide"
    BY <1>11, <2>1, TailWrites DEF Write, next
  <2>3. mine' = mine /\ proc'.job = proc.job /\ proc'.phase = "change" /\ proc'.todo = Tail(proc.todo)
    BY <1>11, GoesOn DEF Write
  <2>4. CASE proc.job = "step" /\ mine.pristine
    <3>1. Prepared(proc.todo, mayDiffer(mine))
      BY <2>1, <2>4 DEF CanRollBack
    <3>2. next.do \in {"write", "add", "link", "move", "same", "adapt"}
      BY <2>1, <2>2, <3>1, TailPrepared DEF next
    <3>3. touches(next) \subseteq Place => \A q \in Place \ touches(next) : disk'[q] = disk[q]
      BY <2>1, <2>2, <3>2, TouchesOnly
    <3> QED BY <2>1, <2>3, <3>3, WriteCanRollBack
  <2>5. CASE ~(proc.job = "step" /\ mine.pristine)
    BY <2>3, <2>5 DEF CanRollBack
  <2> QED BY <2>4, <2>5
<1>12. CASE Decide
  <2>1. proc.phase = "change" /\ proc.todo # <<>> /\ next.do = "decide" /\ disk \in Disk
    BY <1>12 DEF Decide, Fits, Shaped
  <2>2. mine' = mine /\ proc'.job = proc.job /\ proc'.phase = "change" /\ proc'.todo = Tail(proc.todo)
    BY <1>12, GoesOn DEF Decide
  <2>3. touches(next) = {"registry"}
    BY <2>1 DEF touches
  <2>4. \A q \in Place \ {"registry"} : disk'[q] = disk[q]
    BY <1>12, <2>1 DEF Decide, Disk, Place, ConfigPath, HookPath
  <2> QED BY <2>1, <2>2, <2>3, <2>4, WriteCanRollBack
<1>13. CASE Fails
  <2>1. CASE proc.job = "step"
    BY <1>13, <2>1, FailsCanRollBack
  <2>2. CASE proc.job # "step"
    <3>1. proc'.job = proc.job
      BY <1>13, <2>2 DEF Fails, afterFailure, Fits, Shaped, ProcFits, Proc
    <3> QED BY <2>2, <3>1, NoStep
  <2> QED BY <2>1, <2>2
<1>14. CASE Finish
  BY <1>0, <1>14, NoStep DEF Finish
<1>15. CASE Restore
  <2>1. CASE proc.job = "step"
    BY <1>15, <2>1, RestoreCanRollBack
  <2>2. CASE proc.job # "step"
    <3>1. proc'.job = proc.job
      BY <1>15 DEF Restore, Fits, Shaped, ProcFits, Proc
    <3> QED BY <2>2, <3>1, NoStep
  <2> QED BY <2>1, <2>2
<1>16. CASE RestoreFails
  BY <1>0, <1>16, NoStep DEF RestoreFails
<1>17. CASE RolledBack
  BY <1>0, <1>17, NoStep DEF RolledBack
<1>18. CASE Undone
  BY <1>0, <1>18, NoStep DEF Undone
<1>19. ASSUME NEW p \in FilePath, NEW c \in Content, UserEdit(p, c)
       PROVE  CanRollBack'
  <2>1. CASE proc.phase = "idle"
    <3>1. proc'.job # "step"
      BY <1>19, <2>1 DEF UserEdit, Fits, Shaped, ProcFits
    <3> QED BY <3>1, NoStep
  <2>2. CASE proc.phase # "idle"
    BY <1>19, <2>2, UserEditFits DEF CanRollBack
  <2> QED BY <2>1, <2>2
<1>20. CASE Crash
  BY <1>0, <1>20, NoStep DEF Crash
<1>21. CASE UNCHANGED vars
  <2>1. UNCHANGED <<disk, backups, lastID, proc>>
    BY <1>21 DEF vars
  <2> QED BY <2>1, UndisturbedRollBack
<1> QED BY <1>1, <1>2, <1>3, <1>4, <1>5, <1>6, <1>7, <1>8, <1>9, <1>10, <1>11, <1>12, <1>13,
           <1>14, <1>15, <1>16, <1>17, <1>18, <1>19, <1>20, <1>21, <1>22 DEF Next

\* A step that fails, while nothing else touches the disk, leaves it as it was, and no
\* backup of a change that did not happen (promote.step, Backup.Rollback).
THEOREM FailedStepsLeaveNoTrace == Spec => FailedStepLeavesNoTrace
<1>1. ASSUME Fits, CanRollBack, RolledBack, mine.pristine
      PROVE  /\ asBefore(disk', mine)
             /\ \A i \in DOMAIN backups' : backups'[i].id # proc.id
  <2>1. proc.job = "step" /\ proc.phase = "rollback" /\ proc.left = 0 /\ disk' = disk
    BY <1>1 DEF RolledBack, Fits, Shaped, ProcFits
  <2>2. \A q \in Place \ aside(mine) : disk[q] = mine.before[q]
    <3>1. \A j \in 1..0 : FALSE
      OBVIOUS
    <3> QED BY <1>1, <2>1, <3>1 DEF CanRollBack
  <2>3. asBefore(disk', mine)
    <3>1. DOMAIN disk = Place
      BY <1>1 DEF Fits, Shaped, Disk, Place, ConfigPath, HookPath
    <3> QED BY <2>1, <2>2, <3>1 DEF asBefore, places
  <2>4. \A i \in DOMAIN backups' : backups'[i].id # proc.id
    <3> PICK k : k = index(proc.id)
      OBVIOUS
    <3> PICK bs : bs = RemoveAt(backups, k)
      OBVIOUS
    <3>1. k \in DOMAIN backups /\ backups[k].id = proc.id /\ Sets(backups, lastID) /\ backups' = bs
      BY <1>1, <2>1, MineIs DEF RolledBack, Fits, Shaped
    <3>2. ASSUME NEW i \in DOMAIN bs
          PROVE  \E j \in DOMAIN backups : j # k /\ bs[i] = backups[j]
      <4>1. backups \in Seq(BackupSet) /\ Len(backups) \in Nat /\ DOMAIN backups = 1..Len(backups)
        BY <3>1, LenProperties DEF Sets
      <4>2. bs \in Seq(BackupSet) /\ Len(bs) = Len(backups) - 1 /\ bs[i] = IF i < k THEN backups[i] ELSE backups[i + 1]
        BY <3>1, <4>1, RemoveKeeps
      <4>3. i \in 1..(Len(backups) - 1)
        BY <4>2, LenProperties
      <4>4. CASE i < k
        BY <3>1, <4>1, <4>2, <4>3, <4>4
      <4>5. CASE ~(i < k)
        <5>1. i + 1 \in DOMAIN backups /\ i + 1 # k
          BY <3>1, <4>1, <4>3, <4>5
        <5> QED BY <4>2, <4>5, <5>1
      <4> QED BY <4>4, <4>5
    <3>3. \A j \in DOMAIN backups : j # k => backups[j].id # proc.id
      BY <3>1, IdsDiffer
    <3> QED BY <3>1, <3>2, <3>3
  <2> QED BY <2>1, <2>3, <2>4
<1>2. Init => Fits /\ CanRollBack
  <2>1. Init => CanRollBack
    BY DEF Init, NoProc, CanRollBack
  <2> QED BY <2>1, InitFits
<1>3. (Fits /\ CanRollBack) /\ [Next]_vars => (Fits /\ CanRollBack)'
  BY NextFits, NextCanRollBack
<1>4. Spec => [](Fits /\ CanRollBack)
  BY <1>2, <1>3, PTL DEF Spec
<1>5. Fits /\ CanRollBack /\ [Next]_vars
        => [RolledBack /\ mine.pristine =>
              /\ asBefore(disk', mine)
              /\ \A i \in DOMAIN backups' : backups'[i].id # proc.id]_vars
  BY <1>1
<1> QED BY <1>4, <1>5, PTL DEF Spec, FailedStepLeavesNoTrace
=============================================================================
