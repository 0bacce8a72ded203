-------------------------------- MODULE Undo --------------------------------
(***************************************************************************)
(* Changes of one machine's disk that undo takes back: sharing and         *)
(* unsharing a skill or an MCP server with its decision (internal/promote, *)
(* internal/registry), the hooks of automatic sync (cmd/codeagent-sync/    *)
(* auto.go), and what a sync writes (internal/engine/apply.go).            *)
(*                                                                         *)
(* Every change holds sync.lock (proc) and is carried out one write at a   *)
(* time: a process can be killed between any two of them, and the user     *)
(* edits files at any time.  What a command looks at before it waits for   *)
(* the lock (what to share, whether a skill is shared, which backup to     *)
(* undo) is its intent: other processes run before it gets the lock.       *)
(*                                                                         *)
(* Left out: the decision that a sync's plan is based on (Engine), the     *)
(* judgement whether a skill fits the other tool, managed copies.          *)
(***************************************************************************)
EXTENDS Backup, SequencesExt

CONSTANTS
    Starts,         \* how things can begin: the skill's directories and the server's files
    Adapt,          \* what carrying a skill's settings over to Codex makes of its content
    SyncPlans,      \* what a sync may have to write: sequences of [path, val]
    keepBackups,    \* how many backups are kept (20)
    MaxChanges,     \* bound: the changes made
    MaxTroubles     \* bound: edits, marks, failures and kills together

\* What a sync can write at a path.
Written == [path : {"claude"}, val : {Absent, Link}]
             \cup [path : FilePath, val : Content \cup {Absent}]
             \cup [path : {"codexConfig", "claudeJSON"} \cup HookPath, val : {Absent, Present}]

ASSUME UndoAssumption ==
    /\ Starts \subseteq [claude : Content, agents : Content \cup {Absent},
                        codexConfig : {Absent, Link}, claudeJSON : {Absent, Present}]
    /\ Adapt \in [Content -> Content]
    /\ SyncPlans \subseteq Seq(Written)
    /\ keepBackups \in Nat \ {0}
    /\ {MaxChanges, MaxTroubles} \subseteq Nat

VARIABLES
    disk,       \* the places of the skill, the server and the hooks
    backups,    \* the directories under backups/, oldest first
    lastID,     \* the newest backup ID given out
    journal,    \* the backup ID in the journal, or 0
    memory,     \* decisions a command has set and not saved yet
    intent,     \* what a command wants to do and waits for the lock with
    proc,       \* the process that holds sync.lock
    apart,      \* history: what a crash, a sync or the user has left out of step with its decision
    troubles    \* history: how many troubles there were

vars == <<disk, backups, lastID, journal, memory, intent, proc, apart, troubles>>

NoIntent == [do |-> "none"]
NoProc == [job |-> "none", phase |-> "idle", todo |-> <<>>, left |-> 0, id |-> 0]
Unset == [k \in Kind |-> "unset"]
Op == [do : {"save", "write", "unlink", "link", "replace", "move", "same", "adapt", "add", "decide"},
       path : Path, val : Content \cup Path \cup {Absent, Link, Present}]

TypeOK ==
    /\ disk \in Disk
    /\ \A i \in DOMAIN backups :
          /\ backups[i].id \in 1..lastID
          /\ backups[i].manifest \in BOOLEAN /\ backups[i].undone \in BOOLEAN
          /\ \A j \in DOMAIN backups[i].items : backups[i].items[j].path \in Path
    /\ \A i, j \in DOMAIN backups : i < j => backups[i].id < backups[j].id
    /\ lastID \in Nat /\ journal \in 0..lastID
    /\ memory \in [Kind -> Decision \cup {"unset"}]
    /\ intent.do \in {"none", "share", "unshare", "undo"}
    /\ proc.job \in {"none", "step", "sync", "hooks", "undo"}
    /\ proc.phase \in {"idle", "change", "rollback", "restore"}
    /\ proc.todo \in Seq(Op) /\ proc.left \in Nat
    /\ proc.phase # "idle" => \E i \in DOMAIN backups : backups[i].id = proc.id
    /\ apart \subseteq Kind
    /\ troubles \in 0..MaxTroubles

Init ==
    /\ \E start \in Starts :
          disk = [claude |-> start.claude, agents |-> start.agents, registry |-> [k \in Kind |-> "none"],
                  codexConfig |-> start.codexConfig, codexTarget |-> Absent, claudeJSON |-> start.claudeJSON,
                  settings |-> Absent, hooksJSON |-> Absent]
    /\ backups = <<>> /\ lastID = 0 /\ journal = 0
    /\ memory = Unset /\ intent = NoIntent /\ proc = NoProc
    /\ apart = {}
    /\ troubles = 0

\* One more edit, mark, failure or kill.
Trouble ==
    /\ troubles < MaxTroubles
    /\ troubles' = troubles + 1

-----------------------------------------------------------------------------
(* The single writes of a change *)

Do(do, path, val) == [do |-> do, path |-> path, val |-> val]

\* Whether a write can succeed, by what is on the disk.
can(d, o) ==
    CASE o.do = "save"  -> o.path \in FilePath => at(d, o.path) # Link /\ place(d, o.path) = place([d EXCEPT !.claude = Absent], o.path)
      [] o.do = "unlink" -> d.claude \in {Absent, Link}
      [] o.do = "link"  -> d.claude \notin Content
      [] o.do = "move"  -> at(d, o.path) # Absent /\ at(d, o.val) = Absent
      [] o.do = "same"  -> d.claude \in Dir /\ d.claude = d.agents
      [] o.do = "add"   -> d[o.val] = Present
      [] OTHER          -> TRUE

\* What it makes of the disk.
effect(d, o) ==
    CASE o.do \in {"write", "unlink"} -> put(d, o.path, o.val)
      [] o.do \in {"link", "replace"} -> [d EXCEPT !.claude = Link]
      [] o.do = "move"               -> put(put(d, o.val, at(d, o.path)), o.path, Absent)
      [] o.do = "adapt"              -> IF d.agents \in Content THEN [d EXCEPT !.agents = Adapt[@]] ELSE d
      [] o.do = "add"                -> put(d, o.path, Present)
      [] OTHER                       -> d

saves(paths) == [i \in DOMAIN paths |-> Do("save", paths[i], Absent)]

\* shareSkill: what makes the skill one directory that both tools read.
shareSkill(d, to) ==
    (CASE to = "claude"         -> <<>>
       [] d.agents \in Dir      -> <<Do("same", "claude", Absent), Do("write", "claude", Absent), Do("adapt", "agents", Absent)>>
       [] OTHER                 -> <<Do("move", "claude", "agents"), Do("adapt", "agents", Absent)>>)
    \o <<Do("link", "claude", Absent)>>

\* unshareSkill, and where it goes.
unshareSkill(keep) ==
    <<Do("write", "claude", Absent)>> \o (IF keep = "claude" THEN <<Do("move", "agents", "claude")>> ELSE <<>>)

\* The file a tool keeps its MCP servers in: a linked config.toml leads to it.
serverFile(d, tool) ==
    IF tool = "claude" THEN "claudeJSON" ELSE IF d.codexConfig = Link THEN "codexTarget" ELSE "codexConfig"
other(tool) == IF tool = "codex" THEN "claude" ELSE "codex"

shareMCP(d, to) == <<Do("add", serverFile(d, to), serverFile(d, other(to)))>>

\* Codex's config.toml is written where it is: a link gives way to a file.
unshareMCP(keep) == <<Do("write", IF keep = "claude" THEN "codexConfig" ELSE "claudeJSON", Absent)>>

\* A bug: the registry is not part of the backup.
stepWithoutRegistry(paths, change) == saves(paths) \o change \o <<Do("decide", "registry", Absent)>>
\* step: everything is saved first, the registry too; then the change, then
\* the decision.
step(paths, change) == saves(Append(paths, "registry")) \o change \o <<Do("decide", "registry", Absent)>>

\* A bug: unsharing saves only the link.
pathsOnlyClaude(d, kind, tool) == IF kind = "skill" THEN <<"claude">> ELSE <<serverFile(d, tool)>>
\* Where a linked config.toml leads is saved, by what the command saw.
paths(d, kind, tool) == IF kind = "skill" THEN <<"claude", "agents">> ELSE <<serverFile(d, tool)>>

\* applyLocal: a link is removed as one; it replaces a directory only when that held
\* the same files as the link's target (absorbOldCopies).
syncWrite(d, to) ==
    IF to.path = "claude"
    THEN Do(IF to.val = Absent THEN "unlink"
            ELSE IF d.claude \in Content /\ d.claude = d.agents THEN "replace" ELSE "link", "claude", Absent)
    ELSE Do("write", to.path, to.val)

\* A bug: a sync saves a path after it has written it.
syncSavesLate(d, plan) ==
    [i \in 1..(2 * Len(plan)) |->
        LET to == plan[(i + 1) \div 2] IN
        IF i % 2 = 0 THEN Do("save", to.path, Absent) ELSE syncWrite(d, to)]
\* apply: every path is saved just before it is written.
syncSteps(d, plan) ==
    [i \in 1..(2 * Len(plan)) |->
        LET to == plan[(i + 1) \div 2] IN
        IF i % 2 = 1 THEN Do("save", to.path, Absent) ELSE syncWrite(d, to)]

\* editHooks: the hook files that change, Claude Code's first.
hookSteps(d, v) ==
    LET edit(p) == IF d[p] = v THEN <<>> ELSE <<Do("save", p, Absent), Do("write", p, v)>>
    IN edit("settings") \o edit("hooksJSON")

-----------------------------------------------------------------------------
(* Backups *)

index(id) == CHOOSE i \in DOMAIN backups : backups[i].id = id
mine == backups[index(proc.id)]

\* History: something other than the change with this backup touches the disk.
touchedBy(id, bs) ==
    [i \in DOMAIN bs |-> IF bs[i].id = id THEN bs[i] ELSE [bs[i] EXCEPT !.pristine = FALSE]]

UpdateMine(b) == backups' = [backups EXCEPT ![index(proc.id)] = b]

\* History: a step edits a config.toml that is a link, or was when it was asked for.
configLinked(job) ==
    job = "step" /\ intent.kind = "mcp" /\ Link \in {disk.codexConfig, intent.seen.codexConfig}

\* A bug: a second backup in one second gets the directory of the first.
StartInSameDirectory(job, todo) ==
    /\ proc.job = "none"
    /\ lastID < MaxChanges
    /\ lastID' = 1
    /\ backups' = Append(touchedBy(0, backups), newBackup(1, disk, apart, configLinked(job)))
    /\ proc' = [job |-> job, phase |-> "change", todo |-> todo, left |-> 0, id |-> 1]

\* A process takes the lock, starts its backup and has todo before it.
Start(job, todo) ==
    /\ proc.job = "none"
    /\ lastID < MaxChanges
    /\ lastID' = lastID + 1
    /\ backups' = Append(touchedBy(0, backups), newBackup(lastID + 1, disk, apart, configLinked(job)))
    /\ proc' = [job |-> job, phase |-> "change", todo |-> todo, left |-> 0, id |-> lastID + 1]

-----------------------------------------------------------------------------
(* Commands, before they wait for the lock *)

\* scan and share: what only one tool has and nothing is decided about.
shareable(kind, to) ==
    /\ disk.registry[kind] = "none" /\ memory[kind] = "unset"
    /\ IF kind = "skill"
       THEN IF to = "codex" THEN disk.claude \in Dir /\ disk.agents \in {Absent, Link, disk.claude}
            ELSE disk.agents \in Dir /\ disk.claude = Absent
       ELSE disk[serverFile(disk, to)] = Absent /\ disk[serverFile(disk, other(to))] = Present

\* A command that offers several things keeps its decisions in memory; a new
\* command starts from the file.
AskShare(kind, to, sameCommand) ==
    /\ intent = NoIntent /\ lastID < MaxChanges
    /\ shareable(kind, to)
    /\ sameCommand => memory # Unset
    /\ intent' = [do |-> "share", kind |-> kind, tool |-> to, seen |-> disk]
    /\ memory' = IF sameCommand THEN memory ELSE Unset
    /\ UNCHANGED <<disk, backups, lastID, journal, proc, apart, troubles>>

AskUnshare(kind, keep) ==
    /\ intent = NoIntent /\ lastID < MaxChanges
    /\ kind = "skill" => disk.claude = Link
    /\ intent' = [do |-> "unshare", kind |-> kind, tool |-> keep, seen |-> disk]
    /\ memory' = Unset
    /\ UNCHANGED <<disk, backups, lastID, journal, proc, apart, troubles>>

\* pickBackup.
AskUndo(id) ==
    /\ intent = NoIntent
    /\ \E i \in DOMAIN backups : backups[i].id = id /\ backups[i].manifest /\ ~backups[i].undone
    /\ intent' = [do |-> "undo", id |-> id]
    /\ memory' = Unset
    /\ UNCHANGED <<disk, backups, lastID, journal, proc, apart, troubles>>

\* mark, and what a scan records: the decision alone, without a backup.  It is
\* another process than a command that waits.
Mark(kind, decision) ==
    /\ proc.job = "none"
    /\ Trouble
    /\ disk' = [disk EXCEPT !.registry[kind] = decision]
    /\ backups' = touchedBy(0, backups)
    /\ apart' = apart \cup {kind}
    /\ UNCHANGED <<lastID, journal, memory, intent, proc>>

\* Registry.Save: the file as it is now, with a command's decisions.
withDecisions(registry, decisions) ==
    [k \in Kind |-> IF decisions[k] = "unset" THEN registry[k] ELSE decisions[k]]

\* "Never" in an offer: saved with what the command could not save before.  Only such
\* a failure makes it possible, so it is not counted.
Never(kind, decision) ==
    /\ proc.job = "none" /\ intent = NoIntent
    /\ memory # Unset /\ memory[kind] = "unset"
    /\ disk' = [disk EXCEPT !.registry = withDecisions(@, [memory EXCEPT ![kind] = decision])]
    /\ backups' = touchedBy(0, backups)
    /\ apart' = apart \cup {kind} \cup {k \in Kind : memory[k] # "unset"}
    /\ memory' = Unset
    /\ UNCHANGED <<lastID, journal, intent, proc, troubles>>

-----------------------------------------------------------------------------
(* Taking the lock *)

StartShare ==
    /\ intent.do = "share"
    /\ Start("step", step(paths(intent.seen, intent.kind, intent.tool),
             IF intent.kind = "skill" THEN shareSkill(disk, intent.tool) ELSE shareMCP(disk, intent.tool)))
    /\ UNCHANGED <<disk, journal, memory, intent, apart, troubles>>

StartUnshare ==
    /\ intent.do = "unshare"
    /\ Start("step", step(paths(intent.seen, intent.kind, other(intent.tool)),
             IF intent.kind = "skill" THEN unshareSkill(intent.tool) ELSE unshareMCP(intent.tool)))
    /\ UNCHANGED <<disk, journal, memory, intent, apart, troubles>>

StartHooks(v) ==
    /\ hookSteps(disk, v) # <<>>
    /\ Start("hooks", hookSteps(disk, v))
    /\ UNCHANGED <<disk, journal, memory, intent, apart, troubles>>

\* A sync that changes the disk writes the journal.
StartSync(plan) ==
    /\ Start("sync", syncSteps(disk, plan))
    /\ journal' = lastID + 1
    /\ apart' = apart \cup (IF \E i \in DOMAIN plan : plan[i].path \in HookPath THEN {} ELSE Kind)
    /\ UNCHANGED <<disk, memory, intent, troubles>>

StartUndo ==
    /\ intent.do = "undo"
    /\ proc.job = "none"
    /\ intent' = NoIntent
    /\ IF \E i \in DOMAIN backups : backups[i].id = intent.id /\ ~backups[i].undone
       THEN /\ proc' = [job |-> "undo", phase |-> "restore", todo |-> <<>>, id |-> intent.id,
                        left |-> Len(backups[index(intent.id)].items)]
            /\ backups' = touchedBy(intent.id, backups)
       ELSE UNCHANGED <<proc, backups>>
    /\ UNCHANGED <<disk, lastID, journal, memory, apart, troubles>>

-----------------------------------------------------------------------------
(* Carrying a change out *)

next == Head(proc.todo)

Save ==
    /\ proc.phase = "change" /\ proc.todo # <<>>
    /\ next.do = "save" /\ can(disk, next)
    /\ UpdateMine(saved(mine, disk, next.path))
    /\ proc' = [proc EXCEPT !.todo = Tail(@)]
    /\ UNCHANGED <<disk, lastID, journal, memory, intent, apart, troubles>>

Write ==
    /\ proc.phase = "change" /\ proc.todo # <<>>
    /\ next.do \notin {"save", "decide"} /\ can(disk, next)
    /\ disk' = effect(disk, next)
    /\ proc' = [proc EXCEPT !.todo = Tail(@)]
    /\ UNCHANGED <<backups, lastID, journal, memory, intent, apart, troubles>>

\* What the step decides, together with what the command still remembers.
decided == [memory EXCEPT ![intent.kind] =
    IF intent.do = "share" THEN "shared" ELSE IF intent.tool = "codex" THEN "codex-only" ELSE "claude-only"]

\* Registry.Set and Save.
Decide ==
    /\ proc.phase = "change" /\ proc.todo # <<>>
    /\ next.do = "decide"
    /\ disk' = [disk EXCEPT !.registry = withDecisions(@, decided)]
    /\ memory' = Unset
    /\ LET others == (apart \ {intent.kind}) \cup {k \in Kind \ {intent.kind} : memory[k] # "unset"}
           asSeen == intent.seen = mine.before /\ mine.pristine
       IN apart' = IF asSeen THEN others ELSE others \cup {intent.kind}
    /\ proc' = [proc EXCEPT !.todo = Tail(@)]
    /\ UNCHANGED <<backups, lastID, journal, intent, troubles>>

\* The step after a write that failed: a step is rolled back, a sync notes a
\* problem and goes on with its next action, the hooks stop where they are.
afterFailure ==
    CASE proc.job = "step" -> [proc EXCEPT !.phase = "rollback", !.todo = <<>>, !.left = Len(mine.items)]
      [] proc.job = "sync" -> [proc EXCEPT !.todo = SubSeq(@, IF next.do = "save" THEN 3 ELSE 2, Len(@))]
      [] OTHER             -> [proc EXCEPT !.todo = <<>>]

\* A write fails, by what is on the disk or because the disk is full.
Fails ==
    /\ proc.phase = "change" /\ proc.todo # <<>>
    /\ IF can(disk, next) THEN Trouble ELSE UNCHANGED troubles
    /\ proc' = afterFailure
    /\ memory' = IF next.do = "decide" THEN decided ELSE memory
    /\ UNCHANGED <<disk, backups, lastID, journal, intent, apart>>

\* Close: the manifest makes the change one that undo knows; a sync also
\* removes the oldest backups and its journal.
Finish ==
    /\ proc.phase = "change" /\ proc.todo = <<>>
    /\ LET done == [backups EXCEPT ![index(proc.id)].manifest = TRUE]
       IN backups' = IF proc.job = "sync" THEN pruned(done, keepBackups) ELSE done
    /\ journal' = IF proc.job = "sync" THEN 0 ELSE journal
    /\ intent' = IF proc.job = "step" THEN NoIntent ELSE intent
    /\ proc' = NoProc
    /\ UNCHANGED <<disk, lastID, memory, apart, troubles>>

-----------------------------------------------------------------------------
(* Putting things back *)

Restore ==
    /\ proc.phase \in {"rollback", "restore"} /\ proc.left > 0
    /\ LET it == nextItem(mine, proc.left) IN
       /\ canRestore(disk, it)
       /\ disk' = restored(disk, it)
    /\ proc' = [proc EXCEPT !.left = @ - 1]
    /\ UNCHANGED <<backups, lastID, journal, memory, intent, apart, troubles>>

\* A path cannot be put back: the undo stops, to be tried again; a rollback
\* that stops writes the manifest, so that undo can do the rest.
RestoreFails ==
    /\ proc.phase \in {"rollback", "restore"} /\ proc.left > 0
    /\ IF canRestore(disk, nextItem(mine, proc.left)) THEN Trouble ELSE UNCHANGED troubles
    /\ UpdateMine([mine EXCEPT !.manifest = @ \/ proc.phase = "rollback", !.cut = TRUE])
    /\ apart' = Kind
    /\ intent' = IF proc.job = "step" THEN NoIntent ELSE intent
    /\ proc' = NoProc
    /\ UNCHANGED <<disk, lastID, journal, memory>>

\* History: what is out of step again once the change is taken back.
apartAgain == IF mine.pristine THEN mine.apartBefore \cup (IF mine.linked THEN {"mcp"} ELSE {}) ELSE Kind

\* Rollback drops the backup: there is nothing left to undo.
RolledBack ==
    /\ proc.phase = "rollback" /\ proc.left = 0
    /\ backups' = RemoveAt(backups, index(proc.id))
    /\ apart' = apartAgain
    /\ intent' = NoIntent
    /\ proc' = NoProc
    /\ UNCHANGED <<disk, lastID, journal, memory, troubles>>

Undone ==
    /\ proc.phase = "restore" /\ proc.left = 0
    /\ UpdateMine([mine EXCEPT !.undone = TRUE])
    /\ apart' = apartAgain
    /\ proc' = NoProc
    /\ UNCHANGED <<disk, lastID, journal, memory, intent, troubles>>

-----------------------------------------------------------------------------
(* The environment *)

\* The user changes a skill, where it is or through its link.
UserEdit(p, c) ==
    /\ at(disk, p) \in Content \ {c}
    /\ Trouble
    /\ disk' = put(disk, p, c)
    /\ backups' = touchedBy(0, backups)
    /\ UNCHANGED <<lastID, journal, memory, intent, proc, apart>>

\* The process that holds the lock is killed; a waiting command lives on only
\* if it is another one.
Crash ==
    /\ proc.job # "none"
    /\ Trouble
    /\ proc' = NoProc
    /\ apart' = Kind
    /\ memory' = IF proc.job = "step" THEN Unset ELSE memory
    /\ intent' = IF proc.job = "step" THEN NoIntent ELSE intent
    /\ IF proc.job = "undo" THEN UpdateMine([mine EXCEPT !.cut = TRUE]) ELSE UNCHANGED backups
    /\ UNCHANGED <<disk, lastID, journal>>

Next ==
    \/ \E kind \in Kind, tool \in {"claude", "codex"} :
          \/ \E same \in BOOLEAN : AskShare(kind, tool, same)
          \/ AskUnshare(kind, tool)
    \/ \E id \in 1..lastID : AskUndo(id)
    \/ \E kind \in Kind, decision \in Decision : Mark(kind, decision)
    \/ \E kind \in Kind, decision \in {"claude-only", "codex-only"} : Never(kind, decision)
    \/ StartShare \/ StartUnshare \/ StartUndo
    \/ \E v \in {Absent, Present} : StartHooks(v)
    \/ \E plan \in SyncPlans : StartSync(plan)
    \/ Save \/ Write \/ Decide \/ Fails \/ Finish
    \/ Restore \/ RestoreFails \/ RolledBack \/ Undone
    \/ \E p \in FilePath, c \in Content : UserEdit(p, c)
    \/ Crash

Spec == Init /\ [][Next]_vars

-----------------------------------------------------------------------------
(* Properties *)

\* A disk has the files it had when a change began, and everything else; a change to
\* a linked config.toml is exempt.
filesOf(v) == IF v = Empty THEN Absent ELSE v
aside(b) == IF b.linked THEN {"codexConfig", "codexTarget"} ELSE {}
places == DOMAIN disk
sameFiles(d, b) ==
    /\ \A q \in {"claude", "agents"} : filesOf(d[q]) = filesOf(b.before[q])
    /\ \A q \in places \ (aside(b) \cup {"claude", "agents"}) : d[q] = b.before[q]
asBefore(d, b) == \A q \in places \ aside(b) : d[q] = b.before[q]

\* Undoing a change, when nothing else has touched the disk since, gives back the
\* files there were before the change, the links and the decision; also when the
\* change failed half way, or an earlier attempt to undo it failed or was killed
\* in the middle, if the backup can be put back twice.  A directory that the change
\* made for a file may stay, without files; where the change edits a config.toml
\* that is a link, the backup is of another file than the change is to
\* (Engine.Undo, backupSet.restoreAll).
UndoRestores ==
    [][Undone /\ mine.pristine /\ (mine.cut => repeatable(mine)) => sameFiles(disk', mine)]_vars

\* A step that fails leaves nothing behind: the disk is as before, but for a linked
\* config.toml, and there is no backup of a change that did not happen
\* (promote.step, Backup.Rollback).
FailedStepLeavesNoTrace ==
    [][RolledBack /\ mine.pristine =>
        /\ asBefore(disk', mine)
        /\ \A i \in DOMAIN backups' : backups'[i].id # proc.id]_vars

\* While nobody else touches the disk, every content a skill had when the
\* change began is on the disk or in the backup, at every point where the
\* process could be killed (backupSet.save before every write).
NothingLost ==
    proc.phase = "change" /\ mine.pristine =>
        onDisk(mine.before) \subseteq onDisk(disk) \cup contentsOf(mine)

\* Between commands a decision says what the disk shows: "shared" is a
\* directory of Codex with a link in Claude's place, or a server in both files;
\* kept with one tool, the other does not have it.  What a crash, a sync, mark,
\* a failure to save the registry or a change made while the command waited for
\* the lock left apart is exempt until it is decided again or the change is
\* undone (promote.step, Registry.Save, Engine.Undo).
agrees(kind) ==
    CASE disk.registry[kind] = "shared"      -> IF kind = "skill" THEN disk.claude = Link /\ disk.agents \in Dir
                                                ELSE \A t \in {"claude", "codex"} : disk[serverFile(disk, t)] = Present
      [] disk.registry[kind] = "claude-only" -> IF kind = "skill" THEN disk.claude # Link /\ filesOf(disk.agents) = Absent
                                                ELSE disk[serverFile(disk, "codex")] = Absent
      [] disk.registry[kind] = "codex-only"  -> IF kind = "skill" THEN filesOf(disk.claude) = Absent
                                                ELSE disk.claudeJSON = Absent
      [] OTHER                               -> TRUE

DecisionsFit == proc.phase = "idle" => \A kind \in Kind \ apart : agrees(kind)

\* What the next sync tells the user after an interruption: the files it changed
\* are in the backup the journal names, and undo restores them.
InterruptedIsUndoable ==
    proc.phase = "idle" /\ journal # 0 =>
        \A i \in DOMAIN backups :
            backups[i].id = journal /\ backups[i].before # disk => backups[i].manifest
=============================================================================
