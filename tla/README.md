# A verification of codeagent-sync

codeagent-sync keeps the configuration of Claude Code and Codex the same on
several machines. Every machine runs the same program against one object store
(S3, R2, GCS or WebDAV); there is no server, and the machines never talk to each
other. What keeps them from destroying each other's work is a three-way decision
per path and conditional writes. This directory states what that is supposed to
guarantee, model-checks it, and proves the central part for any number of
machines and paths. Paths below are relative to the repository.

## The system: components, state, hazards

| Component | State it keeps | Operations | What makes it correct | Here |
|---|---|---|---|---|
| Sync engine, `internal/engine/{engine,plan,apply,state,resolve,conflicts}.go` | `state.json` (per path: ETag, kind, hash, execute bit; `settled`), `conflicts/` (versions set aside) | `Run` (lock, load, scan, list, fetch, decide, apply, upload, save; a second round after a lost race), `Resolve` | no version is overwritten unseen; the state never claims an agreement that is not there; nothing vanishes; the machines converge | `Decide`, `Engine`, `SharedEntries`, `OneSync` |
| Structured files, `internal/engine/structured.go`, `internal/structured` | `base/` (the last synced form), held item names | item-level merge, hold back, release, hide | changes of different items both survive; items a machine cannot use are not deleted elsewhere; the machines come to rest | `Structured` |
| Backups and undo, `internal/engine/{backup,journal}.go`, `cmd/.../undo.go` | `backups/<id>/` with a manifest, `journal` | save before write, close, rollback, undo, prune | undo restores what was there; a failed change leaves nothing behind | `Backup`, `Undo` |
| Sharing, `internal/promote`, `internal/registry`, `cmd/.../share.go` | the skill directories of both tools, links between them, `registry.yaml` | share, unshare, mark, scan | each change is one undoable step; decision and layout agree | `Undo` |
| Setup and keys, `cmd/.../{init,join,keys}.go`, `internal/crypto`, `internal/config` | `config.yaml`, the key file, `kdf.json` and `keycheck.age` in the bucket | init, join-code, init --join | one bucket has one key, whoever sets it up first, and stays joinable | `Setup` |
| Object store and backends, `internal/storage` | objects with ETags; WebDAV: a tree of collections, `madeDirs` | conditional `Put`, `Get`, `List`, `Probe` | a `Put` happens only under its condition; a backend that ignores conditions is noticed; a list misses nothing | `Engine`, `Setup`, `WebDAV` |
| Automatic sync, `cmd/.../{auto,notice}.go`, `internal/hooks` | hook entries of both tools, `notice.json`, `notified.json` | background sync, gather, queue and take notices, enable, disable | every lasting problem is told once, every one-shot event each time; decisions of the user stay | `Notices`, `Undo` |
| Locks and files, `internal/platform` | `sync.lock`, `notice.lock` | lock, try, unlock, atomic write | one run per machine; a lock dies with its process | in the steps of all modules |
| Managed copies, layout conflicts | copies standing in for links, their markers | refresh, absorb, cancel | an edit inside a copy is not lost | not modelled |
| Scanner, tools and rules, compatibility analysis, inventory, check, doctor, update, npm wrapper, printing | none that others depend on | pure analysis or I/O | what is on disk is what is compared | by what they give (see "Not modelled") |

Machines interact only through the store; runs of one machine exclude each other
by `sync.lock` (`engine.go:151`), but the user's editor, the store, the network,
the operating system and the hooks of other sessions do not wait for any lock.
The hard behaviours are therefore: a `Put` that loses a race, whose answer is
lost, that is repeated by the client library or arrives after the run is over; a
kill between any two of "file written", "object stored", "base saved", "state
saved", "manifest written", "key check stored"; a write that fails half way
through a step; a file edited while a run works on it; what was looked at before
a lock and is used after it; a store that does not report ETags (WebDAV) or
ignores conditions; a file system without execute bits (Windows). `PROJECT.json`
lists them at their lines under `hazards`.

## The modules

| Module | Models | Notes |
|---|---|---|
| `Decide` | `plan.go`: the comparison and decision functions; the effect of each decision (`apply.go`: `applyLocal`, `recorded`, `upload`) | pure operators; the names are the code's |
| `Engine` | `engine.go`, `apply.go`, `resolve.go`, `conflicts.go`, with the store's contract and the machines' users, crashes and faults | a state machine over any number of machines and paths |
| `SharedEntries` | the promise of the package comment, `engine.go:1-8` | the abstract specification `Engine` implements |
| `OneSync` | `plan.go` and `apply.go` for one entry, from every input | the decision table exercised where `Engine` does not get from its initial states |
| `Structured` | `internal/structured` and `engine/structured.go` on top of `Decide` | composes the decision of a path with the merge of its items |
| `Backup` | `backup.go`: a backup as a value, what saving, restoring and pruning do | pure operators |
| `Undo` | `promote.go`, `share.go`, `undo.go`, `editHooks`, the writes of a sync | one machine's disk, one write at a time, on `Backup` |
| `Setup` | `init.go`, `keys.go`, `join.go`, `keycheck.go`, `storage.Probe` | machines, buckets, and stores of several kinds |
| `WebDAV` | `internal/storage/webdav` | clients whose operations are several requests |
| `Notices` | `hookSync`, `notice.go`, `Registry.Save` | overlapping hooks of one machine |
| `MC*` | | the finite instances |
| `EngineProofs`, `RunsProofs` | | theorems about `Engine`: types, the refinement, what runs do to files |
| `OneSyncProofs`, `StructuredProofs`, `SetupProofs`, `WebDAVProofs`, `NoticesProofs`, `UndoProofs` | | theorems about these modules |

### How `Engine` corresponds to the code

| Variable | Code |
|---|---|
| `store`, `lastETag` | the bucket; an ETag is a number, never reused: objects are encrypted with fresh randomness, so equal contents have different ETags |
| `late` | `Put`s whose caller saw an error and that the network still carries |
| `disk` | the entries on disk as the scanner of that machine reads them (no execute bit where `TracksExecBit()` is false) |
| `saved`, `settled`, `shown` | `state.json`'s entries and `settled`, the index of `conflicts/` |
| `pc`, `run`, `known`, `local`, `listing`, `fetched`, `unreadable`, `todo` | the running process: where it is, its options and round, `st.Entries`, the planner's maps, the actions |
| `aware`, `agreed`, `unasked`, `spent` | history, for the properties and the bounds; no action reads the first three |

| Action | Code |
|---|---|
| `Begin` | `Run`: take the lock, `LoadState` |
| `ScanAndList`, `ScanMisses` | `Scanner.Scan`, `Store.List`; the second when the scan reports a problem for an entry |
| `Fetch`, `FetchUnreadable`, `Abort` | `planner.fetch`, one step per object, in any order (the code reads them in parallel) |
| `Plan` | `planner.plan`, the direction of the run included |
| `ApplyLocal`, `ApplyLocalFails`, `LinkBlocked`, `SaveConflict`, `SaveConflictFails`, `Record`, `Forget` | one iteration of the loop in `apply`, in the order of `sortForApply` |
| `Upload`, `UploadLosesRace`, `UploadFails`, `UploadRepeated` | one worker of `uploadAll`, in any order |
| `FinishRound` | the end of `apply`: settle, save the state, next round or unlock |
| `Resolve`, `ResolveNothing`, `ResolveEffect`, `ResolveFails`, `ResolveRefused`, `ResolveSave` | `Resolve`, split where another process can come between |
| `UserEdit`, `ObjectLost`, `LatePut`, `Crash` | outside the program |

A step is what no other process can observe halfway: a rename, a `Put`, a pure
computation on memory. Reading the disk and listing the store are one step
because nobody else reads one to act on the other.

Left out of `Engine`, on purpose: structured files, directories in the way and
managed copies, backups and the journal (they are written, never read, by a
sync), dry runs, tools that are not installed, names that are not valid on a
platform, a scan problem during `Resolve`.

### How the other modules correspond to the code

**`Structured`.** `file`, `base` with `based`, `st` with `held`, `store` are a
machine's file, `base/` (a base can be there without items), the entry of `state.json`
and the object; `missing` are the commands not installed, `hidden` the items the rules
keep here. `run` is where a machine's sync is (`phase`) and what it is going to write,
put and save. A file is the function of its items' values: the text around them is left
out.

| Action | Code |
|---|---|
| `Download`, `Merge`, `Upload`, `Record` | the head of a run for this path: scan (`local`: `withHeld`, `Pin`), `decide`, `mergeStructured`, `protectStructured`, `release` |
| `Read`, `Write` | `writeStructured` for the first two: it reads the file again, as it is by then, and replaces it by what it makes of it |
| `Put`, `SaveBase`, `SaveState` | the conditional upload, `saveBase` (best effort), the end of the run |
| `KeepLocal`, `KeepRemote` | `Resolve` |
| `Edit`, `Delete`, `Install`, `Crash` | the user, the package manager, the system, at any time; a `Crash` before `Write` is also a file that cannot be read or written |

**`Backup`, `Undo`.** `disk` is the skill's two directories (each with a content,
without files, a link or absent), the server's two files (Codex's `config.toml` can be a
link to a file kept elsewhere), the two hook files and the registry; `proc` the process
that holds `sync.lock` with the writes it has still to do (`todo`); `intent` what a
command has looked at and waits for the lock with; `memory` the decisions it has set and
not saved; `backups` and `journal` the files.

| Action | Code |
|---|---|
| `AskShare`, `AskUnshare`, `AskUndo` | what `share`, `unshare`, `undo` read before the lock (`offer`, `Unshare`, `pickBackup`, `overlapping`) |
| `StartShare`, `StartUnshare`, `StartHooks`, `StartSync`, `StartUndo` | the lock, `newBackup` |
| `Save`, `Write`, `Decide`, `Fails` | one operation of `Promoter.step`, `editHooks` or `applyLocal`; one that fails |
| `Finish`, `Restore`, `RestoreFails`, `RolledBack`, `Undone` | `Close` and pruning; `restoreAll` one path at a time; `Rollback`; marking a backup undone |
| `Mark`, `Never` | `markCmd`, beside any command that waits; "don't ask again" in an offer, which saves what the command still remembers (`share.go:190`) |
| `UserEdit`, `Crash` | outside |

**`Setup`.** One action per request or file of `runInit`, in the order of the code:
`StartInit`, `EnsureBucket`, `ProbeStore`, `ReadParams`, `LookForKeyFile`,
`PutParams`, `JoinBucket`, `EnsureKeyCheck`, `PutCheck`, `WriteKey`, `SaveConfig`;
`MakeJoinCode`; `Interrupted` is a kill or a failed request anywhere. A `Put` may be
repeated by the client library after it was stored. The kinds of stores are a
constant: how they honour `If-None-Match` and `If-Match`.

**`WebDAV`.** `BucketExists`, `MakeRoot`, `StartPut`, `MakeCollection`, `PutFile`
(`ensureParentDirs` and the put), `StartList`, `ListAtOnce`, `ListOneLevel`,
`EndList`; `Restart` is a new process (`madeDirs` is in memory), `RemoveCollection`
someone else at the server.

**`Notices`.**

| Action | Code |
|---|---|
| `Synced`, `SyncFailed`, `Skipped` | the head of `hookSync`: `eng.Run` in the background, or none within the minimum interval; a run beside another one changes nothing |
| `LoadRegistry` | `sharing`: the copy of the registry this hook judges by |
| `Gather`, `GatherPart` | `gatherNotice`; the second when something cannot be read |
| `SaveDecisions`, `SaveFails` | `sharing.save`, `Registry.Save` under the sync lock: into the file as it is now |
| `QueueNotice`, `QueueHalf`, `Killed` | `queueNotice` under the notice lock; killed or failed between its two files; ended before |
| `Notify`, `NotifyCut` | `takeNotice` and the print; killed or failed between them |
| `ProblemChanges`, `Confirm`, `ThingChanges`, `Decide`, `NextDay` | the user, other machines, `mark`, the clock |

The history variables of each module are marked so where they are declared; no
action's guard reads them.

## The properties and the runs

| Run | Checks | Instance |
|---|---|---|
| `engine_races` | `TypeOK`; `StateMatchesStore`: a saved ETag that is current goes with the current content; `KnowledgeIsSound`: the same of everything a run holds in memory or on the wire; `DeletesOnlyShared`: a sync deletes for everyone only what this machine had shared before; `SharedEntriesSpec`: the refinement, no version overwritten by a machine that has not taken note of it | 2 machines, 1 path, 2 contents and a link, edits during runs, 1 resolution, 1 fault of any kind |
| `engine_calm` | `UnaskedStaysLocal`: what a machine had before its first sync goes out only when confirmed; `OwnVersionsStayOwn`: a machine's own version never comes back as someone else's change; `ReplacesOnlyShared`: a sync replaces only what was shared, or sets it aside | 2 machines that start with files, syncs and pulls, confirmed or not, 3 edits, 1 resolution, no fault |
| `engine_converges` | `Converges`: once users stop, all disks and the store agree on every path or the path waits for its user; `DeletesOnlyShared` after a crash | a store without ETags, one machine without execute bits, a crash, a lost object, fairness |
| `one_sync` | `Settles`: one sync (two without ETags) leaves nothing to do; `NothingVanishes`: what the disk and the store held is still somewhere | one machine, every combination of disk, object, state and options; it stops after 3 syncs, so deadlock is not checked |
| `structured` | `RestingAgree`: a machine with nothing to do has the store's items; `OnlyOwnEditsSent`: an upload changes only items its user changed; `EditsAreKept`: a write keeps the hidden items and the user's edits that the run has seen; `NeverDeleted` | 2 machines, 2 items, one nested in the other, 4 ways to begin, 2 edits or resolutions at any step of a run, 1 kill or base that could not be written |
| `structured_rests` | `Rests`: after the last edit the machines stop writing to each other | 2 items side by side, 1 edit, 1 kill or base that could not be written, fairness |
| `undo` | `UndoRestores`: undo of a change nothing has touched since gives back the files, the links and the decision, also after killed attempts where the backup can be put back twice; `FailedStepLeavesNoTrace`: the rollback of a step gives the disk back; `NothingLost`: at every point of a change what was there is on disk or saved; `DecisionsFit`: the registry says what the disk shows | a skill, a server, hooks, 6 ways to begin (one with a linked `config.toml`), 5 plans of a sync, 2 changes, 1 kill, failure, edit or mark, 1 backup kept |
| `setup` | `OneKey`: machines set up with one bucket have the one key that opens its check; `Joinable`: the salt of that key stays; `CodesOpen`: a join code is for a bucket its passphrase opens; `ProbeIsRight` | 2 machines, 2 buckets, 2 passphrases, a key file, 3 kinds of stores, 3 inits, 1 trouble |
| `webdav` | `ListMissesNothing`, `ListInventsNothing`: a walk beside other clients; `PutsFindTheirCollections`: making the same collections at once; `ListsEnd` | 2 clients, one lists, 2 keys below 3 collections, 2 puts, 1 removal, servers with and without Depth: infinity, fairness |
| `notices` | `ToldOnce`: nothing is told again while it lasts; `OneShotsKept`: what happens once is told or on its way; `DecisionsStay`: a hook replaces no decision of the user but one about the very thing it judged, made after it had loaded the registry; `ProblemsAreTold`: what lasts is told in the end, and again when it comes back | 2 overlapping hooks and prompts, 2 things, 1 or 2 changes, 1 trouble, 3 days, fairness |
| `scan_problem` | finds `DeletesOnlyWhatIsGone` violated | 1 edit, 1 fault |
| `project_server` | finds `DecisionsStay` violated for a project's server that has another's name | 2 hooks, no trouble |

**Bounds.** The properties of `engine_*` are about one path at a time, and the
code decides and applies each path on its own; the second path would only
multiply interleavings, since paths meet only in the order of application (`rank`),
the second round of a run and the settled flag. Two machines are enough for every race
on an object: a third writer looks to the first two like one of them. Two contents tell "changed" from
"changed back"; a third entry (a link, or an execute bit) is added where kinds
matter. One fault, crash or loss is enough to separate what a run wrote from what
it saved; the proofs do without every one of these bounds. Edits are 1 to 3: two
users who both change the entry after it was shared need three.

`structured`: items meet only through nesting, so two of them show both "one side
each" and "inside and outside"; a machine that misses a command and one that hides
an item are among the starts. A kill and a
base that could not be written count as one kind of fault, and there is one of them; the
theorems do without. `Rests` is checked with the fewest edits because
every edit starts the machines anew. `undo`: the skill and the server meet
only in the registry and the backups, so the ways to begin vary one of them at a
time; two changes, so that one is undone past another and pruned (one backup is kept
instead of twenty); one trouble at each point. The plans of a sync are the sharing, unsharing (in either order of its
writes) and changing of the skill by another machine; where Claude's place is a link,
some of them make a backup that cannot be put back twice. `setup`: a third init is the
one that meets two others' leftovers; two
buckets, because a machine that is set up anew takes a key from one to another.
`webdav`: a put into a collection that is not there, one level and two levels deep,
and one removal, before, between and after the requests of a list. `notices`: the
kinds of items meet only in the queue, so the run explores nine sets of what happens
beside each other (`Apart`), each with both hooks; an item begins, ends and comes
back in two changes; two things, because a hook may judge one while the user decides
about the other, and one change there, which is that decision; three days, because an
error is forgotten after two.

**Deadlock** is checked in `engine_*`. Elsewhere the model may stop: the bounds are
used up and nothing is left to do.

**Fairness.** `engine_converges`: a run that started goes on (`WF` of `RunStep`),
and every machine starts full syncs again and again (`WF` of `Begin`), which is
what the hooks do at the start of every session and after every answer
(`README.md`, "Sync automatically"; `auto.go`). `structured*`: the same for one path
(`WF` of `SyncStep`). `webdav`: a client that lists goes on or gives up. `notices`:
some hook that started goes on (`WF` of `Works`); sessions and prompts come again
and again: if a sync could work again and again it does (`SF` of `Synced`; the
minimum interval and failures come between, so `WF` would be too weak), and a prompt
comes while something is queued (`SF` of `Notify`; a hook may take a lasting item
off the queue before the prompt). Nothing is assumed of users, of failures, of late
requests or of a conflict being resolved: a path whose version was set aside, or
whose upload nobody confirmed, counts as waiting for its user.

**Symmetry** is used only for invariants and action properties, and only where the
set of edits is closed under it.

## What the violations show

1. *A file that cannot be read is deleted everywhere* (`scan_problem`). The scan
   reports a path it cannot read, one that outgrew the size limit or a link that
   now points elsewhere as a problem and leaves it out of what it found; the
   planner knows only that the entry is missing and was synced before, and
   uploads a tombstone. (The same happens on Linux to two names that differ only
   in case.)
2. *A project's server overrules another server* (`project_server`). `gatherNotice`
   records the judgement of a project's MCP server under its bare name
   (`notice.go:106`, `c.Name` where every other caller has `c.ID()`). What the user
   decided about the server of that name is replaced, on every machine, since the
   registry syncs; and the project's own server stays undecided, so every hook
   judges it and tells of it again.

## Where the properties stop

The passing runs leave out what is known to break a property; each case was found
with TLC, and the text names the property and the constants that show it.

### Sync engine

- `UnaskedStaysLocal` holds with the modes `both` and `pull` and without faults
  (`engine_calm`). A first run that only *pushes*, while another machine's version
  waits to be downloaded, counts as settled (`apply.go:85-88`); so does one whose
  download fails. If the other machine then deletes its object, this machine
  uploads a file it never asked about.
- `ReplacesOnlyShared` holds when nobody edits during a run and no run fails or is
  killed. A file edited between the scan and the write is replaced; only the backup
  has the edit. So is a file the scan could not read, and, after a run killed between
  its upload and saving the state, a file changed back to what that state says.
- `OwnVersionsStayOwn` holds when no run is killed and in a store that has ETags.
  The state is saved once, after all uploads (`apply.go:90`): killed in between, a
  machine meets its own object as another machine's, and after another edit that is
  "changed differently on two machines" (`ConflictsAreWithOthers`, 1 crash).
- `Resolve` reads the object again and conditions its upload on that read, not on
  the version that was set aside and shown (`resolve.go:80`): a newer one that
  nobody saw is overruled (`ResolveOverrulesOnlyShown`, 3 edits, 1 resolution).
- A machine without execute bits that agrees by content records the entry as read
  from its own disk, without the bit; its next upload keeps "what was synced", now
  nothing (`ExecBitKept`, `apply.go:115` and `177`).
- `clearPath` leaves a file to be replaced by a rename, but a link is created in
  place (`apply.go:442`): a link over a file fails in every sync (`Converges` with
  files and links at one path).

### Structured files

- A base that could not be written (`structured.go:33`) while items are held back:
  the next sync takes them for deleted and removes them for everyone, although
  `structured.go:29` says "nothing is lost" (`NothingLostWithoutBase`, with
  `Starts <- HeldStart`, `Above <- Flat`, `MaxFaults = 1`).
- An edit of a shared item made after the scan is overwritten: `writeStructured`
  (`structured.go:229-248`) reads the file again, but keeps of it only the items that
  are held or hidden here. The backup has the edit if it was made before `b.save`
  (`apply.go:236`), afterwards nobody has it. An edit of a held or hidden item is lost
  only between that read and the rename. `EditsAreKept` speaks of what the run has seen: of what the scan found,
  and of what the second read found of the items it leaves alone (`seen`).
  A run of a resolution has the same window; there it is in `Engine`, and one step here.
- After such a failure the state is newer than the base, and a release
  (`structured.go:194`) goes by the base: an item that the machine could use by now stays
  held back, and one whose command got installed is written from the base, with the
  older version of every other item, and recorded under the current ETag. The machine
  rests there. `RestingAgree` exempts a machine whose last base could not be written
  (`baseless`), and nothing else; without the exemption TLC violates it in the instance
  of `structured` (the first of the two; the second needs 3 edits).
- After a kill between the writes, or a lost race after a merge was written, the file,
  the base and the state are of different syncs. `OnlyOwnEditsSent` and `EditsAreKept`
  exempt that machine until its next full run (`torn`), and a `baseless` one: in that
  time items another machine removed can come back, items newly held can be deleted from
  the store, and conflicts can be reported that are none.
- An item that is held but present keeps its own old version; the base has the newer
  one (`structured.go:240`), so the next upload of any other item sets it back for
  everyone (`behind`).
- `held` is not renewed by an upload, so what the user takes away is held on.
- `Resolve` in favour of this machine uploads the raw file: hidden items are sent,
  held ones are dropped (`resolve.go:67-80`).
- After a download to a machine that hides items there is one upload that says
  nothing new. `Rests` shows it is one.

### Undo and sharing

- The manifest of a backup is written at the end of a sync (`apply.go:79`), so the
  backup of a killed one is not listed, although `engine.go:169` says "undo restores
  them" (`InterruptedIsUndoable`, as an invariant of `undo.cfg`).
- `UndoRestores` is about a change nothing has touched since. An older change is
  undone after a warning about newer ones, but `overlapping` compares whole path
  names (`undo.go:106`): a file inside a directory does not overlap with it. A
  directory that has become a link since is written through (`backup.go:216`). The
  registry is put back as a whole file, with all later decisions.
- A killed undo that is repeated can lose a file of a shared skill. `Undo` writes that
  a backup is undone after everything is put back (`backup.go:211`). A sync that
  replaced the link of a shared skill by a directory of its own (`<<[path |-> "claude",
  val |-> Absent], [path |-> "claudeFile", val |-> "x"]>>`, a plan of the run) is undone
  file first, link last; killed after that, it is done again, on a disk where the link
  is back, and removing "the file of that directory" (`backup.go:219`) goes through it:
  the backup, which knows the file as one that was not there, cannot give it back.
  `UndoRestores` says of repeated undos only what holds, of backups that can be put back
  twice (`repeatable`: none that saved a link in Claude's place and a file below it);
  without that condition TLC violates it. An undo that is not cut short is not exempt.
- Undo removes a file that was not there, and leaves the directory the sync made for it
  (`backup.go:217-221`; a sync itself prunes it, `apply.go:225`). `UndoRestores` is
  about files, links and decisions: an empty directory may stay (`Empty`), which the
  compatibility analysis takes for a skill of that name.
- A `config.toml` that is a link: a step saves the file the link leads to
  (`promote.go:76`), and sharing writes there. Unsharing from Codex edits the path of
  the link (`promote.go:334`), where the atomic write puts a file in place of the link.
  Neither a rollback nor undo brings the link back. `UndoRestores` and
  `FailedStepLeavesNoTrace` exempt the two files of a step on such a server (`linked`),
  and `DecisionsFit` the server once that step is taken back.
- `Unshare` looks whether a skill is shared before it waits for the lock
  (`promote.go:291`); a sync may have put a directory there, which is then removed.
  `NothingLost` shows that the backup has it; `DecisionsFit` exempts it (`apart`).
- A decision set in memory whose save failed is written by the next step of the same
  command (`promote.go:62`).

### Setup

- `init` killed, or its `Put` repeated by the client library, between `kdf.json` and
  `keycheck.age` leaves a bucket that nobody can join: the message says "run init
  again to join it" (`keys.go:94`), but joining wants the key check.
- `init --force` and a join code write the key before the configuration
  (`init.go:119`), and no sync looks at the key check. Killed in between, or beside a
  background sync, a machine uploads to its old bucket with the new key (`mixed`).
- A store that ignores `If-None-Match` can get two keys; `Probe` warns of it and
  `OneKey` leaves it out (`guarded`).
- A key file and a passphrase used for one bucket at the same moment: one of them
  wins (`OneKey`), but when it is the key file, `kdf.json` stays and no join code can
  be made.

### WebDAV

- `madeDirs` goes stale when someone removes a collection: every put below it fails
  until the process ends (`lost`).

### Notices

- `engine.Run` returns a result beside its error, and the hook takes `res != nil` for
  "a sync ran" (`auto.go:431`): after every sync that fails early, the files that
  wait for confirmation are forgotten and told of again. `ToldOnce` exempts what a
  hook did not find although it lasted (`missed`).
- So does a hook that gathered before something began and queues after another hook
  has told of it.
- A hook that did not sync rebuilds the queue without "pending", which is then not
  told until another sync finds it; `needsSync` protects only what was told.
- A kill between notified.json or the removal of notice.json and the print loses the
  notice (`lost`).
- A hook judges by the registry it loaded after its sync (`auto.go:429`). A decision the
  user makes after that about a thing the hook then judges is overruled by the hook's
  save, and `DecisionsStay` exempts it, from the moment the hook judges. Everything else
  the user decides in that time stays.

## What is proved

All for any values of the constants, and without any of the bounds.

| Theorem | Says |
|---|---|
| `EngineProofs!TypeCorrect` | `Spec => []TypeOK` |
| `EngineProofs!KnowledgeSound` | `Spec => []KnowledgeIsSound` |
| `EngineProofs!StateAgrees` | `Spec => []StateMatchesStore` |
| `EngineProofs!EngineSharesEntries` | `Spec => SharedEntriesSpec`, the refinement |
| `RunsProofs!DeletesAreOfShared` | `Spec => []DeletesOnlyShared` |
| `RunsProofs!ReplacesAreOfShared` | `Spec => ReplacesOnlyShared`, of calm runs (below) |
| `RunsProofs!UnaskedIsNotUploaded` | `Spec => []UnaskedStaysLocal`, of calm runs without links and pushes |
| `RunsProofs!OwnVersionsAreOwn` | `Spec => []OwnVersionsStayOwn`, with ETags and no fault or kill |
| `OneSyncProofs!OneSyncSettles` | `Spec => []Settles` |
| `OneSyncProofs!OneSyncLosesNothing` | `Spec => []NothingVanishes` |
| `StructuredProofs!StructuredTypes` | `Spec => []TypeOK` |
| `StructuredProofs!RestingMachinesAgree` | `Spec => []RestingAgree` |
| `StructuredProofs!OnlyOwnEditsAreSent` | `Spec => OnlyOwnEditsSent` |
| `StructuredProofs!EditsStay` | `Spec => EditsAreKept` |
| `StructuredProofs!NothingIsDeleted` | `Spec => NeverDeleted` |
| `SetupProofs!TypeCorrect` | `Spec => []TypeOK` |
| `SetupProofs!OneKeyForAll` | `Spec => []OneKey` |
| `SetupProofs!JoinableForGood` | `Spec => []Joinable` |
| `SetupProofs!EveryCodeOpens` | `Spec => []CodesOpen` |
| `SetupProofs!ProbesAreRight` | `Spec => []ProbeIsRight` |
| `UndoProofs!UndoTypes` | `Spec => []TypeOK` |
| `UndoProofs!NothingIsLost` | `Spec => []NothingLost` |
| `UndoProofs!FailedStepsLeaveNoTrace` | `Spec => FailedStepLeavesNoTrace` |
| `WebDAVProofs!TypeCorrect` | `Spec => []TypeOK` |
| `WebDAVProofs!ListsMissNothing` | `Spec => []ListMissesNothing` |
| `WebDAVProofs!ListsInventNothing` | `Spec => []ListInventsNothing` |
| `WebDAVProofs!PutsFind` | `Spec => []PutsFindTheirCollections` |
| `NoticesProofs!TypeCorrect` | `Spec => []TypeOK` |
| `NoticesProofs!EachIsToldOnce` | `Spec => []ToldOnce` |
| `NoticesProofs!OneShotsAreKept` | `Spec => []OneShotsKept` |
| `NoticesProofs!DecisionsHold` | `Spec => []DecisionsStay`, when every thing is recorded under its id (`NamesAreIds`) |

Assumptions: the named `ASSUME`s of `Decide` and `Engine` (`NoData` is no content,
`Nobody` no machine, the execute-bit machines are machines, the edits are entries, a
start is an edit or nothing), of `Notices` (`Named` gives each thing the id of a thing,
there is a day), of `Structured` (the contents are the functions from items to values or
to `NoValue`, which is no value; a start is files, missing commands and hidden items; a
settings file has no execute bit), of `Setup` (`None` is no bucket and no key file, the
stores are of the known kinds), of `WebDAV` (keys are paths: what is above a collection above x is above
x; the collections are finitely many and the root is none of them), of `Undo` (a
content, a directory without files, a link and nothing are told apart; what a sync
writes at a place can be there: `Written`, with links only in Claude's place; at the
start Claude Code has the skill, and there is no link but for `config.toml`), and that
bounds are numbers.
`NamesAreIds` is an assumption of one theorem: it is false for the MCP
servers of projects, and the run `project_server` shows what happens then.

Three theorems of `RunsProofs` say of which runs they speak. Each assumption is
needed: without it TLC violates the property ("Where the properties stop").

| Theorem | Assumes | Because otherwise |
|---|---|---|
| `ReplacesAreOfShared` | no edit during a sync of the machine | the edit is replaced |
| | no fault | a file the scan could not read counts as missing, and the store's version replaces it |
| | no kill | what was uploaded is not in the saved state: a user who changes the file back to what that state says counts as having changed nothing |
| `UnaskedIsNotUploaded` | no edit during a sync of the machine | a file made during the first sync is not asked about, and the next sync takes it for a later one |
| | no fault | a first run whose download fails counts as settled |
| | no run that only pushes | the same: another machine's version still waits to be downloaded |
| | no links | a link that cannot be made where a file is leaves the file, settled |
| `OwnVersionsAreOwn` | the store answers with ETags | the machine must read its own object to know it |
| | no fault, no kill | what was uploaded is not in the saved state, or was not answered |

They hold for all machines, paths, contents, edits and resolutions, with objects lost
from the store; `UnaskedIsNotUploaded` holds with processes killed anywhere, and
`OwnVersionsAreOwn` with edits during a sync. `DeletesAreOfShared` assumes nothing.

The argument for the engine. `StateMatchesStore` is not inductive: what is saved at the end of a
run was taken from a read, a plan or an answer much earlier, while other machines
went on storing. `KnowledgeIsSound` is the strengthening: *everything* a machine
holds about an object (the saved state, the state of the run, the objects read,
the plan, the conditions of uploads, the `Put`s on the wire) is about an older
version, or says what the current version says; and whoever holds the current
ETag as the condition of an upload has taken note of that version. The store can
only move an object to a version newer than everything known (`Moves`), so all
that was sound stays sound (`StateStaysGood`, `ReadStaysGood`, `PlanStaysGood`,
`MatchStaysGood`); and a step learns only from the current object or from what
was sound already (`DecideIsSound` for the decision, `LearnsState`, `LearnsReads`,
`LearnsPlan`, `LearnsLate` for the steps). The refinement follows: a `Put` that is
accepted carries the current ETag, so its writer has taken note of the object it
replaces, whether it is a first attempt, a repeated or a late one.

The argument for the runs. First the shape of a run (`RunsAreShaped`): outside a run
nothing is planned, a resolution is about one entry, and until something is carried
out the state of the run is the saved one. A deletion for everyone needs a state with
an entry and an object that nobody changed since: the object's ETag is the state's.
`DeletesFit` says why that is one the machine shares: a state with an entry that the
machine no longer shares with the store is about a version the store has left behind
(`Behind`), and since an ETag is never given twice it stays behind
(`StepMovesStore`, `BehindForGood`). What the listing and the state say of each other
at the beginning of a round is kept until the plan is made, and what is planned is
allowed for that reason (`DecideNeeds`). Nothing in this argument depends on what the
machine wrote or saved, so kills and faults change nothing.
`ReplacesFit` is about what the disk holds, so it needs calm runs: what the state
that counts (`InForce`: the saved one between runs, the run's in a run) says of an
entry, as this disk shows it, is what was agreed; what the scan found is still there;
and an action that writes does so over that, or keeps a copy (`DecideReplaces`).
`UnaskedIsKept`: what waits for the first confirmation is on disk, no state knows it,
and the first sync is not over; of such an entry the decision makes a wait, a record
or a download (`DecideFirst`), and only a pull may end with it waiting. `OwnIsKnown`:
the state that counts holds the ETag of the current object whenever this machine
wrote it, so the object is never fetched, planned or reported as news.

The argument for one sync. `DecideNeeds` says what each decision presupposes: what is
written or recorded is the object that was read, what is overwritten on disk is the
version of the last sync or kept, an upload is conditioned on the listed version and
replaces a tombstone or that same version, what is forgotten is gone on both sides.
With the invariant that a state about the current object says what the object says
(`StateFits`; the initial states assume it, every sync keeps it), each effect leaves
disk, state and object alike (`AppliedDone`, `UploadDone`), of which `NothingToDecide`
says that nothing follows; only a `Put` that did not answer leaves one more step, the
one that takes note (`Learns`).

The argument for structured files. `RestingAgree` is not inductive: what a machine
compares at rest are three records (file, base, state) that a run writes one after the
other, and every one of them may be of another sync. `Fits` is the invariant, over any
number of machines. `SavedFits` is about what a machine has saved: a state about the
current object has the object's items as its base; the entry it remembers is the base
but for the items the machine keeps to itself (hidden, `behind`); and while nothing
is torn the file is what writing the base into it leaves (`Left`), but for the user's
edits. `RunFits` is about what a run is going to put and save: what it puts differs from
the object it read only in items of its own (`Theirs`), and when the `Put` was accepted,
what it saves is about the object it put. A run that has planned a write (`planned`:
it is to read, or to write) is read as one that will upload (`sending`) or as one whose
items are the store's already (`settling`), and what it is about to write keeps what it
saw of the user's edits (`Minds`). For the steps that plan and read, `WrittenIs` and
`LocalIs` say what `writeStructured` leaves in the file and the next scan sees of it,
`MergeKeeps`, `FirstMergeAdds` and `MergeGives` that `Merge3` keeps what one side
changed and sends nothing else, `Protects` what `protectStructured` turns a deletion
into, and `PlanGives`, from these and `DecideNeeds`, what each plan may do. The steps
follow one by one; `LeftAlone` says why the other machines' parts still hold (a `Put` gets
a new ETag, so no other state is about that object). `OnlyOwnEditsSent` is `Theirs` at
the accepted `Put`; `EditsAreKept` is `Minds` at the write, with the hidden items as the
second read found them; `NeverDeleted` is what a plan may write, `RestingAgree` what a
plan that does nothing implies (`DecidesNothing`, `QuietMeans`).
TLC checked `Fits` on the instance of `structured`, with a kill and an unwritten base
together.

The argument for setup. `OneKey` relates machines to each other, but init writes one
file at a time and can be killed after each. `Fits` says what is true in between: a
derived key that anyone holds (on disk, in an init, in a code) and whose salt is that
of a store that does not overwrite is the key of the check there (`Verified`), so two
of them for one bucket are one; a run that has only derived has derived from the
parameters it read, and the step past the check is taken only when the check it put
or read is its own. Parameters and checks in such a store never change once they are
there (`Grows`), which is `Joinable` and keeps every code true (`EveryCodeOpens`). What
`Probe` found is about the kind of store a bucket is on, which never changes.

The argument for WebDAV. A list goes through the tree one request at a time while
others put, delete and remove. `ListMissesNothing` speaks of the end; `WalkFits` of the
middle: a key that was there all the while was found, or one of the collections it is
in waits in the queue and the walk came from above it (`ahead`). A visit moves the
promise one level down or finds the key (`Places`, `HolderIsDeepest`); a collection
that is gone held nothing that was there all the while, because what exists is in
collections that exist (`TreeFits`). A key is found at most once because its
collection is visited at most once, and what was found is in a visited one. A put
holds that the collections it is past exist (`PutFits`), and that a client's `madeDirs`
does, until someone removes one (`lost`).

The argument for undo. `Fits` is the inductive invariant. First the bookkeeping: IDs of
backups grow and pruning keeps the newest, so whatever is at work finds its own backup
(`MineIs`). Then what a change still has to do, read together with what it has saved.
In a sharing step or an edit of the hooks each place of the skill is saved already, or
as before and saved before the first write, or not written at all (`PlaceKept`). A sync
saves and writes path by path: its list alternates and what the next write replaces is
saved (`NextIsSaved`), so a write takes off the disk only what the backup holds
(`WriteTakes`). `CanRollBack` is the second invariant, for the step that fails: all its
saves come before its writes (`Prepared`), so until the last save every place is as
before, and what is saved is what was there before; afterwards a place that differs is
saved, and in a rollback among what is still to be put back. When nothing is left,
nothing differs. TLC checks what both invariants imply on the instance of `undo`.

The argument for the notices. `ToldOnce` looks at the history of what was told
twice; `Telling` is the strengthening. What the user heard of is in notified.json and
not in the queue, or a hook has seen it over or missed it since (`HeardIsTold`);
what a hook saw over has not begun again (`OversAreOver`), since what begins again
counts as not told. The news of a day, which nothing ends, needs the clock
(`ErrorDays`): a hook finds only the news of its own day, a hook is at most a day
old, and the news is forgotten two days after it was told or later; so whoever
forgets it is past the last hook that could find it again. `Owing` strengthens
`OneShotsKept` by what lies with one hook at a time: an item changes hands in one
step, from the hook to the queue (`EndOwing`), and every other step leaves the
other hooks alone (`OwedOn`). `Decided` strengthens `DecisionsStay`: no hook is about
to decide what the user has decided, because what a hook judges
counts as its own from then on, and a save touches only the ids it judged. That there is nothing else to exempt, though the hook's copy of the registry may
be as old as the hook, is what the merge in `Registry.Save` is for (the mutant of the
run writes the whole copy).

Only model-checked: convergence and the other liveness properties (`Converges`,
`Rests`, `ListsEnd`, `ProblemsAreTold`: liveness and `ENABLED` are out of the prover's
reach), and of `undo` `UndoRestores` and `DecisionsFit`. A theorem about `UndoRestores`
needs an invariant about what a partly restored disk still owes a backup, over every
order of paths a sync can save; `DecisionsFit` rests on it.

## Not modelled

- Managed copies (Windows without the right to make links) and layout conflicts (a
  path that is a directory on one machine and a file on another): they need trees of
  paths that contain each other in every variable of the engine.
- The scanner's walk, path rules, home-path rewriting, the envelope's bytes, ciphers,
  the text of JSON and TOML items, the text analysis that judges a skill or a server,
  collecting versions of tools: pure functions of one machine's files. The modules
  take what they give (an entry, the set of synced paths, a verdict).
- S3, R2 and GCS clients: adapters of a library; what the engine can see of them is a
  parameter of `Engine` and `Setup`.
- Codex's trust in hooks and the JSON around a hook entry.
- Doctor, check, list commands, self-update and the npm wrapper: read-only, or a
  download and two renames with nothing beside them.

## What is left

No new module of the model is planned. The theorems worth adding are `UndoRestores` of
`Undo`, as `CanRollBack` does it for a rollback, and then `DecisionsFit`.
