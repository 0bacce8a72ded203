------------------------------- MODULE Backup -------------------------------
(***************************************************************************)
(* What a change on one machine touches, and the backup of it              *)
(* (internal/engine/backup.go): the places of one skill, one MCP server    *)
(* and the hooks, how a path below a directory is read and written, and    *)
(* what saving and restoring a path do.                                    *)
(*                                                                         *)
(* A skill is a directory of Claude Code ("claude"), of Codex ("agents"),  *)
(* or of Codex with a link in Claude's place.  Its content stands for all  *)
(* its files.  "claudeFile" and "agentsFile" are the paths of a file in    *)
(* these directories, what a sync reads and writes; in a linked place they *)
(* lead to the same file.  A directory can be without files: putting back a file *)
(* that was not there leaves the directory it was in.                      *)
(*                                                                         *)
(* "codexConfig" is Codex's config.toml, which can be a link to a file kept *)
(* elsewhere, "codexTarget".                                               *)
(***************************************************************************)
EXTENDS Naturals, Sequences, FiniteSets

CONSTANT Content    \* the contents a skill can have

Absent == "absent"
Empty == "empty"
Link == "link"
Present == "present"

ASSUME ContentAssumption == {Absent, Empty, Link, Present} \cap Content = {}

\* What a directory of a skill can hold.
Dir == Content \cup {Empty}

\* What is decided about: a skill and an MCP server (a plugin marketplace is
\* added to and removed from Codex's file the way a server is).
Kind == {"skill", "mcp"}
Decision == {"none", "shared", "claude-only", "codex-only", "variant"}

FilePath == {"claudeFile", "agentsFile"}
ConfigPath == {"codexConfig", "codexTarget", "claudeJSON"}
HookPath == {"settings", "hooksJSON"}
Path == {"claude", "agents", "registry"} \cup FilePath \cup ConfigPath \cup HookPath

Disk == [claude : Dir \cup {Absent, Link}, agents : Dir \cup {Absent, Link},
         registry : [Kind -> Decision],
         codexConfig : {Absent, Present, Link}, codexTarget : {Absent, Present},
         claudeJSON : {Absent, Present},
         settings : {Absent, Present}, hooksJSON : {Absent, Present}]

\* The place a path leads to.
place(d, p) ==
    IF p = "agentsFile" \/ (p = "claudeFile" /\ d.claude = Link) THEN "agents"
    ELSE IF p = "claudeFile" THEN "claude" ELSE p

\* What is there: in a directory without files, no file.
at(d, p) == IF p \in FilePath /\ d[place(d, p)] = Empty THEN Absent ELSE d[place(d, p)]

\* A sync that removes the last file of a directory removes the directory.
put(d, p, v) == [d EXCEPT ![place(d, p)] = v]

\* A path below a link that leads nowhere, or to itself.
dangling(d, p) == p = "claudeFile" /\ d.claude = Link /\ d.agents \notin Dir
looping(d, p) == p \in FilePath /\ at(d, p) = Link

\* The contents a disk holds.
onDisk(d) == {d.claude, d.agents} \cap Content

\* backupItem: what a path held.
item(d, p) == [path |-> p, was |-> at(d, p)]

\* backupSet: its items in the order they were saved, and whether its manifest
\* is written.  The rest is history: the disk when the change began, what was out
\* of step with the decisions then, whether nothing but this change has touched
\* the disk since, whether an attempt to put things back ended half way, and
\* whether the change edits a config.toml that is, or was, a link.
newBackup(id, d, apart, linked) ==
    [id |-> id, items |-> <<>>, manifest |-> FALSE, undone |-> FALSE,
     before |-> d, apartBefore |-> apart, pristine |-> TRUE, cut |-> FALSE, linked |-> linked]

saved(b, d, p) == [b EXCEPT !.items = Append(@, item(d, p))]

\* The contents a backup can give back.
contentsOf(b) == {b.items[i].was : i \in {j \in DOMAIN b.items :
                    b.items[j].path \in {"claude", "agents"} \cup FilePath}} \cap Content

\* removeAny, then restore: what is at the path goes, what was there comes back.
\* Of a file that was not there the directory stays, also when the change made it.
canRestore(d, it) == ~(dangling(d, it.path) /\ it.was \in Content) /\ ~looping(d, it.path)
restored(d, it) ==
    IF it.path \in FilePath /\ it.was = Absent
    THEN IF at(d, it.path) \in Content THEN put(d, it.path, Empty) ELSE d
    ELSE put(d, it.path, it.was)

\* A backup that can be put back twice: putting a link back first and then going
\* through it would remove a file of the directory it leads to.
repeatable(b) ==
    ~ \E i, j \in DOMAIN b.items :
          b.items[i].path = "claude" /\ b.items[i].was = Link /\ b.items[j].path = "claudeFile"

\* A bug: a backup is restored in the order it was saved.
oldestFirst(b, left) == b.items[Len(b.items) - left + 1]
\* restoreAll: the item to restore next, newest save first.
nextItem(b, left) == b.items[left]

\* pruneBackups: the oldest go, complete or not.
pruned(bs, keep) == SubSeq(bs, IF Len(bs) > keep THEN Len(bs) - keep + 1 ELSE 1, Len(bs))
=============================================================================
