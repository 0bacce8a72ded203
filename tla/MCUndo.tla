------------------------------- MODULE MCUndo -------------------------------
(***************************************************************************)
(* Instances of Undo for TLC.                                              *)
(***************************************************************************)
EXTENDS Undo

To(path, val) == [path |-> path, val |-> val]

\* A skill that disables model invocation gets one more file for Codex.
OneAdapts == [c \in Content |-> IF c = "x" THEN "y" ELSE c]

\* Claude Code has the skill, and Codex not, the same, or another one of that name;
\* and it has the server, or not, or Codex's config.toml is a link.
Begin(claude, agents, codexConfig, claudeJSON) ==
    [claude |-> claude, agents |-> agents, codexConfig |-> codexConfig, claudeJSON |-> claudeJSON]
FewStarts == {
    Begin("x", Absent, Absent, Present), Begin("y", Absent, Absent, Present),
    Begin("x", "x", Absent, Present), Begin("x", "y", Absent, Present),
    Begin("x", Absent, Absent, Absent), Begin("x", Absent, Link, Present)}

\* Another machine has shared the skill, unshared it (in either order of its
\* writes), or changed its file.
SkillPlans == {
    <<To("claudeFile", Absent), To("agentsFile", "y"), To("claude", Link)>>,
    <<To("claude", Absent), To("agentsFile", Absent), To("claudeFile", "y")>>,
    <<To("claude", Absent), To("claudeFile", "x")>>,
    <<To("agentsFile", "y")>>,
    <<To("claudeFile", "y")>>}
=============================================================================
