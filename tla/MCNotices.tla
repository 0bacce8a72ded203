----------------------------- MODULE MCNotices -----------------------------
(***************************************************************************)
(* Instances of Notices for TLC.                                           *)
(***************************************************************************)
EXTENDS Notices

\* Every thing is known to the registry by its name.
Plain == [t \in Thing |-> t]
\* A project's MCP server has the name of another server.
Namesakes == [t \in Thing |-> "server"]

\* What is explored together: items of different kinds meet only in the queue.
\* One decision of the user is enough where a hook judges two things or fails.
Apart == {
    {"problems", "notices"}, {"problems", "troubles"}, {"notices", "failures", "troubles"},
    {"skill"}, {"skill", "troubles"}, {"skill", "server"},
    {"first sync", "failures"}, {"first sync", "troubles"},
    {"failures", "days"}}
Changes == [s \in Apart |-> IF s \in {{"skill", "troubles"}, {"skill", "server"}} THEN 1 ELSE 2]

OfThings == {Thing}
ThreeChanges == [s \in OfThings |-> 3]
=============================================================================
