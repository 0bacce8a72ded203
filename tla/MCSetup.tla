------------------------------ MODULE MCSetup ------------------------------
(***************************************************************************)
(* Instances of Setup for TLC.                                             *)
(***************************************************************************)
EXTENDS Setup

\* A store that enforces both conditions, one that knows neither, and one that
\* refuses to overwrite an object by a new one but not by a stale version.
SomeServers == {
    [create |-> TRUE, match |-> "enforced"],
    [create |-> FALSE, match |-> "ignored"],
    [create |-> TRUE, match |-> "exists"]}
=============================================================================
