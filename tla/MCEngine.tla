------------------------------ MODULE MCEngine ------------------------------
(***************************************************************************)
(* Instances of Engine for TLC.                                            *)
(***************************************************************************)
EXTENDS Engine, TLC

CONSTANTS A, B, x, y

File(d) == [kind |-> "file", data |-> d, exec |-> FALSE]
Script(d) == [kind |-> "file", data |-> d, exec |-> TRUE]
Link(d) == [kind |-> "link", data |-> d, exec |-> FALSE]

Files == {File(x), File(y)}
FilesOrAbsent == Files \cup {Absent}
FilesAndLink == Files \cup {Link(x)}
Nothing == {Absent}
OneLink == {File(x), Link(x)}
OneFile == {File(x)}
Three == {File(x), File(y), Script(y)}
SameFile == {Script(x), File(x)}
Scripts == {Script(x), Script(y), File(x), File(y)}

\* Sound for safety: nothing tells the machines apart, and where the set of
\* edits is closed under it, nor the contents.
SameMachines == Permutations({A, B})
SameMachinesAndData == Permutations({A, B}) \cup Permutations({x, y})
=============================================================================
