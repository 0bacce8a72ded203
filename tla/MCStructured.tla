---------------------------- MODULE MCStructured ----------------------------
(***************************************************************************)
(* Instances of Structured for TLC: machine "a" has a file with both       *)
(* items; machine "b" joins it.                                            *)
(***************************************************************************)
EXTENDS Structured

Maps == [Item -> Value \cup {NoValue}]
NoMap == [i \in {} |-> NoValue]
Flat == [i \in Item |-> i]
\* The item "theme" is a table nested in "server".
Nested == [i \in Item |-> "server"]

Of(x, y) == [m \in Machine |-> IF m = "a" THEN x ELSE y]
Both == File([i \in Item |-> 1])
Only(i, v) == File([j \in Item |-> IF j = i THEN v ELSE NoValue])
Begin(fileOfB, missingAtB, hiddenAtB) ==
    [file |-> Of(Both, fileOfB), missing |-> Of({}, missingAtB), hidden |-> Of({}, hiddenAtB)]

\* "b" has no file, has another server, cannot run the server, or keeps its own.
AllStarts == {
    Begin(Absent, {}, {}),
    Begin(Only("server", 2), {}, {}),
    Begin(Absent, {1}, {}),
    Begin(Only("server", 2), {1}, {"server"})}
FewStarts == {Begin(Absent, {1}, {}), Begin(Only("server", 2), {}, {"server"})}
HeldStart == {Begin(Absent, {1}, {})}
=============================================================================
