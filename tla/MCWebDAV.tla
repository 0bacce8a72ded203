------------------------------ MODULE MCWebDAV ------------------------------
(***************************************************************************)
(* An instance of WebDAV for TLC: a key in a collection, and one in a      *)
(* collection that is inside another.                                      *)
(***************************************************************************)
EXTENDS WebDAV

Tree == [x \in Key \cup Collection |->
            CASE x \in {"d", "e"} -> <<>>
              [] x = "high" -> <<"d">>
              [] x = "inner" -> <<"e">>
              [] x = "deep" -> <<"e", "inner">>]
=============================================================================
