---------------------------- MODULE SharedEntries ----------------------------
(***************************************************************************)
(* What the sync engine promises about the shared store: "Remote writes    *)
(* are conditional on the ETag last seen, so two machines can never        *)
(* overwrite each other's changes unnoticed" (internal/engine/engine.go).  *)
(* A machine may replace the current version of an entry only when the     *)
(* entry is missing or deleted, or when the machine has taken note of that *)
(* very version: it wrote it, had it on its disk, or its user asked to     *)
(* overrule it.                                                            *)
(***************************************************************************)
EXTENDS Decide

CONSTANT Key

VARIABLES
    head,    \* the current object of every key, or NoObject
    aware    \* the machines that have taken note of the current object

absVars == <<head, aware>>

AbsInit ==
    /\ head = [k \in Key |-> NoObject]
    /\ aware = [k \in Key |-> {}]

\* m stores a new version of k.
Publish(m, k) ==
    /\ head[k] # NoObject => head[k].entry = Absent \/ m \in aware[k]
    /\ head' = [head EXCEPT ![k] = head'[k]]
    /\ head'[k] \in Object
    /\ head'[k].writer = m
    /\ \A j \in Key : head'[k].etag > head[j].etag
    /\ aware' = [aware EXCEPT ![k] = {m}]

\* m takes note of the current version of k.
Take(m, k) ==
    /\ head[k] # NoObject
    /\ aware' = [aware EXCEPT ![k] = @ \cup {m}]
    /\ UNCHANGED head

\* The store loses k: someone outside the program deletes the object.
Lose(k) ==
    /\ head' = [head EXCEPT ![k] = NoObject]
    /\ aware' = [aware EXCEPT ![k] = {}]

AbsNext ==
    \/ \E m \in Machine, k \in Key : Publish(m, k) \/ Take(m, k)
    \/ \E k \in Key : Lose(k)

AbsSpec == AbsInit /\ [][AbsNext]_absVars
=============================================================================
