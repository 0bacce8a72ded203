------------------------------- MODULE WebDAV -------------------------------
(***************************************************************************)
(* The WebDAV client, the one backend whose operations are several         *)
(* requests: internal/storage/webdav.  A server keeps files in collections *)
(* (directories); the engine wants a flat set of keys.  Put first makes    *)
(* the collections above a key and remembers which exist; List walks the   *)
(* tree one collection at a time where the server refuses to list it whole.*)
(* Between two requests other machines put, delete and make collections,   *)
(* and other tools remove collections.                                     *)
(*                                                                         *)
(* Left out: conditions and what the server says of ETags (Engine, Setup), *)
(* escaping, sizes and times.  A version stands for an ETag.               *)
(***************************************************************************)
EXTENDS Naturals, Sequences, FiniteSets, SequencesExt

CONSTANTS
    Client,
    Root,           \* the collection that holds every object
    Collection,     \* the collections below it
    Key,
    Above,          \* the collections above a key or a collection, outermost first
    Listed,         \* the collections the engine lists
    Lister,         \* bound: the clients that list
    MaxPuts,        \* bound: puts
    MaxRemovals     \* bound: deleted objects and removed collections

ASSUME WebDAVAssumption ==
    /\ Root \notin Key \cup Collection /\ IsFiniteSet(Collection)
    /\ Above \in [Key \cup Collection -> Seq(Collection)]
    \* Keys are paths: what is above a collection above x is above x, too.
    /\ \A x \in Key \cup Collection : \A i \in DOMAIN Above[x] :
           Above[Above[x][i]] = SubSeq(Above[x], 1, i - 1)
    /\ Lister \subseteq Client /\ Listed \subseteq Collection \cup {Root}
    /\ MaxPuts \in Nat /\ MaxRemovals \in Nat

VARIABLES
    infinity,   \* whether the server answers PROPFIND with Depth: infinity
    cols,       \* the collections that exist
    files,      \* the version of every file, 0 when it does not exist
    made,       \* madeDirs: the collections a client knows to exist
    op,         \* what a client is doing
    since,      \* history, by client: what was there all the time, and at any time, of its List
    lost,       \* history: clients that met a collection someone removed
    puts, removals

vars == <<infinity, cols, files, made, op, since, lost, puts, removals>>

Idle == [kind |-> "idle", key |-> Root, at |-> 0, queue |-> <<>>, visited |-> {}, found |-> {}]
New == [Idle EXCEPT !.kind = "new"]     \* before BucketExists
holder(x) == IF Above[x] = <<>> THEN Root ELSE Last(Above[x])
existing == {k \in Key : files[k] > 0}
inside(d) == {x \in Key \cup Collection : d = Root \/ d \in ToSet(Above[x])}

Nothing == [always |-> {}, ever |-> {}]

TypeOK ==
    /\ infinity \in BOOLEAN
    /\ cols \subseteq Collection \cup {Root}
    /\ files \in [Key -> 0..MaxPuts]
    /\ \A x \in existing \cup (cols \ {Root}) : holder(x) \in cols
    /\ made \in [Client -> SUBSET Collection]
    /\ \A c \in Client : made[c] \subseteq cols \/ c \in lost
    /\ op \in [Client -> [kind : {"new", "mkroot", "idle", "put", "list", "listed", "failed"},
                          key : Key \cup Collection \cup {Root}, at : Nat,
                          queue : Seq(Collection \cup {Root}), visited : SUBSET (Collection \cup {Root}),
                          found : SUBSET (Key \X (1..MaxPuts))]]
    /\ since \in [Client -> [always : SUBSET Key, ever : SUBSET (Key \X (1..MaxPuts))]]
    /\ lost \subseteq Client

Init ==
    /\ infinity \in BOOLEAN
    /\ cols \in {{}, {Root}}
    /\ files = [k \in Key |-> 0]
    /\ made = [c \in Client |-> {}]
    /\ op = [c \in Client |-> New]
    /\ since = [c \in Client |-> Nothing]
    /\ lost = {}
    /\ puts = 0 /\ removals = 0

Do(c, o) == op' = [op EXCEPT ![c] = o]
versions(f) == {<<k, f[k]>> : k \in {x \in Key : f[x] > 0}}
Seen(f) == since' = [c \in Client |->
    IF op[c].kind # "list" THEN since[c]
    ELSE [always |-> {k \in since[c].always : f[k] > 0}, ever |-> since[c].ever \cup versions(f)]]

-----------------------------------------------------------------------------
(* BucketExists: a missing collection is made; 405 says another made it.    *)

BucketExists(c) ==
    /\ op[c].kind = "new"
    /\ Do(c, IF Root \in cols THEN Idle ELSE [New EXCEPT !.kind = "mkroot"])
    /\ UNCHANGED <<infinity, cols, files, made, since, lost, puts, removals>>

MakeRoot(c) ==
    /\ op[c].kind = "mkroot"
    /\ cols' = cols \cup {Root}
    /\ Do(c, Idle)
    /\ UNCHANGED <<infinity, files, made, since, lost, puts, removals>>

-----------------------------------------------------------------------------
(* Put *)

StartPut(c, k) ==
    /\ op[c].kind \in {"idle", "failed"} /\ puts < MaxPuts
    /\ Do(c, [Idle EXCEPT !.kind = "put", !.key = k, !.at = 1])
    /\ UNCHANGED <<infinity, cols, files, made, since, lost, puts, removals>>

\* A bug: only the innermost collection is made.
parentsInnermost(k) == IF Above[k] = <<>> THEN <<>> ELSE <<Last(Above[k])>>
parents(k) == Above[k]

\* ensureParentDirs, one MKCOL: answered 201 or, when the collection exists,
\* 405; where the one above it is missing the answer is an error nobody looks at.
MakeCollection(c) ==
    LET dirs == parents(op[c].key)
        d == dirs[op[c].at]
        there == d \in cols \/ holder(d) \in cols IN
    /\ op[c].kind = "put" /\ op[c].at <= Len(dirs)
    /\ Do(c, [op[c] EXCEPT !.at = @ + 1])
    /\ IF d \in made[c] THEN UNCHANGED <<cols, made>>
       ELSE /\ cols' = IF there THEN cols \cup {d} ELSE cols
            /\ made' = IF there THEN [made EXCEPT ![c] = @ \cup {d}] ELSE made
    /\ UNCHANGED <<infinity, files, since, lost, puts, removals>>

\* PUT; 409 when the collection of the file does not exist.
PutFile(c) ==
    LET k == op[c].key IN
    /\ op[c].kind = "put" /\ op[c].at > Len(parents(k))
    /\ puts < MaxPuts
    /\ IF holder(k) \in cols
       THEN /\ files' = [files EXCEPT ![k] = puts + 1]
            /\ puts' = puts + 1
            /\ Seen(files')
            /\ Do(c, Idle)
       ELSE Do(c, [Idle EXCEPT !.kind = "failed"]) /\ UNCHANGED <<files, puts, since>>
    /\ UNCHANGED <<infinity, cols, made, lost, removals>>

\* No answer: the put ends with an error.
NoAnswer(c) ==
    /\ op[c].kind = "put"
    /\ Do(c, Idle)
    /\ UNCHANGED <<infinity, cols, files, made, since, lost, puts, removals>>

\* A bug: another run believes what the last one knew.
RestartRemembers(c) ==
    /\ op[c].kind \in {"idle", "failed"} /\ made[c] # {}
    /\ lost' = lost \ {c}
    /\ Do(c, Idle)
    /\ UNCHANGED <<infinity, cols, files, made, since, puts, removals>>
\* Another run of the program knows no collections.
Restart(c) ==
    /\ op[c].kind \in {"idle", "failed"} /\ made[c] # {}
    /\ made' = [made EXCEPT ![c] = {}]
    /\ lost' = lost \ {c}
    /\ Do(c, Idle)
    /\ UNCHANGED <<infinity, cols, files, since, puts, removals>>

-----------------------------------------------------------------------------
(* List *)

\* List below the collection of a prefix.
StartList(c, d) ==
    /\ op[c].kind \in {"idle", "failed"}
    /\ Do(c, [Idle EXCEPT !.kind = "list", !.key = d, !.queue = <<d>>])
    /\ since' = [since EXCEPT ![c] = [always |-> existing, ever |-> versions(files)]]
    /\ UNCHANGED <<infinity, cols, files, made, lost, puts, removals>>

\* One answer for the whole tree; 404 is an empty list.
ListAtOnce(c) ==
    /\ op[c].kind = "list" /\ infinity
    /\ Do(c, [op[c] EXCEPT !.kind = "listed", !.queue = <<>>,
                           !.found = {v \in versions(files) : v[1] \in inside(op[c].key)}])
    /\ UNCHANGED <<infinity, cols, files, made, since, lost, puts, removals>>

\* A bug: collections are not remembered as visited.
rememberNothing(visited, d) == visited
remember(visited, d) == visited \cup {d}

\* A bug: a collection that is gone ends the walk.
goneEnds(o) == [o EXCEPT !.queue = <<>>]
\* A collection that was listed above and is gone: the walk goes on.
gone(o) == [o EXCEPT !.queue = Tail(@)]

\* Depth: 1 names a collection's files, the collections in it, and itself.
answer(d) == {x \in cols \ {Root} : x = d \/ holder(x) = d}
walk(o) ==
    LET d == Head(o.queue) IN
    IF d \in o.visited THEN [o EXCEPT !.queue = Tail(@)]
    ELSE LET v == [o EXCEPT !.visited = remember(@, d)] IN
         IF d \notin cols THEN gone(v)
         ELSE [v EXCEPT !.queue = Tail(@) \o SetToSeq(answer(d)),
                        !.found = @ \cup {x \in versions(files) : holder(x[1]) = d}]

\* listRecursive.
ListOneLevel(c) ==
    /\ op[c].kind = "list" /\ ~infinity
    /\ Do(c, IF op[c].queue = <<>> THEN [op[c] EXCEPT !.kind = "listed"] ELSE walk(op[c]))
    /\ UNCHANGED <<infinity, cols, files, made, since, lost, puts, removals>>

\* The engine has what it found; a listing may also end for want of an answer.
EndList(c) ==
    /\ op[c].kind \in {"list", "listed"}
    /\ Do(c, Idle)
    /\ since' = [since EXCEPT ![c] = Nothing]
    /\ UNCHANGED <<infinity, cols, files, made, lost, puts, removals>>

-----------------------------------------------------------------------------
(* Others *)

Delete(k) ==
    /\ removals < MaxRemovals /\ files[k] > 0
    /\ removals' = removals + 1
    /\ files' = [files EXCEPT ![k] = 0]
    /\ Seen(files')
    /\ UNCHANGED <<infinity, cols, made, op, lost, puts>>

\* Someone removes a collection with all it holds, past this program.
RemoveCollection(d) ==
    /\ removals < MaxRemovals /\ d \in cols
    /\ removals' = removals + 1
    /\ cols' = cols \ ({d} \cup inside(d))
    /\ files' = [k \in Key |-> IF k \in inside(d) THEN 0 ELSE files[k]]
    /\ Seen(files')
    /\ lost' = lost \cup {c \in Client : made[c] \ cols' # {} \/ op[c].kind = "put"}
    /\ UNCHANGED <<infinity, made, op, puts>>

ListStep(c) == ListAtOnce(c) \/ ListOneLevel(c)

Next ==
    \/ \E c \in Client :
        \/ BucketExists(c) \/ MakeRoot(c) \/ MakeCollection(c) \/ PutFile(c)
        \/ ListStep(c) \/ EndList(c) \/ NoAnswer(c) \/ Restart(c)
        \/ \E k \in Key : StartPut(c, k)
        \/ \E d \in Listed : c \in Lister /\ StartList(c, d)
    \/ \E k \in Key : Delete(k)
    \/ \E d \in Collection : RemoveCollection(d)

\* A client that started a list goes on with it.
Fairness == \A c \in Lister : WF_vars(ListStep(c))

Spec == Init /\ [][Next]_vars /\ Fairness

-----------------------------------------------------------------------------
(* Properties *)

\* A list names every key that was there from its first request to its last,
\* whatever is put, deleted or removed around it: a key a list misses reads as
\* deleted to the engine (List, listRecursive).
ListMissesNothing ==
    \A c \in Client : op[c].kind = "listed" =>
        \A k \in since[c].always \cap inside(op[c].key) : \E v \in op[c].found : v[1] = k

\* A list names a key once, in a version it had while the list was taken
\* (listRecursive).
ListInventsNothing ==
    \A c \in Client : op[c].kind = "listed" =>
        /\ op[c].found \subseteq since[c].ever
        /\ \A v, w \in op[c].found : v[1] = w[1] => v = w

\* A put finds the collections it needs, made by whatever machine, unless
\* someone removed one of them since this process began: machines that make
\* the same collections at the same moment do not fail each other
\* (ensureParentDirs, madeDirs).
PutsFindTheirCollections ==
    \A c \in Client : op[c].kind = "failed" => c \in lost

\* The walk ends although every collection's answer names itself again.
ListsEnd == \A c \in Client : op[c].kind = "list" ~> op[c].kind # "list"
=============================================================================
