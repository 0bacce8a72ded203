---------------------------- MODULE WebDAVProofs ----------------------------
(***************************************************************************)
(* Proofs about WebDAV, for any number of clients, any tree of keys and    *)
(* collections, servers of either kind, and every bound.                   *)
(***************************************************************************)
EXTENDS WebDAV, FiniteSetTheorems, SequenceTheorems, TLAPS

Operation == [kind : {"new", "mkroot", "idle", "put", "list", "listed", "failed"},
              key : Key \cup Collection \cup {Root}, at : Nat,
              queue : Seq(Collection \cup {Root}), visited : SUBSET (Collection \cup {Root}),
              found : SUBSET (Key \X (1..MaxPuts))]

-----------------------------------------------------------------------------
(* The inductive invariant *)

\* The collections a key or a collection is in, by depth: 0 is the root.
place(x, i) == IF i = 0 THEN Root ELSE Above[x][i]

\* What exists is in collections that exist.
TreeFits ==
    \A x \in existing \cup (cols \ {Root}) : Root \in cols /\ ToSet(Above[x]) \subseteq cols

\* A put has the collections it has been past, unless someone removed one since.
PutFits(c) ==
    /\ op[c].key \in Key /\ op[c].at \in Nat \ {0}
    /\ c \notin lost => \A i \in 1..Len(Above[op[c].key]) : i < op[c].at => Above[op[c].key][i] \in cols

\* A walk will still see k: a collection that k is in is waiting to be visited.
ahead(o, k) ==
    \E i \in 0..Len(Above[k]) :
        /\ place(k, i) \in ToSet(o.queue) \ o.visited
        /\ \E j \in 0..i : place(k, j) = o.key

seenBy(o, k) == \E v \in o.found : v[1] = k

\* What a walk knows, and what it still has before it.
WalkFits(o, s) ==
    /\ o.key \in Collection \cup {Root}
    /\ s.always \subseteq existing /\ versions(files) \subseteq s.ever
    /\ o.found \subseteq s.ever
    /\ \A v, w \in o.found : v[1] = w[1] => v = w
    /\ \A v \in o.found : holder(v[1]) \in o.visited
    /\ \A d \in ToSet(o.queue) \cup o.visited : d = o.key \/ holder(d) \in o.visited
    /\ \A k \in s.always \cap inside(o.key) : seenBy(o, k) \/ ahead(o, k)

\* What a list found.
AnswerFits(o, s) ==
    /\ \A k \in s.always \cap inside(o.key) : seenBy(o, k)
    /\ o.found \subseteq s.ever
    /\ \A v, w \in o.found : v[1] = w[1] => v = w

ClientFits(c) ==
    /\ op[c].kind \notin {"new", "mkroot"} => Root \in cols
    /\ op[c].kind = "put" => PutFits(c)
    /\ op[c].kind = "failed" => c \in lost
    /\ op[c].kind = "list" => WalkFits(op[c], since[c])
    /\ op[c].kind = "listed" => AnswerFits(op[c], since[c])

Fits ==
    /\ TreeFits
    /\ puts \in Nat /\ removals \in Nat
    /\ \A c \in Client : ClientFits(c)

-----------------------------------------------------------------------------
(* The tree *)

\* What the constants are.
LEMMA Constants ==
    /\ Root \notin Key /\ Root \notin Collection /\ IsFiniteSet(Collection)
    /\ Above \in [Key \cup Collection -> Seq(Collection)]
    /\ \A x \in Key \cup Collection : \A i \in DOMAIN Above[x] :
           Above[Above[x][i]] = SubSeq(Above[x], 1, i - 1)
    /\ MaxPuts \in Nat /\ MaxRemovals \in Nat
    /\ Listed \subseteq Collection \cup {Root}
BY WebDAVAssumption

\* The elements of a sequence.
LEMMA Elements ==
    ASSUME NEW S, NEW s \in Seq(S)
    PROVE  /\ \A e : e \in ToSet(s) <=> \E i \in 1..Len(s) : s[i] = e
           /\ ToSet(s) \subseteq S
           /\ Len(s) \in Nat
BY DEF ToSet

\* What is above x, one depth after the other.
LEMMA Places ==
    ASSUME NEW x \in Key \cup Collection, NEW i \in 1..Len(Above[x])
    PROVE  /\ Above[x][i] \in Collection
           /\ Len(Above[Above[x][i]]) = i - 1
           /\ holder(Above[x][i]) = place(x, i - 1)
           /\ ToSet(Above[Above[x][i]]) \subseteq ToSet(Above[x])
           /\ \A j \in 1..(i - 1) : Above[x][j] \in ToSet(Above[Above[x][i]])
<1> DEFINE y == Above[x][i]
<1>1. Above[x] \in Seq(Collection) /\ Len(Above[x]) \in Nat
  BY Constants
<1>2. y \in Collection /\ Above[y] \in Seq(Collection)
  BY <1>1, Constants
<1>3. Above[y] = SubSeq(Above[x], 1, i - 1)
  BY <1>1, Constants
<1>4. Len(Above[y]) = i - 1 /\ \A j \in 1..(i - 1) : Above[y][j] = Above[x][j]
  BY <1>1, <1>3
<1>5. ToSet(Above[y]) \subseteq ToSet(Above[x])
  <2>1. \A j \in 1..(i - 1) : Above[y][j] \in ToSet(Above[x])
    BY <1>1, <1>4, Elements
  <2> QED BY <1>2, <1>4, <2>1, Elements
<1>6. \A j \in 1..(i - 1) : Above[x][j] \in ToSet(Above[y])
  BY <1>2, <1>4, Elements
<1>7. CASE i = 1
  <2>1. Above[y] = <<>>
    BY <1>2, <1>4, <1>7
  <2> QED BY <1>2, <1>4, <1>5, <1>7, <2>1 DEF holder, place
<1>8. CASE i # 1
  <2>1. Above[y] # <<>> /\ Above[y][i - 1] = Above[x][i - 1]
    BY <1>2, <1>4, <1>8
  <2> QED BY <1>2, <1>4, <1>5, <1>6, <1>8, <2>1 DEF holder, place, Last
<1> QED BY <1>7, <1>8

\* The collection that holds x is the deepest above it.
LEMMA HolderIsDeepest ==
    ASSUME NEW x \in Key \cup Collection
    PROVE  /\ Len(Above[x]) \in Nat
           /\ holder(x) = place(x, Len(Above[x]))
           /\ holder(x) \in Collection \cup {Root}
           /\ Above[x] # <<>> => /\ holder(x) \in Collection
                                 /\ ToSet(Above[x]) = ToSet(Above[holder(x)]) \cup {holder(x)}
<1>1. Above[x] \in Seq(Collection) /\ Len(Above[x]) \in Nat
  BY Constants
<1>2. CASE Above[x] = <<>>
  BY <1>1, <1>2 DEF holder, place
<1>3. CASE Above[x] # <<>>
  <2>1. Len(Above[x]) \in 1..Len(Above[x]) /\ holder(x) = Above[x][Len(Above[x])]
    BY <1>1, <1>3 DEF holder, Last
  <2>2. PICK n \in 1..Len(Above[x]) : n = Len(Above[x])
    BY <2>1
  <2>3. /\ holder(x) \in Collection
        /\ ToSet(Above[holder(x)]) \subseteq ToSet(Above[x])
        /\ \A j \in 1..(n - 1) : Above[x][j] \in ToSet(Above[holder(x)])
    BY <2>1, <2>2, Places
  <2>4. \A e \in ToSet(Above[x]) : e \in ToSet(Above[holder(x)]) \cup {holder(x)}
    <3> SUFFICES ASSUME NEW j \in 1..n
                 PROVE  Above[x][j] \in ToSet(Above[holder(x)]) \cup {holder(x)}
      BY <1>1, <2>2, Elements
    <3>1. CASE j = n
      BY <2>1, <2>2, <3>1
    <3>2. CASE j # n
      BY <2>2, <2>3, <3>2
    <3> QED BY <3>1, <3>2
  <2>5. holder(x) \in ToSet(Above[x])
    BY <1>1, <2>1, Elements
  <2> QED BY <1>1, <1>3, <2>1, <2>2, <2>3, <2>4, <2>5 DEF place
<1> QED BY <1>2, <1>3

\* No collection is above x twice.
LEMMA PlacesDiffer ==
    ASSUME NEW x \in Key \cup Collection,
           NEW i \in 0..Len(Above[x]), NEW j \in 0..Len(Above[x]), place(x, i) = place(x, j)
    PROVE  i = j
<1>1. Len(Above[x]) \in Nat
  BY HolderIsDeepest
<1>2. \A n \in 1..Len(Above[x]) : place(x, n) \in Collection /\ Len(Above[place(x, n)]) = n - 1
  BY Places DEF place
<1>3. place(x, 0) = Root
  BY DEF place
<1>4. i = 0 => j = 0
  BY <1>1, <1>2, <1>3, Constants
<1>5. j = 0 => i = 0
  BY <1>1, <1>2, <1>3, Constants
<1>6. CASE i # 0 /\ j # 0
  <2>1. i \in 1..Len(Above[x]) /\ j \in 1..Len(Above[x])
    BY <1>1, <1>6
  <2>2. i - 1 = j - 1
    BY <1>2, <2>1
  <2> QED BY <2>1, <2>2, <1>1
<1> QED BY <1>1, <1>4, <1>5, <1>6

\* What is in x is in what x is in.
LEMMA InsideIsTransitive ==
    ASSUME NEW x \in Key \cup Collection, NEW y \in ToSet(Above[x]), NEW d, y \in inside(d)
    PROVE  x \in inside(d)
<1>1. PICK i \in 1..Len(Above[x]) : Above[x][i] = y
  BY Constants, Elements
<1> QED BY <1>1, Places DEF inside

-----------------------------------------------------------------------------
(* Queues *)

\* A set that is put into a sequence.
LEMMA SetAsSequence ==
    ASSUME NEW S, IsFiniteSet(S)
    PROVE  SetToSeq(S) \in Seq(S) /\ ToSet(SetToSeq(S)) = S
<1> DEFINE n == Cardinality(S)
<1>1. n \in Nat /\ ExistsBijection(1..n, S)
  BY FS_CardinalityType
<1>2. \E f \in [1..n -> S] : IsInjective(f)
  BY <1>1 DEF ExistsBijection, Bijection, Injection
<1>3. PICK q \in [1..n -> S] : q = SetToSeq(S) /\ IsInjective(q)
  BY <1>2 DEF SetToSeq
<1>4. IsFiniteSet(1..n) /\ Cardinality(1..n) = n
  BY <1>1, FS_Interval
<1>5. q \in Injection(1..n, S)
  BY <1>3 DEF Injection
<1>6. q \in Surjection(1..n, S)
  BY <1>4, <1>5, FS_Injection
<1>7. \A e \in S : \E i \in 1..n : q[i] = e
  BY <1>6 DEF Surjection
<1>8. q \in Seq(S) /\ DOMAIN q = 1..n
  BY <1>1, <1>3
<1> QED BY <1>3, <1>7, <1>8 DEF ToSet

\* Taking the first of a queue, and adding to it.
LEMMA QueueHead ==
    ASSUME NEW S, NEW s \in Seq(S), s # <<>>
    PROVE  /\ Head(s) \in S /\ Tail(s) \in Seq(S)
           /\ ToSet(s) = {Head(s)} \cup ToSet(Tail(s))
<1>1. /\ Head(s) \in S /\ Tail(s) \in Seq(S) /\ Len(s) \in Nat \ {0}
      /\ Len(Tail(s)) = Len(s) - 1 /\ \A i \in 1..Len(Tail(s)) : Tail(s)[i] = s[i + 1]
      /\ Head(s) = s[1]
  BY HeadTailProperties
<1>2. \A e \in ToSet(Tail(s)) : e \in ToSet(s)
  <2> SUFFICES ASSUME NEW e \in ToSet(Tail(s)) PROVE e \in ToSet(s)
    OBVIOUS
  <2>0. PICK t \in Seq(S) : t = Tail(s)
    BY <1>1
  <2>1. PICK i \in 1..Len(Tail(s)) : Tail(s)[i] = e
    BY <2>0, Elements
  <2>2. i + 1 \in 1..Len(s) /\ e = s[i + 1]
    BY <1>1, <2>1
  <2> QED BY <2>2, Elements
<1>3. \A e \in ToSet(s) : e = Head(s) \/ e \in ToSet(Tail(s))
  <2> SUFFICES ASSUME NEW i \in 1..Len(s) PROVE s[i] = Head(s) \/ s[i] \in ToSet(Tail(s))
    BY Elements
  <2>1. CASE i = 1
    BY <1>1, <2>1
  <2>2. CASE i # 1
    <3>1. i - 1 \in 1..Len(Tail(s)) /\ Tail(s)[i - 1] = s[i]
      BY <1>1, <2>2
    <3> QED BY <1>1, <3>1, Elements
  <2> QED BY <2>1, <2>2
<1>4. Head(s) \in ToSet(s)
  <2>1. 1 \in 1..Len(s)
    BY <1>1
  <2> QED BY <1>1, <2>1, Elements
<1> QED BY <1>1, <1>2, <1>3, <1>4

LEMMA QueueAdd ==
    ASSUME NEW S, NEW s \in Seq(S), NEW t \in Seq(S)
    PROVE  s \o t \in Seq(S) /\ ToSet(s \o t) = ToSet(s) \cup ToSet(t)
<1>1. ToSet(s) = Range(s) /\ ToSet(t) = Range(t) /\ ToSet(s \o t) = Range(s \o t)
  BY DEF ToSet, Range
<1> QED BY <1>1, RangeConcatenation

-----------------------------------------------------------------------------
(* What a step leaves as it was *)

\* What exists has its collection.
LEMMA HoldersExist ==
    ASSUME NEW x \in Key \cup Collection, NEW C, Root \in C, ToSet(Above[x]) \subseteq C
    PROVE  holder(x) \in C
<1>1. CASE Above[x] = <<>>
  BY <1>1 DEF holder
<1>2. CASE Above[x] # <<>>
  BY <1>2, HolderIsDeepest
<1> QED BY <1>1, <1>2

\* The types of what one client does.
LEMMA OperationKnown ==
    ASSUME TypeOK, NEW c \in Client
    PROVE  /\ op[c] \in Operation
           /\ since[c] \in [always : SUBSET Key, ever : SUBSET (Key \X (1..MaxPuts))]
BY DEF TypeOK, Operation

LEMMA FilesTyped ==
    ASSUME TypeOK
    PROVE  /\ files \in [Key -> 0..MaxPuts]
           /\ versions(files) \subseteq Key \X (1..MaxPuts)
           /\ existing \subseteq Key
           /\ \A v \in versions(files) : v[1] \in existing /\ v = <<v[1], files[v[1]]>>
           /\ \A k \in existing : <<k, files[k]>> \in versions(files)
<1>1. files \in [Key -> 0..MaxPuts] /\ MaxPuts \in Nat
  BY Constants DEF TypeOK
<1> QED BY <1>1 DEF versions, existing

\* A walk or an answer does not change while the files are the same.
LEMMA WalkKept ==
    ASSUME files' = files, NEW o, NEW s
    PROVE  WalkFits(o, s)' <=> WalkFits(o, s)
BY DEF WalkFits, existing, versions

\* A client that does nothing, while collections are made.
LEMMA Undisturbed ==
    ASSUME TypeOK, NEW x \in Client, ClientFits(x),
           files' = files, cols \subseteq cols',
           op'[x] = op[x], since'[x] = since[x], x \in lost' <=> x \in lost
    PROVE  ClientFits(x)'
<1>1. /\ op'[x].kind \notin {"new", "mkroot"} => Root \in cols'
      /\ op'[x].kind = "failed" => x \in lost'
  BY DEF ClientFits
<1>2. op'[x].kind = "put" => PutFits(x)'
  BY DEF ClientFits, PutFits
<1>3. op'[x].kind = "list" => WalkFits(op[x], since[x])'
  BY DEF ClientFits, WalkFits, existing, versions
<1>4. op'[x].kind = "listed" => AnswerFits(op[x], since[x])'
  BY DEF ClientFits, AnswerFits, seenBy
<1> QED BY <1>1, <1>2, <1>3, <1>4 DEF ClientFits

\* A client that does nothing, while the files change and collections go.
LEMMA Watching ==
    ASSUME TypeOK, NEW x \in Client, ClientFits(x),
           files' \in [Key -> 0..MaxPuts], Seen(files'),
           op'[x] = op[x], x \in lost => x \in lost', Root \in cols => Root \in cols',
           op[x].kind = "put" => x \in lost' \/ cols \subseteq cols'
    PROVE  ClientFits(x)'
<1>1. /\ op'[x].kind \notin {"new", "mkroot"} => Root \in cols'
      /\ op'[x].kind = "failed" => x \in lost'
  BY DEF ClientFits
<1>2. op'[x].kind = "put" => PutFits(x)'
  BY DEF ClientFits, PutFits
<1>3. CASE op[x].kind = "list"
  <2>1. since'[x] = [always |-> {k \in since[x].always : files'[k] > 0},
                     ever |-> since[x].ever \cup versions(files')]
    BY <1>3 DEF Seen
  <2>2. since'[x].always \subseteq since[x].always
    BY <2>1
  <2>3. since[x].ever \subseteq since'[x].ever /\ versions(files') \subseteq since'[x].ever
    BY <2>1
  <2>4. since'[x].always \subseteq existing'
    BY <2>1, OperationKnown DEF existing
  <2>5. WalkFits(op[x], since[x])
    BY <1>3 DEF ClientFits
  <2>6. PICK o, s : o = op'[x] /\ s = since'[x]
    OBVIOUS
  <2>7. WalkFits(o, s)'
    BY <2>2, <2>3, <2>4, <2>5, <2>6 DEF WalkFits, versions, seenBy, ahead
  <2>8. op'[x].kind = "list" => WalkFits(op[x], since[x])'
    BY <2>6, <2>7
  <2>9. op'[x].kind # "listed"
    BY <1>3
  <2> QED BY <1>1, <1>2, <2>8, <2>9 DEF ClientFits
<1>4. CASE op[x].kind # "list"
  <2>1. since'[x] = since[x]
    BY <1>4 DEF Seen
  <2>2. op'[x].kind = "listed" => AnswerFits(op[x], since[x])'
    BY <2>1 DEF ClientFits, AnswerFits, seenBy
  <2> QED BY <1>1, <1>2, <1>4, <2>2 DEF ClientFits
<1> QED BY <1>3, <1>4

\* One client goes on; nothing goes away.
LEMMA OneGoesOn ==
    ASSUME TypeOK, Fits, NEW c \in Client, NEW o \in Operation,
           NEW s \in [always : SUBSET Key, ever : SUBSET (Key \X (1..MaxPuts))],
           Do(c, o), since' = [since EXCEPT ![c] = s],
           UNCHANGED <<infinity, files, puts, removals>>,
           cols \subseteq cols', cols' \subseteq Collection \cup {Root}, TreeFits',
           lost' \subseteq Client, \A x \in Client \ {c} : x \in lost' <=> x \in lost,
           made' \in [Client -> SUBSET Collection], \A x \in Client \ {c} : made'[x] = made[x],
           made'[c] \subseteq cols' \/ c \in lost',
           op'[c] = o /\ since'[c] = s => ClientFits(c)'
    PROVE  TypeOK' /\ Fits'
<1>1. op'[c] = o /\ \A x \in Client \ {c} : op'[x] = op[x]
  BY DEF Do, TypeOK
<1>2. since'[c] = s /\ \A x \in Client \ {c} : since'[x] = since[x]
  BY DEF TypeOK
<1>3. op' \in [Client -> Operation]
  BY DEF Do, TypeOK, Operation
<1>4. since' \in [Client -> [always : SUBSET Key, ever : SUBSET (Key \X (1..MaxPuts))]]
  BY DEF TypeOK
<1>5. \A x \in Client : ClientFits(x)'
  BY <1>1, <1>2, Undisturbed DEF Fits
<1>6. \A x \in existing' \cup (cols' \ {Root}) : holder(x) \in cols'
  <2>1. existing' \cup (cols' \ {Root}) \subseteq Key \cup Collection
    BY DEF existing
  <2> QED BY <2>1, HoldersExist DEF TreeFits
<1>7. \A x \in Client : made'[x] \subseteq cols' \/ x \in lost'
  BY DEF TypeOK
<1>8. infinity' \in BOOLEAN /\ files' \in [Key -> 0..MaxPuts]
  BY DEF TypeOK
<1>9. TypeOK'
  BY <1>3, <1>4, <1>6, <1>7, <1>8 DEF TypeOK, Operation
<1> QED BY <1>5, <1>9 DEF Fits

\* The same, when nothing but what the client does and sees changes.
LEMMA OneOperation ==
    ASSUME TypeOK, Fits, NEW c \in Client, NEW o \in Operation,
           NEW s \in [always : SUBSET Key, ever : SUBSET (Key \X (1..MaxPuts))],
           Do(c, o), since' = [since EXCEPT ![c] = s],
           UNCHANGED <<infinity, cols, files, made, lost, puts, removals>>,
           op'[c] = o /\ since'[c] = s => ClientFits(c)'
    PROVE  TypeOK' /\ Fits'
<1>1. TreeFits'
  BY DEF Fits, TreeFits, existing
<1>2. /\ cols \subseteq Collection \cup {Root} /\ lost \subseteq Client
      /\ made \in [Client -> SUBSET Collection] /\ (made[c] \subseteq cols \/ c \in lost)
  BY DEF TypeOK
<1> QED BY <1>1, <1>2, OneGoesOn

-----------------------------------------------------------------------------
(* The walk *)

\* What is above a key that exists, exists.
LEMMA PlacesExist ==
    ASSUME TypeOK, TreeFits, NEW k \in existing, NEW i \in 0..Len(Above[k])
    PROVE  place(k, i) \in cols
<1>1. k \in Key /\ Above[k] \in Seq(Collection) /\ ToSet(Above[k]) \subseteq cols /\ Root \in cols
  BY Constants DEF TreeFits, existing
<1>2. CASE i = 0
  BY <1>1, <1>2 DEF place
<1>3. CASE i # 0
  <2>1. i \in 1..Len(Above[k])
    BY <1>1, <1>3
  <2> QED BY <1>1, <1>3, <2>1, Elements DEF place
<1> QED BY <1>2, <1>3

\* A collection that was visited already is passed over.
LEMMA PassOver ==
    ASSUME NEW o \in Operation, NEW s, o.kind = "list", o.queue # <<>>, WalkFits(o, s),
           NEW n \in Operation, n = [o EXCEPT !.queue = Tail(@)],
           Head(o.queue) \in o.visited
    PROVE  WalkFits(n, s)
<1>1. o.queue \in Seq(Collection \cup {Root})
  BY DEF Operation
<1>2. ToSet(o.queue) = {Head(o.queue)} \cup ToSet(n.queue)
  BY <1>1, QueueHead DEF Operation
<1>3. n.key = o.key /\ n.visited = o.visited /\ n.found = o.found
  BY DEF Operation
<1>4. ASSUME NEW k \in s.always, ahead(o, k) PROVE ahead(n, k)
  BY <1>2, <1>3, <1>4 DEF ahead
<1> QED BY <1>2, <1>3, <1>4 DEF WalkFits, seenBy

\* A collection that is gone holds none of the keys that stay.
LEMMA GoneIsEmpty ==
    ASSUME TypeOK, TreeFits,
           NEW o \in Operation, NEW s, o.kind = "list", o.queue # <<>>, WalkFits(o, s),
           NEW n \in Operation,
           n = [o EXCEPT !.queue = Tail(@), !.visited = o.visited \cup {Head(o.queue)}],
           Head(o.queue) \notin cols
    PROVE  WalkFits(n, s)
<1>1. o.queue \in Seq(Collection \cup {Root})
  BY DEF Operation
<1>2. ToSet(o.queue) = {Head(o.queue)} \cup ToSet(n.queue)
  BY <1>1, QueueHead DEF Operation
<1>3. n.key = o.key /\ n.visited = o.visited \cup {Head(o.queue)} /\ n.found = o.found
  BY DEF Operation
<1>4. ASSUME NEW k \in s.always, ahead(o, k) PROVE ahead(n, k)
  <2>1. k \in existing
    BY DEF WalkFits
  <2> QED BY <1>2, <1>3, <1>4, <2>1, PlacesExist DEF ahead
<1> QED BY <1>2, <1>3, <1>4 DEF WalkFits, seenBy

\* The files that a collection's answer names.
filesIn(d) == {x \in versions(files) : holder(x[1]) = d}

\* A collection's answer names its files, and the collections that are next on the
\* way to the files below it.
LEMMA AnswerGoesOn ==
    ASSUME TypeOK, TreeFits,
           NEW o \in Operation, NEW s, o.kind = "list", o.queue # <<>>, WalkFits(o, s),
           NEW d, d = Head(o.queue), d \in cols, d \notin o.visited,
           NEW n \in Operation,
           n = [o EXCEPT !.visited = o.visited \cup {d},
                         !.queue = Tail(@) \o SetToSeq(answer(d)),
                         !.found = @ \cup filesIn(d)]
    PROVE  WalkFits(n, s)
<1>1. o.queue \in Seq(Collection \cup {Root})
  BY DEF Operation
<1>2. n.key = o.key /\ n.visited = o.visited \cup {d} /\ n.found = o.found \cup filesIn(d)
      /\ n.queue = Tail(o.queue) \o SetToSeq(answer(d))
  BY DEF Operation
<1>3. /\ answer(d) \subseteq Collection
      /\ SetToSeq(answer(d)) \in Seq(Collection \cup {Root})
      /\ ToSet(SetToSeq(answer(d))) = answer(d)
  <2>1. answer(d) \subseteq Collection
    BY DEF answer, TypeOK
  <2>2. IsFiniteSet(answer(d))
    BY <2>1, Constants, FS_Subset
  <2>3. SetToSeq(answer(d)) \in Seq(answer(d)) /\ ToSet(SetToSeq(answer(d))) = answer(d)
    BY <2>2, SetAsSequence
  <2>4. SetToSeq(answer(d)) \in Seq(Collection \cup {Root})
    BY <2>1, <2>3, SeqMonotonic
  <2> QED BY <2>1, <2>3, <2>4
<1>4. ToSet(o.queue) = {d} \cup ToSet(Tail(o.queue)) /\ Tail(o.queue) \in Seq(Collection \cup {Root})
  BY <1>1, QueueHead
<1>5. ToSet(n.queue) = ToSet(Tail(o.queue)) \cup answer(d)
  <2>1. PICK t \in Seq(Collection \cup {Root}), a \in Seq(Collection \cup {Root}) :
            t = Tail(o.queue) /\ a = SetToSeq(answer(d))
    BY <1>3, <1>4
  <2>2. ToSet(t \o a) = ToSet(t) \cup ToSet(a)
    BY QueueAdd
  <2> QED BY <1>2, <1>3, <2>1, <2>2
<1>6. n.found \subseteq s.ever
  BY <1>2 DEF WalkFits, filesIn
<1>7. \A v, w \in n.found : v[1] = w[1] => v = w
  <2>1. \A v, w \in filesIn(d) : v[1] = w[1] => v = w
    BY FilesTyped DEF filesIn
  <2>2. \A v \in o.found, w \in filesIn(d) : v[1] # w[1]
    BY DEF WalkFits, filesIn
  <2> QED BY <1>2, <2>1, <2>2 DEF WalkFits
<1>8. \A v \in n.found : holder(v[1]) \in n.visited
  BY <1>2 DEF WalkFits, filesIn
<1>9. \A e \in ToSet(n.queue) \cup n.visited : e = n.key \/ holder(e) \in n.visited
  <2>1. \A e \in answer(d) : e = d \/ holder(e) = d
    BY DEF answer
  <2>2. d = o.key \/ holder(d) \in o.visited
    BY <1>4 DEF WalkFits
  <2> QED BY <1>2, <1>4, <1>5, <2>1, <2>2 DEF WalkFits
<1>10. ASSUME NEW k \in s.always \cap inside(o.key) PROVE seenBy(n, k) \/ ahead(n, k)
  <2>1. k \in existing /\ k \in Key /\ Len(Above[k]) \in Nat
    BY HolderIsDeepest DEF WalkFits, existing
  <2>2. CASE seenBy(o, k)
    BY <1>2, <2>2 DEF seenBy
  <2>3. CASE ahead(o, k)
    <3>1. PICK i \in 0..Len(Above[k]) :
              place(k, i) \in ToSet(o.queue) \ o.visited /\ \E j \in 0..i : place(k, j) = o.key
      BY <2>3 DEF ahead
    <3>2. PICK j \in 0..i : place(k, j) = o.key
      BY <3>1
    <3>3. CASE place(k, i) # d
      BY <1>2, <1>4, <1>5, <3>1, <3>3 DEF ahead
    <3>4. CASE place(k, i) = d /\ i = Len(Above[k])
      <4>1. <<k, files[k]>> \in filesIn(d)
        BY <2>1, <3>4, HolderIsDeepest, FilesTyped DEF filesIn
      <4> QED BY <1>2, <4>1 DEF seenBy
    <3>5. CASE place(k, i) = d /\ i # Len(Above[k])
      <4>1. i + 1 \in 1..Len(Above[k]) /\ i + 1 \in 0..Len(Above[k])
        BY <2>1, <3>5
      <4>2. PICK e : e = place(k, i + 1)
        OBVIOUS
      <4>3. e \in Collection /\ holder(e) = d
        BY <2>1, <3>5, <4>1, <4>2, Places DEF place
      <4>4. e \in cols
        BY <2>1, <4>1, <4>2, PlacesExist
      <4>5. e \in answer(d)
        BY <4>3, <4>4, Constants DEF answer
      <4>6. e # o.key
        <5>1. CASE e = o.key
          <6>1. j \in 0..Len(Above[k]) /\ j # i + 1
            BY <2>1, <3>2
          <6>2. place(k, j) = place(k, i + 1)
            BY <3>2, <4>2, <5>1
          <6> QED BY <2>1, <4>1, <6>1, <6>2, PlacesDiffer
        <5> QED BY <5>1
      <4>7. e # d
        BY <2>1, <3>5, <4>1, <4>2, PlacesDiffer
      <4>8. e \notin n.visited
        BY <1>2, <4>3, <4>6, <4>7 DEF WalkFits
      <4>9. j \in 0..(i + 1)
        BY <2>1, <3>2
      <4> QED BY <1>2, <1>5, <3>2, <4>1, <4>2, <4>5, <4>8, <4>9 DEF ahead
    <3> QED BY <3>3, <3>4, <3>5
  <2> QED BY <2>2, <2>3 DEF WalkFits
<1> QED BY <1>2, <1>6, <1>7, <1>8, <1>9, <1>10 DEF WalkFits

\* One request of a walk.
LEMMA WalkGoesOn ==
    ASSUME TypeOK, TreeFits,
           NEW o \in Operation, NEW s, o.kind = "list", o.queue # <<>>, WalkFits(o, s)
    PROVE  walk(o) \in Operation /\ walk(o).kind = "list" /\ WalkFits(walk(o), s)
<1>a. o.queue \in Seq(Collection \cup {Root})
  BY DEF Operation
<1>b. PICK d \in Collection \cup {Root} : d = Head(o.queue)
  BY <1>a, QueueHead
<1>c. PICK q \in Seq(Collection \cup {Root}) : q = Tail(o.queue)
  BY <1>a, QueueHead
<1>d. PICK v \in SUBSET (Collection \cup {Root}) : v = o.visited \cup {d}
  BY DEF Operation
<1>2. CASE d \in o.visited
  <2>1. walk(o) = [o EXCEPT !.queue = Tail(@)]
    BY <1>b, <1>2 DEF walk
  <2>2. walk(o) = [o EXCEPT !.queue = q]
    BY <1>c, <2>1 DEF Operation
  <2>3. walk(o) \in Operation /\ walk(o).kind = "list"
    BY <2>2 DEF Operation
  <2> QED BY <1>b, <1>2, <2>1, <2>3, PassOver
<1>3. CASE d \notin o.visited /\ d \notin cols
  <2>1. walk(o) = [o EXCEPT !.queue = Tail(@), !.visited = o.visited \cup {d}]
    BY <1>b, <1>3 DEF walk, gone, remember, Operation
  <2>2. walk(o) = [o EXCEPT !.queue = q, !.visited = v]
    BY <1>c, <1>d, <2>1 DEF Operation
  <2>3. walk(o) \in Operation /\ walk(o).kind = "list"
    BY <2>2 DEF Operation
  <2> QED BY <1>b, <1>3, <2>1, <2>3, GoneIsEmpty
<1>4. CASE d \notin o.visited /\ d \in cols
  <2>1. walk(o) = [o EXCEPT !.visited = o.visited \cup {d},
                            !.queue = Tail(@) \o SetToSeq(answer(d)),
                            !.found = @ \cup filesIn(d)]
    BY <1>b, <1>4 DEF walk, remember, Operation, filesIn
  <2>2. SetToSeq(answer(d)) \in Seq(Collection \cup {Root})
    <3>1. answer(d) \subseteq Collection
      BY DEF answer, TypeOK
    <3>2. IsFiniteSet(answer(d))
      BY <3>1, Constants, FS_Subset
    <3>3. SetToSeq(answer(d)) \in Seq(answer(d))
      BY <3>2, SetAsSequence
    <3> QED BY <3>1, <3>3, SeqMonotonic
  <2>3. PICK r \in Seq(Collection \cup {Root}) : r = Tail(o.queue) \o SetToSeq(answer(d))
    BY <1>c, <2>2, QueueAdd
  <2>4. PICK f \in SUBSET (Key \X (1..MaxPuts)) :
            f = o.found \cup filesIn(d)
    BY FilesTyped DEF Operation, filesIn
  <2>5. walk(o) = [o EXCEPT !.visited = v, !.queue = r, !.found = f]
    BY <1>d, <2>1, <2>3, <2>4 DEF Operation
  <2>6. walk(o) \in Operation /\ walk(o).kind = "list"
    BY <2>5 DEF Operation
  <2>7. PICK n \in Operation : n = walk(o)
    BY <2>6
  <2>8. WalkFits(n, s)
    <3>1. n = [o EXCEPT !.visited = o.visited \cup {d},
                        !.queue = Tail(@) \o SetToSeq(answer(d)),
                        !.found = @ \cup filesIn(d)]
      BY <2>1, <2>7
    <3> QED BY <1>b, <1>4, <3>1, AnswerGoesOn
  <2> QED BY <2>6, <2>7, <2>8
<1> QED BY <1>2, <1>3, <1>4

-----------------------------------------------------------------------------
(* The steps *)

\* At first there is nothing.
LEMMA InitFits == Init => TypeOK /\ Fits
<1> SUFFICES ASSUME Init PROVE TypeOK /\ Fits
  OBVIOUS
<1>1. New \in Operation /\ New.kind = "new"
  BY EmptySeq DEF New, Idle, Operation
<1>2. Nothing \in [always : SUBSET Key, ever : SUBSET (Key \X (1..MaxPuts))]
  BY DEF Nothing
<1>3. existing = {} /\ cols \ {Root} = {}
  BY DEF Init, existing
<1>4. 0 \in 0..MaxPuts
  BY Constants
<1>5. TypeOK
  BY <1>1, <1>2, <1>3, <1>4 DEF Init, TypeOK, Operation
<1>6. \A c \in Client : ClientFits(c)
  BY <1>1 DEF Init, ClientFits
<1> QED BY <1>3, <1>5, <1>6 DEF Init, Fits, TreeFits

\* What a client may be doing.
LEMMA Operations ==
    /\ Idle \in Operation /\ Idle.kind = "idle"
    /\ [New EXCEPT !.kind = "mkroot"] \in Operation
    /\ [Idle EXCEPT !.kind = "failed"] \in Operation
    /\ Nothing \in [always : SUBSET Key, ever : SUBSET (Key \X (1..MaxPuts))]
BY EmptySeq DEF New, Idle, Operation, Nothing

\* What a client sees does not change when it is given back.
LEMMA SameSince ==
    ASSUME TypeOK, NEW c \in Client
    PROVE  since = [since EXCEPT ![c] = since[c]]
BY DEF TypeOK

\* The types, when the files change.
LEMMA FilesChangeTyped ==
    ASSUME TypeOK, files' \in [Key -> 0..MaxPuts], Seen(files'), op' \in [Client -> Operation],
           infinity' = infinity, cols' \subseteq cols, made' = made, TreeFits',
           lost' \subseteq Client,
           \A x \in Client : made[x] \subseteq cols' \/ x \in lost'
    PROVE  TypeOK'
<1>1. versions(files') \subseteq Key \X (1..MaxPuts)
  BY Constants DEF versions
<1>2. PICK v \in SUBSET (Key \X (1..MaxPuts)) : v = versions(files')
  BY <1>1
<1>3. ASSUME NEW x \in Client
      PROVE  [always |-> {k \in since[x].always : files'[k] > 0}, ever |-> since[x].ever \cup v]
                 \in [always : SUBSET Key, ever : SUBSET (Key \X (1..MaxPuts))]
  BY OperationKnown
<1>4. since' \in [Client -> [always : SUBSET Key, ever : SUBSET (Key \X (1..MaxPuts))]]
  BY <1>2, <1>3, OperationKnown DEF Seen
<1>5. \A x \in existing' \cup (cols' \ {Root}) : holder(x) \in cols'
  <2>1. existing' \cup (cols' \ {Root}) \subseteq Key \cup Collection
    BY DEF existing, TypeOK
  <2> QED BY <2>1, HoldersExist DEF TreeFits
<1> QED BY <1>4, <1>5 DEF TypeOK, Operation

LEMMA BucketExistsFits ==
    ASSUME TypeOK, Fits, NEW c \in Client, BucketExists(c)
    PROVE  TypeOK' /\ Fits'
<1>1. UNCHANGED <<infinity, cols, files, made, lost, puts, removals>> /\ UNCHANGED since
  BY DEF BucketExists
<1>2. PICK o \in Operation : Do(c, o) /\ (o.kind = "mkroot" \/ (o.kind = "idle" /\ Root \in cols))
  <2>1. [New EXCEPT !.kind = "mkroot"].kind = "mkroot"
    BY DEF New, Idle
  <2> QED BY <2>1, Operations DEF BucketExists
<1>3. PICK s \in [always : SUBSET Key, ever : SUBSET (Key \X (1..MaxPuts))] : s = since[c]
  BY OperationKnown
<1>4. since' = [since EXCEPT ![c] = s]
  BY <1>1, <1>3, SameSince
<1>5. op'[c] = o => ClientFits(c)'
  BY <1>1, <1>2 DEF ClientFits
<1> QED BY <1>1, <1>2, <1>4, <1>5, OneOperation

LEMMA MakeRootFits ==
    ASSUME TypeOK, Fits, NEW c \in Client, MakeRoot(c)
    PROVE  TypeOK' /\ Fits'
<1>1. UNCHANGED <<infinity, files, made, lost, puts, removals>> /\ UNCHANGED since
      /\ Do(c, Idle) /\ cols' = cols \cup {Root}
  BY DEF MakeRoot
<1>2. PICK o \in Operation : o = Idle /\ o.kind = "idle"
  BY Operations
<1>3. PICK s \in [always : SUBSET Key, ever : SUBSET (Key \X (1..MaxPuts))] : s = since[c]
  BY OperationKnown
<1>4. since' = [since EXCEPT ![c] = s]
  BY <1>1, <1>3, SameSince
<1>5. op'[c] = o => ClientFits(c)'
  BY <1>1, <1>2 DEF ClientFits
<1>6. TreeFits'
  BY <1>1 DEF Fits, TreeFits, existing
<1>7. /\ cols \subseteq Collection \cup {Root} /\ lost \subseteq Client
      /\ made \in [Client -> SUBSET Collection] /\ (made[c] \subseteq cols \/ c \in lost)
  BY DEF TypeOK
<1> QED BY <1>1, <1>2, <1>4, <1>5, <1>6, <1>7, OneGoesOn

LEMMA StartPutFits ==
    ASSUME TypeOK, Fits, NEW c \in Client, NEW k \in Key, StartPut(c, k)
    PROVE  TypeOK' /\ Fits'
<1>1. UNCHANGED <<infinity, cols, files, made, lost, puts, removals>> /\ UNCHANGED since
      /\ Do(c, [Idle EXCEPT !.kind = "put", !.key = k, !.at = 1]) /\ Root \in cols
  BY DEF StartPut, Fits, ClientFits
<1>2. PICK o \in Operation : o = [Idle EXCEPT !.kind = "put", !.key = k, !.at = 1]
  BY EmptySeq DEF Idle, Operation
<1>3. o.kind = "put" /\ o.key = k /\ o.at = 1
  BY <1>2 DEF Idle
<1>4. PICK s \in [always : SUBSET Key, ever : SUBSET (Key \X (1..MaxPuts))] : s = since[c]
  BY OperationKnown
<1>5. since' = [since EXCEPT ![c] = s]
  BY <1>1, <1>4, SameSince
<1>6. op'[c] = o => ClientFits(c)'
  BY <1>1, <1>3 DEF ClientFits, PutFits
<1> QED BY <1>1, <1>2, <1>5, <1>6, OneOperation

\* The collection above the next one was made, or someone removed one.
LEMMA MakeCollectionFits ==
    ASSUME TypeOK, Fits, NEW c \in Client, MakeCollection(c)
    PROVE  TypeOK' /\ Fits'
<1>1. PICK k \in Key : k = op[c].key /\ op[c].kind = "put"
  BY DEF MakeCollection, Fits, ClientFits, PutFits
<1>2. PICK n \in 1..Len(Above[k]) : n = op[c].at /\ n \in Nat \ {0}
  BY <1>1, HolderIsDeepest DEF MakeCollection, Fits, ClientFits, PutFits, parents
<1>3. PICK d \in Collection : d = Above[k][n] /\ holder(d) = place(k, n - 1)
  BY Places
<1>4. /\ UNCHANGED <<infinity, files, lost, puts, removals>> /\ UNCHANGED since
      /\ Do(c, [op[c] EXCEPT !.at = n + 1])
  BY <1>2 DEF MakeCollection
<1>5. \/ d \in made[c] /\ UNCHANGED <<cols, made>>
      \/ /\ d \in cols \/ holder(d) \in cols
         /\ cols' = cols \cup {d} /\ made' = [made EXCEPT ![c] = @ \cup {d}]
      \/ d \notin cols /\ holder(d) \notin cols /\ UNCHANGED <<cols, made>>
  BY <1>1, <1>2, <1>3 DEF MakeCollection, parents
<1>6. cols \subseteq cols' /\ cols' \subseteq Collection \cup {Root}
  BY <1>5 DEF TypeOK
<1>7. /\ made' \in [Client -> SUBSET Collection] /\ \A x \in Client \ {c} : made'[x] = made[x]
      /\ made'[c] \subseteq cols' \/ c \in lost'
  <2>1. /\ made \in [Client -> SUBSET Collection] /\ lost' = lost
        /\ made[c] \subseteq cols \/ c \in lost
    BY <1>4 DEF TypeOK
  <2>2. CASE made' = made
    BY <1>6, <2>1, <2>2
  <2>3. CASE cols' = cols \cup {d} /\ made' = [made EXCEPT ![c] = @ \cup {d}]
    <3>1. PICK m \in SUBSET Collection : m = made[c] \cup {d}
      BY <2>1
    <3>2. made' = [made EXCEPT ![c] = m]
      BY <2>1, <2>3, <3>1
    <3> QED BY <2>1, <2>3, <3>1, <3>2
  <2> QED BY <1>5, <2>2, <2>3
<1>8. PICK o \in Operation : o = [op[c] EXCEPT !.at = n + 1]
  <2>1. n + 1 \in Nat
    BY <1>2
  <2> QED BY <2>1, OperationKnown DEF Operation
<1>9. o.kind = "put" /\ o.key = k /\ o.at = n + 1
  BY <1>1, <1>8, OperationKnown DEF Operation
<1>10. Root \in cols
  BY <1>1 DEF Fits, ClientFits
<1>11. PutFits(c)
  BY <1>1 DEF Fits, ClientFits
<1>12. c \notin lost => d \in cols'
  <2> SUFFICES ASSUME c \notin lost PROVE d \in cols'
    OBVIOUS
  <2>1. made[c] \subseteq cols
    BY DEF TypeOK
  <2>2. holder(d) \in cols
    <3>1. CASE n = 1
      BY <1>3, <1>10, <3>1 DEF place
    <3>2. CASE n # 1
      <4>1. n - 1 \in 1..Len(Above[k]) /\ n - 1 < n /\ n - 1 # 0
        BY <1>2, <3>2, HolderIsDeepest
      <4> QED BY <1>1, <1>2, <1>3, <1>11, <4>1 DEF PutFits, place
    <3> QED BY <3>1, <3>2
  <2> QED BY <1>5, <2>1, <2>2
<1>13. op'[c] = o => PutFits(c)'
  <2> SUFFICES ASSUME op'[c] = o, c \notin lost, NEW i \in 1..Len(Above[k]), i < n + 1
               PROVE  Above[k][i] \in cols'
    BY <1>2, <1>4, <1>9 DEF PutFits
  <2>1. CASE i = n
    BY <1>3, <1>12, <2>1
  <2>2. CASE i # n
    <3>1. i < n
      BY <1>2, <2>2, HolderIsDeepest
    <3> QED BY <1>1, <1>2, <1>6, <1>11, <3>1 DEF PutFits
  <2> QED BY <2>1, <2>2
<1>14. op'[c] = o => ClientFits(c)'
  BY <1>6, <1>9, <1>10, <1>13 DEF ClientFits
<1>15. TreeFits'
  <2>1. CASE cols' = cols
    BY <1>4, <2>1 DEF Fits, TreeFits, existing
  <2>2. CASE cols' = cols \cup {d} /\ (d \in cols \/ holder(d) \in cols)
    <3>1. ToSet(Above[d]) \subseteq cols'
      <4>1. CASE d \in cols
        BY <2>2, <4>1, Constants DEF Fits, TreeFits
      <4>2. CASE holder(d) \in cols /\ Above[d] = <<>>
        BY <4>2 DEF ToSet
      <4>3. CASE holder(d) \in cols /\ Above[d] # <<>>
        <5>1. /\ holder(d) \in Collection
              /\ ToSet(Above[d]) = ToSet(Above[holder(d)]) \cup {holder(d)}
          BY <4>3, HolderIsDeepest
        <5>2. ToSet(Above[holder(d)]) \subseteq cols
          BY <4>3, <5>1, Constants DEF Fits, TreeFits
        <5> QED BY <2>2, <4>3, <5>1, <5>2
      <4> QED BY <2>2, <4>1, <4>2, <4>3
    <3>2. existing' = existing
      BY <1>4 DEF existing
    <3> QED BY <1>10, <2>2, <3>1, <3>2 DEF Fits, TreeFits
  <2> QED BY <1>5, <2>1, <2>2
<1>16. PICK s \in [always : SUBSET Key, ever : SUBSET (Key \X (1..MaxPuts))] : s = since[c]
  BY OperationKnown
<1>17. since' = [since EXCEPT ![c] = s]
  BY <1>4, <1>16, SameSince
<1>18. lost' \subseteq Client /\ \A x \in Client \ {c} : x \in lost' <=> x \in lost
  BY <1>4 DEF TypeOK
<1> QED BY <1>4, <1>6, <1>7, <1>8, <1>14, <1>15, <1>17, <1>18, OneGoesOn

\* The collection of the file was there, or someone removed one.
LEMMA PutFileFits ==
    ASSUME TypeOK, Fits, NEW c \in Client, PutFile(c)
    PROVE  TypeOK' /\ Fits'
<1>1. PICK k \in Key : k = op[c].key /\ op[c].kind = "put" /\ op[c].at > Len(Above[k])
  BY DEF PutFile, Fits, ClientFits, PutFits, parents
<1>2. PutFits(c) /\ Root \in cols
  BY <1>1 DEF Fits, ClientFits
<1>3. UNCHANGED <<infinity, cols, made, lost, removals>> /\ puts \in Nat /\ puts < MaxPuts
  BY DEF PutFile, Fits
<1>4. CASE holder(k) \notin cols
  <2>1. Do(c, [Idle EXCEPT !.kind = "failed"]) /\ UNCHANGED <<files, puts>> /\ UNCHANGED since
    BY <1>1, <1>4 DEF PutFile
  <2>2. PICK o \in Operation : o = [Idle EXCEPT !.kind = "failed"] /\ o.kind = "failed"
    BY Operations DEF Idle
  <2>3. PICK s \in [always : SUBSET Key, ever : SUBSET (Key \X (1..MaxPuts))] : s = since[c]
    BY OperationKnown
  <2>4. since' = [since EXCEPT ![c] = s]
    BY <2>1, <2>3, SameSince
  <2>5. c \in lost
    <3> SUFFICES ASSUME c \notin lost PROVE FALSE
      OBVIOUS
    <3>1. CASE Above[k] = <<>>
      BY <1>2, <1>4, <3>1 DEF holder
    <3>2. CASE Above[k] # <<>>
      <4>1. /\ Len(Above[k]) \in 1..Len(Above[k]) /\ Above[k][Len(Above[k])] = holder(k)
            /\ Len(Above[k]) \in Nat
        BY <3>2, Constants DEF holder, Last
      <4>2. op[c].at \in Nat /\ op[c].at > Len(Above[k])
        BY <1>1, <1>2 DEF PutFits
      <4> QED BY <1>1, <1>2, <1>4, <4>1, <4>2 DEF PutFits
    <3> QED BY <3>1, <3>2
  <2>6. op'[c] = o => ClientFits(c)'
    BY <1>2, <1>3, <2>2, <2>5 DEF ClientFits
  <2> QED BY <1>3, <2>1, <2>2, <2>4, <2>6, OneOperation
<1>5. CASE holder(k) \in cols
  <2>1. /\ files' = [files EXCEPT ![k] = puts + 1] /\ puts' = puts + 1
        /\ Seen(files') /\ Do(c, Idle)
    BY <1>1, <1>5 DEF PutFile
  <2>2. PICK o \in Operation : o = Idle /\ o.kind = "idle"
    BY Operations
  <2>3. files' \in [Key -> 0..MaxPuts] /\ puts' \in Nat
    <3>1. puts + 1 \in 0..MaxPuts
      BY <1>3, Constants
    <3> QED BY <1>3, <2>1, <3>1 DEF TypeOK
  <2>4. existing' \subseteq existing \cup {k}
    BY <2>1 DEF existing, TypeOK
  <2>5. ToSet(Above[k]) \subseteq cols
    <3>1. CASE Above[k] = <<>>
      BY <3>1 DEF ToSet
    <3>2. CASE Above[k] # <<>>
      <4>1. /\ holder(k) \in Collection
            /\ ToSet(Above[k]) = ToSet(Above[holder(k)]) \cup {holder(k)}
        BY <3>2, HolderIsDeepest
      <4> QED BY <1>5, <4>1, Constants DEF Fits, TreeFits
    <3> QED BY <3>1, <3>2
  <2>6. TreeFits'
    BY <1>2, <1>3, <2>4, <2>5 DEF Fits, TreeFits
  <2>7. op'[c] = o /\ \A x \in Client \ {c} : op'[x] = op[x]
    BY <2>1, <2>2 DEF Do, TypeOK
  <2>8. ClientFits(c)'
    BY <1>2, <1>3, <2>2, <2>7 DEF ClientFits
  <2>9. ASSUME NEW x \in Client \ {c} PROVE ClientFits(x)'
    BY <1>3, <2>1, <2>3, <2>7, Watching DEF Fits
  <2>10. op' \in [Client -> Operation]
    BY <2>1, <2>2 DEF Do, TypeOK, Operation
  <2>11. lost' \subseteq Client /\ \A x \in Client : made[x] \subseteq cols' \/ x \in lost'
    BY <1>3 DEF TypeOK
  <2>12. TypeOK'
    BY <1>3, <2>1, <2>3, <2>6, <2>10, <2>11, FilesChangeTyped
  <2>13. removals' \in Nat
    BY <1>3 DEF Fits
  <2> QED BY <2>3, <2>6, <2>8, <2>9, <2>12, <2>13 DEF Fits
<1> QED BY <1>4, <1>5

LEMMA IdlesFit ==
    ASSUME TypeOK, Fits, NEW c \in Client, NoAnswer(c) \/ EndList(c)
    PROVE  TypeOK' /\ Fits'
<1>1. UNCHANGED <<infinity, cols, files, made, lost, puts, removals>> /\ Do(c, Idle)
  BY DEF NoAnswer, EndList
<1>2. PICK o \in Operation : o = Idle /\ o.kind = "idle"
  BY Operations
<1>3. Root \in cols
  BY DEF NoAnswer, EndList, Fits, ClientFits
<1>4. PICK s \in [always : SUBSET Key, ever : SUBSET (Key \X (1..MaxPuts))] :
          since' = [since EXCEPT ![c] = s]
  <2>1. CASE NoAnswer(c)
    BY <2>1, OperationKnown, SameSince DEF NoAnswer
  <2>2. CASE EndList(c)
    BY <2>2, Operations DEF EndList
  <2> QED BY <2>1, <2>2
<1>5. op'[c] = o => ClientFits(c)'
  BY <1>1, <1>2, <1>3 DEF ClientFits
<1> QED BY <1>1, <1>2, <1>4, <1>5, OneOperation

LEMMA RestartFits ==
    ASSUME TypeOK, Fits, NEW c \in Client, Restart(c)
    PROVE  TypeOK' /\ Fits'
<1>1. /\ UNCHANGED <<infinity, cols, files, puts, removals>> /\ UNCHANGED since /\ Do(c, Idle)
      /\ made' = [made EXCEPT ![c] = {}] /\ lost' = lost \ {c}
  BY DEF Restart
<1>2. PICK o \in Operation : o = Idle /\ o.kind = "idle"
  BY Operations
<1>3. Root \in cols
  BY DEF Restart, Fits, ClientFits
<1>4. PICK s \in [always : SUBSET Key, ever : SUBSET (Key \X (1..MaxPuts))] : s = since[c]
  BY OperationKnown
<1>5. since' = [since EXCEPT ![c] = s]
  BY <1>1, <1>4, SameSince
<1>6. op'[c] = o => ClientFits(c)'
  BY <1>1, <1>2, <1>3 DEF ClientFits
<1>7. TreeFits'
  BY <1>1 DEF Fits, TreeFits, existing
<1>8. /\ cols \subseteq Collection \cup {Root} /\ lost' \subseteq Client
      /\ made' \in [Client -> SUBSET Collection] /\ made'[c] = {}
      /\ \A x \in Client \ {c} : made'[x] = made[x] /\ (x \in lost' <=> x \in lost)
  BY <1>1 DEF TypeOK
<1> QED BY <1>1, <1>2, <1>5, <1>6, <1>7, <1>8, OneGoesOn

\* A list begins with everything before it.
LEMMA StartListFits ==
    ASSUME TypeOK, Fits, NEW c \in Client, NEW d \in Listed, StartList(c, d)
    PROVE  TypeOK' /\ Fits'
<1>1. UNCHANGED <<infinity, cols, files, made, lost, puts, removals>> /\ Root \in cols
      /\ Do(c, [Idle EXCEPT !.kind = "list", !.key = d, !.queue = <<d>>])
      /\ since' = [since EXCEPT ![c] = [always |-> existing, ever |-> versions(files)]]
  BY DEF StartList, Fits, ClientFits
<1>2. d \in Collection \cup {Root}
  BY Constants
<1>3. PICK q \in Seq(Collection \cup {Root}) : q = <<d>> /\ ToSet(q) = {d}
  <2>1. <<d>> \in Seq(Collection \cup {Root}) /\ <<d>> # <<>>
    BY <1>2
  <2>2. Head(<<d>>) = d /\ Tail(<<d>>) = <<>>
    OBVIOUS
  <2>3. ToSet(<<>>) = {}
    BY DEF ToSet
  <2>4. ToSet(<<d>>) = {Head(<<d>>)} \cup ToSet(Tail(<<d>>))
    BY <2>1, QueueHead
  <2> QED BY <2>1, <2>2, <2>3, <2>4
<1>4. PICK o \in Operation : o = [Idle EXCEPT !.kind = "list", !.key = d, !.queue = q]
  BY <1>2, EmptySeq DEF Idle, Operation
<1>5. o.kind = "list" /\ o.key = d /\ o.queue = q /\ o.visited = {} /\ o.found = {}
  BY <1>4 DEF Idle
<1>6. PICK s \in [always : SUBSET Key, ever : SUBSET (Key \X (1..MaxPuts))] :
          s = [always |-> existing, ever |-> versions(files)]
  BY FilesTyped
<1>7. WalkFits(o, s)
  <2>1. s.always = existing /\ s.ever = versions(files)
    BY <1>6
  <2>2. ASSUME NEW k \in s.always \cap inside(o.key) PROVE ahead(o, k)
    <3>1. k \in Key /\ Above[k] \in Seq(Collection) /\ Len(Above[k]) \in Nat
      BY <2>1, Constants DEF existing
    <3>2. PICK i \in 0..Len(Above[k]) : place(k, i) = d
      <4>1. CASE d = Root
        BY <3>1, <4>1 DEF place
      <4>2. CASE d # Root
        <5>1. d \in ToSet(Above[k])
          BY <1>5, <4>2 DEF inside
        <5>2. PICK i \in 1..Len(Above[k]) : Above[k][i] = d
          BY <3>1, <5>1, Elements
        <5> QED BY <3>1, <5>2 DEF place
      <4> QED BY <4>1, <4>2
    <3>3. i \in 0..i
      BY <3>1
    <3> QED BY <1>3, <1>5, <3>2, <3>3 DEF ahead
  <2> QED BY <1>2, <1>3, <1>5, <2>1, <2>2 DEF WalkFits
<1>8. op'[c] = o /\ since'[c] = s => ClientFits(c)'
  <2>1. WalkFits(o, s)'
    BY <1>1, <1>7, WalkKept
  <2> QED BY <1>1, <1>5, <2>1 DEF ClientFits
<1>9. Do(c, o) /\ since' = [since EXCEPT ![c] = s]
  BY <1>1, <1>3, <1>4, <1>6
<1> QED BY <1>1, <1>8, <1>9, OneOperation

LEMMA ListAtOnceFits ==
    ASSUME TypeOK, Fits, NEW c \in Client, ListAtOnce(c)
    PROVE  TypeOK' /\ Fits'
<1>1. UNCHANGED <<infinity, cols, files, made, lost, puts, removals>> /\ UNCHANGED since
      /\ op[c].kind = "list"
  BY DEF ListAtOnce
<1>2. PICK p \in Operation, s \in [always : SUBSET Key, ever : SUBSET (Key \X (1..MaxPuts))] :
          p = op[c] /\ s = since[c]
  BY OperationKnown
<1>3. WalkFits(p, s) /\ Root \in cols
  BY <1>1, <1>2 DEF Fits, ClientFits
<1>4. PICK f \in SUBSET (Key \X (1..MaxPuts)) : f = {v \in versions(files) : v[1] \in inside(p.key)}
  BY FilesTyped
<1>5. Do(c, [p EXCEPT !.kind = "listed", !.queue = <<>>, !.found = f])
  BY <1>2, <1>4 DEF ListAtOnce
<1>6. PICK o \in Operation : o = [p EXCEPT !.kind = "listed", !.queue = <<>>, !.found = f]
  BY EmptySeq DEF Operation
<1>7. o.kind = "listed" /\ o.key = p.key /\ o.found = f
  BY <1>6 DEF Operation
<1>8. AnswerFits(o, s)
  <2>1. ASSUME NEW k \in s.always \cap inside(o.key) PROVE seenBy(o, k)
    <3>1. <<k, files[k]>> \in versions(files)
      BY <1>3, FilesTyped DEF WalkFits
    <3> QED BY <1>4, <1>7, <3>1 DEF seenBy
  <2>2. o.found \subseteq s.ever
    BY <1>3, <1>4, <1>7 DEF WalkFits
  <2>3. \A v, w \in o.found : v[1] = w[1] => v = w
    BY <1>4, <1>7, FilesTyped
  <2> QED BY <2>1, <2>2, <2>3 DEF AnswerFits
<1>9. op'[c] = o /\ since'[c] = s => ClientFits(c)'
  <2>1. AnswerFits(o, s)'
    BY <1>8 DEF AnswerFits, seenBy
  <2> QED BY <1>1, <1>3, <1>7, <2>1 DEF ClientFits
<1>10. since' = [since EXCEPT ![c] = s]
  BY <1>1, <1>2, SameSince
<1> QED BY <1>1, <1>5, <1>6, <1>9, <1>10, OneOperation

\* A walk ends when nothing is ahead.
LEMMA ListOneLevelFits ==
    ASSUME TypeOK, Fits, NEW c \in Client, ListOneLevel(c)
    PROVE  TypeOK' /\ Fits'
<1>1. UNCHANGED <<infinity, cols, files, made, lost, puts, removals>> /\ UNCHANGED since
      /\ op[c].kind = "list"
  BY DEF ListOneLevel
<1>2. PICK p \in Operation, s \in [always : SUBSET Key, ever : SUBSET (Key \X (1..MaxPuts))] :
          p = op[c] /\ s = since[c]
  BY OperationKnown
<1>3. WalkFits(p, s) /\ Root \in cols /\ TreeFits
  BY <1>1, <1>2 DEF Fits, ClientFits
<1>4. since' = [since EXCEPT ![c] = s]
  BY <1>1, <1>2, SameSince
<1>5. CASE p.queue = <<>>
  <2>1. PICK o \in Operation : o = [p EXCEPT !.kind = "listed"]
    BY DEF Operation
  <2>2. Do(c, o)
    BY <1>2, <1>5, <2>1 DEF ListOneLevel
  <2>3. o.kind = "listed" /\ o.key = p.key /\ o.found = p.found
    BY <2>1 DEF Operation
  <2>4. AnswerFits(o, s)
    <3>1. ToSet(p.queue) = {}
      BY <1>5 DEF ToSet
    <3> QED BY <1>3, <2>3, <3>1 DEF WalkFits, AnswerFits, seenBy, ahead
  <2>5. op'[c] = o /\ since'[c] = s => ClientFits(c)'
    <3>1. AnswerFits(o, s)'
      BY <2>4 DEF AnswerFits, seenBy
    <3> QED BY <1>1, <1>3, <2>3, <3>1 DEF ClientFits
  <2> QED BY <1>1, <1>4, <2>2, <2>5, OneOperation
<1>6. CASE p.queue # <<>>
  <2>1. p.kind = "list"
    BY <1>1, <1>2
  <2>2. walk(p) \in Operation /\ walk(p).kind = "list" /\ WalkFits(walk(p), s)
    BY <1>3, <1>6, <2>1, WalkGoesOn
  <2>3. PICK o \in Operation : o = walk(p)
    BY <2>2
  <2>4. Do(c, o)
    BY <1>2, <1>6, <2>3 DEF ListOneLevel
  <2>5. op'[c] = o /\ since'[c] = s => ClientFits(c)'
    <3>1. WalkFits(o, s)'
      BY <1>1, <2>2, <2>3, WalkKept
    <3> QED BY <1>1, <1>3, <2>2, <2>3, <3>1 DEF ClientFits
  <2> QED BY <1>1, <1>4, <2>4, <2>5, OneOperation
<1> QED BY <1>5, <1>6

LEMMA DeleteFits ==
    ASSUME TypeOK, Fits, NEW k \in Key, Delete(k)
    PROVE  TypeOK' /\ Fits'
<1>1. /\ UNCHANGED <<infinity, cols, made, op, lost, puts>> /\ Seen(files')
      /\ files' = [files EXCEPT ![k] = 0] /\ removals' = removals + 1
  BY DEF Delete
<1>2. files' \in [Key -> 0..MaxPuts]
  BY <1>1, Constants DEF TypeOK
<1>3. existing' \subseteq existing
  BY <1>1 DEF existing, TypeOK
<1>4. TreeFits'
  BY <1>1, <1>3 DEF Fits, TreeFits
<1>5. op' \in [Client -> Operation] /\ lost' \subseteq Client
      /\ \A x \in Client : made[x] \subseteq cols' \/ x \in lost'
  BY <1>1 DEF TypeOK, Operation
<1>6. TypeOK'
  BY <1>1, <1>2, <1>4, <1>5, FilesChangeTyped
<1>7. \A x \in Client : ClientFits(x)'
  BY <1>1, <1>2, Watching DEF Fits
<1>8. puts' \in Nat /\ removals' \in Nat
  BY <1>1 DEF Fits
<1> QED BY <1>4, <1>6, <1>7, <1>8 DEF Fits

\* A collection goes with everything in it.
LEMMA RemoveCollectionFits ==
    ASSUME TypeOK, Fits, NEW d \in Collection, RemoveCollection(d)
    PROVE  TypeOK' /\ Fits'
<1>1. /\ UNCHANGED <<infinity, made, op, puts>> /\ Seen(files') /\ removals' = removals + 1
      /\ cols' = cols \ ({d} \cup inside(d))
      /\ files' = [k \in Key |-> IF k \in inside(d) THEN 0 ELSE files[k]]
      /\ lost' = lost \cup {c \in Client : made[c] \ cols' # {} \/ op[c].kind = "put"}
  BY DEF RemoveCollection
<1>2. files' \in [Key -> 0..MaxPuts]
  BY <1>1, Constants DEF TypeOK
<1>3. Root \notin {d} \cup inside(d)
  BY Constants DEF inside
<1>4. \A x \in existing' : x \in existing /\ x \notin inside(d)
  BY <1>1 DEF existing
<1>5. TreeFits'
  <2> SUFFICES ASSUME NEW x \in existing' \cup (cols' \ {Root})
               PROVE  Root \in cols' /\ ToSet(Above[x]) \subseteq cols'
    BY DEF TreeFits
  <2>1. x \in existing \cup (cols \ {Root}) /\ x \notin inside(d) /\ x \in Key \cup Collection
    BY <1>1, <1>4 DEF existing, TypeOK
  <2>2. Root \in cols /\ ToSet(Above[x]) \subseteq cols
    BY <2>1 DEF Fits, TreeFits
  <2>3. \A y \in ToSet(Above[x]) : y # d /\ y \notin inside(d)
    <3>1. d \notin ToSet(Above[x])
      BY <2>1 DEF inside
    <3>2. \A y \in ToSet(Above[x]) : y \notin inside(d)
      BY <2>1, InsideIsTransitive
    <3> QED BY <3>1, <3>2
  <2> QED BY <1>1, <1>3, <2>2, <2>3
<1>6. op' \in [Client -> Operation] /\ lost' \subseteq Client
      /\ \A x \in Client : made[x] \subseteq cols' \/ x \in lost'
  BY <1>1 DEF TypeOK, Operation
<1>7. TypeOK'
  BY <1>1, <1>2, <1>5, <1>6, FilesChangeTyped
<1>8. ASSUME NEW x \in Client PROVE ClientFits(x)'
  BY <1>1, <1>2, <1>3, Watching DEF Fits
<1>9. puts' \in Nat /\ removals' \in Nat
  BY <1>1 DEF Fits
<1> QED BY <1>5, <1>7, <1>8, <1>9 DEF Fits

\* Every step keeps the types and what fits.
LEMMA NextFits == TypeOK /\ Fits /\ [Next]_vars => TypeOK' /\ Fits'
<1> SUFFICES ASSUME TypeOK, Fits, [Next]_vars PROVE TypeOK' /\ Fits'
  OBVIOUS
<1>1. ASSUME NEW c \in Client, BucketExists(c) \/ MakeRoot(c) PROVE TypeOK' /\ Fits'
  BY <1>1, BucketExistsFits, MakeRootFits
<1>2. ASSUME NEW c \in Client, NEW k \in Key, StartPut(c, k) PROVE TypeOK' /\ Fits'
  BY <1>2, StartPutFits
<1>3. ASSUME NEW c \in Client, MakeCollection(c) PROVE TypeOK' /\ Fits'
  BY <1>3, MakeCollectionFits
<1>4. ASSUME NEW c \in Client, PutFile(c) PROVE TypeOK' /\ Fits'
  BY <1>4, PutFileFits
<1>5. ASSUME NEW c \in Client, NoAnswer(c) \/ EndList(c) PROVE TypeOK' /\ Fits'
  BY <1>5, IdlesFit
<1>6. ASSUME NEW c \in Client, Restart(c) PROVE TypeOK' /\ Fits'
  BY <1>6, RestartFits
<1>7. ASSUME NEW c \in Client, NEW d \in Listed, StartList(c, d) PROVE TypeOK' /\ Fits'
  BY <1>7, StartListFits
<1>8. ASSUME NEW c \in Client, ListStep(c) PROVE TypeOK' /\ Fits'
  BY <1>8, ListAtOnceFits, ListOneLevelFits DEF ListStep
<1>9. ASSUME NEW k \in Key, Delete(k) PROVE TypeOK' /\ Fits'
  BY <1>9, DeleteFits
<1>10. ASSUME NEW d \in Collection, RemoveCollection(d) PROVE TypeOK' /\ Fits'
  BY <1>10, RemoveCollectionFits
<1>11. CASE UNCHANGED vars
  <2>1. UNCHANGED <<infinity, cols, files, made, op, since, lost, puts, removals>>
    BY <1>11 DEF vars
  <2>2. TypeOK'
    BY <2>1 DEF TypeOK, existing
  <2>3. \A x \in Client : ClientFits(x)'
    BY <2>1, Undisturbed DEF Fits
  <2> QED BY <2>1, <2>2, <2>3 DEF Fits, TreeFits, existing
<1> QED
  BY <1>1, <1>2, <1>3, <1>4, <1>5, <1>6, <1>7, <1>8, <1>9, <1>10, <1>11 DEF Next

-----------------------------------------------------------------------------
(* The theorems *)

\* The type invariant: whatever is put, deleted, removed and listed at once, what
\* exists is in a collection that exists, and a client takes no collection for made
\* that is not there, unless someone removed one (webdav.Client).
THEOREM TypeCorrect == Spec => []TypeOK
BY InitFits, NextFits, PTL DEF Spec

\* The inductive invariant of all that follows.
THEOREM EverythingFits == Spec => []Fits
BY InitFits, NextFits, PTL DEF Spec

\* A list names every key that was there from its first request to its last: while a
\* walk goes on, a collection on the way to each such key it has not seen is waiting
\* in its queue, and a collection that is gone held none of them (listRecursive).
THEOREM ListsMissNothing == Spec => []ListMissesNothing
<1>1. Fits => ListMissesNothing
  BY DEF Fits, ClientFits, AnswerFits, ListMissesNothing, seenBy
<1> QED BY <1>1, EverythingFits, PTL

\* A list names a key once, in a version it had while the list was taken: a
\* collection is visited once (listRecursive).
THEOREM ListsInventNothing == Spec => []ListInventsNothing
<1>1. Fits => ListInventsNothing
  BY DEF Fits, ClientFits, AnswerFits, ListInventsNothing
<1> QED BY <1>1, EverythingFits, PTL

\* A put finds the collections it needs, whichever of any number of clients made them,
\* unless someone removed one since this process began (ensureParentDirs, madeDirs).
THEOREM PutsFind == Spec => []PutsFindTheirCollections
<1>1. Fits => PutsFindTheirCollections
  BY DEF Fits, ClientFits, PutsFindTheirCollections
<1> QED BY <1>1, EverythingFits, PTL
=============================================================================
