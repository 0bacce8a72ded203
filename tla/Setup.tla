------------------------------- MODULE Setup -------------------------------
(***************************************************************************)
(* Setting machines up and the encryption key they share: init.go, keys.go *)
(* and join.go of cmd/codeagent-sync, internal/crypto, internal/config,    *)
(* and storage.Probe.                                                      *)
(*                                                                         *)
(* A bucket is encrypted with one key: derived from a passphrase and the   *)
(* salt in kdf.json, or read from a key file.  keycheck.age is something   *)
(* sealed with it.  init is cut at every request to the store and at every *)
(* file it writes; machines set one bucket up at the same moment, are      *)
(* killed, and the client library may repeat a put it got no answer to.    *)
(* Left out: the questions, three tries for a passphrase (it is chosen     *)
(* when it is used), damaged objects, the contents of the first sync.      *)
(***************************************************************************)
EXTENDS Naturals, FiniteSets

CONSTANTS
    Machine, Bucket, Passphrase, KeyFile,
    None,           \* no key, no salt, no bucket
    Servers,        \* the kinds of stores there are
    MaxInits,       \* bound: runs of init
    MaxTroubles     \* bound: kills, failed requests and repeated puts

\* What a store does with the conditions of a put: whether If-None-Match counts,
\* and If-Match, which some ignore, some check only for an object being there,
\* and some can never meet (weak ETags).
Server == [create : BOOLEAN, match : {"enforced", "ignored", "exists", "never"}]

ASSUME SetupAssumption ==
    /\ None \notin Bucket \cup KeyFile
    /\ Servers \subseteq Server
    /\ MaxInits \in Nat /\ MaxTroubles \in Nat

VARIABLES
    server,     \* what kind of store a bucket is on
    exists,     \* the buckets that exist
    kdf, check, \* kdf.json's salt and the key that opens keycheck.age, by bucket
    key,        \* age-key.txt, by machine
    config,     \* config.yaml, by machine: the bucket, and what Probe found
    run,        \* init in progress, by machine
    codes,      \* the join codes made so far
    mixed,      \* history: the machines whose key file is newer than their configuration
    inits, troubles

vars == <<server, exists, kdf, check, key, config, run, codes, mixed, inits, troubles>>

\* Every machine makes a salt of its own for every bucket.
Salt == [by : Machine, bucket : Bucket]
NoSalt == [by |-> None, bucket |-> None]
Key == [secret : Passphrase, salt : Salt] \cup [secret : KeyFile, salt : {NoSalt}]
NoKey == [secret |-> None, salt |-> NoSalt]
Derive(p, salt) == [secret |-> p, salt |-> salt]
fromFile(k) == k.salt = NoSalt
NoConfig == [bucket |-> None, conditional |-> FALSE]
Code == [bucket : Bucket, key : Key \cup {NoKey}]
Idle == [step |-> "idle", bucket |-> None, file |-> NoKey, pass |-> None,
         salt |-> NoSalt, conditional |-> FALSE, key |-> NoKey]
Steps == {"idle", "bucket", "create", "probe", "params", "anyCheck", "putParams", "join",
          "getCheck", "putCheck", "verify", "writeKey", "saveConfig"}

TypeOK ==
    /\ server \in [Bucket -> Servers] /\ exists \subseteq Bucket
    /\ kdf \in [Bucket -> Salt \cup {NoSalt}] /\ check \in [Bucket -> Key \cup {NoKey}]
    /\ key \in [Machine -> Key \cup {NoKey}]
    /\ config \in [Machine -> [bucket : Bucket \cup {None}, conditional : BOOLEAN]]
    /\ \A m \in Machine : config[m].bucket # None => key[m] # NoKey
    /\ run \in [Machine -> [step : Steps, bucket : Bucket \cup {None}, file : Key \cup {NoKey},
                            pass : Passphrase \cup {None}, salt : Salt \cup {NoSalt},
                            conditional : BOOLEAN, key : Key \cup {NoKey}]]
    /\ codes \subseteq Code
    /\ mixed \subseteq Machine
    /\ inits \in 0..MaxInits /\ troubles \in 0..MaxTroubles

Init ==
    /\ server \in [Bucket -> Servers]
    /\ exists \in {{}, Bucket}
    /\ kdf = [b \in Bucket |-> NoSalt] /\ check = [b \in Bucket |-> NoKey]
    /\ key = [m \in Machine |-> NoKey]
    /\ config = [m \in Machine |-> NoConfig]
    /\ run = [m \in Machine |-> Idle]
    /\ codes = {} /\ mixed = {}
    /\ inits = MaxInits /\ troubles = MaxTroubles

-----------------------------------------------------------------------------
(* The store *)

\* A bug: an object that exists is overwritten.
acceptsAlways(b, there) == TRUE
\* A put that requires the object not to exist; a store that ignores the
\* condition overwrites it.
accepts(b, there) == ~there \/ ~server[b].create

\* A put over an object with an ETag that is the current one, or was.
acceptsMatch(s, isCurrent) ==
    \/ s.match \in {"ignored", "exists"}
    \/ s.match = "enforced" /\ isCurrent

\* A bug: the put with the stale ETag is not tried.
ConditionalWritesHalf(b, repeated) == server[b].create /\ acceptsMatch(server[b], TRUE)
\* What Probe finds: a second put of a new object must fail, one with the
\* current ETag must succeed, and one with the ETag before it must fail.  The
\* matching put loses against itself when the client library repeats it.
ConditionalWrites(b, repeated) ==
    LET createGuard == ~accepts(b, TRUE)
        matchGuard == /\ acceptsMatch(server[b], TRUE)
                      /\ repeated => acceptsMatch(server[b], FALSE)
                      /\ ~acceptsMatch(server[b], FALSE)
    IN  createGuard /\ matchGuard

-----------------------------------------------------------------------------
(* init *)

Goto(m, step) == run' = [run EXCEPT ![m].step = step]
Stop(m) == run' = [run EXCEPT ![m] = Idle]
\* A bug: the key that was found is not written to a file.
FoundUnsaved(m, k) == run' = [run EXCEPT ![m].step = "saveConfig", ![m].key = k]
Found(m, k) == run' = [run EXCEPT ![m].step = "writeKey", ![m].key = k]

stored == <<exists, kdf, check>>
saved == <<key, config>>

\* runInit: with flags or questions, a key file or not.
Begin(m, b, file) ==
    /\ run' = [run EXCEPT ![m] = [Idle EXCEPT !.step = "bucket", !.bucket = b, !.file = file]]
    /\ UNCHANGED <<key, mixed>>

\* A join code carries the bucket, and the key of one that uses a key file: it
\* is written at once, over the key of the bucket this machine may be set up for.
BeginWithCode(m, code) ==
    /\ run' = [run EXCEPT ![m] = [Idle EXCEPT !.step = "bucket", !.bucket = code.bucket, !.file = code.key]]
    /\ IF code.key = NoKey THEN UNCHANGED <<key, mixed>>
       ELSE key' = [key EXCEPT ![m] = code.key] /\ mixed' = mixed \cup {m}

\* A machine that is set up needs --force.
StartInit(m) ==
    /\ run[m].step = "idle" /\ inits > 0
    /\ inits' = inits - 1
    /\ \/ \E b \in Bucket, f \in KeyFile \cup {None} :
              Begin(m, b, IF f = None THEN NoKey ELSE [secret |-> f, salt |-> NoSalt])
       \/ \E code \in codes : BeginWithCode(m, code)
    /\ UNCHANGED <<server, stored, config, codes, troubles>>

\* ensureBucket: look, then create; who comes second may be refused.
EnsureBucket(m) ==
    /\ run[m].step \in {"bucket", "create"}
    /\ IF run[m].step = "bucket"
       THEN /\ Goto(m, IF run[m].bucket \in exists THEN "probe" ELSE "create")
            /\ UNCHANGED exists
       ELSE /\ exists' = exists \cup {run[m].bucket}
            /\ Goto(m, "probe") \/ (run[m].bucket \in exists /\ Stop(m))
    /\ UNCHANGED <<server, kdf, check, saved, codes, mixed, inits, troubles>>

ProbeStore(m) ==
    /\ run[m].step = "probe"
    /\ \E repeated \in BOOLEAN :
        /\ repeated => troubles > 0
        /\ troubles' = IF repeated THEN troubles - 1 ELSE troubles
        /\ run' = [run EXCEPT ![m].conditional = ConditionalWrites(run[m].bucket, repeated),
                              ![m].step = IF run[m].file # NoKey THEN "getCheck" ELSE "params",
                              ![m].key = run[m].file]
    /\ UNCHANGED <<server, stored, saved, codes, mixed, inits>>

\* setupKey without a key file: a bucket with kdf.json is joined, one without
\* is set up, unless it has a key check all the same.
ReadParams(m) ==
    /\ run[m].step = "params"
    /\ LET salt == kdf[run[m].bucket] IN
       run' = [run EXCEPT ![m].step = IF salt = NoSalt THEN "anyCheck" ELSE "join", ![m].salt = salt]
    /\ UNCHANGED <<server, stored, saved, codes, mixed, inits, troubles>>

\* The head of createPassphraseKey: a bucket with a key check and no parameters
\* has a key file.  A check that could not be read counts as none.
LookForKeyFile(m) ==
    /\ run[m].step = "anyCheck"
    /\ \E unread \in BOOLEAN :
        /\ unread => troubles > 0
        /\ troubles' = IF unread THEN troubles - 1 ELSE troubles
        /\ IF check[run[m].bucket] # NoKey /\ ~unread THEN Stop(m)
           ELSE \E p \in Passphrase :
                    run' = [run EXCEPT ![m].step = "putParams", ![m].pass = p]
    /\ UNCHANGED <<server, stored, saved, codes, mixed, inits>>

\* createPassphraseKey; "another machine set this bucket up at the same moment"
\* when the put fails.  A put that was repeated fails against itself.
PutParams(m) ==
    /\ run[m].step = "putParams"
    /\ LET b == run[m].bucket
           salt == [by |-> m, bucket |-> b] IN
       \E repeated \in BOOLEAN :
        /\ repeated => troubles > 0
        /\ troubles' = IF repeated THEN troubles - 1 ELSE troubles
        /\ IF accepts(b, kdf[b] # NoSalt)
           THEN /\ kdf' = [kdf EXCEPT ![b] = salt]
                /\ IF repeated /\ ~accepts(b, TRUE) THEN Stop(m)
                   ELSE run' = [run EXCEPT ![m].step = "getCheck", ![m].key = Derive(run[m].pass, salt)]
           ELSE UNCHANGED kdf /\ Stop(m)
    /\ UNCHANGED <<server, exists, check, saved, codes, mixed, inits>>

\* Joining reads kdf.json and the key check, which must both be there; a
\* passphrase that does not open the check ends init.
JoinBucket(m) ==
    /\ run[m].step = "join"
    /\ LET b == run[m].bucket IN
       IF check[b] = NoKey THEN Stop(m)
       ELSE \E p \in Passphrase :
                IF Derive(p, run[m].salt) = check[b] THEN Found(m, check[b]) ELSE Stop(m)
    /\ UNCHANGED <<server, stored, saved, codes, mixed, inits, troubles>>

\* A bug: a key check that is there is not compared.
verifiedUnseen(m) == Found(m, run[m].key)
\* VerifyKeyCheck.
verified(m) ==
    IF check[run[m].bucket] = run[m].key THEN Found(m, run[m].key) ELSE Stop(m)

\* ensureKeyCheck: verify the check, or be the one who makes it.
EnsureKeyCheck(m) ==
    /\ run[m].step \in {"getCheck", "verify"}
    /\ IF check[run[m].bucket] # NoKey THEN verified(m) ELSE Goto(m, "putCheck")
    /\ UNCHANGED <<server, stored, saved, codes, mixed, inits, troubles>>

PutCheck(m) ==
    /\ run[m].step = "putCheck"
    /\ LET b == run[m].bucket IN
       \E repeated \in BOOLEAN :
        /\ repeated => troubles > 0
        /\ troubles' = IF repeated THEN troubles - 1 ELSE troubles
        /\ IF accepts(b, check[b] # NoKey)
           THEN /\ check' = [check EXCEPT ![b] = run[m].key]
                /\ IF repeated /\ ~accepts(b, TRUE) THEN Goto(m, "verify") ELSE Found(m, run[m].key)
           ELSE UNCHANGED check /\ Goto(m, "verify")
    /\ UNCHANGED <<server, exists, kdf, saved, codes, mixed, inits>>

\* The key file first, the configuration after it.
WriteKey(m) ==
    /\ run[m].step = "writeKey"
    /\ key' = [key EXCEPT ![m] = run[m].key]
    /\ mixed' = mixed \cup {m}
    /\ Goto(m, "saveConfig")
    /\ UNCHANGED <<server, stored, config, codes, inits, troubles>>

SaveConfig(m) ==
    /\ run[m].step = "saveConfig"
    /\ config' = [config EXCEPT ![m] = [bucket |-> run[m].bucket, conditional |-> run[m].conditional]]
    /\ mixed' = mixed \ {m}
    /\ Stop(m)
    /\ UNCHANGED <<server, stored, key, codes, inits, troubles>>

\* Killed, or a request that fails.
Interrupted(m) ==
    /\ run[m].step # "idle" /\ troubles > 0
    /\ troubles' = troubles - 1
    /\ Stop(m)
    /\ UNCHANGED <<server, stored, saved, codes, mixed, inits>>

-----------------------------------------------------------------------------
(* What a machine does that is set up *)

\* A bug: any passphrase is taken.
ownPassphraseAny(m, b, p) == TRUE
\* The passphrase given is the one this machine's key comes from.
ownPassphrase(m, b, p) == Derive(p, kdf[b]) = key[m]

\* join-code.
MakeJoinCode(m) ==
    /\ config[m].bucket # None
    /\ LET b == config[m].bucket IN
       codes' = codes \cup
           IF kdf[b] = NoSalt THEN {[bucket |-> b, key |-> key[m]]}
           ELSE {[bucket |-> b, key |-> NoKey] : p \in {q \in Passphrase : ownPassphrase(m, b, q)}}
    /\ UNCHANGED <<server, stored, saved, run, mixed, inits, troubles>>

Next ==
    \E m \in Machine :
        \/ StartInit(m) \/ EnsureBucket(m) \/ ProbeStore(m)
        \/ ReadParams(m) \/ LookForKeyFile(m) \/ PutParams(m) \/ JoinBucket(m)
        \/ EnsureKeyCheck(m) \/ PutCheck(m) \/ WriteKey(m) \/ SaveConfig(m)
        \/ Interrupted(m) \/ MakeJoinCode(m)

Spec == Init /\ [][Next]_vars

-----------------------------------------------------------------------------
(* Properties *)

\* Only a store that refuses to overwrite makes one of two machines that set it
\* up at the same moment lose; Probe warns of the others.
guarded(b) == server[b].create
setUp(m) == config[m].bucket # None /\ m \notin mixed
bucketOf(m) == config[m].bucket

\* Machines that are set up with one bucket have one key, the one that opens its
\* key check, whoever set it up first, joined, lost the race or was killed
\* (setupKey, ensureKeyCheck).  Not claimed of a machine that is set up anew and
\* has written the key and not the configuration.
OneKey ==
    \A m \in Machine : setUp(m) /\ guarded(bucketOf(m)) => key[m] = check[bucketOf(m)]

\* Once a machine is set up with a key derived from a passphrase, kdf.json has the
\* salt of that key for good: the next machine derives the same one
\* (createPassphraseKey).
Joinable ==
    \A m \in Machine :
        setUp(m) /\ guarded(bucketOf(m)) /\ ~fromFile(key[m]) => kdf[bucketOf(m)] = key[m].salt

\* A join code without a key is for a bucket that its passphrase opens, even one
\* that two machines set up in different ways at once (makeJoinCode).
CodesOpen ==
    \A c \in codes :
        c.key = NoKey /\ guarded(c.bucket) =>
            \E p \in Passphrase : kdf[c.bucket] # NoSalt /\ Derive(p, kdf[c.bucket]) = check[c.bucket]

\* A machine only believes that the store keeps two machines from overwriting
\* each other when it does: neither an object that is there nor a newer version
\* can be overwritten (Probe, config.yaml).
ProbeIsRight ==
    \A m \in Machine :
        config[m].conditional =>
            LET s == server[config[m].bucket] IN s.create /\ ~acceptsMatch(s, FALSE) /\ acceptsMatch(s, TRUE)
=============================================================================
