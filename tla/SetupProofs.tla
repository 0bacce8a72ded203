---------------------------- MODULE SetupProofs ----------------------------
(***************************************************************************)
(* Proofs about Setup, for any number of machines, buckets, passphrases    *)
(* and key files, any kinds of stores and every bound.                     *)
(***************************************************************************)
EXTENDS Setup, TLAPS

RunRecord == [step : Steps, bucket : Bucket \cup {None}, file : Key \cup {NoKey},
              pass : Passphrase \cup {None}, salt : Salt \cup {NoSalt},
              conditional : BOOLEAN, key : Key \cup {NoKey}]

-----------------------------------------------------------------------------
(* The inductive invariant *)

\* A derived key is only kept after the check of the bucket its salt is for.
Verified(k) == ~fromFile(k) /\ guarded(k.salt.bucket) => k = check[k.salt.bucket]

\* What a bucket holds fits together.
BucketsFit ==
    \A b \in Bucket :
        /\ kdf[b] # NoSalt => kdf[b].bucket = b
        /\ Verified(check[b])
        /\ ~fromFile(check[b]) /\ guarded(b) => kdf[b] = check[b].salt

\* What an init in progress holds.  A key that is not a file's is the one its own
\* parameters gave it, or one that a machine was set up with before.
RunFits(r) ==
    /\ r.step # "idle" => r.bucket \in Bucket
    /\ r.step = "putParams" => r.pass \in Passphrase
    /\ Verified(r.file)
    /\ r.step # "idle" /\ ~fromFile(r.file) /\ guarded(r.bucket) => check[r.bucket] # NoKey
    /\ r.step \in {"getCheck", "putCheck", "verify"} =>
           /\ r.key # NoKey
           /\ Verified(r.key) \/ r.key.salt.bucket = r.bucket
           /\ ~fromFile(r.key) /\ guarded(r.bucket) =>
                  check[r.bucket] # NoKey \/ kdf[r.bucket] = r.key.salt
    /\ r.step \in {"writeKey", "saveConfig"} =>
           /\ r.key # NoKey
           /\ Verified(r.key)
           /\ guarded(r.bucket) => r.key = check[r.bucket]

\* What a machine has on its disk.
MachineFits(m) ==
    /\ Verified(key[m])
    /\ run[m].step = "saveConfig" => key[m] = run[m].key
    /\ config[m].bucket # None /\ guarded(bucketOf(m)) => check[bucketOf(m)] # NoKey
    /\ setUp(m) /\ guarded(bucketOf(m)) => key[m] = check[bucketOf(m)]

\* What a join code carries.
CodeFits(c) ==
    /\ Verified(c.key)
    /\ guarded(c.bucket) =>
           /\ check[c.bucket] # NoKey
           /\ c.key = NoKey =>
                  \E p \in Passphrase : kdf[c.bucket] # NoSalt /\ Derive(p, kdf[c.bucket]) = check[c.bucket]

Fits ==
    /\ BucketsFit
    /\ \A m \in Machine : RunFits(run[m]) /\ MachineFits(m)
    /\ \A c \in codes : CodeFits(c)

\* What lasts from one step to the next: parameters and checks that are there in a
\* store that does not overwrite.
Grows ==
    /\ server' = server
    /\ \A b \in Bucket : guarded(b) => /\ kdf[b] # NoSalt => kdf'[b] = kdf[b]
                                       /\ check[b] # NoKey => check'[b] = check[b]

-----------------------------------------------------------------------------
(* Keys and salts *)

\* The bounds are numbers and the empty values are none of the others.
LEMMA Constants ==
    /\ None \notin Bucket /\ None \notin KeyFile
    /\ Servers \subseteq Server
    /\ MaxInits \in Nat /\ MaxTroubles \in Nat
BY SetupAssumption

\* No key and no salt are none of the keys and salts.
LEMMA Empties == NoKey \notin Key /\ NoSalt \notin Salt
<1>1. None \notin Bucket /\ None \notin KeyFile BY Constants
<1>2. NoSalt \notin Salt BY <1>1 DEF NoSalt, Salt
<1>3. NoKey \notin [secret : Passphrase, salt : Salt] BY <1>2 DEF NoKey
<1>4. NoKey \notin [secret : KeyFile, salt : {NoSalt}] BY <1>1 DEF NoKey
<1> QED BY <1>2, <1>3, <1>4 DEF Key

\* A key that is not a file's has a passphrase and a salt of some bucket.
LEMMA DerivedKeys ==
    ASSUME NEW k \in Key \cup {NoKey}, ~fromFile(k)
    PROVE  /\ k \in Key /\ k # NoKey
           /\ k.secret \in Passphrase /\ k.salt \in Salt
           /\ k.salt # NoSalt /\ k.salt.bucket \in Bucket
           /\ k = Derive(k.secret, k.salt)
<1>1. NoKey.salt = NoSalt BY DEF NoKey
<1>2. k # NoKey BY <1>1 DEF fromFile
<1>3. k \in [secret : Passphrase, salt : Salt]
  BY <1>2 DEF Key, fromFile
<1>4. k.salt.bucket \in Bucket BY <1>3 DEF Salt
<1> QED BY <1>2, <1>3, <1>4 DEF fromFile, Key, Derive

\* A key that is derived.
LEMMA DeriveTyped ==
    ASSUME NEW p \in Passphrase, NEW s \in Salt
    PROVE  /\ Derive(p, s) \in Key /\ Derive(p, s) # NoKey
           /\ ~fromFile(Derive(p, s)) /\ Derive(p, s).salt = s
<1>1. Derive(p, s) \in Key BY DEF Derive, Key
<1>2. Derive(p, s).salt = s BY DEF Derive
<1> QED BY <1>1, <1>2, Empties DEF fromFile

-----------------------------------------------------------------------------
(* What lasts *)

\* A key that was verified stays verified.
LEMMA StaysVerified ==
    ASSUME Grows, NEW k \in Key \cup {NoKey}, Verified(k)
    PROVE  Verified(k)'
<1> SUFFICES ASSUME ~fromFile(k), guarded(k.salt.bucket) PROVE k = check'[k.salt.bucket]
  BY DEF Verified, Grows, guarded
<1>1. k # NoKey /\ k.salt.bucket \in Bucket BY DerivedKeys
<1>2. k = check[k.salt.bucket] BY DEF Verified
<1> QED BY <1>1, <1>2 DEF Grows

\* What another machine's init holds stays right.
LEMMA RunStaysFit ==
    ASSUME TypeOK, Grows, NEW r \in RunRecord, RunFits(r)
    PROVE  RunFits(r)'
<1>1. Verified(r.file) => Verified(r.file)'
  BY StaysVerified DEF RunRecord
<1>2. Verified(r.key) => Verified(r.key)'
  BY StaysVerified DEF RunRecord
<1>3. guarded(r.bucket)' <=> guarded(r.bucket)
  BY DEF Grows, guarded
<1>4. r.bucket \in Bucket /\ guarded(r.bucket) =>
          /\ check[r.bucket] # NoKey => check'[r.bucket] = check[r.bucket]
          /\ kdf[r.bucket] # NoSalt => kdf'[r.bucket] = kdf[r.bucket]
  BY DEF Grows
<1>5. r.key.salt # NoSalt \/ fromFile(r.key)
  BY DEF fromFile
<1>6. r.step # "idle" => r.bucket \in Bucket
  BY DEF RunFits
<1> QED BY <1>1, <1>2, <1>3, <1>4, <1>5, <1>6 DEF RunFits, fromFile

\* What a machine has on its disk stays right.
LEMMA MachineStaysFit ==
    ASSUME TypeOK, Grows, NEW m \in Machine, MachineFits(m),
           key'[m] = key[m], config'[m] = config[m], m \in mixed => m \in mixed',
           run'[m].step = "saveConfig" => run'[m] = run[m]
    PROVE  MachineFits(m)'
<1>1. key[m] \in Key \cup {NoKey}
  BY DEF TypeOK
<1>2. Verified(key[m])'
  BY <1>1, StaysVerified DEF MachineFits
<1>3. config[m].bucket # None => config[m].bucket \in Bucket
  BY DEF TypeOK
<1>4. guarded(config[m].bucket)' <=> guarded(config[m].bucket)
  BY DEF Grows, guarded
<1> QED BY <1>2, <1>3, <1>4 DEF MachineFits, setUp, bucketOf, Grows, Verified

\* What a join code carries stays right.
LEMMA CodeStaysFit ==
    ASSUME TypeOK, Grows, NEW c \in codes, CodeFits(c)
    PROVE  CodeFits(c)'
<1>1. c.key \in Key \cup {NoKey} /\ c.bucket \in Bucket
  BY DEF TypeOK, Code
<1>2. Verified(c.key)'
  BY <1>1, StaysVerified DEF CodeFits
<1>3. guarded(c.bucket)' <=> guarded(c.bucket)
  BY DEF Grows, guarded
<1> QED BY <1>1, <1>2, <1>3 DEF CodeFits, Grows

\* A step of one machine's init that may change the bucket but neither a disk nor
\* the codes.
LEMMA RunMoves ==
    ASSUME TypeOK, Fits, Grows, NEW m \in Machine, NEW r \in RunRecord,
           run' = [run EXCEPT ![m] = r], r.step # "saveConfig", RunFits(r)',
           exists' \subseteq Bucket, kdf' \in [Bucket -> Salt \cup {NoSalt}],
           check' \in [Bucket -> Key \cup {NoKey}], BucketsFit',
           inits' \in 0..MaxInits, troubles' \in 0..MaxTroubles,
           UNCHANGED saved, UNCHANGED <<codes, mixed>>
    PROVE  TypeOK' /\ Fits'
<1>1. run \in [Machine -> RunRecord]
  BY DEF TypeOK, RunRecord
<1>2. run' \in [Machine -> RunRecord] /\ run'[m] = r /\ \A x \in Machine \ {m} : run'[x] = run[x]
  BY <1>1
<1>3. TypeOK'
  BY <1>2 DEF TypeOK, RunRecord, Grows, saved
<1>4. ASSUME NEW x \in Machine PROVE RunFits(run[x])'
  <2>1. CASE x = m
    BY <1>2, <2>1 DEF RunFits, Verified, guarded
  <2>2. CASE x # m
    <3>1. run[x] \in RunRecord /\ RunFits(run[x]) /\ run'[x] = run[x]
      BY <1>1, <1>2, <2>2 DEF Fits
    <3>2. PICK y \in RunRecord : y = run[x]
      BY <3>1
    <3>3. RunFits(y)'
      BY <3>1, <3>2, RunStaysFit
    <3> QED BY <3>1, <3>2, <3>3 DEF RunFits, Verified, guarded
  <2> QED BY <2>1, <2>2
<1>5. ASSUME NEW x \in Machine PROVE MachineFits(x)'
  BY <1>2, MachineStaysFit DEF Fits, saved
<1>6. ASSUME NEW c \in codes PROVE CodeFits(c)'
  BY CodeStaysFit DEF Fits
<1> QED BY <1>3, <1>4, <1>5, <1>6 DEF Fits

\* A store that is left alone.
LEMMA StoreKept ==
    ASSUME TypeOK, Fits, UNCHANGED <<server, kdf, check>>
    PROVE  /\ Grows /\ BucketsFit'
           /\ kdf' \in [Bucket -> Salt \cup {NoSalt}] /\ check' \in [Bucket -> Key \cup {NoKey}]
           /\ \A k : Verified(k)' <=> Verified(k)
           /\ \A b : guarded(b)' <=> guarded(b)
BY DEF TypeOK, Fits, Grows, BucketsFit, Verified, guarded

\* An init that ends, whatever it was at.
LEMMA StopsFit ==
    ASSUME TypeOK, Fits
    PROVE  Idle \in RunRecord /\ RunFits(Idle)'
<1>1. Idle \in RunRecord
  BY DEF Idle, RunRecord, Steps
<1>2. fromFile(NoKey)
  BY DEF fromFile, NoKey
<1> QED BY <1>1, <1>2 DEF Idle, RunFits, Verified, fromFile

\* What init knows of the machine at a step.
LEMMA RunKnown ==
    ASSUME TypeOK, Fits, NEW m \in Machine
    PROVE  run[m] \in RunRecord /\ RunFits(run[m])
BY DEF TypeOK, Fits, RunRecord

\* Before there is a key, only the bucket and the key file count.
LEMMA EarlyFits ==
    ASSUME TypeOK, Fits, NEW m \in Machine, run[m].step # "idle",
           UNCHANGED <<server, kdf, check>>, NEW r \in RunRecord,
           r.bucket = run[m].bucket, r.file = run[m].file,
           r.step \in {"bucket", "create", "probe", "params", "anyCheck", "join", "putParams"},
           r.step = "putParams" => r.pass \in Passphrase
    PROVE  RunFits(r)'
<1>1. RunFits(run[m])
  BY RunKnown
<1>2. Verified(r.file)'
  BY <1>1, StoreKept DEF RunFits
<1> QED BY <1>1, <1>2, StoreKept DEF RunFits

\* The bucket is looked for, then made.
LEMMA EnsureBucketFits ==
    ASSUME TypeOK, Fits, NEW m \in Machine, EnsureBucket(m)
    PROVE  TypeOK' /\ Fits'
<1>1. run[m] \in RunRecord /\ run[m].step # "idle" /\ run[m].bucket \in Bucket
  BY RunKnown DEF EnsureBucket, RunFits
<1>2. UNCHANGED <<server, kdf, check>> /\ exists' \subseteq Bucket
  BY <1>1 DEF EnsureBucket, TypeOK
<1>3. PICK r \in {[run[m] EXCEPT !.step = "probe"], [run[m] EXCEPT !.step = "create"], Idle} :
          run' = [run EXCEPT ![m] = r]
  BY DEF EnsureBucket, Goto, Stop, TypeOK
<1>4. r \in RunRecord /\ r.step # "saveConfig" /\ RunFits(r)'
  <2>1. CASE r = Idle
    BY <2>1, StopsFit DEF Idle
  <2>2. CASE r # Idle
    <3>1. r \in RunRecord /\ r.bucket = run[m].bucket /\ r.file = run[m].file
          /\ r.step \in {"probe", "create"}
      BY <1>1, <1>3, <2>2 DEF RunRecord, Steps
    <3> QED BY <1>1, <1>2, <3>1, EarlyFits
  <2> QED BY <2>1, <2>2
<1>5. inits' \in 0..MaxInits /\ troubles' \in 0..MaxTroubles
  BY DEF EnsureBucket, TypeOK
<1> QED BY <1>2, <1>3, <1>4, <1>5, StoreKept, RunMoves DEF EnsureBucket

\* A step of an init that only reads, before there is a key.
LEMMA EarlyStep ==
    ASSUME TypeOK, Fits, NEW m \in Machine, run[m].step # "idle",
           UNCHANGED <<server, stored, saved, codes, mixed, inits>>,
           troubles' \in 0..MaxTroubles,
           NEW r \in RunRecord, run' = [run EXCEPT ![m] = r],
           \/ r = Idle
           \/ /\ r.bucket = run[m].bucket /\ r.file = run[m].file
              /\ r.step \in {"bucket", "create", "probe", "params", "anyCheck", "join", "putParams"}
              /\ r.step = "putParams" => r.pass \in Passphrase
    PROVE  TypeOK' /\ Fits'
<1>1. UNCHANGED <<server, kdf, check>> /\ exists' \subseteq Bucket
  BY DEF stored, TypeOK
<1>2. r.step # "saveConfig" /\ RunFits(r)'
  <2>1. CASE r = Idle
    BY <2>1, StopsFit DEF Idle
  <2>2. CASE r # Idle
    BY <1>1, <2>2, EarlyFits
  <2> QED BY <2>1, <2>2
<1>3. inits' \in 0..MaxInits
  BY DEF TypeOK
<1> QED BY <1>1, <1>2, <1>3, StoreKept, RunMoves

\* Whether Probe warns is a truth value.
LEMMA ProbeTyped == \A b, repeated : ConditionalWrites(b, repeated) \in BOOLEAN
BY DEF ConditionalWrites

\* Probe; with a key file there is a key now.
LEMMA ProbeStoreFits ==
    ASSUME TypeOK, Fits, NEW m \in Machine, ProbeStore(m)
    PROVE  TypeOK' /\ Fits'
<1>1. run[m] \in RunRecord /\ RunFits(run[m]) /\ run[m].step # "idle"
  BY RunKnown DEF ProbeStore
<1>2. PICK c \in BOOLEAN : run' = [run EXCEPT ![m] =
          [run[m] EXCEPT !.conditional = c, !.key = run[m].file,
                         !.step = IF run[m].file # NoKey THEN "getCheck" ELSE "params"]]
  <2>1. PICK repeated \in BOOLEAN :
            run' = [run EXCEPT ![m].conditional = ConditionalWrites(run[m].bucket, repeated),
                               ![m].step = IF run[m].file # NoKey THEN "getCheck" ELSE "params",
                               ![m].key = run[m].file]
    BY DEF ProbeStore
  <2>2. PICK c \in BOOLEAN : c = ConditionalWrites(run[m].bucket, repeated)
    BY ProbeTyped
  <2> QED BY <2>1, <2>2 DEF TypeOK
<1>3. PICK r \in RunRecord :
          /\ r.bucket = run[m].bucket /\ r.file = run[m].file /\ r.key = run[m].file
          /\ r.step = IF run[m].file # NoKey THEN "getCheck" ELSE "params"
          /\ run' = [run EXCEPT ![m] = r]
  <2> DEFINE n == [run[m] EXCEPT !.conditional = c, !.key = run[m].file,
                                 !.step = IF run[m].file # NoKey THEN "getCheck" ELSE "params"]
  <2>1. /\ n \in RunRecord /\ n.bucket = run[m].bucket /\ n.file = run[m].file
        /\ n.key = run[m].file
        /\ n.step = IF run[m].file # NoKey THEN "getCheck" ELSE "params"
    BY <1>1, <1>2 DEF RunRecord, Steps
  <2>2. run' = [run EXCEPT ![m] = n]
    BY <1>2
  <2> QED BY <2>1, <2>2
<1>4. /\ UNCHANGED <<server, stored, saved, codes, mixed, inits>>
      /\ troubles' \in 0..MaxTroubles
  BY Constants DEF ProbeStore, TypeOK
<1>5. UNCHANGED <<server, kdf, check>> /\ exists' \subseteq Bucket
  BY <1>4 DEF stored, TypeOK
<1>6. RunFits(r)'
  <2>1. Verified(r.file)' /\ Verified(r.key)'
    BY <1>1, <1>3, <1>5, StoreKept DEF RunFits
  <2> QED BY <1>1, <1>3, <1>5, <2>1, StoreKept DEF RunFits
<1>7. r.step # "saveConfig" /\ inits' \in 0..MaxInits
  BY <1>3, <1>4 DEF TypeOK
<1> QED BY <1>3, <1>4, <1>5, <1>6, <1>7, StoreKept, RunMoves

\* Whether the bucket has parameters, or a key check without them.
LEMMA ReadFits ==
    ASSUME TypeOK, Fits, NEW m \in Machine, ReadParams(m) \/ LookForKeyFile(m)
    PROVE  TypeOK' /\ Fits'
<1>1. run[m] \in RunRecord /\ run[m].step # "idle" /\ run[m].bucket \in Bucket
  BY RunKnown DEF ReadParams, LookForKeyFile, RunFits
<1>2. UNCHANGED <<server, stored, saved, codes, mixed, inits>> /\ troubles' \in 0..MaxTroubles
  <2>1. UNCHANGED <<server, stored, saved, codes, mixed, inits>>
    BY DEF ReadParams, LookForKeyFile
  <2>2. \/ troubles' = troubles
        \/ troubles > 0 /\ troubles' = troubles - 1
    BY Zenon DEF ReadParams, LookForKeyFile
  <2> QED BY <2>1, <2>2, SetupAssumption DEF TypeOK
<1>3. CASE ReadParams(m)
  <2> DEFINE r == [run[m] EXCEPT !.step = IF kdf[run[m].bucket] = NoSalt THEN "anyCheck" ELSE "join",
                                 !.salt = kdf[run[m].bucket]]
  <2>1. kdf[run[m].bucket] \in Salt \cup {NoSalt}
    BY <1>1 DEF TypeOK
  <2>2. run' = [run EXCEPT ![m] = r]
    BY <1>3 DEF ReadParams, TypeOK
  <2>3. /\ r \in RunRecord /\ r.bucket = run[m].bucket /\ r.file = run[m].file
        /\ r.step \in {"anyCheck", "join"}
    BY <1>1, <2>1 DEF RunRecord, Steps
  <2> QED BY <1>1, <1>2, <2>2, <2>3, EarlyStep
<1>4. CASE run' = [run EXCEPT ![m] = Idle]
  BY <1>1, <1>2, <1>4, StopsFit, EarlyStep
<1>5. ASSUME NEW p \in Passphrase,
             run' = [run EXCEPT ![m].step = "putParams", ![m].pass = p]
      PROVE  TypeOK' /\ Fits'
  <2> DEFINE r == [run[m] EXCEPT !.step = "putParams", !.pass = p]
  <2>2. run' = [run EXCEPT ![m] = r]
    BY <1>5 DEF TypeOK
  <2>3. /\ r \in RunRecord /\ r.bucket = run[m].bucket /\ r.file = run[m].file
        /\ r.step = "putParams" /\ r.pass \in Passphrase
    BY <1>1 DEF RunRecord, Steps
  <2> QED BY <1>1, <1>2, <2>2, <2>3, EarlyStep
<1>6. CASE LookForKeyFile(m)
  <2>1. \/ run' = [run EXCEPT ![m] = Idle]
        \/ \E p \in Passphrase : run' = [run EXCEPT ![m].step = "putParams", ![m].pass = p]
    BY <1>6, Zenon DEF LookForKeyFile, Stop
  <2> QED BY <1>4, <1>5, <2>1
<1> QED BY <1>3, <1>6

\* New parameters: a store that does not overwrite takes them only where there are
\* none, so no key check is derived from others.
LEMMA PutParamsFits ==
    ASSUME TypeOK, Fits, NEW m \in Machine, PutParams(m)
    PROVE  TypeOK' /\ Fits'
<1>1. /\ run[m] \in RunRecord /\ RunFits(run[m]) /\ run[m].step = "putParams"
      /\ run[m].bucket \in Bucket /\ run[m].pass \in Passphrase
  BY RunKnown DEF PutParams, RunFits
<1>b. PICK b \in Bucket : b = run[m].bucket
  BY <1>1
<1>2. PICK salt \in Salt : salt = [by |-> m, bucket |-> b] /\ salt.bucket = b
  <2>1. [by |-> m, bucket |-> b] \in Salt /\ [by |-> m, bucket |-> b].bucket = b
    BY DEF Salt
  <2> QED BY <2>1
<1>3. PICK k \in Key : k = Derive(run[m].pass, salt) /\ k # NoKey /\ k.salt = salt /\ salt # NoSalt
  BY <1>1, DeriveTyped, Empties
<1>4. /\ UNCHANGED <<server, exists, check, saved, codes, mixed, inits>>
      /\ troubles' \in 0..MaxTroubles
      /\ \/ UNCHANGED kdf /\ Stop(m)
         \/ /\ accepts(b, kdf[b] # NoSalt) /\ kdf' = [kdf EXCEPT ![b] = salt]
            /\ \/ Stop(m)
               \/ run' = [run EXCEPT ![m].step = "getCheck", ![m].key = k]
  <2>1. PICK repeated \in BOOLEAN :
            /\ repeated => troubles > 0
            /\ troubles' = IF repeated THEN troubles - 1 ELSE troubles
            /\ IF accepts(b, kdf[b] # NoSalt)
               THEN /\ kdf' = [kdf EXCEPT ![b] = salt]
                    /\ IF repeated /\ ~accepts(b, TRUE) THEN Stop(m)
                       ELSE run' = [run EXCEPT ![m].step = "getCheck", ![m].key = k]
               ELSE UNCHANGED kdf /\ Stop(m)
    BY <1>b, <1>2, <1>3, Zenon DEF PutParams
  <2>2. troubles' \in 0..MaxTroubles
    BY <2>1, Constants DEF TypeOK
  <2>3. UNCHANGED <<server, exists, check, saved, codes, mixed, inits>>
    BY DEF PutParams
  <2>4. CASE accepts(b, kdf[b] # NoSalt)
    BY <2>1, <2>2, <2>3, <2>4, Zenon
  <2>5. CASE ~accepts(b, kdf[b] # NoSalt)
    BY <2>1, <2>2, <2>3, <2>5, Zenon
  <2> QED BY <2>4, <2>5
<1>5. CASE UNCHANGED kdf /\ Stop(m)
  BY <1>1, <1>4, <1>5, StopsFit, EarlyStep DEF stored, Stop
<1>6. CASE /\ accepts(b, kdf[b] # NoSalt) /\ kdf' = [kdf EXCEPT ![b] = salt]
           /\ \/ Stop(m)
              \/ run' = [run EXCEPT ![m].step = "getCheck", ![m].key = k]
  <2>1. kdf' \in [Bucket -> Salt \cup {NoSalt}] /\ kdf'[b] = salt
        /\ \A x \in Bucket \ {b} : kdf'[x] = kdf[x]
    BY <1>1, <1>2, <1>6 DEF TypeOK
  <2>2. guarded(b) => kdf[b] = NoSalt
    BY <1>6 DEF accepts, guarded
  <2>3. Grows
    BY <1>4, <2>1, <2>2 DEF Grows
  <2>4. BucketsFit'
    <3>1. ASSUME NEW x \in Bucket PROVE Verified(check[x])'
      <4>1. PICK y \in Key \cup {NoKey} : y = check[x] /\ y = check'[x]
        BY <1>4 DEF TypeOK
      <4>2. Verified(y)'
        BY <2>3, <4>1, StaysVerified DEF Fits, BucketsFit
      <4> QED BY <4>1, <4>2 DEF Verified
    <3>2. \A x \in Bucket : guarded(x)' <=> guarded(x)
      BY <1>4 DEF guarded
    <3>3. guarded(b) => fromFile(check[b])
      BY <1>1, <2>2 DEF Fits, BucketsFit, fromFile
    <3> QED BY <1>2, <1>4, <2>1, <3>1, <3>2, <3>3 DEF Fits, BucketsFit, Verified
  <2>5. check' \in [Bucket -> Key \cup {NoKey}] /\ exists' \subseteq Bucket /\ inits' \in 0..MaxInits
    BY <1>4 DEF TypeOK
  <2>6. CASE Stop(m)
    BY <1>4, <2>1, <2>3, <2>4, <2>5, <2>6, StopsFit, RunMoves DEF Stop, Idle
  <2>7. CASE run' = [run EXCEPT ![m].step = "getCheck", ![m].key = k]
    <3>1. PICK r \in RunRecord : /\ r.step = "getCheck" /\ r.key = k
                                 /\ r.bucket = b /\ r.file = run[m].file
                                 /\ run' = [run EXCEPT ![m] = r]
      <4> DEFINE n == [run[m] EXCEPT !.step = "getCheck", !.key = k]
      <4>1. run' = [run EXCEPT ![m] = n]
        BY <2>7 DEF TypeOK
      <4>2. /\ n \in RunRecord /\ n.step = "getCheck" /\ n.key = k
            /\ n.bucket = b /\ n.file = run[m].file
        BY <1>1, <1>b DEF RunRecord, Steps
      <4> QED BY <4>1, <4>2
    <3>3. RunFits(r)'
      <4>1. Verified(r.file)'
        BY <1>1, <2>3, <3>1, StaysVerified DEF RunFits, RunRecord
      <4>2. guarded(b)' <=> guarded(b)
        BY <1>4 DEF guarded
      <4> QED BY <1>b, <1>1, <1>2, <1>3, <1>4, <2>1, <3>1, <4>1, <4>2 DEF RunFits
    <3> QED BY <1>4, <2>1, <2>3, <2>4, <2>5, <3>1, <3>3, RunMoves
  <2> QED BY <1>6, <2>6, <2>7
<1> QED BY <1>4, <1>5, <1>6

\* A key that the bucket's check confirms.
LEMMA FoundFits ==
    ASSUME TypeOK, Fits, NEW m \in Machine, run[m].step # "idle",
           UNCHANGED <<server, stored, saved, codes, mixed, inits, troubles>>,
           NEW k \in Key \cup {NoKey}, k # NoKey, check[run[m].bucket] = k, Found(m, k)
    PROVE  TypeOK' /\ Fits'
<1>1. run[m] \in RunRecord /\ RunFits(run[m]) /\ run[m].bucket \in Bucket
  BY RunKnown DEF RunFits
<1>2. PICK r \in RunRecord : /\ r.step = "writeKey" /\ r.key = k
                             /\ r.bucket = run[m].bucket /\ r.file = run[m].file
                             /\ run' = [run EXCEPT ![m] = r]
  <2> DEFINE n == [run[m] EXCEPT !.step = "writeKey", !.key = k]
  <2>1. run' = [run EXCEPT ![m] = n]
    BY DEF Found, TypeOK
  <2>2. /\ n \in RunRecord /\ n.step = "writeKey" /\ n.key = k
        /\ n.bucket = run[m].bucket /\ n.file = run[m].file
    BY <1>1 DEF RunRecord, Steps
  <2> QED BY <2>1, <2>2
<1>3. UNCHANGED <<server, kdf, check>> /\ exists' \subseteq Bucket
  BY DEF stored, TypeOK
<1>4. RunFits(r)'
  <2>1. Verified(r.file)'
    BY <1>1, <1>2, <1>3, StoreKept DEF RunFits
  <2>2. Verified(k)'
    BY <1>1, <1>3, StoreKept DEF Fits, BucketsFit
  <2> QED BY <1>1, <1>2, <1>3, <2>1, <2>2, StoreKept DEF RunFits
<1>5. inits' \in 0..MaxInits /\ troubles' \in 0..MaxTroubles
  BY DEF TypeOK
<1> QED BY <1>2, <1>3, <1>4, <1>5, StoreKept, RunMoves

\* Joining ends with the key of the bucket's check or not at all.
LEMMA JoinBucketFits ==
    ASSUME TypeOK, Fits, NEW m \in Machine, JoinBucket(m)
    PROVE  TypeOK' /\ Fits'
<1>1. run[m] \in RunRecord /\ run[m].step # "idle" /\ run[m].bucket \in Bucket
  BY RunKnown DEF JoinBucket, RunFits
<1>2. UNCHANGED <<server, stored, saved, codes, mixed, inits, troubles>> /\ troubles' \in 0..MaxTroubles
  BY DEF JoinBucket, TypeOK
<1>3. CASE Stop(m)
  BY <1>1, <1>2, <1>3, StopsFit, EarlyStep DEF Stop
<1>4. CASE check[run[m].bucket] # NoKey /\ Found(m, check[run[m].bucket])
  <2>1. PICK k \in Key \cup {NoKey} : k = check[run[m].bucket]
    BY <1>1 DEF TypeOK
  <2> QED BY <1>1, <1>2, <1>4, <2>1, FoundFits
<1> QED BY <1>3, <1>4 DEF JoinBucket

\* A key check that is there decides; where there is none one is made.
LEMMA EnsureKeyCheckFits ==
    ASSUME TypeOK, Fits, NEW m \in Machine, EnsureKeyCheck(m)
    PROVE  TypeOK' /\ Fits'
<1>1. run[m] \in RunRecord /\ RunFits(run[m]) /\ run[m].step \in {"getCheck", "verify"}
      /\ run[m].bucket \in Bucket
  BY RunKnown DEF EnsureKeyCheck, RunFits
<1>2. UNCHANGED <<server, stored, saved, codes, mixed, inits, troubles>> /\ troubles' \in 0..MaxTroubles
  BY DEF EnsureKeyCheck, TypeOK
<1>3. CASE Stop(m)
  BY <1>1, <1>2, <1>3, StopsFit, EarlyStep DEF Stop
<1>4. CASE /\ check[run[m].bucket] # NoKey /\ check[run[m].bucket] = run[m].key
           /\ Found(m, run[m].key)
  <2>1. PICK k \in Key \cup {NoKey} : k = run[m].key
    BY <1>1 DEF RunRecord
  <2> QED BY <1>1, <1>2, <1>4, <2>1, FoundFits
<1>5. CASE check[run[m].bucket] = NoKey /\ Goto(m, "putCheck")
  <2>1. PICK r \in RunRecord : /\ r.step = "putCheck" /\ r.key = run[m].key
                               /\ r.bucket = run[m].bucket /\ r.file = run[m].file
                               /\ run' = [run EXCEPT ![m] = r]
    <3> DEFINE n == [run[m] EXCEPT !.step = "putCheck"]
    <3>1. run' = [run EXCEPT ![m] = n]
      BY <1>5 DEF Goto, TypeOK
    <3>2. /\ n \in RunRecord /\ n.step = "putCheck" /\ n.key = run[m].key
          /\ n.bucket = run[m].bucket /\ n.file = run[m].file
      BY <1>1 DEF RunRecord, Steps
    <3> QED BY <3>1, <3>2
  <2>2. UNCHANGED <<server, kdf, check>> /\ exists' \subseteq Bucket
    BY <1>2 DEF stored, TypeOK
  <2>3. RunFits(r)'
    <3>1. Verified(r.file)' /\ (Verified(r.key)' \/ r.key.salt.bucket = r.bucket)
      BY <1>1, <2>1, <2>2, StoreKept DEF RunFits
    <3> QED BY <1>1, <2>1, <2>2, <3>1, StoreKept DEF RunFits
  <2>4. inits' \in 0..MaxInits
    BY <1>2 DEF TypeOK
  <2> QED BY <1>2, <2>1, <2>2, <2>3, <2>4, StoreKept, RunMoves
<1> QED BY <1>3, <1>4, <1>5 DEF EnsureKeyCheck, verified

\* A key check is made: a store that does not overwrite takes it only where there
\* is none, and the key is the one of the parameters the bucket has.
LEMMA PutCheckFits ==
    ASSUME TypeOK, Fits, NEW m \in Machine, PutCheck(m)
    PROVE  TypeOK' /\ Fits'
<1>1. /\ run[m] \in RunRecord /\ RunFits(run[m]) /\ run[m].step = "putCheck"
      /\ run[m].bucket \in Bucket
  BY RunKnown DEF PutCheck, RunFits
<1>2. PICK b \in Bucket : b = run[m].bucket
  BY <1>1
<1>3. PICK k \in Key \cup {NoKey} : k = run[m].key /\ k # NoKey
  BY <1>1 DEF RunRecord, RunFits
<1>4. /\ UNCHANGED <<server, exists, kdf, saved, codes, mixed, inits>>
      /\ troubles' \in 0..MaxTroubles
      /\ \/ UNCHANGED check /\ Goto(m, "verify")
         \/ /\ accepts(b, check[b] # NoKey) /\ check' = [check EXCEPT ![b] = k]
            /\ Goto(m, "verify") \/ Found(m, k)
  <2>1. PICK repeated \in BOOLEAN :
            /\ repeated => troubles > 0
            /\ troubles' = IF repeated THEN troubles - 1 ELSE troubles
            /\ IF accepts(b, check[b] # NoKey)
               THEN /\ check' = [check EXCEPT ![b] = k]
                    /\ IF repeated /\ ~accepts(b, TRUE) THEN Goto(m, "verify") ELSE Found(m, k)
               ELSE UNCHANGED check /\ Goto(m, "verify")
    BY <1>2, <1>3, Zenon DEF PutCheck
  <2>2. troubles' \in 0..MaxTroubles
    BY <2>1, Constants DEF TypeOK
  <2>3. UNCHANGED <<server, exists, kdf, saved, codes, mixed, inits>>
    BY DEF PutCheck
  <2>4. CASE accepts(b, check[b] # NoKey)
    BY <2>1, <2>2, <2>3, <2>4, Zenon
  <2>5. CASE ~accepts(b, check[b] # NoKey)
    BY <2>1, <2>2, <2>3, <2>5, Zenon
  <2> QED BY <2>4, <2>5
<1>5. PICK r \in RunRecord :
          /\ r.key = k /\ r.bucket = b /\ r.file = run[m].file
          /\ run' = [run EXCEPT ![m] = r]
          /\ \/ r.step = "verify"
             \/ r.step = "writeKey" /\ check'[b] = k
  <2>1. CASE Goto(m, "verify")
    <3> DEFINE n == [run[m] EXCEPT !.step = "verify"]
    <3>1. run' = [run EXCEPT ![m] = n]
      BY <2>1 DEF Goto, TypeOK
    <3>2. /\ n \in RunRecord /\ n.step = "verify" /\ n.key = k
          /\ n.bucket = b /\ n.file = run[m].file
      BY <1>1, <1>2, <1>3 DEF RunRecord, Steps
    <3> QED BY <3>1, <3>2
  <2>2. CASE Found(m, k) /\ check' = [check EXCEPT ![b] = k]
    <3> DEFINE n == [run[m] EXCEPT !.step = "writeKey", !.key = k]
    <3>1. run' = [run EXCEPT ![m] = n] /\ check'[b] = k
      BY <2>2 DEF Found, TypeOK
    <3>2. /\ n \in RunRecord /\ n.step = "writeKey" /\ n.key = k
          /\ n.bucket = b /\ n.file = run[m].file
      BY <1>1, <1>2 DEF RunRecord, Steps
    <3> QED BY <3>1, <3>2
  <2> QED BY <1>4, <2>1, <2>2
<1>6. /\ check' \in [Bucket -> Key \cup {NoKey}] /\ \A x \in Bucket \ {b} : check'[x] = check[x]
      /\ \/ check'[b] = check[b]
         \/ check'[b] = k /\ (guarded(b) => check[b] = NoKey)
  BY <1>4 DEF TypeOK, accepts, guarded
<1>7. Grows
  BY <1>4, <1>6 DEF Grows
<1>8. \A x : guarded(x)' <=> guarded(x)
  BY <1>4 DEF guarded
<1>9. Verified(k)' \/ k.salt.bucket = b
  BY <1>1, <1>2, <1>3, <1>7, StaysVerified DEF RunFits
<1>10. ~fromFile(k) /\ guarded(b) => check[b] # NoKey \/ kdf[b] = k.salt
  BY <1>1, <1>2, <1>3 DEF RunFits
<1>11. BucketsFit'
  <2>1. ASSUME NEW x \in Bucket, check'[x] = check[x]
        PROVE  Verified(check[x])'
    <3>1. PICK y \in Key \cup {NoKey} : y = check[x]
      BY DEF TypeOK
    <3>2. Verified(y)'
      BY <1>7, <3>1, StaysVerified DEF Fits, BucketsFit
    <3> QED BY <2>1, <3>1, <3>2 DEF Verified
  <2>2. check'[b] = k => Verified(check[b])'
    BY <1>9 DEF Verified
  <2>3. check'[b] = k /\ (guarded(b) => check[b] = NoKey) /\ ~fromFile(check'[b]) /\ guarded(b)
            => kdf[b] = check'[b].salt
    BY <1>10
  <2>4. kdf' = kdf
    BY <1>4
  <2> QED BY <1>6, <1>8, <2>1, <2>2, <2>3, <2>4 DEF Fits, BucketsFit
<1>12. RunFits(r)'
  <2>1. Verified(r.file)'
    BY <1>1, <1>5, <1>7, StaysVerified DEF RunFits, RunRecord
  <2>2. ~fromFile(k) /\ guarded(b) => check'[b] # NoKey \/ kdf'[b] = k.salt
    BY <1>3, <1>4, <1>6, <1>10
  <2>3. check'[b] = k => Verified(k)'
    BY <1>9 DEF Verified
  <2>4. ~fromFile(r.file) /\ guarded(b) => check'[b] # NoKey
    BY <1>1, <1>2, <1>3, <1>5, <1>6 DEF RunFits
  <2> QED BY <1>3, <1>5, <1>8, <1>9, <2>1, <2>2, <2>3, <2>4 DEF RunFits, fromFile
<1> QED BY <1>4, <1>5, <1>6, <1>7, <1>11, <1>12, RunMoves DEF TypeOK

\* Killed, or a request that fails.
LEMMA InterruptedFits ==
    ASSUME TypeOK, Fits, NEW m \in Machine, Interrupted(m)
    PROVE  TypeOK' /\ Fits'
<1>1. troubles' \in 0..MaxTroubles /\ UNCHANGED <<server, stored, saved, codes, mixed, inits>>
  BY Constants DEF Interrupted, TypeOK
<1>2. run[m].step # "idle" /\ run' = [run EXCEPT ![m] = Idle]
  BY DEF Interrupted, Stop
<1> QED BY <1>1, <1>2, StopsFit, EarlyStep

\* A step of one machine that may change its disk and add a code, not the store.
LEMMA DiskMoves ==
    ASSUME TypeOK, Fits, NEW m \in Machine, NEW r \in RunRecord,
           run' = [run EXCEPT ![m] = r], RunFits(r)', UNCHANGED <<server, stored>>,
           key' \in [Machine -> Key \cup {NoKey}],
           config' \in [Machine -> [bucket : Bucket \cup {None}, conditional : BOOLEAN]],
           \A x \in Machine \ {m} : key'[x] = key[x] /\ config'[x] = config[x] /\ (x \in mixed => x \in mixed'),
           config'[m].bucket # None => key'[m] # NoKey,
           MachineFits(m)', mixed' \subseteq Machine,
           codes' \subseteq Code, \A c \in codes' \ codes : CodeFits(c)',
           inits' \in 0..MaxInits, troubles' \in 0..MaxTroubles
    PROVE  TypeOK' /\ Fits'
<1>1. run \in [Machine -> RunRecord]
  BY DEF TypeOK, RunRecord
<1>2. run' \in [Machine -> RunRecord] /\ run'[m] = r /\ \A x \in Machine \ {m} : run'[x] = run[x]
  BY <1>1
<1>3. UNCHANGED <<server, kdf, check>> /\ exists' = exists
  BY DEF stored
<1>4. Grows /\ BucketsFit'
  BY <1>3, StoreKept
<1>5. TypeOK'
  <2>1. \A x \in Machine : config'[x].bucket # None => key'[x] # NoKey
    BY DEF TypeOK
  <2> QED BY <1>2, <1>3, <2>1 DEF TypeOK, RunRecord
<1>6. ASSUME NEW x \in Machine PROVE RunFits(run[x])'
  <2>1. CASE x = m
    BY <1>2, <2>1 DEF RunFits, Verified, guarded
  <2>2. CASE x # m
    <3>1. PICK y \in RunRecord : y = run[x] /\ RunFits(y) /\ run'[x] = y
      BY <1>1, <1>2, <2>2 DEF Fits
    <3>2. RunFits(y)'
      BY <1>4, <3>1, RunStaysFit
    <3> QED BY <3>1, <3>2 DEF RunFits, Verified, guarded
  <2> QED BY <2>1, <2>2
<1>7. ASSUME NEW x \in Machine PROVE MachineFits(x)'
  <2>1. CASE x # m
    BY <1>2, <1>4, <2>1, MachineStaysFit DEF Fits
  <2> QED BY <2>1
<1>8. ASSUME NEW c \in codes' PROVE CodeFits(c)'
  BY <1>4, CodeStaysFit DEF Fits
<1> QED BY <1>4, <1>5, <1>6, <1>7, <1>8 DEF Fits

\* The key file is written: the machine's key is the one that was found.
LEMMA WriteKeyFits ==
    ASSUME TypeOK, Fits, NEW m \in Machine, WriteKey(m)
    PROVE  TypeOK' /\ Fits'
<1>1. /\ run[m] \in RunRecord /\ RunFits(run[m]) /\ run[m].step = "writeKey"
      /\ run[m].bucket \in Bucket
  BY RunKnown DEF WriteKey, RunFits
<1>2. PICK k \in Key \cup {NoKey} : k = run[m].key /\ k # NoKey /\ Verified(k)
  BY <1>1 DEF RunRecord, RunFits
<1>3. PICK r \in RunRecord : /\ r.step = "saveConfig" /\ r.key = k
                             /\ r.bucket = run[m].bucket /\ r.file = run[m].file
                             /\ run' = [run EXCEPT ![m] = r]
  <2> DEFINE n == [run[m] EXCEPT !.step = "saveConfig"]
  <2>1. run' = [run EXCEPT ![m] = n]
    BY DEF WriteKey, Goto, TypeOK
  <2>2. /\ n \in RunRecord /\ n.step = "saveConfig" /\ n.key = k
        /\ n.bucket = run[m].bucket /\ n.file = run[m].file
    BY <1>1, <1>2 DEF RunRecord, Steps
  <2> QED BY <2>1, <2>2
<1>4. UNCHANGED <<server, stored, config, codes, inits, troubles>>
  BY DEF WriteKey
<1>5. UNCHANGED <<server, kdf, check>>
  BY <1>4 DEF stored
<1>6. RunFits(r)'
  <2>1. Verified(r.file)' /\ Verified(k)'
    BY <1>1, <1>2, <1>3, <1>5, StoreKept DEF RunFits
  <2> QED BY <1>1, <1>2, <1>3, <1>5, <2>1, StoreKept DEF RunFits
<1>7. key' = [key EXCEPT ![m] = k] /\ mixed' = mixed \cup {m}
  BY <1>2 DEF WriteKey
<1>8. /\ key' \in [Machine -> Key \cup {NoKey}] /\ key'[m] = k
      /\ \A x \in Machine \ {m} : key'[x] = key[x]
      /\ run'[m] = r
  BY <1>3, <1>7 DEF TypeOK, RunRecord
<1>9. MachineFits(m)'
  <2>1. Verified(k)'
    BY <1>2, <1>5, StoreKept
  <2>2. config[m].bucket # None /\ guarded(config[m].bucket) => check[config[m].bucket] # NoKey
    BY DEF Fits, MachineFits, bucketOf
  <2>3. guarded(config[m].bucket)' <=> guarded(config[m].bucket)
    BY <1>4 DEF guarded
  <2>4. m \in mixed'
    BY <1>7
  <2> QED BY <1>3, <1>4, <1>5, <1>8, <2>1, <2>2, <2>3, <2>4 DEF MachineFits, setUp, bucketOf, Verified
<1>10. /\ config' \in [Machine -> [bucket : Bucket \cup {None}, conditional : BOOLEAN]]
       /\ mixed' \subseteq Machine /\ codes' \subseteq Code /\ codes' = codes
       /\ inits' \in 0..MaxInits /\ troubles' \in 0..MaxTroubles
  BY <1>4, <1>7 DEF TypeOK
<1> QED BY <1>2, <1>3, <1>4, <1>6, <1>7, <1>8, <1>9, <1>10, DiskMoves

\* The configuration is written: the machine is set up with the key of its bucket.
LEMMA SaveConfigFits ==
    ASSUME TypeOK, Fits, NEW m \in Machine, SaveConfig(m)
    PROVE  TypeOK' /\ Fits'
<1>1. /\ run[m] \in RunRecord /\ RunFits(run[m]) /\ run[m].step = "saveConfig"
      /\ run[m].bucket \in Bucket
  BY RunKnown DEF SaveConfig, RunFits
<1>2. PICK k \in Key \cup {NoKey} : /\ k = run[m].key /\ k # NoKey /\ Verified(k) /\ key[m] = k
                                    /\ guarded(run[m].bucket) => k = check[run[m].bucket]
  BY <1>1 DEF RunRecord, RunFits, Fits, MachineFits
<1>3. PICK b \in Bucket : b = run[m].bucket
  BY <1>1
<1>4. UNCHANGED <<server, stored, key, codes, inits, troubles>>
  BY DEF SaveConfig
<1>5. UNCHANGED <<server, kdf, check>>
  BY <1>4 DEF stored
<1>6. run' = [run EXCEPT ![m] = Idle] /\ run'[m].step = "idle"
  BY DEF SaveConfig, Stop, TypeOK, Idle
<1>7. /\ config' \in [Machine -> [bucket : Bucket \cup {None}, conditional : BOOLEAN]]
      /\ config'[m].bucket = b /\ \A x \in Machine \ {m} : config'[x] = config[x]
  <2>1. [bucket |-> b, conditional |-> run[m].conditional] \in [bucket : Bucket \cup {None}, conditional : BOOLEAN]
    BY <1>1 DEF RunRecord
  <2>2. config' = [config EXCEPT ![m] = [bucket |-> b, conditional |-> run[m].conditional]]
    BY <1>3 DEF SaveConfig
  <2> QED BY <2>1, <2>2 DEF TypeOK
<1>8. mixed' \subseteq Machine /\ \A x \in Machine \ {m} : x \in mixed => x \in mixed'
  BY DEF SaveConfig, TypeOK
<1>9. MachineFits(m)'
  <2>1. Verified(k)'
    BY <1>2, <1>5, StoreKept
  <2>2. guarded(b)' => check'[b] = k
    BY <1>2, <1>3, <1>5, StoreKept
  <2>3. key'[m] = k
    BY <1>2, <1>4
  <2> QED BY <1>2, <1>6, <1>7, <2>1, <2>2, <2>3 DEF MachineFits, setUp, bucketOf, Verified, guarded
<1>10. /\ key' \in [Machine -> Key \cup {NoKey}] /\ key'[m] # NoKey
       /\ codes' \subseteq Code /\ codes' = codes
       /\ inits' \in 0..MaxInits /\ troubles' \in 0..MaxTroubles
  BY <1>2, <1>4 DEF TypeOK
<1> QED BY <1>4, <1>6, <1>7, <1>8, <1>9, <1>10, StopsFit, DiskMoves

\* init begins, from what the user types or from a join code.
LEMMA StartInitFits ==
    ASSUME TypeOK, Fits, NEW m \in Machine, StartInit(m)
    PROVE  TypeOK' /\ Fits'
<1>1. UNCHANGED <<server, stored, config, codes, troubles>> /\ inits' \in 0..MaxInits
  BY Constants DEF StartInit, TypeOK
<1>2. UNCHANGED <<server, kdf, check>>
  BY <1>1 DEF stored
<1>3. PICK b \in Bucket, k \in Key \cup {NoKey} :
          /\ run' = [run EXCEPT ![m] = [Idle EXCEPT !.step = "bucket", !.bucket = b, !.file = k]]
          /\ Verified(k)
          /\ ~fromFile(k) /\ guarded(b) => check[b] # NoKey
          /\ \/ UNCHANGED <<key, mixed>>
             \/ k # NoKey /\ key' = [key EXCEPT ![m] = k] /\ mixed' = mixed \cup {m}
  <2>1. CASE \E b \in Bucket, f \in KeyFile \cup {None} :
                 Begin(m, b, IF f = None THEN NoKey ELSE [secret |-> f, salt |-> NoSalt])
    <3>1. PICK b \in Bucket, f \in KeyFile \cup {None} :
              Begin(m, b, IF f = None THEN NoKey ELSE [secret |-> f, salt |-> NoSalt])
      BY <2>1
    <3>2. PICK k \in Key \cup {NoKey} :
              k = IF f = None THEN NoKey ELSE [secret |-> f, salt |-> NoSalt]
      BY DEF Key
    <3>3. fromFile(k)
      BY <3>2 DEF fromFile, NoKey
    <3> QED BY <3>1, <3>2, <3>3 DEF Begin, Verified
  <2>2. CASE \E code \in codes : BeginWithCode(m, code)
    <3>1. PICK code \in codes : BeginWithCode(m, code)
      BY <2>2
    <3>2. code.bucket \in Bucket /\ code.key \in Key \cup {NoKey} /\ CodeFits(code)
      BY DEF TypeOK, Code, Fits
    <3> QED BY <3>1, <3>2 DEF BeginWithCode, CodeFits
  <2> QED BY <2>1, <2>2 DEF StartInit
<1>4. PICK r \in RunRecord : /\ run' = [run EXCEPT ![m] = r]
                             /\ r.step = "bucket" /\ r.bucket = b /\ r.file = k
  <2> DEFINE n == [Idle EXCEPT !.step = "bucket", !.bucket = b, !.file = k]
  <2>1. n \in RunRecord /\ n.step = "bucket" /\ n.bucket = b /\ n.file = k
    BY StopsFit DEF Idle, RunRecord, Steps
  <2> QED BY <1>3, <2>1
<1>5. RunFits(r)'
  BY <1>2, <1>3, <1>4, StoreKept DEF RunFits
<1>6. /\ key' \in [Machine -> Key \cup {NoKey}] /\ \A x \in Machine \ {m} : key'[x] = key[x]
      /\ mixed' \subseteq Machine /\ mixed \subseteq mixed'
      /\ run'[m] = r
      /\ \/ key'[m] = key[m]
         \/ key'[m] = k /\ k # NoKey /\ m \in mixed'
  BY <1>3, <1>4 DEF TypeOK, RunRecord
<1>7. MachineFits(m)'
  <2>1. key[m] \in Key \cup {NoKey} /\ Verified(key[m])
    BY DEF TypeOK, Fits, MachineFits
  <2>2. Verified(key'[m])
    BY <1>3, <1>6, <2>1
  <2>3. Verified(key[m])'
    BY <1>2, <2>2 DEF Verified, guarded
  <2>4. /\ config[m].bucket # None /\ guarded(config[m].bucket) => check[config[m].bucket] # NoKey
        /\ setUp(m) /\ guarded(config[m].bucket) => key[m] = check[config[m].bucket]
    BY DEF Fits, MachineFits, bucketOf
  <2> QED BY <1>1, <1>2, <1>4, <1>6, <2>3, <2>4 DEF MachineFits, setUp, bucketOf, guarded
<1>8. config'[m].bucket # None => key'[m] # NoKey
  BY <1>1, <1>6 DEF TypeOK
<1>9. /\ config' \in [Machine -> [bucket : Bucket \cup {None}, conditional : BOOLEAN]]
      /\ codes' \subseteq Code /\ codes' = codes /\ troubles' \in 0..MaxTroubles
      /\ \A x \in Machine \ {m} : config'[x] = config[x]
  BY <1>1 DEF TypeOK
<1> QED BY <1>1, <1>4, <1>5, <1>6, <1>7, <1>8, <1>9, DiskMoves

\* A join code: the passphrase that is asked for gives the machine's key, with the
\* salt of the bucket, so it opens the bucket's check.
LEMMA MakeJoinCodeFits ==
    ASSUME TypeOK, Fits, NEW m \in Machine, MakeJoinCode(m)
    PROVE  TypeOK' /\ Fits'
<1>1. UNCHANGED <<server, stored, saved, run, mixed, inits, troubles>>
  BY DEF MakeJoinCode
<1>2. UNCHANGED <<server, kdf, check>> /\ UNCHANGED <<key, config, run, mixed>>
  BY <1>1 DEF stored, saved
<1>3. PICK b \in Bucket : b = config[m].bucket
  BY DEF MakeJoinCode, TypeOK
<1>4. guarded(b) => check[b] # NoKey
  BY <1>3, Constants DEF Fits, MachineFits, bucketOf
<1>5. ASSUME NEW c \in codes' \ codes PROVE c \in Code /\ CodeFits(c)
  <2>1. CASE kdf[b] = NoSalt
    <3>1. c = [bucket |-> b, key |-> key[m]]
      BY <1>3, <1>5, <2>1 DEF MakeJoinCode
    <3>2. key[m] # NoKey /\ key[m] \in Key \cup {NoKey} /\ Verified(key[m])
      BY <1>3, Constants DEF TypeOK, Fits, MachineFits
    <3> QED BY <1>4, <3>1, <3>2 DEF CodeFits, Code
  <2>2. CASE kdf[b] # NoSalt
    <3>1. c = [bucket |-> b, key |-> NoKey]
          /\ \E q \in Passphrase : ownPassphrase(m, b, q)
      BY <1>3, <1>5, <2>2 DEF MakeJoinCode
    <3>2. PICK q \in Passphrase : Derive(q, kdf[b]) = key[m]
      BY <3>1 DEF ownPassphrase
    <3>3. kdf[b] \in Salt /\ kdf[b].bucket = b
      BY <2>2 DEF TypeOK, Fits, BucketsFit
    <3>4. ~fromFile(key[m]) /\ key[m].salt = kdf[b]
      BY <3>2, <3>3, DeriveTyped
    <3>5. guarded(b) => key[m] = check[b]
      BY <3>3, <3>4 DEF Fits, MachineFits, Verified
    <3>6. Verified(NoKey)
      BY DEF Verified, fromFile, NoKey
    <3> QED BY <1>4, <2>2, <3>1, <3>2, <3>5, <3>6 DEF CodeFits, Code
  <2> QED BY <2>1, <2>2
<1>6. codes' \subseteq Code
  BY <1>5 DEF TypeOK
<1>7. TypeOK'
  BY <1>1, <1>2, <1>6 DEF TypeOK, stored
<1>8. \A c \in codes' : CodeFits(c)'
  BY <1>2, <1>5 DEF Fits, CodeFits, Verified, guarded
<1>9. BucketsFit' /\ \A x \in Machine : RunFits(run[x])' /\ MachineFits(x)'
  BY <1>2 DEF Fits, BucketsFit, RunFits, MachineFits, Verified, guarded, setUp, bucketOf
<1> QED BY <1>7, <1>8, <1>9 DEF Fits

\* At first nothing is there.
LEMMA InitFits == Init => TypeOK /\ Fits
<1> SUFFICES ASSUME Init PROVE TypeOK /\ Fits
  OBVIOUS
<1>1. Idle \in RunRecord /\ fromFile(NoKey)
  BY DEF Idle, RunRecord, Steps, fromFile, NoKey
<1>2. /\ \A b \in Bucket : kdf[b] = NoSalt /\ check[b] = NoKey
      /\ \A m \in Machine : key[m] = NoKey /\ config[m] = NoConfig /\ run[m] = Idle
      /\ codes = {} /\ mixed = {}
  BY DEF Init
<1>3. NoConfig.bucket = None /\ NoConfig \in [bucket : Bucket \cup {None}, conditional : BOOLEAN]
  BY DEF NoConfig
<1>4. BucketsFit
  BY <1>1, <1>2 DEF BucketsFit, Verified
<1>5. ASSUME NEW m \in Machine PROVE RunFits(run[m]) /\ MachineFits(m)
  BY <1>1, <1>2, <1>3 DEF RunFits, MachineFits, Verified, Idle, setUp, bucketOf
<1>6. TypeOK
  <2>1. kdf \in [Bucket -> Salt \cup {NoSalt}] /\ check \in [Bucket -> Key \cup {NoKey}]
    BY DEF Init
  <2>2. run \in [Machine -> RunRecord] /\ key \in [Machine -> Key \cup {NoKey}]
    BY <1>1 DEF Init
  <2>3. config \in [Machine -> [bucket : Bucket \cup {None}, conditional : BOOLEAN]]
    BY <1>3 DEF Init
  <2>4. server \in [Bucket -> Servers] /\ exists \subseteq Bucket
    BY DEF Init
  <2>5. inits \in 0..MaxInits /\ troubles \in 0..MaxTroubles
    BY Constants DEF Init
  <2> QED BY <1>2, <1>3, <2>1, <2>2, <2>3, <2>4, <2>5 DEF TypeOK, RunRecord
<1> QED BY <1>2, <1>4, <1>5, <1>6 DEF Fits

\* Every step keeps the types and what fits.
LEMMA NextFits == TypeOK /\ Fits /\ [Next]_vars => TypeOK' /\ Fits'
<1> SUFFICES ASSUME TypeOK, Fits, [Next]_vars PROVE TypeOK' /\ Fits'
  OBVIOUS
<1>1. ASSUME NEW m \in Machine, StartInit(m) PROVE TypeOK' /\ Fits'
  BY <1>1, StartInitFits
<1>2. ASSUME NEW m \in Machine, EnsureBucket(m) PROVE TypeOK' /\ Fits'
  BY <1>2, EnsureBucketFits
<1>3. ASSUME NEW m \in Machine, ProbeStore(m) PROVE TypeOK' /\ Fits'
  BY <1>3, ProbeStoreFits
<1>4. ASSUME NEW m \in Machine, ReadParams(m) \/ LookForKeyFile(m) PROVE TypeOK' /\ Fits'
  BY <1>4, ReadFits
<1>5. ASSUME NEW m \in Machine, PutParams(m) PROVE TypeOK' /\ Fits'
  BY <1>5, PutParamsFits
<1>6. ASSUME NEW m \in Machine, JoinBucket(m) PROVE TypeOK' /\ Fits'
  BY <1>6, JoinBucketFits
<1>7. ASSUME NEW m \in Machine, EnsureKeyCheck(m) PROVE TypeOK' /\ Fits'
  BY <1>7, EnsureKeyCheckFits
<1>8. ASSUME NEW m \in Machine, PutCheck(m) PROVE TypeOK' /\ Fits'
  BY <1>8, PutCheckFits
<1>9. ASSUME NEW m \in Machine, WriteKey(m) PROVE TypeOK' /\ Fits'
  BY <1>9, WriteKeyFits
<1>10. ASSUME NEW m \in Machine, SaveConfig(m) PROVE TypeOK' /\ Fits'
  BY <1>10, SaveConfigFits
<1>11. ASSUME NEW m \in Machine, Interrupted(m) PROVE TypeOK' /\ Fits'
  BY <1>11, InterruptedFits
<1>12. ASSUME NEW m \in Machine, MakeJoinCode(m) PROVE TypeOK' /\ Fits'
  BY <1>12, MakeJoinCodeFits
<1>13. CASE UNCHANGED vars
  <2>1. /\ UNCHANGED <<server, exists, kdf, check>> /\ UNCHANGED <<key, config, run, mixed>>
        /\ UNCHANGED <<codes, inits, troubles>>
    BY <1>13 DEF vars
  <2>2. TypeOK'
    BY <2>1 DEF TypeOK
  <2>3. BucketsFit' /\ \A c \in codes' : CodeFits(c)'
    BY <2>1 DEF Fits, BucketsFit, CodeFits, Verified, guarded
  <2>4. \A x \in Machine : RunFits(run[x])' /\ MachineFits(x)'
    BY <2>1 DEF Fits, RunFits, MachineFits, Verified, guarded, setUp, bucketOf
  <2> QED BY <2>2, <2>3, <2>4 DEF Fits
<1> QED
  BY <1>1, <1>2, <1>3, <1>4, <1>5, <1>6, <1>7, <1>8, <1>9, <1>10, <1>11, <1>12, <1>13 DEF Next

-----------------------------------------------------------------------------
(* The theorems *)

\* The type invariant: what a store, a disk, an init in progress and a join code can
\* be, and that a machine with a configuration has a key, wherever init is killed.
THEOREM TypeCorrect == Spec => []TypeOK
BY InitFits, NextFits, PTL DEF Spec

\* The inductive invariant of all that follows.
THEOREM EverythingFits == Spec => []Fits
BY InitFits, NextFits, PTL DEF Spec

\* Machines that are set up with one bucket have one key, the one that opens its key
\* check, whoever set it up first, joined, lost the race or was killed, in any store
\* that does not overwrite (setupKey, ensureKeyCheck).
THEOREM OneKeyForAll == Spec => []OneKey
<1>1. Fits => OneKey
  BY DEF Fits, MachineFits, OneKey
<1> QED BY <1>1, EverythingFits, PTL

\* The salt of a machine's derived key is the one in kdf.json, for good: the next
\* machine with that passphrase derives the same key (createPassphraseKey).
THEOREM JoinableForGood == Spec => []Joinable
<1>1. TypeOK /\ Fits => Joinable
  <2> SUFFICES ASSUME TypeOK, Fits, NEW m \in Machine, setUp(m), guarded(bucketOf(m)),
                      ~fromFile(key[m])
               PROVE  kdf[bucketOf(m)] = key[m].salt
    BY DEF Joinable
  <2>1. bucketOf(m) \in Bucket
    BY DEF setUp, bucketOf, TypeOK
  <2> QED BY <2>1 DEF Fits, MachineFits, BucketsFit
<1> QED BY <1>1, TypeCorrect, EverythingFits, PTL

\* A join code without a key is for a bucket that its passphrase opens, even one
\* that two machines set up in different ways at once (makeJoinCode).
THEOREM EveryCodeOpens == Spec => []CodesOpen
<1>1. Fits => CodesOpen
  BY DEF Fits, CodeFits, CodesOpen
<1> QED BY <1>1, EverythingFits, PTL

\* What Probe found was right when it found it, and stores do not change their kind.
ProbesWereRight ==
    /\ \A m \in Machine : run[m].conditional => ConditionalWrites(run[m].bucket, FALSE)
    /\ ProbeIsRight

\* A machine only believes that the store keeps two machines from overwriting each
\* other when it does, also when the client library repeated Probe's puts (Probe,
\* config.yaml).
THEOREM ProbesAreRight == Spec => []ProbeIsRight
<1>1. Init => ProbesWereRight
  <2> SUFFICES ASSUME Init PROVE ProbesWereRight
    OBVIOUS
  <2>1. \A m \in Machine : ~run[m].conditional /\ ~config[m].conditional
    BY DEF Init, Idle, NoConfig
  <2> QED BY <2>1 DEF ProbesWereRight, ProbeIsRight
<1>2. TypeOK /\ ProbesWereRight /\ [Next]_vars => ProbesWereRight'
  <2> SUFFICES ASSUME TypeOK, ProbesWereRight, [Next]_vars PROVE ProbesWereRight'
    OBVIOUS
  <2>1. ASSUME server' = server,
               \A m \in Machine : run'[m].conditional =>
                   \/ run[m].conditional /\ run'[m].bucket = run[m].bucket
                   \/ ConditionalWrites(run'[m].bucket, FALSE),
               \A m \in Machine : config'[m].conditional =>
                   \/ config'[m] = config[m]
                   \/ run[m].conditional /\ config'[m].bucket = run[m].bucket
        PROVE  ProbesWereRight'
    <3>1. \A b : ConditionalWrites(b, FALSE)' <=> ConditionalWrites(b, FALSE)
      BY <2>1 DEF ConditionalWrites, accepts, acceptsMatch
    <3>2. \A m \in Machine : run'[m].conditional => ConditionalWrites(run'[m].bucket, FALSE)
      BY <2>1 DEF ProbesWereRight
    <3>3. \A b : ConditionalWrites(b, FALSE) <=>
                     /\ server[b].create
                     /\ ~acceptsMatch(server[b], FALSE) /\ acceptsMatch(server[b], TRUE)
      BY DEF ConditionalWrites, accepts
    <3>4. ASSUME NEW m \in Machine, config'[m].conditional
          PROVE  ConditionalWrites(config'[m].bucket, FALSE)
      BY <2>1, <3>3, <3>4 DEF ProbesWereRight, ProbeIsRight
    <3> QED BY <2>1, <3>1, <3>2, <3>3, <3>4 DEF ProbesWereRight, ProbeIsRight, acceptsMatch
  <2>2. ASSUME NEW m \in Machine, ProbeStore(m) PROVE ProbesWereRight'
    <3>a. PICK repeated \in BOOLEAN :
              run' = [run EXCEPT ![m].conditional = ConditionalWrites(run[m].bucket, repeated),
                                 ![m].step = IF run[m].file # NoKey THEN "getCheck" ELSE "params",
                                 ![m].key = run[m].file]
      BY <2>2 DEF ProbeStore
    <3>b. PICK c \in BOOLEAN : c = ConditionalWrites(run[m].bucket, repeated)
      BY ProbeTyped
    <3>1. run' = [run EXCEPT ![m].conditional = c,
                             ![m].step = IF run[m].file # NoKey THEN "getCheck" ELSE "params",
                             ![m].key = run[m].file]
      BY <3>a, <3>b
    <3>2. c => ConditionalWrites(run[m].bucket, FALSE)
      BY <3>b DEF ConditionalWrites
    <3>3. run'[m].conditional = c /\ run'[m].bucket = run[m].bucket
          /\ \A x \in Machine \ {m} : run'[x] = run[x]
      BY <3>1 DEF TypeOK
    <3>4. server' = server /\ config' = config
      BY <2>2 DEF ProbeStore, saved
    <3> QED BY <2>1, <3>2, <3>3, <3>4
  <2>3. ASSUME NEW m \in Machine, SaveConfig(m) PROVE ProbesWereRight'
    <3>1. /\ server' = server
          /\ run' = [run EXCEPT ![m] = Idle]
          /\ config' = [config EXCEPT ![m] = [bucket |-> run[m].bucket, conditional |-> run[m].conditional]]
      BY <2>3 DEF SaveConfig, Stop
    <3> QED BY <2>1, <3>1 DEF TypeOK, Idle
  <2>4. ASSUME NEW m \in Machine, StartInit(m) PROVE ProbesWereRight'
    <3>1. UNCHANGED <<server, config>>
      BY <2>4 DEF StartInit
    <3>a. PICK b, k :
              run' = [run EXCEPT ![m] = [Idle EXCEPT !.step = "bucket", !.bucket = b, !.file = k]]
      <4>1. CASE \E b \in Bucket, f \in KeyFile \cup {None} :
                     Begin(m, b, IF f = None THEN NoKey ELSE [secret |-> f, salt |-> NoSalt])
        BY <4>1, Zenon DEF Begin
      <4>2. CASE \E code \in codes : BeginWithCode(m, code)
        BY <4>2, Zenon DEF BeginWithCode
      <4> QED BY <2>4, <4>1, <4>2 DEF StartInit
    <3>2. ~run'[m].conditional /\ \A x \in Machine \ {m} : run'[x] = run[x]
      BY <3>a DEF Idle, TypeOK
    <3> QED BY <2>1, <3>1, <3>2
  <2>5. ASSUME NEW m \in Machine,
               \/ EnsureBucket(m) \/ ReadParams(m) \/ LookForKeyFile(m) \/ PutParams(m)
               \/ JoinBucket(m) \/ EnsureKeyCheck(m) \/ PutCheck(m) \/ WriteKey(m) \/ Interrupted(m)
        PROVE ProbesWereRight'
    <3>1. UNCHANGED <<server, config>>
      BY <2>5 DEF EnsureBucket, ReadParams, LookForKeyFile, PutParams, JoinBucket, EnsureKeyCheck,
                  PutCheck, WriteKey, Interrupted, saved
    <3>2. /\ \/ run'[m] = Idle
             \/ run'[m].conditional = run[m].conditional /\ run'[m].bucket = run[m].bucket
          /\ \A x \in Machine \ {m} : run'[x] = run[x]
      <4>1. CASE EnsureBucket(m) \/ JoinBucket(m) \/ EnsureKeyCheck(m) \/ WriteKey(m) \/ Interrupted(m)
        BY <4>1 DEF EnsureBucket, JoinBucket, EnsureKeyCheck, WriteKey, Interrupted, verified,
                    Found, Goto, Stop, TypeOK
      <4>2. CASE ReadParams(m) \/ LookForKeyFile(m)
        BY <4>2 DEF ReadParams, LookForKeyFile, Stop, TypeOK
      <4>3. CASE PutParams(m)
        <5>1. PICK k : \/ Stop(m)
                       \/ run' = [run EXCEPT ![m].step = "getCheck", ![m].key = k]
          BY <4>3, Zenon DEF PutParams
        <5> QED BY <5>1 DEF Stop, TypeOK
      <4>4. CASE PutCheck(m)
        <5>1. Goto(m, "verify") \/ Found(m, run[m].key)
          BY <4>4, Zenon DEF PutCheck
        <5> QED BY <5>1 DEF Found, Goto, TypeOK
      <4> QED BY <2>5, <4>1, <4>2, <4>3, <4>4
    <3>3. ~Idle.conditional
      BY DEF Idle
    <3> QED BY <2>1, <3>1, <3>2, <3>3
  <2>6. ASSUME NEW m \in Machine, MakeJoinCode(m) PROVE ProbesWereRight'
    BY <2>1, <2>6 DEF MakeJoinCode, saved
  <2>7. CASE UNCHANGED vars
    BY <2>1, <2>7 DEF vars
  <2> QED BY <2>2, <2>3, <2>4, <2>5, <2>6, <2>7 DEF Next
<1>3. ProbesWereRight => ProbeIsRight
  BY DEF ProbesWereRight
<1> QED BY <1>1, <1>2, <1>3, TypeCorrect, PTL DEF Spec
=============================================================================
