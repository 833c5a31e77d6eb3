--------------------------- MODULE InstancesProofs ---------------------------
(***************************************************************************)
(* Proofs about Instances, for any instances, tokens and versions.         *)
(* TokensReadable speaks of instances that have the current value.  What   *)
(* makes it inductive is that the others write keys that the current value *)
(* can still read: one never falls further behind than that, because       *)
(* DropKey waits for it.  NeverPartlyConfigured rests on what the fetches  *)
(* brought so far and on the engine being what the import made it.         *)
(***************************************************************************)
EXTENDS Instances, TLAPS

KeySecret == "ENCRYPTION_KEY"

(* Whoever has the current value can read what is encrypted with key k. *)
Readable(k) == Decrypts(Supplied[KeySecret], k)

(* An instance that can write tokens has a value whose newest key is readable;
   what it has in hand was encrypted with that key; and nothing is left from
   before it was stopped. *)
WritesReadable(q) ==
    /\ q.pc # "serving" => q.cipher = NoCipher /\ q.storing = NoToken
    /\ q.pc = "loading" /\ q.fetched[KeySecret] # PLACEHOLDER =>
          Readable(NewestKey(q.fetched[KeySecret]))
    /\ q.pc = "serving" => Readable(NewestKey(q.settings[KeySecret]))
    /\ q.storing # NoToken => q.storing = NewestKey(q.settings[KeySecret])

(* A version that was the latest after instance q was started. *)
Recent(q, s, v) == v \in q.since[s] .. latest[s]

(* What the import gave the engine, it keeps. *)
AsImported(q) ==
    /\ \A s \in Secrets : q.since[s] \in 1 .. latest[s]
    /\ deployment.database_url = "default" => q.engine = PLACEHOLDER
    /\ deployment.database_url = "PENDING" => q.engine = PENDING
    /\ deployment.database_url = "password" => q.engine = q.since["DB_PASSWORD"]

(* DATABASE_URL has a password of its own, or is the default that was imported. *)
UrlIsSet(q) ==
    \/ Recent(q, "DB_PASSWORD", q.database_url)
    \/ q.database_url = PLACEHOLDER /\ q.engine = PLACEHOLDER

Given == Loads \/ deployment.secrets_in_env

(* The start of one instance. *)
Sound(q) ==
    /\ q.pc # "down" => AsImported(q)
    /\ q.pc = "loading" =>
          /\ Loads /\ q.database_url = q.engine
          /\ \A s \in Secrets : q.fetched[s] # PLACEHOLDER => Recent(q, s, q.fetched[s])
    /\ q.pc = "serving" =>
          /\ q.cipher \in {NoCipher, q.settings[KeySecret]}
          /\ Given => \A s \in Secrets : Recent(q, s, q.settings[s])
          /\ Loads => UrlIsSet(q)

IInv ==
    /\ TypeOK
    /\ \A i \in Instances : WritesReadable(instance[i]) /\ Sound(instance[i])
    /\ \A t \in Tokens : token[t] # NoToken => Readable(token[t])

-----------------------------------------------------------------------------

LEMMA ConstantsTyped ==
    /\ PLACEHOLDER \in Versions /\ 1 \in 1 .. MAX_VERSION
    /\ 1 .. MAX_VERSION \subseteq Versions /\ PLACEHOLDER \notin 1 .. MAX_VERSION
    /\ \A v \in Versions : NewestKey(v) \in Keys
    /\ NoCipher \notin Versions /\ NoToken \notin Keys /\ PENDING \notin Versions
    /\ KeySecret \in Secrets /\ "DB_PASSWORD" \in Secrets
BY InstancesAssumption DEF InstancesAssumption, Versions, PLACEHOLDER, Keys, Secrets, KeySecret

(* Adding a key in front of a single one leaves that one the oldest. *)
LEMMA AddedKeyKeepsOld ==
    ASSUME NEW v \in 1 .. MAX_VERSION, NewestKey(v) = OldestKey(v)
    PROVE  OldestKey(v + 1) = NewestKey(v)
BY InstancesAssumption DEF InstancesAssumption, NewestKey, OldestKey, PLACEHOLDER

(* Dropping the old one of two keys keeps the new one. *)
LEMMA DroppedKeyKeepsNew ==
    ASSUME NEW v \in 1 .. MAX_VERSION, NewestKey(v) # OldestKey(v)
    PROVE  NewestKey(v + 1) = NewestKey(v)
BY InstancesAssumption DEF InstancesAssumption, NewestKey, OldestKey, PLACEHOLDER

(* A value reads what it writes. *)
LEMMA WritesWhatItReads == \A v : Decrypts(v, NewestKey(v))
BY DEF Decrypts

LEMMA SecretsTyped ==
    /\ Secrets # {} /\ Unset \in [Secrets -> Versions]
    /\ TypeOK => Environment \in [Secrets -> Versions]
BY ConstantsTyped DEF Unset, Environment, TypeOK, Secrets

(* The current values are the latest where secrets are given, else the placeholders. *)
LEMMA SuppliedIs == Supplied = IF Given THEN latest ELSE Unset
BY DEF Supplied, Given, Environment

LEMMA DownIsFine == Down \in Instance /\ WritesReadable(Down) /\ Sound(Down)
BY ConstantsTyped, SecretsTyped DEF Down, Instance, WritesReadable, Sound, Passwords

(* A step that only puts instance i at q. *)
LEMMA SetKeepsIInv ==
    ASSUME IInv, NEW i \in Instances, NEW q \in Instance, Set(i, q),
           WritesReadable(q), Sound(q)
    PROVE  IInv'
<1>1. TypeOK'
  BY DEF IInv, TypeOK, Set
<1>2. UNCHANGED <<deployment, latest, token>>
  BY DEF Set
<1>3. \A k : Readable(k)' <=> Readable(k)
  BY <1>2 DEF Readable, Supplied, Loads, Environment
<1>4. \A p : Sound(p) => Sound(p)'
  BY <1>2 DEF Sound, Loads, Given, AsImported, Recent, UrlIsSet
<1>5. ASSUME NEW j \in Instances
      PROVE  (WritesReadable(instance[j]) /\ Sound(instance[j]))'
  <2>1. instance'[j] = IF j = i THEN q ELSE instance[j]
    BY DEF IInv, TypeOK, Set
  <2>2. WritesReadable(instance'[j]) /\ Sound(instance'[j])
    BY <2>1 DEF IInv
  <2>3. PICK p : p = instance'[j]
    OBVIOUS
  <2>4. WritesReadable(p)' /\ Sound(p)'
    BY <1>3, <1>4, <2>2, <2>3 DEF WritesReadable
  <2> QED BY <2>3, <2>4 DEF WritesReadable, Sound, AsImported, Recent, UrlIsSet
<1>6. \A t \in Tokens : (token[t] # NoToken => Readable(token[t]))'
  BY <1>2, <1>3 DEF IInv
<1> QED BY <1>1, <1>5, <1>6 DEF IInv

LEMMA ImportKeepsIInv ==
    ASSUME IInv, NEW i \in Instances, Import(i)
    PROVE  IInv'
<1>1. PICK pc \in {"loading", "serving"} : pc = IF Loads THEN "loading" ELSE "serving"
  OBVIOUS
<1>2. PICK q : q = [Down EXCEPT !.pc = pc, !.settings = Environment,
                                !.database_url = UrlAtImport, !.engine = UrlAtImport,
                                !.since = latest, !.cipher = CipherAtImport]
  OBVIOUS
<1>3. q = [pc |-> pc, settings |-> Environment, database_url |-> UrlAtImport,
           engine |-> UrlAtImport, since |-> latest, fetched |-> Unset,
           cipher |-> NoCipher, storing |-> NoToken]
  BY <1>2 DEF Down, CipherAtImport
<1>4. /\ Environment \in [Secrets -> Versions] /\ latest \in [Secrets -> Versions]
      /\ \A s \in Secrets : latest[s] \in 1 .. MAX_VERSION
  BY SecretsTyped, ConstantsTyped DEF IInv, TypeOK
<1>5. UrlAtImport \in Passwords
  BY <1>4, ConstantsTyped DEF UrlAtImport, Passwords, IInv, TypeOK, Deployment
<1>6. q \in Instance
  BY <1>3, <1>4, <1>5, SecretsTyped DEF Instance
<1>7. \A s \in Secrets : Unset[s] = PLACEHOLDER
  BY DEF Unset
<1>8. WritesReadable(q)
  <2>1. ~Loads => Readable(NewestKey(Environment[KeySecret]))
    BY WritesWhatItReads DEF Readable, Supplied
  <2> QED BY <1>1, <1>3, <1>7, <2>1, ConstantsTyped DEF WritesReadable
<1>9. \A s \in Secrets : Recent(q, s, latest[s]) /\ latest[s] \in 1 .. latest[s]
  BY <1>3, <1>4, InstancesAssumption DEF InstancesAssumption, Recent
<1>10. AsImported(q)
  BY <1>3, <1>9 DEF AsImported, UrlAtImport
<1>11. Sound(q)
  <2>1. ~Loads /\ Given => Environment = latest
    BY DEF Given, Environment
  <2> QED BY <1>1, <1>3, <1>7, <1>9, <1>10, <2>1 DEF Sound
<1>12. Set(i, q)
  BY <1>1, <1>2 DEF Import
<1> QED BY <1>6, <1>8, <1>11, <1>12, SetKeepsIInv

LEMMA FetchSecretKeepsIInv ==
    ASSUME IInv, NEW i \in Instances, NEW s \in Secrets, FetchSecret(i, s)
    PROVE  IInv'
<1> DEFINE p == instance[i]
           q == [p EXCEPT !.fetched[s] = latest[s]]
<1>1. p \in Instance /\ p.pc = "loading" /\ WritesReadable(p) /\ Sound(p)
  BY DEF IInv, TypeOK, FetchSecret
<1>2. latest[s] \in Versions
  BY ConstantsTyped DEF IInv, TypeOK
<1>3. q = [pc |-> p.pc, settings |-> p.settings, database_url |-> p.database_url,
           engine |-> p.engine, since |-> p.since,
           fetched |-> [p.fetched EXCEPT ![s] = latest[s]],
           cipher |-> p.cipher, storing |-> p.storing]
  BY <1>1 DEF Instance
<1>4. [p.fetched EXCEPT ![s] = latest[s]] \in [Secrets -> Versions]
  BY <1>1, <1>2 DEF Instance
<1>5. q \in Instance
  BY <1>1, <1>3, <1>4 DEF Instance
<1>6. /\ q.pc = "loading" /\ q.cipher = p.cipher /\ q.storing = p.storing
      /\ q.fetched = [p.fetched EXCEPT ![s] = latest[s]]
      /\ q.since = p.since /\ q.engine = p.engine /\ q.database_url = p.database_url
  BY <1>1, <1>3
<1>7. \A u \in Secrets : q.fetched[u] = IF u = s THEN latest[s] ELSE p.fetched[u]
  BY <1>1, <1>6 DEF Instance
<1>8. WritesReadable(q)
  <2>1. Loads /\ Supplied = latest
    BY <1>1 DEF Sound, Supplied
  <2>2. Readable(NewestKey(latest[KeySecret]))
    BY <2>1, WritesWhatItReads DEF Readable
  <2>3. KeySecret \in Secrets
    BY ConstantsTyped
  <2> HIDE DEF q
  <2> QED BY <1>1, <1>6, <1>7, <2>2, <2>3 DEF WritesReadable
<1>9. Sound(q)
  <2>1. latest[s] \in 1 .. MAX_VERSION /\ p.since[s] \in 1 .. latest[s]
    BY <1>1 DEF IInv, TypeOK, Sound, AsImported
  <2>2. Recent(p, s, latest[s])
    BY <2>1, InstancesAssumption DEF InstancesAssumption, Recent
  <2> HIDE DEF q
  <2>3. \A u \in Secrets : q.fetched[u] # PLACEHOLDER => Recent(q, u, q.fetched[u])
    BY <1>1, <1>6, <1>7, <2>2 DEF Sound, Recent
  <2> QED BY <1>1, <1>6, <2>3 DEF Sound, AsImported
<1>10. Set(i, q)
  BY DEF FetchSecret
<1> HIDE DEF q
<1> QED BY <1>5, <1>8, <1>9, <1>10, SetKeepsIInv

LEMMA InjectKeepsIInv ==
    ASSUME IInv, NEW i \in Instances, Inject(i)
    PROVE  IInv'
<1> DEFINE p == instance[i]
<1>1. p \in Instance /\ p.pc = "loading" /\ WritesReadable(p) /\ Sound(p)
  BY DEF IInv, TypeOK, Inject
<1>2. \A s \in Secrets : p.fetched[s] # PLACEHOLDER
  BY DEF Inject, Arrived
<1>3. PICK q : q = [p EXCEPT !.pc = "serving", !.settings = p.fetched,
                               !.database_url = Assembled(p), !.fetched = Unset]
  OBVIOUS
<1>4. q = [pc |-> "serving", settings |-> p.fetched, database_url |-> Assembled(p),
           engine |-> p.engine, since |-> p.since, fetched |-> Unset,
           cipher |-> p.cipher, storing |-> p.storing]
  BY <1>1, <1>3 DEF Instance
<1>5. Assembled(p) \in Passwords
  BY <1>1, ConstantsTyped DEF Assembled, Instance, Passwords
<1>6. p.cipher = NoCipher /\ p.storing = NoToken
      /\ Readable(NewestKey(p.fetched[KeySecret]))
  BY <1>1, <1>2, ConstantsTyped DEF WritesReadable
<1>7. q \in Instance
  BY <1>1, <1>4, <1>5, SecretsTyped DEF Instance
<1>8. WritesReadable(q)
  BY <1>4, <1>6 DEF WritesReadable
<1>9. Sound(q)
  <2>1. \A s \in Secrets : Recent(q, s, q.settings[s])
    BY <1>1, <1>2, <1>4 DEF Sound, Recent
  <2>2. AsImported(q)
    BY <1>1, <1>4 DEF Sound, AsImported
  <2>3. UrlIsSet(q)
    <3>1. CASE deployment.cloud_sql \/ p.database_url = PENDING
      <4>1. q.database_url = q.settings["DB_PASSWORD"]
        BY <1>4, <3>1 DEF Assembled
      <4> QED BY <2>1, <4>1, ConstantsTyped DEF UrlIsSet
    <3>2. CASE ~(deployment.cloud_sql \/ p.database_url = PENDING)
      <4>1. q.database_url = p.engine /\ q.engine = p.engine /\ p.engine # PENDING
        BY <1>1, <1>4, <3>2 DEF Assembled, Sound
      <4>2. CASE deployment.database_url = "default"
        BY <2>2, <4>1, <4>2 DEF AsImported, UrlIsSet
      <4>3. CASE deployment.database_url = "password"
        <5>1. q.database_url = q.since["DB_PASSWORD"]
              /\ q.since["DB_PASSWORD"] \in 1 .. latest["DB_PASSWORD"]
          BY <2>2, <4>1, <4>3, ConstantsTyped DEF AsImported
        <5>2. latest["DB_PASSWORD"] \in 1 .. MAX_VERSION
          BY ConstantsTyped DEF IInv, TypeOK
        <5> QED BY <5>1, <5>2, InstancesAssumption DEF InstancesAssumption, UrlIsSet, Recent
      <4>4. deployment.database_url \in {"default", "PENDING", "password"}
        BY DEF IInv, TypeOK, Deployment
      <4> QED BY <2>2, <4>1, <4>2, <4>3, <4>4 DEF AsImported
    <3> QED BY <3>1, <3>2
  <2> QED BY <1>4, <1>6, <2>1, <2>2, <2>3 DEF Sound
<1>10. Set(i, q)
  BY <1>3 DEF Inject
<1> QED BY <1>7, <1>8, <1>9, <1>10, SetKeepsIInv

(* The cipher of an instance that serves, built or yet to be, is of its settings. *)
LEMMA CipherOfSettings ==
    ASSUME IInv, NEW i \in Instances, instance[i].pc = "serving"
    PROVE  /\ Cipher(i) = instance[i].settings[KeySecret]
           /\ Cipher(i) \in Versions
BY ConstantsTyped DEF IInv, TypeOK, Instance, Sound, Cipher, KeySecret

(* A serving instance that builds its cipher, if it has none, and has a
   ciphertext of its own in hand, or none. *)
LEMMA ServingKeepsIInv ==
    ASSUME IInv, NEW i \in Instances, instance[i].pc = "serving",
           NEW c \in {instance[i].cipher, Cipher(i)},
           NEW k \in {instance[i].storing, NoToken, EncryptsWith(Cipher(i))},
           NEW q, Set(i, q),
           q = [pc |-> "serving", settings |-> instance[i].settings,
                database_url |-> instance[i].database_url, engine |-> instance[i].engine,
                since |-> instance[i].since, fetched |-> instance[i].fetched,
                cipher |-> c, storing |-> k]
    PROVE  IInv'
<1> DEFINE p == instance[i]
<1>1. p \in Instance /\ WritesReadable(p) /\ Sound(p)
  BY DEF IInv, TypeOK
<1>2. Cipher(i) = p.settings[KeySecret] /\ Cipher(i) \in Versions
  BY CipherOfSettings
<1>3. k \in Keys \cup {NoToken} /\ c \in Versions \cup {NoCipher}
  BY <1>1, <1>2, ConstantsTyped DEF Instance, EncryptsWith
<1>4. q \in Instance
  BY <1>1, <1>3 DEF Instance
<1>5. k # NoToken => k = NewestKey(p.settings[KeySecret])
  BY <1>1, <1>2 DEF WritesReadable, EncryptsWith
<1>6. WritesReadable(q)
  BY <1>1, <1>5 DEF WritesReadable
<1>7. Sound(q)
  BY <1>1, <1>2 DEF Sound, AsImported, Recent, UrlIsSet
<1> QED BY <1>4, <1>6, <1>7, SetKeepsIInv

LEMMA EncryptKeepsIInv ==
    ASSUME IInv, NEW i \in Instances, Encrypt(i)
    PROVE  IInv'
<1>1. PICK q : q = [instance[i] EXCEPT !.cipher = Cipher(i),
                                       !.storing = EncryptsWith(Cipher(i))]
  OBVIOUS
<1>2. instance[i] \in Instance /\ instance[i].pc = "serving" /\ Set(i, q)
  BY <1>1 DEF IInv, TypeOK, Encrypt
<1>3. q = [pc |-> "serving", settings |-> instance[i].settings,
           database_url |-> instance[i].database_url, engine |-> instance[i].engine,
           since |-> instance[i].since, fetched |-> instance[i].fetched,
           cipher |-> Cipher(i), storing |-> EncryptsWith(Cipher(i))]
  BY <1>1, <1>2 DEF Instance
<1> QED BY <1>2, <1>3, ServingKeepsIInv

LEMMA DecryptKeepsIInv ==
    ASSUME IInv, NEW i \in Instances, NEW t \in Tokens, Decrypt(i, t)
    PROVE  IInv'
<1>1. PICK q : q = [instance[i] EXCEPT !.cipher = Cipher(i)]
  OBVIOUS
<1>2. instance[i] \in Instance /\ instance[i].pc = "serving" /\ Set(i, q)
  BY <1>1 DEF IInv, TypeOK, Decrypt
<1>3. q = [pc |-> "serving", settings |-> instance[i].settings,
           database_url |-> instance[i].database_url, engine |-> instance[i].engine,
           since |-> instance[i].since, fetched |-> instance[i].fetched,
           cipher |-> Cipher(i), storing |-> instance[i].storing]
  BY <1>1, <1>2 DEF Instance
<1> QED BY <1>2, <1>3, ServingKeepsIInv

LEMMA NothingInHandIsFine ==
    ASSUME IInv, NEW i \in Instances, instance[i].storing # NoToken
    PROVE  /\ instance[i].pc = "serving"
           /\ [instance[i] EXCEPT !.storing = NoToken] =
                 [pc |-> "serving", settings |-> instance[i].settings,
                  database_url |-> instance[i].database_url, engine |-> instance[i].engine,
                  since |-> instance[i].since, fetched |-> instance[i].fetched,
                  cipher |-> instance[i].cipher, storing |-> NoToken]
<1>1. instance[i] \in Instance /\ WritesReadable(instance[i])
  BY DEF IInv, TypeOK
<1>2. instance[i].pc = "serving"
  BY <1>1 DEF WritesReadable
<1> QED BY <1>1, <1>2 DEF Instance

LEMMA CommitFailsKeepsIInv ==
    ASSUME IInv, NEW i \in Instances, CommitFails(i)
    PROVE  IInv'
<1>1. instance[i].storing # NoToken /\ Set(i, [instance[i] EXCEPT !.storing = NoToken])
  BY DEF CommitFails
<1>2. EncryptsWith(Cipher(i)) # NoToken
  BY <1>1, NothingInHandIsFine, CipherOfSettings, ConstantsTyped DEF EncryptsWith
<1> QED BY <1>1, <1>2, NothingInHandIsFine, ServingKeepsIInv

LEMMA CommitKeepsIInv ==
    ASSUME IInv, NEW i \in Instances, NEW t \in Tokens, Commit(i, t)
    PROVE  IInv'
<1> DEFINE p == instance[i]
<1>1. /\ p.storing # NoToken
      /\ token' = [token EXCEPT ![t] = p.storing]
      /\ instance' = [instance EXCEPT ![i].storing = NoToken]
      /\ UNCHANGED <<deployment, latest>>
  BY DEF Commit
<1>2. p \in Instance /\ WritesReadable(p) /\ Sound(p)
  BY DEF IInv, TypeOK
<1>3. PICK q : q = [p EXCEPT !.storing = NoToken]
  OBVIOUS
<1>4. q = [pc |-> "serving", settings |-> p.settings, database_url |-> p.database_url,
           engine |-> p.engine, since |-> p.since, fetched |-> p.fetched,
           cipher |-> p.cipher, storing |-> NoToken]
  BY <1>1, <1>3, NothingInHandIsFine
<1>5. q \in Instance /\ WritesReadable(q) /\ Sound(q)
  <2>1. q \in Instance
    BY <1>2, <1>4 DEF Instance
  <2>2. p.pc = "serving"
    BY <1>1, NothingInHandIsFine
  <2>3. WritesReadable(q) /\ Sound(q)
    BY <1>2, <1>4, <2>2 DEF WritesReadable, Sound, AsImported, Recent, UrlIsSet
  <2> QED BY <2>1, <2>3
<1>6. instance' = [instance EXCEPT ![i] = q]
  BY <1>1, <1>3
<1>7. Readable(p.storing)
  BY <1>1, <1>2, NothingInHandIsFine DEF WritesReadable
<1>8. p.storing \in Keys \cup {NoToken}
  BY <1>2 DEF Instance
<1>9. TypeOK'
  BY <1>1, <1>5, <1>6, <1>8 DEF IInv, TypeOK
<1>10. \A k : Readable(k)' <=> Readable(k)
  BY <1>1 DEF Readable, Supplied, Loads, Environment
<1>11. \A r : Sound(r) => Sound(r)'
  BY <1>1 DEF Sound, Loads, Given, AsImported, Recent, UrlIsSet
<1>12. ASSUME NEW j \in Instances
      PROVE  (WritesReadable(instance[j]) /\ Sound(instance[j]))'
  <2>1. instance'[j] = IF j = i THEN q ELSE instance[j]
    BY <1>6 DEF IInv, TypeOK
  <2>2. WritesReadable(instance'[j]) /\ Sound(instance'[j])
    BY <1>5, <2>1 DEF IInv
  <2>3. PICK r : r = instance'[j]
    OBVIOUS
  <2>4. WritesReadable(r)' /\ Sound(r)'
    BY <1>10, <1>11, <2>2, <2>3 DEF WritesReadable
  <2> QED BY <2>3, <2>4 DEF WritesReadable, Sound, AsImported, Recent, UrlIsSet
<1>13. ASSUME NEW u \in Tokens, token'[u] # NoToken
       PROVE  Readable(token[u])'
  <2>1. token'[u] = IF u = t THEN p.storing ELSE token[u]
    BY <1>1 DEF IInv, TypeOK
  <2>2. Readable(token'[u])
    BY <1>7, <1>13, <2>1 DEF IInv
  <2> QED BY <1>1, <1>10, <2>2
<1> QED BY <1>9, <1>12, <1>13 DEF IInv

(* A new version of any secret after which every key in use is still readable. *)
LEMMA SupersedeKeepsIInv ==
    ASSUME IInv, NEW s \in Secrets, Supersede(s),
           \A i \in Instances :
              /\ instance[i].pc = "loading" /\ instance[i].fetched[KeySecret] # PLACEHOLDER =>
                    Readable(NewestKey(instance[i].fetched[KeySecret]))'
              /\ instance[i].pc = "serving" =>
                    Readable(NewestKey(instance[i].settings[KeySecret]))',
           \A t \in Tokens : token[t] # NoToken => Readable(token[t])'
    PROVE  IInv'
<1>1. /\ latest[s] < MAX_VERSION
      /\ latest' = [latest EXCEPT ![s] = @ + 1]
      /\ UNCHANGED <<deployment, instance, token>>
  BY DEF Supersede
<1>2. latest[s] + 1 \in 1 .. MAX_VERSION
  BY <1>1, InstancesAssumption DEF InstancesAssumption, IInv, TypeOK
<1>3. TypeOK'
  BY <1>1, <1>2 DEF IInv, TypeOK
<1>4. \A u \in Secrets : latest[u] \in Nat /\ latest'[u] \in Nat /\ latest[u] <= latest'[u]
  BY <1>1, <1>2, InstancesAssumption DEF InstancesAssumption, IInv, TypeOK
<1>5. ASSUME NEW q \in Instance, Sound(q)
      PROVE  Sound(q)'
  <2>1. \A u \in Secrets : \A v : Recent(q, u, v) => Recent(q, u, v)'
    BY <1>4 DEF Recent, Instance, Versions
  <2>2. AsImported(q) => AsImported(q)'
    BY <1>1, <1>4 DEF AsImported
  <2>3. UrlIsSet(q) => UrlIsSet(q)'
    BY <2>1, ConstantsTyped DEF UrlIsSet
  <2>4. (Loads' <=> Loads) /\ (Given' <=> Given)
    BY <1>1 DEF Loads, Given
  <2> QED BY <1>5, <2>1, <2>2, <2>3, <2>4 DEF Sound
<1>6. ASSUME NEW i \in Instances
      PROVE  (WritesReadable(instance[i]) /\ Sound(instance[i]))'
  <2>1. instance[i] \in Instance /\ WritesReadable(instance[i]) /\ Sound(instance[i])
    BY DEF IInv, TypeOK
  <2>2. PICK q : q = instance[i] /\ q = instance'[i]
    BY <1>1
  <2>3. Sound(q)'
    BY <1>5, <2>1, <2>2
  <2> QED BY <1>1, <2>1, <2>2, <2>3
          DEF WritesReadable, Sound, AsImported, Recent, UrlIsSet
<1>7. \A t \in Tokens : (token[t] # NoToken => Readable(token[t]))'
  BY <1>1
<1> QED BY <1>3, <1>6, <1>7 DEF IInv

(* Where every key that was readable stays so, nothing else is asked. *)
LEMMA ReadableStays ==
    ASSUME IInv, NEW s \in Secrets, Supersede(s), \A k : Readable(k) => Readable(k)'
    PROVE  IInv'
<1>1. UNCHANGED <<deployment, instance, token>>
  BY DEF Supersede
<1>2. \A i \in Instances : WritesReadable(instance[i])
  BY DEF IInv
<1>3. \A t \in Tokens : token[t] # NoToken => Readable(token[t])
  BY DEF IInv
<1>4. ASSUME NEW i \in Instances
      PROVE  /\ instance[i].pc = "loading" /\ instance[i].fetched[KeySecret] # PLACEHOLDER =>
                    Readable(NewestKey(instance[i].fetched[KeySecret]))'
             /\ instance[i].pc = "serving" =>
                    Readable(NewestKey(instance[i].settings[KeySecret]))'
  <2>1. PICK q : q = instance[i] /\ q = instance'[i]
    BY <1>1
  <2>2. WritesReadable(q)
    BY <1>2, <2>1
  <2>3. /\ q.pc = "loading" /\ q.fetched[KeySecret] # PLACEHOLDER =>
              Readable(NewestKey(q.fetched[KeySecret]))'
        /\ q.pc = "serving" => Readable(NewestKey(q.settings[KeySecret]))'
    BY <2>2 DEF WritesReadable
  <2> QED BY <2>1, <2>3
<1>5. ASSUME NEW t \in Tokens, token[t] # NoToken
      PROVE  Readable(token[t])'
  <2>1. PICK k : k = token[t] /\ k = token'[t]
    BY <1>1
  <2>2. Readable(k)'
    BY <1>3, <1>5, <2>1
  <2> QED BY <2>1, <2>2
<1> QED BY <1>4, <1>5, SupersedeKeepsIInv

LEMMA RotatePasswordKeepsIInv ==
    ASSUME IInv, RotatePassword
    PROVE  IInv'
<1>1. "DB_PASSWORD" \in Secrets /\ Supersede("DB_PASSWORD")
  BY DEF Secrets, RotatePassword
<1>2. latest'[KeySecret] = latest[KeySecret] /\ UNCHANGED deployment
  BY <1>1 DEF Supersede, IInv, TypeOK, Secrets, KeySecret
<1>3. Supplied'[KeySecret] = Supplied[KeySecret]
  BY <1>2, SuppliedIs DEF Supplied, Loads, Environment, Given, Unset
<1>4. \A k : Readable(k) => Readable(k)'
  BY <1>3 DEF Readable
<1> QED BY <1>1, <1>4, ReadableStays

LEMMA AddKeyKeepsIInv ==
    ASSUME IInv, AddKey
    PROVE  IInv'
<1> DEFINE v == latest[KeySecret]
<1>1. v \in 1 .. MAX_VERSION /\ KeySecret \in Secrets
  BY ConstantsTyped DEF IInv, TypeOK
<1>2. NewestKey(v) = OldestKey(v) /\ Supersede(KeySecret)
  BY DEF AddKey, TwoKeys, KeySecret
<1>3. latest'[KeySecret] = v + 1 /\ UNCHANGED deployment
  BY <1>1, <1>2 DEF Supersede, IInv, TypeOK
<1>4. \A k : Readable(k) => Readable(k)'
  <2>1. CASE Given
    <3>1. Supplied[KeySecret] = v /\ Supplied'[KeySecret] = v + 1
      BY <1>3, <2>1, SuppliedIs DEF Supplied, Loads, Environment, Given
    <3> QED BY <1>1, <1>2, <3>1, AddedKeyKeepsOld DEF Readable, Decrypts
  <2>2. CASE ~Given
    <3>1. Supplied'[KeySecret] = Supplied[KeySecret]
      BY <1>3, <2>2 DEF Supplied, Loads, Environment, Given, Unset
    <3> QED BY <3>1 DEF Readable
  <2> QED BY <2>1, <2>2
<1> QED BY <1>1, <1>2, <1>4, ReadableStays

(* DropKey waits until every token is under the new key and every instance that
   is up has the value that names it first. *)
LEMMA DropKeyKeepsIInv ==
    ASSUME IInv, DropKey
    PROVE  IInv'
<1> DEFINE v == latest[KeySecret]
<1>1. v \in 1 .. MAX_VERSION /\ KeySecret \in Secrets
  BY ConstantsTyped DEF IInv, TypeOK
<1>2. NewestKey(v) # OldestKey(v) /\ Supersede(KeySecret)
  BY DEF DropKey, TwoKeys, KeySecret
<1>3. latest'[KeySecret] = v + 1 /\ UNCHANGED deployment
  BY <1>1, <1>2 DEF Supersede, IInv, TypeOK
<1>4. CASE Given
  <2>1. Supplied[KeySecret] = v /\ Supplied'[KeySecret] = v + 1
    BY <1>3, <1>4, SuppliedIs DEF Supplied, Loads, Environment, Given
  <2>2. \A k : k = NewestKey(v) => Readable(k)'
    BY <1>1, <1>2, <2>1, DroppedKeyKeepsNew DEF Readable, Decrypts
  <2>3. UNCHANGED <<deployment, instance, token>>
    BY <1>2 DEF Supersede
  <2>4. ASSUME NEW i \in Instances
        PROVE  instance[i].pc # "loading"
               /\ (instance[i].pc = "serving" => instance[i].settings[KeySecret] = v)
    BY <2>1 DEF DropKey, IsCurrent, KeySecret
  <2>5. ASSUME NEW t \in Tokens, token[t] # NoToken
        PROVE  token[t] = NewestKey(v)
    BY <2>5 DEF DropKey, KeySecret
  <2> QED BY <1>1, <1>2, <2>2, <2>3, <2>4, <2>5, SupersedeKeepsIInv DEF Readable
<1>5. CASE ~Given
  <2>1. Supplied'[KeySecret] = Supplied[KeySecret]
    BY <1>3, <1>5 DEF Supplied, Loads, Environment, Given, Unset
  <2>2. \A k : Readable(k) => Readable(k)'
    BY <2>1 DEF Readable
  <2> QED BY <1>1, <1>2, <2>2, ReadableStays
<1> QED BY <1>4, <1>5

LEMMA NextKeepsIInv ==
    ASSUME IInv, [Next]_vars
    PROVE  IInv'
<1>1. CASE UNCHANGED vars
  BY <1>1 DEF vars, IInv, TypeOK, WritesReadable, Sound, Readable, Supplied, Loads,
              Environment, Given, AsImported, Recent, UrlIsSet
<1>2. CASE \E i \in Instances : FetchFails(i) \/ Stop(i)
  <2>1. PICK i \in Instances : Set(i, Down)
    BY <1>2 DEF FetchFails, Stop
  <2> QED BY <2>1, DownIsFine, SetKeepsIInv
<1>3. CASE \E i \in Instances :
              \/ Import(i) \/ Inject(i)
              \/ \E s \in Secrets : FetchSecret(i, s)
  BY <1>3, ImportKeepsIInv, InjectKeepsIInv, FetchSecretKeepsIInv
<1>4. CASE \E i \in Instances :
              \/ Encrypt(i) \/ CommitFails(i)
              \/ \E t \in Tokens : Commit(i, t) \/ Decrypt(i, t)
  BY <1>4, EncryptKeepsIInv, CommitFailsKeepsIInv, CommitKeepsIInv, DecryptKeepsIInv
<1>5. CASE RotatePassword \/ AddKey \/ DropKey
  BY <1>5, RotatePasswordKeepsIInv, AddKeyKeepsIInv, DropKeyKeepsIInv
<1> QED BY <1>1, <1>2, <1>3, <1>4, <1>5 DEF Next

LEMMA InitKeepsIInv == Init => IInv
<1> SUFFICES ASSUME Init PROVE IInv
  OBVIOUS
<1>1. TypeOK
  BY ConstantsTyped, DownIsFine DEF Init, TypeOK
<1>2. \A i \in Instances : instance[i] = Down
  BY DEF Init
<1>3. \A t \in Tokens : token[t] = NoToken
  BY DEF Init
<1> QED BY <1>1, <1>2, <1>3, DownIsFine DEF IInv

-----------------------------------------------------------------------------

(* The inductive invariant of start-up, serving and rotation. *)
THEOREM Invariance == Spec => []IInv
<1>1. IInv /\ [Next]_vars => IInv'
  BY NextKeepsIInv
<1> QED BY <1>1, InitKeepsIInv, PTL DEF Spec

(* The variables keep their types. *)
THEOREM TypeCorrect == Spec => []TypeOK
<1>1. IInv => TypeOK
  BY DEF IInv
<1> QED BY <1>1, Invariance, PTL

(* secret_manger.py:42: whoever serves where secrets are supplied has them all, in
   versions no older than its start, and in production an engine that connects is of
   the import's own password: for any number of instances, fetches, failures and
   rotations. *)
THEOREM NeverPartlyConfiguredHolds == Spec => []NeverPartlyConfigured
<1>1. ASSUME IInv, NEW i \in Instances, Serving(i)
      PROVE  LET q == instance[i] IN
             /\ Given => \A s \in Secrets : q.settings[s] \in q.since[s] .. latest[s]
             /\ Loads =>
                   \/ q.database_url \in q.since["DB_PASSWORD"] .. latest["DB_PASSWORD"]
                   \/ q.database_url = PLACEHOLDER /\ ~Connects(i)
             /\ deployment.production /\ Connects(i) =>
                   /\ deployment.database_url = "password"
                   /\ q.engine = q.since["DB_PASSWORD"]
  <2>1. Sound(instance[i]) /\ instance[i].pc = "serving"
    BY <1>1 DEF IInv, Serving
  <2>2. deployment.database_url \in {"default", "PENDING", "password"}
    BY <1>1 DEF IInv, TypeOK, Deployment
  <2> QED BY <2>1, <2>2 DEF Sound, AsImported, Recent, UrlIsSet, Connects, Loads
<1>2. IInv => NeverPartlyConfigured
  BY <1>1 DEF NeverPartlyConfigured, Given
<1> QED BY <1>2, Invariance, PTL

(* encryption.py:96-98: a cipher that was built is the one the settings ask for. *)
THEOREM CipherIsOfSettingsHolds == Spec => []CipherIsOfSettings
<1>1. IInv => CipherIsOfSettings
  BY DEF IInv, Sound, CipherIsOfSettings, Serving, KeySecret
<1> QED BY <1>1, Invariance, PTL

(* encryption.py:22-25: an instance with the current value reads every stored
   token, for any number of instances, tokens and rotations. *)
THEOREM TokensReadableHolds == Spec => []TokensReadable
<1>1. ASSUME IInv, NEW i \in Instances, NEW t \in Tokens, Serving(i), IsCurrent(i),
             token[t] # NoToken
      PROVE  Decrypts(Cipher(i), token[t])
  <2>1. Cipher(i) = Supplied[KeySecret]
    BY <1>1, CipherOfSettings DEF Serving, IsCurrent, KeySecret
  <2> QED BY <1>1, <2>1 DEF IInv, Readable
<1>2. IInv => TokensReadable
  BY <1>1 DEF TokensReadable
<1> QED BY <1>2, Invariance, PTL
=============================================================================
