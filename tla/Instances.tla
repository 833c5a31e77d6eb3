----------------------------- MODULE Instances -----------------------------
(***************************************************************************)
(* Starting instances of the application and the secrets they run with:    *)
(* the two phases of core/config.py, core/secret_manger.py, the engine of  *)
(* db/session.py, the lifespan of main.py, and what the rotation of        *)
(* ENCRYPTION_KEY does to the tokens of core/encryption.py.                *)
(*                                                                         *)
(* main.py does not call build_settings; config.py says that it does.      *)
(* Both wirings are modelled, with every environment: of development or of *)
(* production, with the secrets (env.uat.j2, cloudrun-service.yaml) or     *)
(* with placeholders, and with any DATABASE_URL, which is a setting of its *)
(* own.                                                                    *)
(*                                                                         *)
(* A secret is the number of its version.  Of the six, ENCRYPTION_KEY and  *)
(* DB_PASSWORD are kept; the other four are loaded in the same way.        *)
(***************************************************************************)
EXTENDS Integers

CONSTANTS
    Instances,
    Tokens,         \* the access tokens in the connection tables
    MAX_VERSION,    \* bound on the versions of a secret
    PENDING,        \* what stands for the password in a DATABASE_URL without one
    NoCipher,       \* _fernet is None
    NoToken         \* nothing stored, nothing to store

PLACEHOLDER == 0    \* the default of config.py, or a sentinel; of DB_PASSWORD, the
                    \* working one of docker-compose
Versions == 0 .. MAX_VERSION

(* Every second version of ENCRYPTION_KEY is "new_key,old_key", the one after
   it drops old_key.  A placeholder is one derived key. *)
NewestKey(v) == IF v = PLACEHOLDER THEN PLACEHOLDER ELSE v \div 2 + 1
OldestKey(v) == (v + 1) \div 2
Keys == {NewestKey(v) : v \in Versions}

ASSUME InstancesAssumption ==
    /\ MAX_VERSION \in Nat \ {0}
    /\ PENDING \notin Versions
    /\ NoCipher \notin Versions
    /\ NoToken \notin Keys

VARIABLES
    deployment, \* how this deployment is wired; it does not change
    latest,     \* the latest version of each secret in Secret Manager
    instance,
    token       \* the key each stored token is encrypted with

vars == <<deployment, latest, instance, token>>

Secrets == {"ENCRYPTION_KEY", "DB_PASSWORD"}

Deployment ==
    [production: BOOLEAN,       \* ENVIRONMENT
     build_settings: BOOLEAN,   \* the lifespan calls it
     secrets_in_env: BOOLEAN,
     database_url: {"default", "PENDING", "password"},  \* what the environment has
     cloud_sql: BOOLEAN]        \* CLOUD_SQL_INSTANCE is set

Passwords == Versions \cup {PENDING}

Instance ==
    [pc: {"down", "loading", "serving"},
     settings: [Secrets -> Versions],
     database_url: Passwords,               \* the password in DATABASE_URL
     engine: Passwords,                     \* the password async_engine connects with
     since: [Secrets -> Versions],          \* history: the latest when it started
     fetched: [Secrets -> Versions],        \* PLACEHOLDER: not yet
     cipher: Versions \cup {NoCipher},      \* the value _fernet was built from
     storing: Keys \cup {NoToken}]          \* key of a ciphertext not yet committed

TypeOK ==
    /\ deployment \in Deployment
    /\ latest \in [Secrets -> 1 .. MAX_VERSION]
    /\ instance \in [Instances -> Instance]
    /\ token \in [Tokens -> Keys \cup {NoToken}]

-----------------------------------------------------------------------------

Unset == [s \in Secrets |-> PLACEHOLDER]

Down == [pc |-> "down", settings |-> Unset, database_url |-> PLACEHOLDER,
         engine |-> PLACEHOLDER, since |-> Unset, fetched |-> Unset,
         cipher |-> NoCipher, storing |-> NoToken]

Init ==
    /\ deployment \in Deployment
    /\ latest = [s \in Secrets |-> 1]
    /\ instance = [i \in Instances |-> Down]
    /\ token = [t \in Tokens |-> NoToken]

Set(i, q) ==
    /\ instance' = [instance EXCEPT ![i] = q]
    /\ UNCHANGED <<deployment, latest, token>>

-----------------------------------------------------------------------------
(* Start-up. *)

(* Faulty variants, one plausible slip each, used by no action: they show that
   the properties below can fail. *)

\* slip: _fernet is built when the module is loaded
CipherAtImportEager == IF deployment.secrets_in_env THEN latest["ENCRYPTION_KEY"] ELSE PLACEHOLDER

CipherAtImport == NoCipher

(* What Pydantic finds for the secrets, and in DATABASE_URL, when the process starts. *)
Environment == IF deployment.secrets_in_env THEN latest ELSE Unset

UrlAtImport ==
    CASE deployment.database_url = "default" -> PLACEHOLDER
      [] deployment.database_url = "PENDING" -> PENDING
      [] deployment.database_url = "password" -> latest["DB_PASSWORD"]

(* Phase 2 is for production. *)
Loads == deployment.build_settings /\ deployment.production

(* Importing main.py: get_settings reads the environment, session.py builds the
   engine from the DATABASE_URL that is there, and the lifespan begins. *)
Import(i) ==
    /\ instance[i].pc = "down"
    /\ Set(i, [Down EXCEPT
                 !.pc = IF Loads THEN "loading" ELSE "serving",
                 !.settings = Environment,
                 !.database_url = UrlAtImport,
                 !.engine = UrlAtImport,
                 !.since = latest,
                 !.cipher = CipherAtImport])

(* asyncio.gather: each secret on its own, in any order, at its latest version. *)
FetchSecret(i, s) ==
    /\ instance[i].pc = "loading"
    /\ instance[i].fetched[s] = PLACEHOLDER
    /\ Set(i, [instance[i] EXCEPT !.fetched[s] = latest[s]])

(* A missing project id, secret or permission: load_production_secrets raises,
   and the lifespan with it. *)
FetchFails(i) ==
    /\ instance[i].pc = "loading"
    /\ Set(i, Down)

(* With a Cloud SQL instance the URL is assembled anew, without one its PENDING
   is replaced, if it has one. *)
Assembled(q) ==
    IF deployment.cloud_sql \/ q.database_url = PENDING
    THEN q.fetched["DB_PASSWORD"] ELSE q.database_url

\* slip: whatever has arrived is enough
ArrivedSome(q) == \E s \in Secrets : q.fetched[s] # PLACEHOLDER

Arrived(q) == \A s \in Secrets : q.fetched[s] # PLACEHOLDER

(* The values are set without an await between them, and lifespan goes on,
   whatever check_db_health finds; the engine is not built again. *)
Inject(i) ==
    LET q == instance[i] IN
    /\ q.pc = "loading"
    /\ Arrived(q)
    /\ Set(i, [q EXCEPT !.pc = "serving", !.settings = q.fetched,
                        !.database_url = Assembled(q), !.fetched = Unset])

(* A shutdown, a crash, a smaller scale: all of it is in memory. *)
Stop(i) ==
    /\ instance[i].pc # "down"
    /\ Set(i, Down)

-----------------------------------------------------------------------------
(* Requests. *)

(* The default URL leads to the database of docker-compose, which production has
   not.  Another password held when the engine was built; it may no longer, which
   fails statements (CommitFails), but not those on a pooled connection. *)
Connects(i) ==
    /\ instance[i].engine # PENDING
    /\ instance[i].engine = PLACEHOLDER => ~deployment.production

(* _get_fernet *)
Cipher(i) == IF instance[i].cipher = NoCipher
             THEN instance[i].settings["ENCRYPTION_KEY"] ELSE instance[i].cipher

\* slip: counts every version as one more key
EncryptsWithVersion(v) == v

\* slip: encrypts with the last key of the list
EncryptsWithOldest(v) == OldestKey(v)

(* MultiFernet encrypts with its first key and decrypts with any. *)
EncryptsWith(v) == NewestKey(v)
Decrypts(v, k) == k \in {NewestKey(v), OldestKey(v)}

(* complete_shopify_oauth and complete_meta_oauth: encrypt_token comes after a
   statement that read the row, and before the one that commits it. *)
Encrypt(i) ==
    /\ instance[i].pc = "serving" /\ Connects(i)
    /\ instance[i].storing = NoToken
    /\ Set(i, [instance[i] EXCEPT !.cipher = Cipher(i),
                                  !.storing = EncryptsWith(Cipher(i))])

Commit(i, t) ==
    /\ instance[i].storing # NoToken
    /\ Connects(i)
    /\ token' = [token EXCEPT ![t] = instance[i].storing]
    /\ instance' = [instance EXCEPT ![i].storing = NoToken]
    /\ UNCHANGED <<deployment, latest>>

CommitFails(i) ==
    /\ instance[i].storing # NoToken
    /\ Set(i, [instance[i] EXCEPT !.storing = NoToken])

(* A sync decrypts a token of its row, or gets InvalidToken: either way the
   cipher is built. *)
Decrypt(i, t) ==
    /\ instance[i].pc = "serving" /\ Connects(i)
    /\ token[t] # NoToken
    /\ Set(i, [instance[i] EXCEPT !.cipher = Cipher(i)])

-----------------------------------------------------------------------------
(* The operator. *)

Supersede(s) ==
    /\ latest[s] < MAX_VERSION
    /\ latest' = [latest EXCEPT ![s] = @ + 1]
    /\ UNCHANGED <<deployment, instance, token>>

(* rotate_secret, with the password of the role changed at the same time. *)
RotatePassword == Supersede("DB_PASSWORD")

TwoKeys == NewestKey(latest["ENCRYPTION_KEY"]) # OldestKey(latest["ENCRYPTION_KEY"])

AddKey == ~TwoKeys /\ Supersede("ENCRYPTION_KEY")

(* The values that this deployment's instances are meant to have: a deployment that
   is given no secrets lives with the placeholders. *)
Supplied == IF Loads THEN latest ELSE Environment

IsCurrent(i) ==
    instance[i].pc = "serving" /\ instance[i].settings["ENCRYPTION_KEY"] = Supplied["ENCRYPTION_KEY"]

(* "After all old tokens are re-encrypted" and the instances redeployed. *)
DropKey ==
    /\ TwoKeys
    /\ \A t \in Tokens : token[t] \in {NewestKey(latest["ENCRYPTION_KEY"]), NoToken}
    /\ \A i \in Instances : instance[i].pc = "down" \/ IsCurrent(i)
    /\ Supersede("ENCRYPTION_KEY")

-----------------------------------------------------------------------------

Next ==
    \/ \E i \in Instances :
          \/ Import(i) \/ FetchFails(i) \/ Inject(i) \/ Stop(i)
          \/ \E s \in Secrets : FetchSecret(i, s)
          \/ Encrypt(i) \/ CommitFails(i)
          \/ \E t \in Tokens : Commit(i, t) \/ Decrypt(i, t)
    \/ RotatePassword \/ AddKey \/ DropKey

Spec == Init /\ [][Next]_vars

-----------------------------------------------------------------------------

Serving(i) == instance[i].pc = "serving"

(* secret_manger.py:42, "The app never starts in a partially-configured state": where
   the environment or phase 2 supplies the secrets, an instance that serves has every
   one of them, in a version no older than its own start, whichever fetches fail or
   are slow and whatever is rotated meanwhile; so a redeployment picks up a rotation
   of any secret.  That holds of the engine too, which keeps the URL of the import:
   in production it connects with no other password, and phase 2 comes too late to
   give it one. *)
NeverPartlyConfigured ==
    \A i \in Instances : LET q == instance[i] IN
        Serving(i) =>
            /\ Loads \/ deployment.secrets_in_env =>
                  \A s \in Secrets : q.settings[s] \in q.since[s] .. latest[s]
            /\ Loads =>
                  \/ q.database_url \in q.since["DB_PASSWORD"] .. latest["DB_PASSWORD"]
                  \/ q.database_url = PLACEHOLDER /\ ~Connects(i)
            /\ deployment.production /\ Connects(i) =>
                  /\ deployment.database_url = "password"
                  /\ q.engine = q.since["DB_PASSWORD"]

(* encryption.py:96-98: the cipher that was built at some first use is the one
   that the settings ask for, in every order of loading and use. *)
CipherIsOfSettings ==
    \A i \in Instances :
        Serving(i) => instance[i].cipher \in {NoCipher, instance[i].settings["ENCRYPTION_KEY"]}

(* encryption.py:22-25: through a rotation that is carried out as described, a
   stored token is unreadable only to an instance that started before the
   current value was set; redeploying repairs it, and no order of writes,
   restarts and rotations loses a token. *)
TokensReadable ==
    \A i \in Instances, t \in Tokens :
        Serving(i) /\ IsCurrent(i) /\ token[t] # NoToken => Decrypts(Cipher(i), token[t])
=============================================================================
