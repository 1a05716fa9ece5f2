------------------------------- MODULE Vault -------------------------------
(***************************************************************************)
(* What agent-password keeps outside the daemon's memory: the SQLite file  *)
(* vault.db with its table of secrets, and the vault key in the operating  *)
(* system's credential store (on Linux, a key file).                       *)
(*                                                                         *)
(* A secret is reduced to the key its fields were encrypted under: whether *)
(* a row exists and whether a key opens it is all the daemon's control     *)
(* depends on.  Titles, tags, timestamps, nonces and the fields themselves *)
(* are left out.                                                           *)
(***************************************************************************)
EXTENDS Naturals, FiniteSets, Functions

CONSTANTS
  Ids,        \* the secret ids that occur; their order as strings is that of Nat
  ValidIds,   \* those that validate_secret_id accepts
  Keys,       \* the 32-byte vault keys
  NoKey,      \* no key: none stored, or none unlocked
  TornKey,    \* a key file that was truncated and never (fully) written
  Platform    \* the operating system

ASSUME VaultAssumption ==
  /\ Ids \subseteq Nat
  /\ ValidIds \subseteq Ids
  /\ NoKey \notin Keys
  /\ TornKey \notin Keys
  /\ NoKey # TornKey
  /\ Platform \in {"linux", "macos", "windows"}

VARIABLES
  database,   \* does the file vault.db exist?
  secrets,    \* its table: a function from the stored ids to the key of each
  vault_key   \* the content of the credential store

vaultVars == <<database, secrets, vault_key>>

VaultTypeOK ==
  /\ database \in BOOLEAN
  /\ DOMAIN secrets \subseteq ValidIds
  /\ secrets \in [DOMAIN secrets -> Keys]
  /\ vault_key \in Keys \cup {NoKey, TornKey}

VaultInitial ==
  /\ database = FALSE
  /\ secrets = [id \in {} |-> NoKey]
  /\ vault_key = NoKey

----------------------------------------------------------------------------
\* Tables are functions with a changing domain (the provers cannot expand the
\* @@ of module TLC).
Insert(f, x, v) == [y \in DOMAIN f \cup {x} |-> IF y = x THEN v ELSE f[y]]
Without(f, x)   == Restrict(f, DOMAIN f \ {x})

Stored(id) == id \in DOMAIN secrets

\* initialize and open: every access to the vault opens the file and creates the
\* schema, so the file exists from then on.
Initialize == database' = TRUE

\* A query made only under the condition asked.
QueryIf(asked) == database' = (database \/ asked)

----------------------------------------------------------------------------
\* cipher panics on a key of the wrong length, whatever there is to encrypt ...
EncryptOutcome(key) == IF key = TornKey THEN "panic" ELSE "ok"

\* ... or to decrypt; and what was encrypted under another key cannot be decrypted.
DecryptOutcome(encrypted, key) ==
  IF key = TornKey THEN "panic" ELSE IF encrypted = key THEN "ok" ELSE "broken"

----------------------------------------------------------------------------
\* No validation.
UpsertUnvalidated(id, key) == EncryptOutcome(key)

\* Validation by assertion.
UpsertAsserted(id, key) ==
  IF id \notin ValidIds \/ key = TornKey THEN "panic" ELSE "ok"

\* upsert_secret: the id is validated before the fields are encrypted.
UpsertOutcome(id, key) == IF id \notin ValidIds THEN "refused" ELSE EncryptOutcome(key)

UpsertSecret(id, key) ==
  secrets' = IF UpsertOutcome(id, key) = "ok" THEN Insert(secrets, id, key) ELSE secrets

\* delete_secret, when the row is there.
DeleteSecret(id) == secrets' = Without(secrets, id)

\* read_secret_fields: the row must be there, and be decrypted.
ReadOutcome(id, key) == IF Stored(id) THEN DecryptOutcome(secrets[id], key) ELSE "broken"

----------------------------------------------------------------------------
\* On Linux the vault key is a file; elsewhere the OS replaces it atomically.
KeyIsFile == Platform = "linux"

\* store_vault_key.  The key file is truncated and then written; the other
\* backends replace the item in one call.
TruncateKey == KeyIsFile /\ vault_key' = TornKey
WriteKey    == vault_key' \in Keys
=============================================================================
