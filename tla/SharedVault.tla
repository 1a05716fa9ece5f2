----------------------------- MODULE SharedVault -----------------------------
(***************************************************************************)
(* A daemon at a vault that another daemon may use as well: what it finds  *)
(* there and keeps true, and what the other has to leave alone.  Module    *)
(* Fleet takes this module twice, once for each daemon, so that the lemmas *)
(* are proved once.                                                        *)
(*                                                                         *)
(* The invariant of module Daemon is of no use here: a secret deleted at   *)
(* one daemon stays granted and requested at the other.  What is left of   *)
(* it is about the key alone.                                              *)
(***************************************************************************)
EXTENDS Daemon, TLAPS

\* The vault, as every daemon finds it: one key for all rows, and no key before there is
\* a file.
VaultKeyInv ==
  /\ vault_key \in Keys \cup {NoKey, TornKey}
  /\ DOMAIN secrets \subseteq Ids
  /\ DOMAIN secrets # {} => vault_key \in Keys
  /\ \A id \in DOMAIN secrets : secrets[id] = vault_key
  /\ vault_key # NoKey => database

\* What a daemon has in its memory presupposes a key in the vault, and its vault init that
\* there is none.
HeldKeyInv ==
  /\ unlocked_key # NoKey => unlocked_key = vault_key /\ vault_key \in Keys
  /\ approved_ids # {} => session /\ unlocked_key # NoKey
  /\ DOMAIN pending_requests # {} => vault_key \in Keys
  /\ call.cmd = "RequestsApprove" => vault_key \in Keys
  /\ call.cmd = "VaultInit" =>
       /\ call \in [cmd : {"VaultInit"}, at : {"create", "store", "write"}]
       /\ call.at = "create" \/ database
       /\ vault_key = IF call.at = "write" THEN TornKey ELSE NoKey

\* What another daemon sees of a step: the key is replaced by vault init only, and before
\* it was of any use.
KeyKept ==
  /\ database => database'
  /\ vault_key' = vault_key \/ (call.cmd = "VaultInit" /\ vault_key \notin Keys)

Shares == VaultKeyInv' /\ HeldKeyInv' /\ KeyKept

----------------------------------------------------------------------------
(* The steps of the daemon itself. *)

\* A step that leaves the secrets, the key and the session alone.
LEMMA QuietShares ==
  ASSUME VaultKeyInv, HeldKeyInv, UNCHANGED <<secrets, vault_key, sessionVars>>,
         database => database',
         call' = call \/ call'.cmd \notin {"VaultInit", "RequestsApprove"}
  PROVE  Shares
  BY DEF VaultKeyInv, HeldKeyInv, Shares, KeyKept, sessionVars

\* A step that only changes the session, for which the vault has a key.
LEMMA SessionShares ==
  ASSUME VaultKeyInv, HeldKeyInv, UNCHANGED <<secrets, vault_key>>, database => database',
         call' = call \/ call' = NoCall,
         unlocked_key' # NoKey => unlocked_key' = vault_key /\ vault_key \in Keys,
         approved_ids' # {} => session' /\ unlocked_key' # NoKey,
         DOMAIN pending_requests' # {} => vault_key \in Keys
  PROVE  Shares
  BY DEF VaultKeyInv, HeldKeyInv, Shares, KeyKept, NoCall

\* The commands on secrets use the vault as the steps of a sharer do.
LEMMA ManageVaultShares ==
  ASSUME VaultKeyInv, HeldKeyInv, NEW c \in Clients, ManageVault(c)
  PROVE  Shares
  <1> USE DEF Handle, Begin
  <1>1. ASSUME VaultInit(c) PROVE Shares
    <2>1. CASE UNCHANGED <<vaultVars, sessionVars, call>>
      BY <2>1, QuietShares DEF vaultVars
    <2>2. CASE /\ ~database /\ call' = [cmd |-> "VaultInit", at |-> "create"]
               /\ UNCHANGED <<vaultVars, sessionVars>>
      BY <2>2 DEF VaultKeyInv, HeldKeyInv, Shares, KeyKept, vaultVars, sessionVars
    <2> QED
      BY <1>1, <2>1, <2>2 DEF VaultInit
  <1>2. ASSUME SecretsList(c) \/ \E id \in Ids : SecretShow(c, id) PROVE Shares
    BY <1>2, QuietShares DEF SecretsList, SecretShow, QueryIf, Initialize
  <1>3. ASSUME NEW id \in Ids, SecretPut(c, id) PROVE Shares
    <2>1. CASE /\ unlocked_key # NoKey /\ Initialize /\ UpsertSecret(id, unlocked_key)
               /\ UNCHANGED <<vault_key, sessionVars, call>>
      <3>1. unlocked_key = vault_key /\ vault_key \in Keys
        BY <2>1 DEF HeldKeyInv
      <3>2. CASE secrets' = secrets
        BY <2>1, <3>2, QuietShares DEF Initialize
      <3>3. CASE secrets' = Insert(secrets, id, vault_key)
        <4>1. VaultKeyInv'
          BY <2>1, <3>1, <3>3 DEF VaultKeyInv, Insert, Initialize
        <4> QED
          BY <2>1, <4>1 DEF HeldKeyInv, Shares, KeyKept, Initialize, sessionVars
      <3> QED
        BY <2>1, <3>1, <3>2, <3>3 DEF UpsertSecret
    <2>2. CASE /\ call' = [cmd |-> "SecretPut", id |-> id] /\ Initialize
               /\ UNCHANGED <<secrets, vault_key, sessionVars>>
      BY <2>2, QuietShares DEF Initialize
    <2> QED
      BY <1>3, <2>1, <2>2 DEF SecretPut
  <1>4. ASSUME NEW id \in Ids, SecretDelete(c, id) PROVE Shares
    <2>1. CASE /\ Initialize /\ UNCHANGED <<secrets, vault_key, sessionVars, call>>
      BY <2>1, QuietShares DEF Initialize
    <2>2. CASE /\ Initialize /\ DeleteSecret(id) /\ Forget(id)
               /\ UNCHANGED <<vault_key, session, unlocked_key, next_request_id, call>>
      <3>1. VaultKeyInv'
        BY <2>2 DEF VaultKeyInv, DeleteSecret, Without, Restrict, Initialize
      <3> QED
        BY <2>2, <3>1 DEF HeldKeyInv, Shares, KeyKept, Initialize, Forget
    <2> QED
      BY <1>4, <2>1, <2>2 DEF SecretDelete
  <1> QED
    BY <1>1, <1>2, <1>3, <1>4 DEF ManageVault

\* So do the commands on the session.
LEMMA ManageSessionShares ==
  ASSUME VaultKeyInv, HeldKeyInv, NEW c \in Clients, ManageSession(c)
  PROVE  Shares
  <1> USE DEF Handle, vaultVars
  <1>1. ASSUME SessionStatus(c) PROVE Shares
    BY <1>1, QuietShares DEF SessionStatus
  <1>2. ASSUME SessionClose(c) PROVE Shares
    BY <1>2, SessionShares DEF SessionClose, FreshSession
  <1>3. ASSUME SessionClear(c) PROVE Shares
    BY <1>3, SessionShares DEF SessionClear, HeldKeyInv
  <1>4. ASSUME NEW replace \in BOOLEAN, SessionCreate(c, replace) PROVE Shares
    BY <1>4, QuietShares, SessionShares DEF SessionCreate, FreshSession
  <1> QED
    BY <1>1, <1>2, <1>3, <1>4 DEF ManageSession

\* Requests are made for secrets that are stored, so the vault has a key.
LEMMA ManageRequestsShares ==
  ASSUME VaultKeyInv, HeldKeyInv, NEW c \in Clients, ManageRequests(c)
  PROVE  Shares
  <1> USE DEF Handle, vaultVars
  <1>1. ASSUME RequestsList(c) \/ \E request_id \in 1..MaxRequests : RequestsShow(c, request_id)
        PROVE  Shares
    <2>1. CASE RequestsList(c)
      BY <2>1, QuietShares DEF RequestsList
    <2>2. ASSUME NEW request_id, RequestsShow(c, request_id) PROVE Shares
      BY <2>2, QuietShares DEF RequestsShow, QueryIf
    <2> QED
      BY <1>1, <2>1, <2>2
  <1>2. ASSUME NEW ids \in SUBSET Ids, SecretsRequest(c, ids) PROVE Shares
    <2>1. CASE /\ QueryIf(session /\ ids # {})
               /\ UNCHANGED <<secrets, vault_key, sessionVars, call>>
      BY <2>1, QuietShares DEF QueryIf
    <2>2. CASE /\ ids # {} /\ \A id \in ids : Stored(id)
               /\ Initialize /\ AddRequest(ids)
               /\ UNCHANGED <<secrets, vault_key, session, unlocked_key, approved_ids, call>>
      <3>1. vault_key \in Keys
        BY <2>2 DEF VaultKeyInv, Stored
      <3> QED
        BY <2>2, <3>1, SessionShares DEF HeldKeyInv, Initialize
    <2> QED
      BY <1>2, <2>1, <2>2 DEF SecretsRequest
  <1>3. ASSUME NEW request_id \in 1..MaxRequests,
               \/ RequestsDenyAll(c, request_id)
               \/ \E selection \in SelectionInputs : RequestsDeny(c, request_id, selection)
        PROVE  Shares
    <2>1. DOMAIN pending_requests' \subseteq DOMAIN pending_requests
      BY <1>3 DEF RequestsDenyAll, RequestsDeny, Deny, Without, Restrict, sessionVars
    <2> QED
      BY <1>3, <2>1, SessionShares DEF RequestsDenyAll, RequestsDeny, HeldKeyInv, sessionVars
  <1>4. ASSUME NEW request_id \in 1..MaxRequests, NEW selection \in SelectionInputs,
               RequestsApprove(c, request_id, selection)
        PROVE  Shares
    <2>1. CASE UNCHANGED <<vaultVars, sessionVars, call>>
      BY <2>1, QuietShares
    <2>2. CASE /\ Selectable(request_id, selection) /\ call'.cmd = "RequestsApprove"
               /\ UNCHANGED <<vaultVars, sessionVars>>
      <3>1. vault_key \in Keys
        BY <2>2 DEF HeldKeyInv, Selectable, Pending
      <3> QED
        BY <2>2, <3>1 DEF VaultKeyInv, HeldKeyInv, Shares, KeyKept, sessionVars
    <2> QED
      BY <1>4, <2>1, <2>2 DEF RequestsApprove, Begin
  <1> QED
    BY <1>1, <1>2, <1>3, <1>4 DEF ManageRequests

\* Vault init goes on only where there is no key that anything depends on.
LEMMA VaultInitShares ==
  ASSUME VaultKeyInv, HeldKeyInv, NEW c \in Clients,
         VaultInitCreate(c) \/ VaultInitTruncate(c) \/ VaultInitWrite(c) \/ VaultInitFails(c)
  PROVE  Shares
  <1>1. /\ call \in [cmd : {"VaultInit"}, at : {"create", "store", "write"}]
        /\ call.at = "create" \/ database
        /\ vault_key = IF call.at = "write" THEN TornKey ELSE NoKey
    BY DEF VaultInitCreate, VaultInitTruncate, VaultInitWrite, VaultInitFails, In, HeldKeyInv
  <1>2. /\ DOMAIN secrets = {} /\ unlocked_key = NoKey /\ approved_ids = {}
        /\ DOMAIN pending_requests = {} /\ vault_key \notin Keys
    BY <1>1, VaultAssumption DEF VaultKeyInv, HeldKeyInv
  <1>3. CASE VaultInitCreate(c)
    BY <1>1, <1>2, <1>3
    DEF VaultInitCreate, Initialize, VaultKeyInv, HeldKeyInv, Shares, KeyKept, sessionVars
  <1>4. CASE VaultInitTruncate(c)
    BY <1>1, <1>2, <1>4
    DEF VaultInitTruncate, TruncateKey, VaultKeyInv, HeldKeyInv, Shares, KeyKept, sessionVars
  <1>5. CASE VaultInitWrite(c)
    <2>1. database /\ database' = database /\ vault_key' \in Keys /\ call' = NoCall
      BY <1>1, <1>5 DEF VaultInitWrite, WriteKey, Finish
    <2> QED
      BY <1>1, <1>2, <1>5, <2>1
      DEF VaultInitWrite, NoCall, VaultKeyInv, HeldKeyInv, Shares, KeyKept, sessionVars
  <1>6. CASE VaultInitFails(c)
    BY <1>6, QuietShares DEF VaultInitFails, Finish, NoCall, QueryIf
  <1> QED
    BY <1>3, <1>4, <1>5, <1>6

\* So does what a handler does after it has waited.
LEMMA ContinuesShares ==
  ASSUME VaultKeyInv, HeldKeyInv, NEW c \in Clients, Continues(c)
  PROVE  Shares
  <1> USE DEF Finish, vaultVars
  <1>1. ASSUME LoadKeyFails(c) \/ PromptFails(c) PROVE Shares
    BY <1>1, QuietShares DEF LoadKeyFails, PromptFails, NoCall
  <1>2. ASSUME SecretPutStore(c) PROVE Shares
    <2>1. CASE secrets' = secrets
      BY <1>2, <2>1, QuietShares DEF SecretPutStore, NoCall
    <2>2. CASE secrets' # secrets
      <3>1. /\ call.id \in ValidIds /\ vault_key \in Keys
            /\ secrets' = Insert(secrets, call.id, vault_key)
        BY <1>2, <2>2
        DEF SecretPutStore, UpsertSecret, UpsertOutcome, EncryptOutcome, VaultKeyInv
      <3>2. VaultKeyInv'
        BY <1>2, <3>1, VaultAssumption DEF SecretPutStore, VaultKeyInv, Insert
      <3> QED
        BY <1>2, <3>2 DEF SecretPutStore, NoCall, HeldKeyInv, Shares, KeyKept, sessionVars
    <2> QED
      BY <2>1, <2>2
  <1>3. ASSUME RequestsApproveGrant(c) PROVE Shares
    <2>1. vault_key \in Keys
      BY <1>3 DEF RequestsApproveGrant, In, HeldKeyInv
    <2>2. /\ UNCHANGED <<database, secrets, vault_key, session>>
          /\ call' = NoCall /\ session /\ unlocked_key' = vault_key
      BY <1>3 DEF RequestsApproveGrant, Grant
    <2>3. VaultKeyInv'
      BY <2>2 DEF VaultKeyInv
    <2>4. HeldKeyInv'
      BY <2>1, <2>2, VaultAssumption DEF HeldKeyInv, NoCall
    <2> QED
      BY <2>2, <2>3, <2>4 DEF Shares, KeyKept
  <1> QED
    BY <1>1, <1>2, <1>3, VaultInitShares DEF Continues

\* Every step of a daemon keeps the vault in order and its memory in accord with it, and
\* leaves to the other daemon a key that was of use.
LEMMA StepShares ==
  ASSUME VaultKeyInv, HeldKeyInv, [Next]_vars
  PROVE  VaultKeyInv' /\ HeldKeyInv' /\ KeyKept
  <1> USE DEF Shares
  <1>1. ASSUME NEW c \in Clients,
               Connect(c) \/ Exit(c) \/ LockPoisoned(c) \/ StorageFails(c) \/ UseGrants(c)
        PROVE  Shares
    <2>1. CASE Connect(c) \/ Exit(c) \/ LockPoisoned(c)
      BY <2>1, QuietShares DEF Connect, Exit, LockPoisoned, vaultVars
    <2>2. CASE StorageFails(c)
      BY <2>2, QuietShares DEF StorageFails, Handle, QueryIf
    <2>3. CASE UseGrants(c)
      BY <2>3, QuietShares DEF UseGrants, GrantsList, SecretsGet, Handle, QueryIf
    <2> QED
      BY <1>1, <2>1, <2>2, <2>3
  <1>2. ASSUME NEW c \in Clients, Locks(c) PROVE Shares
    BY <1>1, <1>2, ManageVaultShares, ManageSessionShares, ManageRequestsShares DEF Locks
  <1>3. CASE Restart
    <2>1. UNCHANGED vaultVars /\ call' = NoCall /\ FreshSession
      BY <1>3 DEF Restart
    <2> QED
      BY <2>1, SessionShares DEF FreshSession, vaultVars
  <1>4. CASE UNCHANGED vars
    BY <1>4, QuietShares DEF vars, vaultVars, threadVars
  <1>5. CASE Next
    BY <1>1, <1>2, <1>3, <1>5, ContinuesShares DEF Next
  <1>6. Shares
    BY <1>4, <1>5
  <1> QED
    BY <1>6

----------------------------------------------------------------------------
(* The steps of the other one. *)

\* A daemon's memory stays in accord with a vault whose key is replaced only before it was
\* of any use, and not while the daemon itself is about to store one.
LEMMA OthersShare ==
  ASSUME HeldKeyInv, UNCHANGED <<sessionVars, threadVars>>, database => database',
         vault_key' = vault_key \/ (vault_key \notin Keys /\ call.cmd # "VaultInit")
  PROVE  HeldKeyInv'
  BY DEF HeldKeyInv, sessionVars, threadVars

\* A grant for a secret that is in the vault can be used.
LEMMA StoredGrantIsReadable ==
  ASSUME VaultKeyInv, HeldKeyInv
  PROVE  OneKey /\ approved_ids \cap DOMAIN secrets \subseteq Readable
  <1>1. ASSUME NEW id \in approved_ids, id \in DOMAIN secrets PROVE id \in Readable
    <2>1. /\ id \in Ids /\ session /\ unlocked_key # NoKey
          /\ unlocked_key = vault_key /\ secrets[id] = vault_key /\ vault_key # TornKey
      BY <1>1, VaultAssumption DEF VaultKeyInv, HeldKeyInv
    <2> QED
      BY <1>1, <2>1 DEF Readable, GetOutcomes, ReadOutcome, DecryptOutcome, Stored
  <1>2. OneKey
    BY DEF VaultKeyInv, HeldKeyInv, OneKey
  <1> QED
    BY <1>1, <1>2

\* A fresh machine.
LEMMA InitShares == Init => VaultKeyInv /\ HeldKeyInv
  BY DEF Init, VaultInitial, VaultKeyInv, HeldKeyInv, NoCall
=============================================================================
