---------------------------- MODULE DaemonProofs ----------------------------
(***************************************************************************)
(* What the daemon promises, proved for any number of connections, secrets *)
(* and keys: IInv is inductive, and the invariants the runs check follow   *)
(* from it.                                                                *)
(*                                                                         *)
(* The lemmas of the first part are about what several actions have in     *)
(* common: taking the lock for a whole handler (Handle), for a first part  *)
(* of one (Begin), giving it back (Finish), and leaving the session and    *)
(* the secrets alone (Frame).                                              *)
(***************************************************************************)
EXTENDS Daemon, TLAPS

\* The rest of IInv once threads and the lock are taken care of.
StateInv == VaultTypeOK /\ SessionTypeOK /\ KeyInv /\ InitInv /\ GrantInv
LocksInv == ThreadTypeOK /\ LockInv

\* The two halves of the inductive invariant.
LEMMA IInvParts == IInv <=> StateInv /\ LocksInv
  BY DEF IInv, StateInv, LocksInv, TypeOK

\* A handler that answers anything but "broken" in one step leaves the lock free.
LEMMA HandleKeepsLocks ==
  ASSUME LocksInv, NEW c \in Clients,
         NEW outcome \in {"ok", "refused", "eof", "panic"}, Handle(c, outcome)
  PROVE  LocksInv' /\ call' = call /\ call = NoCall /\ poisoned' = (outcome = "panic")
  BY DaemonAssumption DEF LocksInv, ThreadTypeOK, LockInv, NeverBroken, Handle, Serve, Respond, Responses

\* A split handler takes the lock with it.
LEMMA BeginKeepsLocks ==
  ASSUME LocksInv, NEW c \in Clients, NEW started \in Calls \ {NoCall}, Begin(c, started)
  PROVE  LocksInv' /\ call' = started /\ call = NoCall /\ poisoned' = poisoned
  BY DaemonAssumption DEF LocksInv, ThreadTypeOK, LockInv, NeverBroken, Begin, Serve, Responses

\* Its last step gives the lock back.
LEMMA FinishKeepsLocks ==
  ASSUME LocksInv, NEW c \in Clients, NEW cmd, In(c, cmd),
         NEW outcome \in {"ok", "refused", "eof", "panic"}, Finish(c, outcome)
  PROVE  LocksInv' /\ call' = NoCall /\ poisoned' = (outcome = "panic")
  <1>1. mutex = c
    BY DEF LocksInv, LockInv, In
  <1> QED
    BY <1>1, DaemonAssumption
    DEF LocksInv, ThreadTypeOK, LockInv, NeverBroken, Finish, Respond, Responses, Calls

\* A step that leaves the secrets, the keys and the session alone, and neither starts a
\* call nor panics.
LEMMA Frame ==
  ASSUME StateInv, UNCHANGED <<secrets, vault_key, sessionVars>>,
         database' \in BOOLEAN, database => database',
         call' \in {call, NoCall}, poisoned' => poisoned
  PROVE  StateInv'
  <1>1. VaultTypeOK' /\ SessionTypeOK'
    BY DEF StateInv, VaultTypeOK, SessionTypeOK, sessionVars
  <1>2. KeyInv'
    BY DEF StateInv, KeyInv, OneKey, sessionVars
  <1>3. InitInv'
    BY DEF StateInv, InitInv, sessionVars, NoCall
  <1>4. GrantInv'
    BY DEF StateInv, GrantInv, ApprovalStillPending, PendingStored, Stored, sessionVars, NoCall
  <1> QED
    BY <1>1, <1>2, <1>3, <1>4 DEF StateInv

\* What a selection picks is part of what was requested.
LEMMA SelectedArePending ==
  ASSUME NEW request_id, NEW selection
  PROVE  Selected(request_id, selection) \subseteq pending_requests[request_id]
  BY DEF Selected, SelectRequestedIds

----------------------------------------------------------------------------
(* Handlers that leave the secrets, the keys and the session as they are. *)

\* A whole handler that only reads.
LEMMA QuietHandler ==
  ASSUME IInv, NEW c \in Clients, NEW outcome \in {"ok", "refused"}, Handle(c, outcome),
         UNCHANGED <<secrets, vault_key, sessionVars>>,
         database' \in BOOLEAN, database => database'
  PROVE  IInv'
  <1>1. LocksInv' /\ call' = call /\ ~poisoned'
    BY HandleKeepsLocks, IInvParts
  <1>2. StateInv'
    BY <1>1, Frame, IInvParts
  <1> QED
    BY <1>1, <1>2, IInvParts DEF IInv, StateInv, LocksInv, TypeOK

\* The end of a split handler that changed nothing.
LEMMA QuietFinish ==
  ASSUME IInv, NEW c \in Clients, NEW cmd, In(c, cmd), Finish(c, "refused"),
         UNCHANGED <<secrets, vault_key, sessionVars>>,
         database' \in BOOLEAN, database => database'
  PROVE  IInv'
  <1>1. LocksInv' /\ call' = NoCall /\ ~poisoned'
    BY FinishKeepsLocks, IInvParts
  <1>2. StateInv'
    BY <1>1, Frame, IInvParts
  <1> QED
    BY <1>1, <1>2 DEF IInv, StateInv, LocksInv, TypeOK

\* A step of a connection's thread outside of any handler.
LEMMA QuietThread ==
  ASSUME IInv, NEW c \in Clients, conn[c] # "holding",
         NEW state \in {"idle", "waiting", "eof"}, conn' = [conn EXCEPT ![c] = state],
         UNCHANGED <<vaultVars, sessionVars, mutex, call, poisoned>>
  PROVE  IInv'
  <1>1. LocksInv'
    BY DEF IInv, TypeOK, LocksInv, ThreadTypeOK, LockInv, NeverBroken, Responses
  <1>2. StateInv'
    BY Frame, IInvParts DEF vaultVars, StateInv, VaultTypeOK
  <1> QED
    BY <1>1, <1>2 DEF IInv, StateInv, LocksInv, TypeOK

\* The commands that only read.
LEMMA ReadersKeepIInv ==
  ASSUME IInv, NEW c \in Clients
  PROVE  /\ SessionStatus(c) => IInv'
         /\ SecretsList(c) => IInv'
         /\ RequestsList(c) => IInv'
         /\ GrantsList(c) => IInv'
         /\ StorageFails(c) => IInv'
         /\ \A id \in Ids : SecretShow(c, id) => IInv'
         /\ \A request_id \in Nat : RequestsShow(c, request_id) => IInv'
  <1> database \in BOOLEAN
    BY DEF IInv, TypeOK, VaultTypeOK
  <1>1. SessionStatus(c) => IInv'
    BY QuietHandler DEF SessionStatus, vaultVars
  <1>2. SecretsList(c) => IInv'
    BY QuietHandler DEF SecretsList, QueryIf, IInv, TypeOK, SessionTypeOK
  <1>3. RequestsList(c) => IInv'
    BY QuietHandler DEF RequestsList, vaultVars
  <1>4. GrantsList(c) => IInv'
    <2>1. \A id \in approved_ids : Stored(id)
      BY DEF IInv, GrantInv, Stored
    <2>2. session \in BOOLEAN
      BY DEF IInv, TypeOK, SessionTypeOK
    <2> QED
      BY <2>1, <2>2, QuietHandler DEF GrantsList, QueryIf
  <1>5. StorageFails(c) => IInv'
    BY QuietHandler DEF StorageFails, QueryIf
  <1>6. ASSUME NEW id \in Ids, SecretShow(c, id) PROVE IInv'
    BY <1>6, QuietHandler DEF SecretShow, Initialize
  <1>7. ASSUME NEW request_id \in Nat, RequestsShow(c, request_id) PROVE IInv'
    <2>1. request_id \in DOMAIN pending_requests => \A id \in pending_requests[request_id] : Stored(id)
      BY DEF IInv, GrantInv, PendingStored
    <2>2. Pending(request_id) \in BOOLEAN
      BY DEF Pending
    <2>3. \E outcome \in {"ok", "refused"} : Handle(c, outcome)
      BY <1>7, <2>1 DEF RequestsShow, Pending
    <2>4. database' \in BOOLEAN /\ (database => database')
      BY <1>7, <2>2 DEF RequestsShow, QueryIf
    <2> QED
      BY <1>7, <2>3, <2>4, QuietHandler DEF RequestsShow
  <1> QED
    BY <1>1, <1>2, <1>3, <1>4, <1>5, <1>6, <1>7

\* A secret that is approved is readable: the grant comes with a session that is
\* unlocked, and its key is the one key of the vault.
LEMMA ApprovedReadable ==
  ASSUME IInv, NEW id \in approved_ids
  PROVE  /\ Stored(id) /\ session /\ unlocked_key # NoKey
         /\ ReadOutcome(id, unlocked_key) = "ok"
  <1>1. Stored(id) /\ session /\ unlocked_key # NoKey
    BY DEF IInv, GrantInv, Stored
  <1>2. vault_key \in Keys /\ secrets[id] = vault_key /\ unlocked_key = vault_key
    BY <1>1 DEF IInv, KeyInv, OneKey, Stored
  <1>3. unlocked_key # TornKey
    BY <1>2, VaultAssumption
  <1> QED
    BY <1>1, <1>2, <1>3 DEF ReadOutcome, DecryptOutcome

\* secrets get: it reads, or refuses.
LEMMA SecretsGetKeepsIInv ==
  ASSUME IInv, NEW c \in Clients, NEW id \in Ids, SecretsGet(c, id)
  PROVE  IInv'
  <1>1. PICK outcome \in GetOutcomes(id) : Handle(c, outcome)
    BY DEF SecretsGet
  <1>2. outcome \in {"ok", "refused"}
    <2>1. CASE session /\ id \in approved_ids
      BY <2>1, ApprovedReadable DEF GetOutcomes
    <2>2. CASE ~(session /\ id \in approved_ids)
      BY <2>2 DEF GetOutcomes
    <2> QED
      BY <2>1, <2>2
  <1>3. database' \in BOOLEAN /\ (database => database')
    <2>1. database \in BOOLEAN /\ session \in BOOLEAN
      BY DEF IInv, TypeOK, VaultTypeOK, SessionTypeOK
    <2> QED
      BY <2>1 DEF SecretsGet, QueryIf
  <1> QED
    BY <1>1, <1>2, <1>3, QuietHandler DEF SecretsGet

\* The steps of a connection's thread, and the ends of split handlers without effect.
LEMMA OthersKeepIInv ==
  ASSUME IInv, NEW c \in Clients
  PROVE  /\ Connect(c) => IInv'
         /\ Exit(c) => IInv'
         /\ LockPoisoned(c) => IInv'
         /\ VaultInitFails(c) => IInv'
         /\ LoadKeyFails(c) => IInv'
         /\ PromptFails(c) => IInv'
  <1> database \in BOOLEAN
    BY DEF IInv, TypeOK, VaultTypeOK
  <1>1. Connect(c) => IInv'
    BY QuietThread DEF Connect
  <1>2. Exit(c) => IInv'
    BY QuietThread DEF Exit, Responses
  <1>3. LockPoisoned(c) => IInv'
    BY QuietThread DEF LockPoisoned
  <1>4. VaultInitFails(c) => IInv'
    BY QuietFinish DEF VaultInitFails, QueryIf
  <1>5. LoadKeyFails(c) => IInv'
    BY QuietFinish DEF LoadKeyFails, vaultVars
  <1>6. PromptFails(c) => IInv'
    BY QuietFinish DEF PromptFails, vaultVars
  <1> QED
    BY <1>1, <1>2, <1>3, <1>4, <1>5, <1>6

----------------------------------------------------------------------------
(* The session goes, in a command or with its daemon. *)

\* A session that starts anew holds nothing.
LEMMA FreshKeepsState ==
  ASSUME IInv, FreshSession, session' \in BOOLEAN, UNCHANGED vaultVars,
         call' = NoCall, ~poisoned'
  PROVE  StateInv'
  <1>1. VaultTypeOK' /\ SessionTypeOK'
    BY DEF IInv, TypeOK, VaultTypeOK, SessionTypeOK, FreshSession, vaultVars
  <1>2. KeyInv'
    BY DEF IInv, KeyInv, OneKey, FreshSession, vaultVars
  <1>3. InitInv' /\ GrantInv'
    BY DEF InitInv, GrantInv, ApprovalStillPending, PendingStored, FreshSession, NoCall
  <1> QED
    BY <1>1, <1>2, <1>3 DEF StateInv

\* The commands that end, clear or create a session.
LEMMA SessionCommandsKeepIInv ==
  ASSUME IInv, NEW c \in Clients
  PROVE  /\ SessionClose(c) => IInv'
         /\ SessionClear(c) => IInv'
         /\ \A replace \in BOOLEAN : SessionCreate(c, replace) => IInv'
         /\ Restart => IInv'
  <1> USE IInvParts
  <1>1. ASSUME Handle(c, "ok"), FreshSession, session' \in BOOLEAN, UNCHANGED vaultVars
        PROVE  IInv'
    <2>1. LocksInv' /\ call' = NoCall /\ ~poisoned'
      BY <1>1, HandleKeepsLocks
    <2> QED
      BY <1>1, <2>1, FreshKeepsState DEF IInv, StateInv, LocksInv, TypeOK
  <1>2. SessionClose(c) => IInv'
    BY <1>1 DEF SessionClose
  <1>3. ASSUME SessionClear(c) PROVE IInv'
    <2>1. PICK outcome \in {"ok", "refused"} : Handle(c, outcome)
      BY <1>3 DEF SessionClear
    <2>2. LocksInv' /\ call' = NoCall /\ call = NoCall /\ ~poisoned'
      BY <2>1, HandleKeepsLocks
    <2>3. VaultTypeOK' /\ SessionTypeOK'
      BY <1>3 DEF SessionClear, IInv, TypeOK, VaultTypeOK, SessionTypeOK, vaultVars
    <2>4. KeyInv' /\ InitInv'
      BY <1>3, <2>2 DEF SessionClear, IInv, KeyInv, OneKey, InitInv, NoCall, vaultVars
    <2>5. GrantInv'
      BY <1>3, <2>2 DEF SessionClear, IInv, GrantInv, ApprovalStillPending, PendingStored,
                        Stored, NoCall, vaultVars
    <2> QED
      BY <2>2, <2>3, <2>4, <2>5 DEF IInv, LocksInv, TypeOK
  <1>4. ASSUME NEW replace \in BOOLEAN, SessionCreate(c, replace) PROVE IInv'
    <2>1. CASE Handle(c, "refused") /\ UNCHANGED <<vaultVars, sessionVars>>
      BY <2>1, QuietHandler DEF vaultVars, IInv, TypeOK, VaultTypeOK
    <2>2. CASE Handle(c, "ok") /\ session' = TRUE /\ FreshSession /\ UNCHANGED vaultVars
      BY <2>2, <1>1
    <2> QED
      BY <1>4, <2>1, <2>2 DEF SessionCreate
  <1>5. ASSUME Restart PROVE IInv'
    <2>1. LocksInv'
      BY <1>5, DaemonAssumption
      DEF Restart, IInv, TypeOK, LocksInv, ThreadTypeOK, LockInv, NeverBroken, Responses, Calls
    <2>2. StateInv'
      BY <1>5, FreshKeepsState DEF Restart
    <2> QED
      BY <2>1, <2>2 DEF IInv, StateInv, LocksInv, TypeOK
  <1> QED
    BY <1>2, <1>3, <1>4, <1>5

----------------------------------------------------------------------------
(* vault init *)

\* vault init, up to the test whether there is a vault.
LEMMA VaultInitKeepsIInv ==
  ASSUME IInv, NEW c \in Clients, VaultInit(c)
  PROVE  IInv'
  <1>1. CASE database /\ Handle(c, "refused") /\ UNCHANGED <<vaultVars, sessionVars>>
    BY <1>1, QuietHandler DEF vaultVars, IInv, TypeOK, VaultTypeOK
  <1>2. CASE /\ ~database
             /\ Begin(c, [cmd |-> "VaultInit", at |-> "create"])
             /\ UNCHANGED <<vaultVars, sessionVars>>
    <2> DEFINE started == [cmd |-> "VaultInit", at |-> "create"]
    <2>1. started \in Calls \ {NoCall} /\ started.cmd = "VaultInit" /\ started.at = "create"
      BY DEF Calls, NoCall
    <2> HIDE DEF started
    <2>2. LocksInv' /\ call' = started /\ poisoned' = poisoned
      BY <1>2, <2>1, BeginKeepsLocks, IInvParts DEF started
    \* Without a file there is no key, so nothing was stored and nothing unlocked.
    <2>3. vault_key = NoKey /\ DOMAIN secrets = {} /\ unlocked_key = NoKey
      BY <1>2, VaultAssumption DEF IInv, KeyInv, OneKey
    <2>4. VaultTypeOK' /\ SessionTypeOK'
      BY <1>2 DEF IInv, TypeOK, VaultTypeOK, SessionTypeOK, vaultVars, sessionVars
    <2>5. KeyInv' /\ InitInv'
      BY <1>2, <2>1, <2>2, <2>3 DEF IInv, KeyInv, OneKey, InitInv, vaultVars, sessionVars
    <2>6. GrantInv'
      BY <1>2, <2>1, <2>2
      DEF IInv, GrantInv, ApprovalStillPending, PendingStored, Stored, vaultVars, sessionVars
    <2> QED
      BY <2>2, <2>4, <2>5, <2>6 DEF IInv, LocksInv, TypeOK
  <1> QED
    BY <1>1, <1>2 DEF VaultInit

\* vault init, creating the database.
LEMMA VaultInitCreateKeepsIInv ==
  ASSUME IInv, NEW c \in Clients, VaultInitCreate(c)
  PROVE  IInv'
  <1>1. /\ call.cmd = "VaultInit" /\ call.at = "create"
        /\ DOMAIN secrets = {} /\ unlocked_key = NoKey /\ vault_key = NoKey
    BY DEF VaultInitCreate, In, IInv, InitInv
  <1>2. call' \in Calls /\ call' # NoCall /\ call'.cmd = "VaultInit" /\ call'.at = "store"
    BY <1>1 DEF VaultInitCreate, IInv, TypeOK, ThreadTypeOK, Calls, NoCall
  <1>3. LocksInv'
    BY <1>1, <1>2
    DEF VaultInitCreate, IInv, TypeOK, ThreadTypeOK, LocksInv, LockInv, NeverBroken, NoCall
  <1>4. VaultTypeOK' /\ SessionTypeOK'
    BY DEF VaultInitCreate, Initialize, IInv, TypeOK, VaultTypeOK, SessionTypeOK, sessionVars
  <1>5. KeyInv' /\ InitInv'
    BY <1>1, <1>2
    DEF VaultInitCreate, Initialize, IInv, KeyInv, OneKey, InitInv, sessionVars
  <1>6. GrantInv'
    BY <1>1, <1>2
    DEF VaultInitCreate, IInv, GrantInv, ApprovalStillPending, PendingStored, Stored, sessionVars
  <1> QED
    BY <1>3, <1>4, <1>5, <1>6 DEF IInv, LocksInv, TypeOK

\* vault init, emptying the key file.
LEMMA VaultInitTruncateKeepsIInv ==
  ASSUME IInv, NEW c \in Clients, VaultInitTruncate(c)
  PROVE  IInv'
  <1>1. /\ call.cmd = "VaultInit" /\ call.at = "store"
        /\ database /\ DOMAIN secrets = {} /\ unlocked_key = NoKey
    BY DEF VaultInitTruncate, In, IInv, InitInv
  <1>2. call' \in Calls /\ call' # NoCall /\ call'.cmd = "VaultInit" /\ call'.at = "write"
    BY <1>1 DEF VaultInitTruncate, IInv, TypeOK, ThreadTypeOK, Calls, NoCall
  <1>3. LocksInv'
    BY <1>1, <1>2
    DEF VaultInitTruncate, IInv, TypeOK, ThreadTypeOK, LocksInv, LockInv, NeverBroken, NoCall
  <1>4. VaultTypeOK' /\ SessionTypeOK'
    BY DEF VaultInitTruncate, TruncateKey, IInv, TypeOK, VaultTypeOK, SessionTypeOK, sessionVars
  <1>5. KeyInv' /\ InitInv'
    BY <1>1, <1>2, VaultAssumption
    DEF VaultInitTruncate, TruncateKey, IInv, KeyInv, OneKey, InitInv, sessionVars
  <1>6. GrantInv'
    BY <1>1, <1>2
    DEF VaultInitTruncate, IInv, GrantInv, ApprovalStillPending, PendingStored, Stored, sessionVars
  <1> QED
    BY <1>3, <1>4, <1>5, <1>6 DEF IInv, LocksInv, TypeOK

\* vault init, storing the key.
LEMMA VaultInitWriteKeepsIInv ==
  ASSUME IInv, NEW c \in Clients, VaultInitWrite(c)
  PROVE  IInv'
  <1>1. call.cmd = "VaultInit" /\ database /\ DOMAIN secrets = {} /\ unlocked_key = NoKey
    <2>1. call.at # "create"
      BY DEF VaultInitWrite
    <2> QED
      BY <2>1 DEF VaultInitWrite, In, IInv, InitInv
  <1>2. PICK outcome \in {"ok", "refused"} : Finish(c, outcome)
    BY DEF VaultInitWrite
  <1>3. LocksInv' /\ call' = NoCall /\ ~poisoned'
    BY <1>2, FinishKeepsLocks, IInvParts DEF VaultInitWrite
  <1>4. VaultTypeOK' /\ SessionTypeOK'
    BY DEF VaultInitWrite, WriteKey, IInv, TypeOK, VaultTypeOK, SessionTypeOK, sessionVars
  <1>5. KeyInv' /\ InitInv'
    BY <1>1, <1>3
    DEF VaultInitWrite, WriteKey, KeyInv, OneKey, InitInv, NoCall, sessionVars
  <1>6. GrantInv'
    BY <1>3
    DEF VaultInitWrite, IInv, GrantInv, ApprovalStillPending, PendingStored, Stored, NoCall,
        sessionVars
  <1> QED
    BY <1>3, <1>4, <1>5, <1>6 DEF IInv, LocksInv, TypeOK

----------------------------------------------------------------------------
(* secret put and secret delete *)

\* Storing a secret under the key of the vault.
LEMMA UpsertKeepsState ==
  ASSUME IInv, NEW id \in Ids, vault_key # NoKey,
         UpsertSecret(id, vault_key), database' = TRUE, UNCHANGED <<vault_key, sessionVars>>,
         call' = NoCall, poisoned' = (UpsertOutcome(id, vault_key) = "panic")
  PROVE  StateInv'
  <1> DEFINE stored == UpsertOutcome(id, vault_key) = "ok"
  <1>1. stored => id \in ValidIds /\ vault_key \in Keys
    BY DEF UpsertOutcome, EncryptOutcome, IInv, TypeOK, VaultTypeOK
  <1>2. UpsertOutcome(id, vault_key) = "panic" => vault_key = TornKey
    BY DEF UpsertOutcome, EncryptOutcome
  <1>3. /\ DOMAIN secrets \subseteq DOMAIN secrets'
        /\ \A x \in DOMAIN secrets' : x \in DOMAIN secrets \/ (stored /\ x = id)
        /\ \A x \in DOMAIN secrets' : secrets'[x] = vault_key
    BY DEF UpsertSecret, Insert, IInv, KeyInv, OneKey
  <1>4. secrets' = [x \in DOMAIN secrets' |-> secrets'[x]]
    BY DEF UpsertSecret, Insert, IInv, TypeOK, VaultTypeOK
  <1> HIDE DEF stored
  <1>5. VaultTypeOK'
    BY <1>1, <1>3, <1>4 DEF IInv, TypeOK, VaultTypeOK, KeyInv
  <1>6. SessionTypeOK'
    BY DEF IInv, TypeOK, SessionTypeOK, sessionVars
  <1>7. KeyInv'
    BY <1>1, <1>2, <1>3 DEF IInv, KeyInv, OneKey, sessionVars
  <1>8. InitInv' /\ GrantInv'
    BY <1>3
    DEF IInv, InitInv, GrantInv, ApprovalStillPending, PendingStored, Stored, NoCall, sessionVars
  <1> QED
    BY <1>5, <1>6, <1>7, <1>8 DEF StateInv

\* secret put: with a key at hand it stores, without one it loads the key first.
LEMMA SecretPutKeepsIInv ==
  ASSUME IInv, NEW c \in Clients, NEW id \in Ids, SecretPut(c, id)
  PROVE  IInv'
  <1>1. CASE /\ unlocked_key # NoKey
             /\ Handle(c, UpsertOutcome(id, unlocked_key))
             /\ Initialize
             /\ UpsertSecret(id, unlocked_key)
             /\ UNCHANGED <<vault_key, sessionVars>>
    <2>1. unlocked_key = vault_key
      BY <1>1 DEF IInv, KeyInv, OneKey
    <2>2. UpsertOutcome(id, vault_key) \in {"ok", "refused", "eof", "panic"}
      BY DEF UpsertOutcome, EncryptOutcome
    <2>3. /\ LocksInv' /\ call' = NoCall
          /\ poisoned' = (UpsertOutcome(id, vault_key) = "panic")
      BY <1>1, <2>1, <2>2, HandleKeepsLocks, IInvParts
    <2>4. StateInv'
      BY <1>1, <2>1, <2>3, UpsertKeepsState DEF Initialize
    <2> QED
      BY <2>3, <2>4 DEF IInv, StateInv, LocksInv, TypeOK
  <1>2. CASE /\ Begin(c, [cmd |-> "SecretPut", id |-> id])
             /\ Initialize
             /\ UNCHANGED <<secrets, vault_key, sessionVars>>
    <2> DEFINE started == [cmd |-> "SecretPut", id |-> id]
    <2>1. started \in Calls \ {NoCall} /\ started.cmd = "SecretPut"
      BY DEF Calls, NoCall
    <2> HIDE DEF started
    <2>2. LocksInv' /\ call' = started /\ poisoned' = poisoned
      BY <1>2, <2>1, BeginKeepsLocks, IInvParts DEF started
    <2>3. VaultTypeOK' /\ SessionTypeOK'
      BY <1>2 DEF Initialize, IInv, TypeOK, VaultTypeOK, SessionTypeOK, sessionVars
    <2>4. KeyInv' /\ InitInv'
      BY <1>2, <2>1, <2>2 DEF Initialize, IInv, KeyInv, OneKey, InitInv, sessionVars
    <2>5. GrantInv'
      BY <1>2, <2>1, <2>2
      DEF IInv, GrantInv, ApprovalStillPending, PendingStored, Stored, sessionVars
    <2> QED
      BY <2>2, <2>3, <2>4, <2>5 DEF IInv, LocksInv, TypeOK
  <1> QED
    BY <1>1, <1>2 DEF SecretPut

\* secret put, with the key it has loaded.
LEMMA SecretPutStoreKeepsIInv ==
  ASSUME IInv, NEW c \in Clients, SecretPutStore(c)
  PROVE  IInv'
  <1>1. call.id \in Ids
    BY DEF SecretPutStore, In, IInv, TypeOK, ThreadTypeOK, Calls, NoCall
  <1>2. UpsertOutcome(call.id, vault_key) \in {"ok", "refused", "eof", "panic"}
    BY DEF UpsertOutcome, EncryptOutcome
  <1>3. /\ LocksInv' /\ call' = NoCall
        /\ poisoned' = (UpsertOutcome(call.id, vault_key) = "panic")
    BY <1>2, FinishKeepsLocks, IInvParts DEF SecretPutStore
  <1>4. database' = TRUE
    BY DEF SecretPutStore, IInv, KeyInv, TypeOK, VaultTypeOK
  <1>5. StateInv'
    BY <1>1, <1>3, <1>4, UpsertKeepsState DEF SecretPutStore
  <1> QED
    BY <1>3, <1>5 DEF IInv, StateInv, LocksInv, TypeOK

\* secret delete: the secret, its grant and its place in every request.
LEMMA SecretDeleteKeepsIInv ==
  ASSUME IInv, NEW c \in Clients, NEW id \in Ids, SecretDelete(c, id)
  PROVE  IInv'
  <1>1. CASE /\ Handle(c, "refused") /\ Initialize
             /\ UNCHANGED <<secrets, vault_key, sessionVars>>
    BY <1>1, QuietHandler DEF Initialize
  <1>2. CASE /\ Handle(c, "ok") /\ Initialize /\ DeleteSecret(id) /\ Forget(id)
             /\ UNCHANGED <<vault_key, session, unlocked_key, next_request_id>>
    <2>1. LocksInv' /\ call' = NoCall /\ ~poisoned'
      BY <1>2, HandleKeepsLocks, IInvParts
    <2>2. secrets' = [x \in DOMAIN secrets \ {id} |-> secrets[x]]
      BY <1>2 DEF DeleteSecret, Without, Restrict
    <2>3. /\ approved_ids' = approved_ids \ {id}
          /\ DOMAIN pending_requests' = DOMAIN pending_requests
          /\ \A n \in DOMAIN pending_requests : pending_requests'[n] = pending_requests[n] \ {id}
          /\ pending_requests' \in [DOMAIN pending_requests' -> SUBSET Ids]
      BY <1>2 DEF Forget, IInv, TypeOK, SessionTypeOK
    <2>4. VaultTypeOK'
      BY <1>2, <2>2 DEF Initialize, IInv, TypeOK, VaultTypeOK
    <2>5. SessionTypeOK'
      BY <1>2, <2>3 DEF IInv, TypeOK, SessionTypeOK
    <2>6. KeyInv'
      BY <1>2, <2>1, <2>2 DEF Initialize, IInv, KeyInv, OneKey
    <2>7. InitInv' /\ GrantInv'
      BY <1>2, <2>1, <2>2, <2>3
      DEF IInv, InitInv, GrantInv, ApprovalStillPending, PendingStored, Stored, NoCall
    <2> QED
      BY <2>1, <2>4, <2>5, <2>6, <2>7 DEF IInv, LocksInv, TypeOK
  <1> QED
    BY <1>1, <1>2 DEF SecretDelete

----------------------------------------------------------------------------
(* Requests: made, denied, approved. *)

\* A whole handler that only changes the pending requests: those that are left, or
\* new, name stored secrets.
LEMMA RequestsHandler ==
  ASSUME IInv, NEW c \in Clients, Handle(c, "ok"),
         database' \in BOOLEAN, database => database',
         UNCHANGED <<secrets, vault_key, session, unlocked_key, approved_ids>>,
         next_request_id' \in Nat \ {0},
         pending_requests' = [n \in DOMAIN pending_requests' |-> pending_requests'[n]],
         \A n \in DOMAIN pending_requests' :
           /\ n \in 1..(next_request_id' - 1)
           /\ pending_requests'[n] \subseteq DOMAIN secrets
  PROVE  IInv'
  <1>1. LocksInv' /\ call' = NoCall /\ ~poisoned'
    BY HandleKeepsLocks, IInvParts
  <1>2. VaultTypeOK'
    BY DEF IInv, TypeOK, VaultTypeOK
  <1>3. DOMAIN secrets \subseteq Ids
    BY VaultAssumption DEF IInv, TypeOK, VaultTypeOK
  <1>4. SessionTypeOK'
    BY <1>3 DEF IInv, TypeOK, SessionTypeOK
  <1>5. KeyInv'
    BY <1>1 DEF IInv, KeyInv, OneKey
  <1>6. InitInv' /\ GrantInv'
    BY <1>1
    DEF IInv, InitInv, GrantInv, ApprovalStillPending, PendingStored, Stored, NoCall
  <1> QED
    BY <1>1, <1>2, <1>4, <1>5, <1>6 DEF IInv, LocksInv, TypeOK

\* The pending requests of a state in which IInv holds.
LEMMA PendingFacts ==
  ASSUME IInv
  PROVE  /\ next_request_id \in Nat \ {0}
         /\ database \in BOOLEAN
         /\ pending_requests = [n \in DOMAIN pending_requests |-> pending_requests[n]]
         /\ \A n \in DOMAIN pending_requests :
              /\ n \in 1..(next_request_id - 1)
              /\ pending_requests[n] \subseteq DOMAIN secrets
  BY DEF IInv, TypeOK, SessionTypeOK, VaultTypeOK, GrantInv, PendingStored, Stored

\* secrets request: what it stores is numbered afresh and names stored secrets.
LEMMA SecretsRequestKeepsIInv ==
  ASSUME IInv, NEW c \in Clients, NEW ids \in SUBSET Ids, SecretsRequest(c, ids)
  PROVE  IInv'
  <1>1. CASE /\ Handle(c, "refused") /\ QueryIf(session /\ ids # {})
             /\ UNCHANGED <<secrets, vault_key, sessionVars>>
    BY <1>1, QuietHandler DEF QueryIf, IInv, TypeOK, VaultTypeOK, SessionTypeOK
  <1>2. CASE /\ \A id \in ids : Stored(id)
             /\ Handle(c, "ok") /\ Initialize /\ AddRequest(ids)
             /\ UNCHANGED <<secrets, vault_key, session, unlocked_key, approved_ids>>
    <2>1. /\ DOMAIN pending_requests' = DOMAIN pending_requests \cup {next_request_id}
          /\ \A n \in DOMAIN pending_requests' :
               pending_requests'[n] = IF n = next_request_id THEN ids ELSE pending_requests[n]
          /\ pending_requests' = [n \in DOMAIN pending_requests' |-> pending_requests'[n]]
          /\ next_request_id' = next_request_id + 1
      BY <1>2 DEF AddRequest, Insert
    <2>2. \A n \in DOMAIN pending_requests' :
            /\ n \in 1..(next_request_id' - 1)
            /\ pending_requests'[n] \subseteq DOMAIN secrets
      BY <1>2, <2>1, PendingFacts DEF Stored
    <2> QED
      BY <1>2, <2>1, <2>2, PendingFacts, RequestsHandler DEF Initialize
  <1> QED
    BY <1>1, <1>2 DEF SecretsRequest

\* Denying leaves less of the requests.
LEMMA DenyKeepsPending ==
  ASSUME IInv, NEW request_id, request_id \in DOMAIN pending_requests, NEW denied,
         \/ pending_requests' = Without(pending_requests, request_id)
         \/ Deny(request_id, denied)
  PROVE  /\ DOMAIN pending_requests' \subseteq DOMAIN pending_requests
         /\ pending_requests' = [n \in DOMAIN pending_requests' |-> pending_requests'[n]]
         /\ \A n \in DOMAIN pending_requests' : pending_requests'[n] \subseteq pending_requests[n]
  <1>1. CASE pending_requests' = Without(pending_requests, request_id)
    BY <1>1 DEF Without, Restrict
  <1>2. CASE pending_requests' = [pending_requests EXCEPT ![request_id] =
                                    pending_requests[request_id] \ denied]
    BY <1>2, PendingFacts
  <1> QED
    BY <1>1, <1>2 DEF Deny

\* requests deny, of all of a request or of some of it.
LEMMA DenyKeepsIInv ==
  ASSUME IInv, NEW c \in Clients, NEW request_id \in Nat
  PROVE  /\ RequestsDenyAll(c, request_id) => IInv'
         /\ \A selection : RequestsDeny(c, request_id, selection) => IInv'
  <1>1. ASSUME NEW denied, Handle(c, "ok"), request_id \in DOMAIN pending_requests,
               \/ pending_requests' = Without(pending_requests, request_id)
               \/ Deny(request_id, denied),
               UNCHANGED <<vaultVars, session, unlocked_key, approved_ids, next_request_id>>
        PROVE  IInv'
    <2>1. \A n \in DOMAIN pending_requests' :
            /\ n \in 1..(next_request_id' - 1)
            /\ pending_requests'[n] \subseteq DOMAIN secrets
      BY <1>1, PendingFacts, DenyKeepsPending
    <2>2. pending_requests' = [n \in DOMAIN pending_requests' |-> pending_requests'[n]]
      BY <1>1, DenyKeepsPending
    <2> QED
      BY <1>1, <2>1, <2>2, PendingFacts, RequestsHandler DEF vaultVars
  <1>2. ASSUME RequestsDenyAll(c, request_id) PROVE IInv'
    <2>1. CASE Pending(request_id)
      BY <1>1, <1>2, <2>1 DEF RequestsDenyAll, Pending
    <2>2. CASE ~Pending(request_id)
      BY <1>2, <2>2, QuietHandler, PendingFacts DEF RequestsDenyAll, vaultVars, sessionVars
    <2> QED
      BY <2>1, <2>2
  <1>3. ASSUME NEW selection, RequestsDeny(c, request_id, selection) PROVE IInv'
    <2>1. CASE /\ Selectable(request_id, selection)
               /\ Handle(c, "ok")
               /\ Deny(request_id, Selected(request_id, selection))
               /\ UNCHANGED <<vaultVars, session, unlocked_key, approved_ids, next_request_id>>
      BY <1>1, <2>1 DEF Selectable, Pending
    <2>2. CASE Handle(c, "refused") /\ UNCHANGED <<vaultVars, sessionVars>>
      BY <2>2, QuietHandler, PendingFacts DEF vaultVars
    <2> QED
      BY <1>3, <2>1, <2>2 DEF RequestsDeny
  <1> QED
    BY <1>2, <1>3

\* requests approve: with the key at hand it grants, without it the user is asked first.
LEMMA RequestsApproveKeepsIInv ==
  ASSUME IInv, NEW c \in Clients, NEW request_id \in Nat, NEW selection,
         RequestsApprove(c, request_id, selection)
  PROVE  IInv'
  <1>1. CASE Handle(c, "refused") /\ UNCHANGED <<vaultVars, sessionVars>>
    BY <1>1, QuietHandler, PendingFacts DEF vaultVars
  <1>2. CASE /\ Selectable(request_id, selection)
             /\ Selected(request_id, selection) # {}
             /\ Begin(c, [cmd        |-> "RequestsApprove",
                          request_id |-> request_id,
                          selected   |-> Selected(request_id, selection)])
             /\ UNCHANGED <<vaultVars, sessionVars>>
    <2> DEFINE selected == Selected(request_id, selection)
               started == [cmd |-> "RequestsApprove", request_id |-> request_id,
                           selected |-> selected]
    <2>1. /\ session /\ request_id \in DOMAIN pending_requests
          /\ selected \subseteq pending_requests[request_id]
      BY <1>2, SelectedArePending DEF Selectable, Pending
    <2>2. selected \subseteq Ids
      BY <2>1 DEF IInv, TypeOK, SessionTypeOK
    <2> HIDE DEF selected
    <2>3. /\ started \in Calls \ {NoCall} /\ started.cmd = "RequestsApprove"
          /\ started.request_id = request_id /\ started.selected = selected
      BY <2>2 DEF Calls, NoCall
    <2>4. Begin(c, started) /\ selected # {}
      BY <1>2 DEF selected
    <2> HIDE DEF started
    <2>5. LocksInv' /\ call' = started /\ poisoned' = poisoned
      BY <2>3, <2>4, BeginKeepsLocks, IInvParts
    <2>6. VaultTypeOK' /\ SessionTypeOK'
      BY <1>2 DEF IInv, TypeOK, VaultTypeOK, SessionTypeOK, vaultVars, sessionVars
    <2>7. KeyInv' /\ InitInv'
      BY <1>2, <2>3, <2>5 DEF IInv, KeyInv, OneKey, InitInv, vaultVars, sessionVars
    <2>8. GrantInv'
      BY <1>2, <2>1, <2>3, <2>4, <2>5
      DEF IInv, GrantInv, ApprovalStillPending, PendingStored, Stored, vaultVars, sessionVars
    <2> QED
      BY <2>5, <2>6, <2>7, <2>8 DEF IInv, LocksInv, TypeOK
  <1> QED
    BY <1>1, <1>2 DEF RequestsApprove

\* The grant: what is granted is stored, since it was pending still, and the key that
\* unlocks the session is the one it was stored under.
LEMMA RequestsApproveGrantKeepsIInv ==
  ASSUME IInv, NEW c \in Clients, RequestsApproveGrant(c)
  PROVE  IInv'
  <1>1. /\ session /\ call.request_id \in DOMAIN pending_requests
        /\ call.selected \subseteq pending_requests[call.request_id]
    BY DEF RequestsApproveGrant, In, IInv, GrantInv, ApprovalStillPending
  <1>2. call.selected \subseteq DOMAIN secrets
    BY <1>1, PendingFacts
  <1>3. LocksInv' /\ call' = NoCall /\ ~poisoned'
    BY FinishKeepsLocks, IInvParts DEF RequestsApproveGrant
  <1>4. /\ pending_requests' = [n \in DOMAIN pending_requests \ {call.request_id} |->
                                  pending_requests[n]]
        /\ unlocked_key' = vault_key /\ vault_key # NoKey
        /\ approved_ids' = approved_ids \cup call.selected
        /\ UNCHANGED <<vaultVars, session, next_request_id>>
    BY DEF RequestsApproveGrant, Grant, Without, Restrict
  <1>5. VaultTypeOK'
    BY <1>4 DEF IInv, TypeOK, VaultTypeOK, vaultVars
  <1>6. SessionTypeOK'
    BY <1>2, <1>4, <1>5, VaultAssumption DEF IInv, TypeOK, VaultTypeOK, SessionTypeOK, vaultVars
  <1>7. KeyInv'
    BY <1>3, <1>4 DEF IInv, KeyInv, OneKey, vaultVars
  <1>8. InitInv' /\ GrantInv'
    BY <1>1, <1>2, <1>3, <1>4
    DEF IInv, InitInv, GrantInv, ApprovalStillPending, PendingStored, Stored, NoCall, vaultVars
  <1> QED
    BY <1>3, <1>5, <1>6, <1>7, <1>8 DEF IInv, LocksInv, TypeOK

----------------------------------------------------------------------------
(* The theorems. *)

\* The initial states.
LEMMA InitIInv == Init => IInv
  <1> SUFFICES ASSUME Init PROVE IInv
    OBVIOUS
  <1> USE DEF Init, VaultInitial
  <1>1. TypeOK
    <2>1. VaultTypeOK
      BY DEF VaultTypeOK
    <2>2. SessionTypeOK
      <3>1. DOMAIN pending_requests = {}
        OBVIOUS
      <3>2. pending_requests \in [{} -> SUBSET Ids]
        OBVIOUS
      <3>3. session \in BOOLEAN /\ unlocked_key = NoKey /\ approved_ids = {}
        OBVIOUS
      <3>4. next_request_id \in Nat \ {0}
        OBVIOUS
      <3> HIDE DEF Init
      <3> QED
        BY <3>1, <3>2, <3>3, <3>4 DEF SessionTypeOK
    <2>3. ThreadTypeOK
      BY DEF ThreadTypeOK, Calls
    <2> QED
      BY <2>1, <2>2, <2>3 DEF TypeOK
  <1>2. LockInv
    BY DaemonAssumption DEF LockInv, NeverBroken
  <1>3. KeyInv /\ InitInv /\ GrantInv
    BY VaultAssumption
    DEF KeyInv, OneKey, InitInv, GrantInv, ApprovalStillPending, PendingStored, NoCall
  <1> QED
    BY <1>1, <1>2, <1>3 DEF IInv

\* No command, at any step of it, and no crash breaks the invariant.
LEMMA NextKeepsIInv == IInv /\ [Next]_vars => IInv'
  <1> SUFFICES ASSUME IInv, [Next]_vars PROVE IInv'
    OBVIOUS
  <1>1. ASSUME NEW c \in Clients, ManageVault(c) PROVE IInv'
    BY <1>1, VaultInitKeepsIInv, ReadersKeepIInv, SecretPutKeepsIInv, SecretDeleteKeepsIInv
    DEF ManageVault
  <1>2. ASSUME NEW c \in Clients, ManageSession(c) PROVE IInv'
    BY <1>2, SessionCommandsKeepIInv, ReadersKeepIInv DEF ManageSession
  <1>3. ASSUME NEW c \in Clients, ManageRequests(c) PROVE IInv'
    <2>1. 1..MaxRequests \subseteq Nat
      BY DaemonAssumption
    <2> QED
      BY <1>3, <2>1, ReadersKeepIInv, SecretsRequestKeepsIInv, DenyKeepsIInv,
         RequestsApproveKeepsIInv
      DEF ManageRequests
  <1>4. ASSUME NEW c \in Clients, UseGrants(c) PROVE IInv'
    BY <1>4, ReadersKeepIInv, SecretsGetKeepsIInv DEF UseGrants
  <1>5. ASSUME NEW c \in Clients, Continues(c) PROVE IInv'
    BY <1>5, VaultInitCreateKeepsIInv, VaultInitTruncateKeepsIInv, VaultInitWriteKeepsIInv, OthersKeepIInv,
       SecretPutStoreKeepsIInv, RequestsApproveGrantKeepsIInv
    DEF Continues
  <1>6. ASSUME NEW c \in Clients, Connect(c) \/ Locks(c) \/ Exit(c) PROVE IInv'
    BY <1>1, <1>2, <1>3, <1>4, <1>6, ReadersKeepIInv, OthersKeepIInv DEF Locks
  <1>7. CASE Restart
    <2>1. CASE Clients = {}
      \* Without connections only a restart happens, and it changes nothing of threads.
      <3>1. LocksInv'
        BY <1>7, <2>1, DaemonAssumption
        DEF Restart, IInv, TypeOK, LocksInv, ThreadTypeOK, LockInv, NeverBroken, Calls
      <3>2. StateInv'
        BY <1>7, FreshKeepsState DEF Restart
      <3> QED
        BY <3>1, <3>2 DEF IInv, StateInv, LocksInv, TypeOK
    <2> QED
      BY <1>7, <2>1, SessionCommandsKeepIInv
  <1>8. CASE UNCHANGED vars
    <2>1. LocksInv'
      BY <1>8 DEF vars, threadVars, IInv, TypeOK, LocksInv, ThreadTypeOK, LockInv, NeverBroken
    <2>2. StateInv'
      BY <1>8, Frame, IInvParts DEF vars, threadVars, vaultVars, StateInv, VaultTypeOK
    <2> QED
      BY <2>1, <2>2 DEF IInv, StateInv, LocksInv, TypeOK
  <1> QED
    BY <1>5, <1>6, <1>7, <1>8 DEF Next

\* The invariant holds in every state the daemon and its vault can reach, with any
\* number of connections, secrets and requests, and any crashes.
THEOREM Invariance == Spec => []IInv
  BY InitIInv, NextKeepsIInv, PTL DEF Spec

\* All variables keep their types.
THEOREM TypeCorrect == Spec => []TypeOK
  <1>1. IInv => TypeOK
    BY DEF IInv
  <1> QED
    BY <1>1, Invariance, PTL

\* What can be read is exactly what was approved.
LEMMA ApprovedIsReadable == IInv => GrantsReadable
  <1> SUFFICES ASSUME IInv PROVE approved_ids = Readable
    BY DEF GrantsReadable
  <1>1. ASSUME NEW id \in approved_ids PROVE id \in Readable
    <2>1. id \in Ids
      BY DEF IInv, TypeOK, SessionTypeOK
    <2> QED
      BY <2>1, ApprovedReadable DEF Readable, GetOutcomes
  <1>2. ASSUME NEW id \in Readable PROVE id \in approved_ids
    BY DEF Readable, GetOutcomes
  <1> QED
    BY <1>1, <1>2

\* Every grant can be used: what was approved is stored, the session is unlocked, and
\* its key opens it.
THEOREM GrantsAreReadable == Spec => []GrantsReadable
  BY ApprovedIsReadable, Invariance, PTL

\* One key: the rows of the vault, the credential store and the session agree.
THEOREM KeysAgree == Spec => []OneKey
  <1>1. IInv => OneKey
    BY DEF IInv, KeyInv
  <1> QED
    BY <1>1, Invariance, PTL

\* Pending requests can be shown: they name stored secrets.
THEOREM RequestsCanBeShown == Spec => []PendingStored
  <1>1. IInv => PendingStored
    BY DEF IInv, GrantInv
  <1> QED
    BY <1>1, Invariance, PTL

\* What the user confirms at the prompt is still being asked for.
THEOREM ApprovalsAreBacked == Spec => []ApprovalStillPending
  <1>1. IInv => ApprovalStillPending
    BY DEF IInv, GrantInv
  <1> QED
    BY <1>1, Invariance, PTL

\* The daemon never contradicts itself in an answer.
THEOREM NoBrokenAnswer == Spec => []NeverBroken
  <1>1. IInv => NeverBroken
    BY DEF IInv, LockInv
  <1> QED
    BY <1>1, Invariance, PTL

\* A daemon loses its lock to a panic only over a vault whose key was never written.
THEOREM PanicsAreConfined == Spec => []PanicsOnTornKeyOnly
  <1>1. IInv => PanicsOnTornKeyOnly
    BY VaultAssumption DEF IInv, KeyInv, PanicsOnTornKeyOnly
  <1> QED
    BY <1>1, Invariance, PTL
=============================================================================
