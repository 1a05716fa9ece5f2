---------------------------- MODULE GrantsProofs ----------------------------
(***************************************************************************)
(* What a step of the daemon may do to secrets, requests and grants,       *)
(* proved for instances of any size: the action properties of module       *)
(* Daemon, and that the daemon implements module Grants.                   *)
(*                                                                         *)
(* The actions of the daemon have seven effects on the session and the     *)
(* stored secrets, or none (NextHasEffect); every theorem is then a matter *)
(* of these.                                                               *)
(***************************************************************************)
EXTENDS DaemonProofs

\* The step leaves no command under way, and tells none that it was refused.
Succeeds ==
  \A c \in Clients :
    conn'[c] # "holding" /\ (conn'[c] = "refused" => conn[c] = "refused")

Quiet == UNCHANGED <<secrets, sessionVars>>

StoresSecret(id) ==
  /\ id \in ValidIds
  /\ secrets' = Insert(secrets, id, vault_key)
  /\ UNCHANGED sessionVars

DeletesSecret(id) ==
  /\ Stored(id)
  /\ DeleteSecret(id)
  /\ Forget(id)
  /\ UNCHANGED <<session, unlocked_key, next_request_id>>

RenewsSession ==
  /\ session' \in BOOLEAN
  /\ FreshSession
  /\ UNCHANGED secrets

ClearsGrants ==
  /\ session
  /\ approved_ids' = {}
  /\ UNCHANGED <<secrets, session, unlocked_key, pending_requests, next_request_id>>

AsksFor(ids) ==
  /\ session /\ ids # {} /\ \A id \in ids : Stored(id)
  /\ AddRequest(ids)
  /\ UNCHANGED <<secrets, session, unlocked_key, approved_ids>>

GrantsSelected ==
  /\ call.cmd = "RequestsApprove"
  /\ Grant(call.request_id, call.selected)
  /\ UNCHANGED <<secrets, session, next_request_id>>

DeniesRequest(request_id, denied) ==
  /\ Pending(request_id)
  /\ denied \subseteq pending_requests[request_id]
  /\ Deny(request_id, denied)
  /\ UNCHANGED <<secrets, session, unlocked_key, approved_ids, next_request_id>>

Effect ==
  \/ \E id \in Ids : StoresSecret(id) \/ DeletesSecret(id)
  \/ RenewsSession
  \/ ClearsGrants
  \/ \E ids \in SUBSET Ids : AsksFor(ids)
  \/ GrantsSelected
  \/ \E request_id \in Nat : \E denied \in SUBSET Ids : DeniesRequest(request_id, denied)

EffectOrQuiet == Quiet \/ (Effect /\ Succeeds)

----------------------------------------------------------------------------
(* Every step of the daemon has one of these effects. *)

\* A whole handler starts when nobody has the lock, and answers one connection.
LEMMA HandleAnswersOne ==
  ASSUME IInv, NEW c \in Clients, Handle(c, "ok")
  PROVE  Succeeds
  <1>1. \A d \in Clients : conn[d] # "holding"
    BY DaemonAssumption DEF IInv, LockInv, Handle, Serve
  <1> QED
    BY <1>1 DEF IInv, TypeOK, ThreadTypeOK, Handle, Respond, Succeeds

\* A split one has the lock, which it gives back with its answer.
LEMMA FinishAnswersOne ==
  ASSUME IInv, NEW c \in Clients, conn[c] = "holding", Finish(c, "ok")
  PROVE  Succeeds
  <1>1. \A d \in Clients : conn[d] = "holding" => d = c
    BY DEF IInv, LockInv
  <1> QED
    BY <1>1 DEF IInv, TypeOK, ThreadTypeOK, Finish, Respond, Succeeds

\* A secret is stored under the key of the vault, or not at all.
LEMMA UpsertHasEffect ==
  ASSUME NEW id \in Ids, UpsertSecret(id, vault_key), UNCHANGED sessionVars
  PROVE  \/ Quiet
         \/ UpsertOutcome(id, vault_key) = "ok" /\ StoresSecret(id)
  BY DEF UpsertSecret, UpsertOutcome, EncryptOutcome, Quiet, StoresSecret

\* The effects of the commands on secrets.
LEMMA ManageVaultHasEffect ==
  ASSUME IInv, NEW c \in Clients, ManageVault(c)
  PROVE  EffectOrQuiet
  <1> USE DEF EffectOrQuiet
  <1>1. ASSUME NEW id \in Ids, SecretPut(c, id) PROVE EffectOrQuiet
    <2>1. CASE /\ unlocked_key # NoKey
               /\ Handle(c, UpsertOutcome(id, unlocked_key))
               /\ UpsertSecret(id, unlocked_key)
               /\ UNCHANGED sessionVars
      <3>1. unlocked_key = vault_key
        BY <2>1 DEF IInv, KeyInv, OneKey
      <3> QED
        BY <2>1, <3>1, UpsertHasEffect, HandleAnswersOne DEF Effect
    <2>2. CASE UNCHANGED <<secrets, vault_key, sessionVars>>
      BY <2>2 DEF Quiet
    <2> QED
      BY <1>1, <2>1, <2>2 DEF SecretPut
  <1>2. ASSUME NEW id \in Ids, SecretDelete(c, id) PROVE EffectOrQuiet
    <2>1. CASE UNCHANGED <<secrets, vault_key, sessionVars>>
      BY <2>1 DEF Quiet
    <2>2. CASE /\ Handle(c, "ok") /\ Stored(id) /\ DeleteSecret(id) /\ Forget(id)
               /\ UNCHANGED <<vault_key, session, unlocked_key, next_request_id>>
      BY <2>2, HandleAnswersOne DEF Effect, DeletesSecret
    <2> QED
      BY <1>2, <2>1, <2>2 DEF SecretDelete
  <1>3. ASSUME \/ VaultInit(c) \/ SecretsList(c)
               \/ \E id \in Ids : SecretShow(c, id)
        PROVE  Quiet
    BY <1>3 DEF VaultInit, SecretsList, SecretShow, Quiet, vaultVars
  <1> QED
    BY <1>1, <1>2, <1>3 DEF ManageVault

\* The effects of the commands on the session.
LEMMA ManageSessionHasEffect ==
  ASSUME IInv, NEW c \in Clients, ManageSession(c)
  PROVE  EffectOrQuiet
  <1> USE DEF EffectOrQuiet
  <1>1. ASSUME SessionStatus(c) PROVE Quiet
    BY <1>1 DEF SessionStatus, Quiet, vaultVars
  <1>2. ASSUME SessionClose(c) PROVE Effect /\ Succeeds
    BY <1>2, HandleAnswersOne DEF SessionClose, Effect, RenewsSession, vaultVars
  \* Without a session there are no grants to clear.
  <1>3. ASSUME SessionClear(c) PROVE EffectOrQuiet
    <2>1. CASE session
      BY <1>3, <2>1, HandleAnswersOne DEF SessionClear, Effect, ClearsGrants, vaultVars
    <2>2. CASE ~session
      BY <1>3, <2>2 DEF SessionClear, Quiet, IInv, GrantInv, vaultVars, sessionVars
    <2> QED
      BY <2>1, <2>2
  <1>4. ASSUME NEW replace \in BOOLEAN, SessionCreate(c, replace) PROVE EffectOrQuiet
    <2>1. CASE UNCHANGED <<vaultVars, sessionVars>>
      BY <2>1 DEF Quiet, vaultVars
    <2>2. CASE Handle(c, "ok") /\ session' = TRUE /\ FreshSession /\ UNCHANGED vaultVars
      BY <2>2, HandleAnswersOne DEF Effect, RenewsSession, vaultVars
    <2> QED
      BY <1>4, <2>1, <2>2 DEF SessionCreate
  <1> QED
    BY <1>1, <1>2, <1>3, <1>4 DEF ManageSession

\* The effects of the commands on requests.
LEMMA ManageRequestsHasEffect ==
  ASSUME IInv, NEW c \in Clients, ManageRequests(c)
  PROVE  EffectOrQuiet
  <1> USE DEF EffectOrQuiet
  <1>1. ASSUME RequestsList(c) PROVE Quiet
    BY <1>1 DEF RequestsList, Quiet, vaultVars
  <1>2. ASSUME NEW ids \in SUBSET Ids, SecretsRequest(c, ids) PROVE EffectOrQuiet
    <2>1. CASE UNCHANGED <<secrets, vault_key, sessionVars>>
      BY <2>1 DEF Quiet
    <2>2. CASE /\ session /\ ids # {} /\ \A id \in ids : Stored(id)
               /\ Handle(c, "ok") /\ AddRequest(ids)
               /\ UNCHANGED <<secrets, vault_key, session, unlocked_key, approved_ids>>
      BY <2>2, HandleAnswersOne DEF Effect, AsksFor
    <2> QED
      BY <1>2, <2>1, <2>2 DEF SecretsRequest
  <1>3. ASSUME NEW request_id \in Nat, RequestsShow(c, request_id) PROVE Quiet
    BY <1>3 DEF RequestsShow, Quiet
  <1>4. ASSUME NEW request_id \in Nat, request_id \in DOMAIN pending_requests
        PROVE  pending_requests[request_id] \subseteq Ids
    BY <1>4 DEF IInv, TypeOK, SessionTypeOK
  <1>5. ASSUME NEW request_id \in Nat, RequestsDenyAll(c, request_id) PROVE EffectOrQuiet
    <2>1. CASE Pending(request_id)
      <3>1. DeniesRequest(request_id, pending_requests[request_id])
        BY <1>5, <2>1 DEF RequestsDenyAll, DeniesRequest, Deny, vaultVars
      <3>2. Succeeds
        BY <1>5, <2>1, HandleAnswersOne DEF RequestsDenyAll
      <3> QED
        BY <1>4, <2>1, <3>1, <3>2 DEF Effect, Pending
    <2>2. CASE ~Pending(request_id)
      BY <1>5, <2>2 DEF RequestsDenyAll, Quiet, vaultVars, sessionVars
    <2> QED
      BY <2>1, <2>2
  <1>6. ASSUME NEW request_id \in Nat, NEW selection, RequestsDeny(c, request_id, selection)
        PROVE  EffectOrQuiet
    <2> DEFINE denied == Selected(request_id, selection)
    <2>1. CASE /\ Selectable(request_id, selection)
               /\ Handle(c, "ok") /\ Deny(request_id, denied)
               /\ UNCHANGED <<vaultVars, session, unlocked_key, approved_ids, next_request_id>>
      <3>1. Pending(request_id) /\ denied \subseteq pending_requests[request_id]
        BY <2>1, SelectedArePending DEF Selectable
      <3> HIDE DEF denied
      <3>2. DeniesRequest(request_id, denied)
        BY <2>1, <3>1 DEF DeniesRequest, vaultVars
      <3>3. Succeeds
        BY <2>1, HandleAnswersOne
      <3> QED
        BY <1>4, <3>1, <3>2, <3>3 DEF Effect, Pending
    <2>2. CASE UNCHANGED <<vaultVars, sessionVars>>
      BY <2>2 DEF Quiet, vaultVars
    <2> QED
      BY <1>6, <2>1, <2>2 DEF RequestsDeny
  <1>7. ASSUME NEW request_id \in Nat, NEW selection, RequestsApprove(c, request_id, selection)
        PROVE  Quiet
    BY <1>7 DEF RequestsApprove, Quiet, vaultVars
  <1>8. 1..MaxRequests \subseteq Nat
    BY DaemonAssumption
  <1> QED
    BY <1>1, <1>2, <1>3, <1>5, <1>6, <1>7, <1>8 DEF ManageRequests

\* The effects of what a handler does after it has waited.
LEMMA ContinuesHasEffect ==
  ASSUME IInv, NEW c \in Clients, Continues(c)
  PROVE  EffectOrQuiet
  <1> USE DEF EffectOrQuiet
  <1>1. ASSUME \/ VaultInitCreate(c) \/ VaultInitTruncate(c) \/ VaultInitWrite(c)
               \/ VaultInitFails(c) \/ LoadKeyFails(c) \/ PromptFails(c)
        PROVE  Quiet
    BY <1>1 DEF VaultInitCreate, VaultInitTruncate, VaultInitWrite, VaultInitFails,
                LoadKeyFails, PromptFails, Quiet, vaultVars
  <1>2. ASSUME SecretPutStore(c) PROVE EffectOrQuiet
    <2>1. call.id \in Ids
      BY <1>2 DEF SecretPutStore, In, IInv, TypeOK, ThreadTypeOK, Calls, NoCall
    <2>2. \/ Quiet
          \/ UpsertOutcome(call.id, vault_key) = "ok" /\ StoresSecret(call.id)
      BY <1>2, <2>1, UpsertHasEffect DEF SecretPutStore
    <2> QED
      BY <1>2, <2>1, <2>2, FinishAnswersOne DEF SecretPutStore, In, Effect
  <1>3. ASSUME RequestsApproveGrant(c) PROVE Effect /\ Succeeds
    BY <1>3, FinishAnswersOne DEF RequestsApproveGrant, In, Effect, GrantsSelected, vaultVars
  <1> QED
    BY <1>1, <1>2, <1>3 DEF Continues

\* Every step of the daemon, crashes included, changes the session and the secrets in one
\* of the seven ways, and then ends its command with success; or it changes nothing of them.
LEMMA NextHasEffect ==
  ASSUME IInv, [Next]_vars
  PROVE  EffectOrQuiet
  <1> USE DEF EffectOrQuiet
  <1>1. ASSUME NEW c \in Clients, UseGrants(c) \/ StorageFails(c) PROVE Quiet
    BY <1>1 DEF UseGrants, GrantsList, SecretsGet, StorageFails, Quiet
  <1>2. ASSUME NEW c \in Clients, Connect(c) \/ Exit(c) \/ LockPoisoned(c) PROVE Quiet
    BY <1>2 DEF Connect, Exit, LockPoisoned, Quiet, vaultVars
  <1>3. ASSUME NEW c \in Clients, Locks(c) PROVE EffectOrQuiet
    BY <1>1, <1>2, <1>3, ManageVaultHasEffect, ManageSessionHasEffect, ManageRequestsHasEffect
    DEF Locks
  <1>4. CASE Restart
    <2>1. Succeeds
      BY <1>4 DEF Restart, Succeeds
    <2> QED
      BY <1>4, <2>1 DEF Restart, Effect, RenewsSession, vaultVars
  <1>5. CASE UNCHANGED vars
    BY <1>5 DEF vars, vaultVars, Quiet
  <1> QED
    BY <1>2, <1>3, <1>4, <1>5, ContinuesHasEffect DEF Next
----------------------------------------------------------------------------
(* What no step may do. *)

\* A step starts and ends in states that satisfy the invariant, where what can be read
\* is what was approved.
LEMMA StepFacts ==
  ASSUME IInv, [Next]_vars
  PROVE  IInv' /\ approved_ids = Readable /\ approved_ids' = Readable'
  <1>1. IInv'
    BY NextKeepsIInv
  <1>2. IInv' => GrantsReadable'
    BY ApprovedIsReadable, PTL
  <1> QED
    BY <1>1, <1>2, ApprovedIsReadable DEF GrantsReadable

\* While a session lasts, a request is never added to, and no number is used again.
LEMMA StepsOnlyShrinkRequests ==
  ASSUME IInv, [Next]_vars, next_request_id' >= next_request_id,
         NEW request_id \in DOMAIN pending_requests'
  PROVE  IF request_id \in DOMAIN pending_requests
         THEN pending_requests'[request_id] \subseteq pending_requests[request_id]
         ELSE request_id = next_request_id
  <1> DEFINE Goal == IF request_id \in DOMAIN pending_requests
                     THEN pending_requests'[request_id] \subseteq pending_requests[request_id]
                     ELSE request_id = next_request_id
  <1>1. CASE UNCHANGED pending_requests
    BY <1>1
  <1>2. ASSUME NEW id, DeletesSecret(id) PROVE Goal
    BY <1>2 DEF DeletesSecret, Forget
  <1>3. ASSUME RenewsSession PROVE FALSE
    BY <1>3 DEF RenewsSession, FreshSession
  <1>4. ASSUME NEW ids, AsksFor(ids) PROVE Goal
    <2>1. next_request_id \notin DOMAIN pending_requests
      BY PendingFacts
    <2> QED
      BY <1>4, <2>1 DEF AsksFor, AddRequest, Insert
  <1>5. ASSUME GrantsSelected PROVE Goal
    BY <1>5 DEF GrantsSelected, Grant, Without, Restrict
  <1>6. ASSUME NEW n, NEW denied, DeniesRequest(n, denied) PROVE Goal
    BY <1>6, DenyKeepsPending DEF DeniesRequest, Pending
  <1> QED
    BY <1>1, <1>2, <1>3, <1>4, <1>5, <1>6, NextHasEffect
    DEF EffectOrQuiet, Effect, Quiet, StoresSecret, ClearsGrants, sessionVars

\* A number the user saw means what it meant, or less, for as long as the session lasts.
THEOREM NumbersKeepTheirMeaning == Spec => RequestsOnlyShrink
  <1>1. IInv /\ [Next]_vars =>
          [next_request_id' >= next_request_id =>
             \A request_id \in DOMAIN pending_requests' :
               IF request_id \in DOMAIN pending_requests
               THEN pending_requests'[request_id] \subseteq pending_requests[request_id]
               ELSE request_id = next_request_id]_sessionVars
    BY StepsOnlyShrinkRequests
  <1> QED
    BY <1>1, Invariance, PTL DEF Spec, RequestsOnlyShrink

\* Only vault init writes the stored key.
LEMMA OnlyInitWritesKey ==
  ASSUME [Next]_vars
  PROVE  vault_key' = vault_key \/ call.cmd = "VaultInit"
  <1> USE DEF vars, vaultVars
  <1>1. ASSUME NEW c \in Clients, ManageVault(c) PROVE vault_key' = vault_key
    BY <1>1 DEF ManageVault, VaultInit, SecretsList, SecretPut, SecretDelete, SecretShow
  <1>2. ASSUME NEW c \in Clients, ManageSession(c) PROVE vault_key' = vault_key
    BY <1>2 DEF ManageSession, SessionStatus, SessionClose, SessionClear, SessionCreate
  <1>3. ASSUME NEW c \in Clients, ManageRequests(c) PROVE vault_key' = vault_key
    BY <1>3 DEF ManageRequests, RequestsList, SecretsRequest, RequestsShow, RequestsDenyAll,
                RequestsApprove, RequestsDeny
  <1>4. ASSUME NEW c \in Clients, UseGrants(c) \/ StorageFails(c) \/ LockPoisoned(c)
        PROVE  vault_key' = vault_key
    BY <1>4 DEF UseGrants, SecretsGet, GrantsList, StorageFails, LockPoisoned
  <1>5. ASSUME NEW c \in Clients, Continues(c)
        PROVE  vault_key' = vault_key \/ call.cmd = "VaultInit"
    BY <1>5 DEF Continues, VaultInitCreate, VaultInitTruncate, VaultInitWrite, VaultInitFails,
                SecretPutStore, RequestsApproveGrant, LoadKeyFails, PromptFails, In
  <1>6. ASSUME NEW c \in Clients, Connect(c) \/ Exit(c) PROVE vault_key' = vault_key
    BY <1>6 DEF Connect, Exit
  <1>7. CASE Restart
    BY <1>7 DEF Restart
  <1> QED
    BY <1>1, <1>2, <1>3, <1>4, <1>5, <1>6, <1>7 DEF Next, Locks

\* A command that is refused, at its first step or at its last, has changed neither the
\* session nor a secret at any step from the one that takes the lock.
THEOREM RefusedIsUndone == Spec => RefusalsChangeNothing
  <1>1. ASSUME IInv, [Next]_vars, NEW c \in Clients,
               conn'[c] = "holding" \/ (conn'[c] = "refused" /\ conn[c] # "refused")
        PROVE  /\ UNCHANGED <<secrets, sessionVars>>
               /\ vault_key' = vault_key \/ call.cmd = "VaultInit"
    <2>1. ~Succeeds
      BY <1>1 DEF Succeeds
    <2> QED
      BY <1>1, <2>1, NextHasEffect, OnlyInitWritesKey DEF EffectOrQuiet, Quiet
  <1>2. IInv /\ [Next]_vars =>
          [\A c \in Clients :
             conn'[c] = "holding" \/ (conn'[c] = "refused" /\ conn[c] # "refused")
               => /\ UNCHANGED <<secrets, sessionVars>>
                  /\ vault_key' = vault_key \/ call.cmd = "VaultInit"]_vars
    BY <1>1
  <1> QED
    BY <1>2, Invariance, PTL DEF Spec, RefusalsChangeNothing

\* Only an approval that ends adds to what can be read, and only what it selected from a
\* request that is settled with it.
LEMMA StepsGrantByPrompt ==
  ASSUME IInv, [Next]_vars, NEW id \in approved_ids' \ approved_ids
  PROVE  /\ call.cmd = "RequestsApprove" /\ id \in call.selected
         /\ call.request_id \in DOMAIN pending_requests \ DOMAIN pending_requests'
         /\ id \in pending_requests[call.request_id]
  <1>1. GrantsSelected
    BY NextHasEffect
    DEF EffectOrQuiet, Effect, Quiet, StoresSecret, DeletesSecret, Forget, RenewsSession,
        FreshSession, ClearsGrants, AsksFor, DeniesRequest, sessionVars
  <1>2. /\ call.cmd = "RequestsApprove"
        /\ id \in call.selected
        /\ pending_requests' = Without(pending_requests, call.request_id)
    BY <1>1 DEF GrantsSelected, Grant
  <1>3. /\ call.request_id \in DOMAIN pending_requests
        /\ call.selected \subseteq pending_requests[call.request_id]
    BY <1>2 DEF IInv, GrantInv, ApprovalStillPending
  <1> QED
    BY <1>2, <1>3 DEF Without, Restrict

----------------------------------------------------------------------------
(* The daemon implements module Grants. *)

\* The abstract session of a daemon: its steps are about these.
LEMMA RenewedIsReset ==
  ASSUME RenewsSession, approved_ids' = Readable'
  PROVE  \E opened \in BOOLEAN : Promise!Reset(opened)
  BY DEF RenewsSession, FreshSession, Promise!Reset, Promise!NothingAsked

\* Storing a secret is a Store.
LEMMA StoredIsStore ==
  ASSUME NEW id \in Ids, StoresSecret(id), approved_ids = Readable, approved_ids' = Readable'
  PROVE  Promise!Store(id)
  BY DEF StoresSecret, Insert, Promise!Store, sessionVars

\* Deleting one is a Remove.
LEMMA DeletedIsRemove ==
  ASSUME IInv, NEW id \in Ids, DeletesSecret(id),
         approved_ids = Readable, approved_ids' = Readable'
  PROVE  Promise!Remove(id)
  BY DEF DeletesSecret, DeleteSecret, Forget, Without, Restrict, Stored, Promise!Remove

\* Clearing the grants is a Revoke.
LEMMA ClearedIsRevoke ==
  ASSUME ClearsGrants, approved_ids' = Readable'
  PROVE  Promise!Revoke
  BY DEF ClearsGrants, Promise!Revoke

\* Requesting secrets is an Ask.
LEMMA AskedIsAsk ==
  ASSUME IInv, NEW ids \in SUBSET Ids, AsksFor(ids),
         approved_ids = Readable, approved_ids' = Readable'
  PROVE  Promise!Ask(ids)
  <1>1. next_request_id \in Nat \ {0}
    BY DEF IInv, TypeOK, SessionTypeOK
  <1>2. next_request_id - 1 + 1 = next_request_id
    BY <1>1
  <1>3. next_request_id' - 1 = (next_request_id - 1) + 1
    BY <1>1 DEF AsksFor, AddRequest
  <1> QED
    BY <1>2, <1>3 DEF AsksFor, AddRequest, Insert, Stored, Promise!Ask

\* What is granted is part of a request that is pending still.
LEMMA GrantedIsSettle ==
  ASSUME IInv, GrantsSelected, approved_ids = Readable, approved_ids' = Readable'
  PROVE  /\ call.request_id \in DOMAIN pending_requests
         /\ call.selected \subseteq pending_requests[call.request_id]
         /\ Promise!Settle(call.request_id, call.selected)
  <1>1. /\ session /\ call.selected # {}
        /\ call.request_id \in DOMAIN pending_requests
        /\ call.selected \subseteq pending_requests[call.request_id]
    BY DEF GrantsSelected, IInv, GrantInv, ApprovalStillPending
  <1> QED
    BY <1>1 DEF GrantsSelected, Grant, Without, Restrict, Promise!Restrict, Promise!Settle

\* A denial withdraws something, or dismisses a request that has nothing left, or it has
\* no effect.
LEMMA DeniedIsWithdraw ==
  ASSUME IInv, NEW n \in Nat, NEW denied \in SUBSET Ids, DeniesRequest(n, denied),
         approved_ids = Readable, approved_ids' = Readable'
  PROVE  \/ Promise!Withdraw(n, denied)
         \/ Promise!Dismiss(n)
         \/ UNCHANGED <<secrets, sessionVars>>
  <1> USE DEF DeniesRequest, Deny, Pending
  <1>1. CASE denied = pending_requests[n] /\ denied # {}
    BY <1>1 DEF Without, Restrict, Promise!Restrict, Promise!Withdraw
  <1>2. CASE denied = pending_requests[n] /\ denied = {}
    BY <1>2 DEF Without, Restrict, Promise!Restrict, Promise!Dismiss
  <1>3. CASE denied # pending_requests[n]
    <2>1. /\ pending_requests[n] \ denied # {}
          /\ pending_requests' = [pending_requests EXCEPT ![n] = pending_requests[n] \ denied]
      BY <1>3
    <2>2. CASE denied # {}
      BY <1>3, <2>1, <2>2 DEF Promise!Withdraw
    <2>3. CASE denied = {}
      <3>1. pending_requests' = pending_requests
        BY <2>1, <2>3, PendingFacts
      <3> QED
        BY <3>1 DEF sessionVars
    <2> QED
      BY <2>2, <2>3
  <1> QED
    BY <1>1, <1>2, <1>3

\* Each step of the daemon is a step of the abstract session, or none.
LEMMA StepIsPromised ==
  ASSUME IInv, [Next]_vars
  PROVE  [Promise!GrantsNext]_(Promise!grantsVars)
  <1>1. approved_ids = Readable /\ approved_ids' = Readable'
    BY StepFacts
  <1>2. ASSUME UNCHANGED <<secrets, sessionVars>> PROVE UNCHANGED Promise!grantsVars
    BY <1>1, <1>2 DEF Promise!grantsVars, sessionVars
  <1>3. ASSUME NEW id \in Ids, StoresSecret(id) \/ DeletesSecret(id) PROVE Promise!GrantsNext
    BY <1>1, <1>3, StoredIsStore, DeletedIsRemove DEF Promise!GrantsNext
  <1>4. ASSUME RenewsSession PROVE Promise!GrantsNext
    BY <1>1, <1>4, RenewedIsReset DEF Promise!GrantsNext
  <1>5. ASSUME ClearsGrants PROVE Promise!GrantsNext
    BY <1>1, <1>5, ClearedIsRevoke DEF Promise!GrantsNext
  <1>6. ASSUME NEW ids \in SUBSET Ids, AsksFor(ids) PROVE Promise!GrantsNext
    BY <1>1, <1>6, AskedIsAsk DEF Promise!GrantsNext
  <1>7. ASSUME GrantsSelected PROVE Promise!GrantsNext
    BY <1>1, <1>7, GrantedIsSettle DEF Promise!GrantsNext
  <1>8. ASSUME NEW n \in Nat, NEW denied \in SUBSET Ids, DeniesRequest(n, denied)
        PROVE  [Promise!GrantsNext]_(Promise!grantsVars)
    <2>1. n \in DOMAIN pending_requests /\ denied \in SUBSET pending_requests[n]
      BY <1>8 DEF DeniesRequest, Pending
    <2> QED
      BY <1>1, <1>2, <1>8, <2>1, DeniedIsWithdraw DEF Promise!GrantsNext
  <1> QED
    BY <1>2, <1>3, <1>4, <1>5, <1>6, <1>7, <1>8, NextHasEffect
    DEF EffectOrQuiet, Effect, Quiet

\* The daemon starts as Grants does.
LEMMA InitIsPromised == Init => Promise!GrantsInit
  <1> SUFFICES ASSUME Init PROVE Promise!GrantsInit
    OBVIOUS
  <1>1. Readable = {}
    BY DEF Init, Readable, GetOutcomes
  <1> QED
    BY <1>1 DEF Init, VaultInitial, Promise!GrantsInit, Promise!NothingAsked

\* What agents can read is what users granted, at every step of every interleaving, for
\* any number of connections, secrets and requests.
THEOREM DaemonImplementsGrants == Spec => ImplementsGrants
  BY InitIsPromised, StepIsPromised, Invariance, PTL
  DEF Spec, ImplementsGrants, Promise!GrantsSpec
=============================================================================
