------------------------------- MODULE Daemon -------------------------------
(***************************************************************************)
(* The background daemon: one shared session in memory, the vault it       *)
(* manages, and the connections of the CLI processes it serves.            *)
(*                                                                         *)
(* Each connection has a thread that reads one request, takes the mutex    *)
(* around the daemon's state, runs the handler, releases the mutex and     *)
(* writes one response.  Handlers that only touch memory and make one      *)
(* access to the vault are one action: nobody can see them half done, and  *)
(* a crash loses the memory anyway.  The three that wait for the user or   *)
(* write to two places (vault init, secret put, requests approve) are      *)
(* split where they wait or where a crash leaves something behind, and     *)
(* keep the mutex from their first step to their last.                     *)
(*                                                                         *)
(* What a request says is chosen when its handler starts: nothing depends  *)
(* on it before.                                                           *)
(***************************************************************************)
EXTENDS Vault, Selection, Integers

CONSTANTS
  Clients,          \* connection slots, each used by one CLI process after another
  Nobody,           \* the mutex is free
  MaxRequests,      \* bound on the request numbers one session hands out
  SelectionInputs   \* the selections that users type

ASSUME DaemonAssumption ==
  /\ Nobody \notin Clients
  /\ MaxRequests \in Nat
  /\ SelectionInputs \subseteq [all : BOOLEAN, parts : SUBSET (Nat \X Nat)]

VARIABLES
  session,            \* is there a shared session?
  unlocked_key,       \* its fields; a closed session is kept in the state
  approved_ids,       \*   that a new one would start from
  pending_requests,   \* from the numbers of the pending requests to their ids
  next_request_id,
  conn,               \* what each connection is at
  mutex,              \* the connection whose thread is in handle()
  call,               \* where that handler is, when it is a split one
  poisoned            \* a thread panicked while it held the mutex

sessionVars == <<session, unlocked_key, approved_ids, pending_requests, next_request_id>>
threadVars  == <<conn, mutex, call, poisoned>>
vars        == <<vaultVars, sessionVars, threadVars>>

\* A response is "ok", "refused" (an error the request or the user brought about)
\* or "broken" (an error that says that the daemon contradicts itself: an approved
\* or requested secret is gone, or cannot be decrypted); "eof" is no response.
Responses == {"ok", "refused", "broken", "eof"}

NoCall == [cmd |-> "none"]
Calls  ==
  {NoCall}
    \cup [cmd : {"VaultInit"}, at : {"create", "store", "write"}]
    \cup [cmd : {"SecretPut"}, id : Ids]
    \cup [cmd : {"RequestsApprove"}, request_id : Nat, selected : SUBSET Ids]

SessionTypeOK ==
  /\ session \in BOOLEAN
  /\ unlocked_key \in Keys \cup {NoKey, TornKey}
  /\ approved_ids \subseteq Ids
  /\ DOMAIN pending_requests \subseteq Nat
  /\ pending_requests \in [DOMAIN pending_requests -> SUBSET Ids]
  /\ next_request_id \in Nat \ {0}

ThreadTypeOK ==
  /\ conn \in [Clients -> {"idle", "waiting", "holding"} \cup Responses]
  /\ mutex \in Clients \cup {Nobody}
  /\ call \in Calls
  /\ poisoned \in BOOLEAN

\* Types of all the variables of the daemon and of its vault.
TypeOK == VaultTypeOK /\ SessionTypeOK /\ ThreadTypeOK

----------------------------------------------------------------------------
\* The fields of a session that has just been created (and of no session).
FreshSession ==
  /\ unlocked_key' = NoKey
  /\ approved_ids' = {}
  /\ pending_requests' = [request_id \in {} |-> {}]
  /\ next_request_id' = 1

\* A fresh machine: no vault, no key, and a daemon that has served nobody yet.
Init ==
  /\ VaultInitial
  /\ session = FALSE
  /\ unlocked_key = NoKey
  /\ approved_ids = {}
  /\ pending_requests = [request_id \in {} |-> {}]
  /\ next_request_id = 1
  /\ conn = [c \in Clients |-> "idle"]
  /\ mutex = Nobody
  /\ call = NoCall
  /\ poisoned = FALSE

----------------------------------------------------------------------------
(* Threads and the mutex. *)

\* The thread of c gets the lock.
Serve(c) == conn[c] = "waiting" /\ mutex = Nobody /\ ~poisoned

\* A panic unwinds the thread: the mutex is poisoned and the stream is dropped.
Respond(c, outcome) ==
  /\ conn' = [conn EXCEPT ![c] = IF outcome = "panic" THEN "eof" ELSE outcome]
  /\ poisoned' = (outcome = "panic")

\* A handler that runs to its response in one step.
Handle(c, outcome) == Serve(c) /\ Respond(c, outcome) /\ UNCHANGED <<mutex, call>>

\* Releasing the lock while the handler still waits (what an async rewrite of the
\* prompt would do).
BeginUnlocked(c, started) ==
  /\ Serve(c)
  /\ conn' = [conn EXCEPT ![c] = "holding"]
  /\ call' = started
  /\ UNCHANGED <<mutex, poisoned>>

\* A handler that stops at a prompt or between two writes, holding the lock.
Begin(c, started) ==
  /\ Serve(c)
  /\ conn' = [conn EXCEPT ![c] = "holding"]
  /\ mutex' = c
  /\ call' = started
  /\ UNCHANGED poisoned

In(c, cmd) == conn[c] = "holding" /\ call.cmd = cmd

\* Returning from a failed prompt without dropping the guard.
FinishHoldingOnError(c, outcome) ==
  /\ Respond(c, outcome)
  /\ mutex' = IF outcome = "refused" THEN mutex ELSE Nobody
  /\ call' = NoCall

\* Such a handler responds and its guard is dropped.
Finish(c, outcome) == Respond(c, outcome) /\ mutex' = Nobody /\ call' = NoCall

\* Waiting for a lock that nobody will give back.
LockPoisonedBlocks(c) ==
  /\ FALSE
  /\ conn' = [conn EXCEPT ![c] = "eof"]
  /\ UNCHANGED <<vaultVars, sessionVars, mutex, call, poisoned>>

\* lock().unwrap() panics on a poisoned mutex, for every request from then on.
LockPoisoned(c) ==
  /\ conn[c] = "waiting" /\ mutex = Nobody /\ poisoned
  /\ conn' = [conn EXCEPT ![c] = "eof"]
  /\ UNCHANGED <<vaultVars, sessionVars, mutex, call, poisoned>>

\* A CLI process sends its request, and later takes its answer and exits.
Connect(c) ==
  /\ conn[c] = "idle"
  /\ conn' = [conn EXCEPT ![c] = "waiting"]
  /\ UNCHANGED <<vaultVars, sessionVars, mutex, call, poisoned>>

Exit(c) ==
  /\ conn[c] \in Responses
  /\ conn' = [conn EXCEPT ![c] = "idle"]
  /\ UNCHANGED <<vaultVars, sessionVars, mutex, call, poisoned>>

\* The daemon dies and the next invocation starts another: its memory is gone, the
\* connections it had are cut, the vault stays as the last write left it.
Restart ==
  /\ session' = FALSE
  /\ FreshSession
  /\ conn' = [c \in Clients |->
                IF conn[c] \in {"waiting", "holding"} THEN "eof" ELSE conn[c]]
  /\ mutex' = Nobody
  /\ call' = NoCall
  /\ poisoned' = FALSE
  /\ UNCHANGED vaultVars

\* A handler whose first access to the vault fails: the file may have been created.
StorageFails(c) ==
  /\ Handle(c, "refused")
  /\ \E opened \in BOOLEAN : QueryIf(opened)
  /\ UNCHANGED <<secrets, vault_key, sessionVars>>

----------------------------------------------------------------------------
(* vault init *)

\* Without the check that there is a vault already.
VaultInitAgain(c) ==
  /\ Begin(c, [cmd |-> "VaultInit", at |-> "create"])
  /\ UNCHANGED <<vaultVars, sessionVars>>

VaultInit(c) ==
  \/ /\ database
     /\ Handle(c, "refused")
     /\ UNCHANGED <<vaultVars, sessionVars>>
  \/ /\ ~database
     /\ Begin(c, [cmd |-> "VaultInit", at |-> "create"])
     /\ UNCHANGED <<vaultVars, sessionVars>>

\* The file is created before there is a key to go with it.
VaultInitCreate(c) ==
  /\ In(c, "VaultInit") /\ call.at = "create"
  /\ Initialize
  /\ call' = [call EXCEPT !.at = "store"]
  /\ UNCHANGED <<secrets, vault_key, sessionVars, conn, mutex, poisoned>>

\* The key file is opened with truncate(true).
VaultInitTruncate(c) ==
  /\ In(c, "VaultInit") /\ call.at = "store"
  /\ TruncateKey
  /\ call' = [call EXCEPT !.at = "write"]
  /\ UNCHANGED <<database, secrets, sessionVars, conn, mutex, poisoned>>

\* The key is written.  Restricting the mode of the key file can still fail after
\* that; the other backends have no such step.
VaultInitWrite(c) ==
  /\ In(c, "VaultInit") /\ call.at = IF KeyIsFile THEN "write" ELSE "store"
  /\ WriteKey
  /\ \E outcome \in {"ok"} \cup (IF KeyIsFile THEN {"refused"} ELSE {}) : Finish(c, outcome)
  /\ UNCHANGED <<database, secrets, sessionVars>>

\* No schema could be created, no key be generated, or the credential store refused it.
VaultInitFails(c) ==
  /\ In(c, "VaultInit")
  /\ Finish(c, "refused")
  /\ \E opened \in BOOLEAN : QueryIf(opened /\ call.at = "create")
  /\ UNCHANGED <<secrets, vault_key, sessionVars>>

----------------------------------------------------------------------------
(* session create, status, close, clear *)

SessionCreate(c, replace) ==
  \/ /\ session /\ ~replace
     /\ Handle(c, "refused")
     /\ UNCHANGED <<vaultVars, sessionVars>>
  \/ /\ ~session \/ replace
     /\ Handle(c, "ok")
     /\ session' = TRUE
     /\ FreshSession
     /\ UNCHANGED vaultVars

SessionStatus(c) ==
  /\ Handle(c, "ok")
  /\ UNCHANGED <<vaultVars, sessionVars>>

SessionClose(c) ==
  /\ Handle(c, "ok")
  /\ session' = FALSE
  /\ FreshSession
  /\ UNCHANGED vaultVars

\* Only the grants go; the unlocked key and the pending requests stay.
SessionClear(c) ==
  /\ Handle(c, IF session THEN "ok" ELSE "refused")
  /\ approved_ids' = {}
  /\ UNCHANGED <<vaultVars, session, unlocked_key, pending_requests, next_request_id>>

----------------------------------------------------------------------------
(* secret put, delete, show; secrets list *)

\* load_key_for_management takes the session's key, and asks the user to
\* authenticate only when the session has none.
SecretPut(c, id) ==
  \/ /\ unlocked_key # NoKey
     /\ Handle(c, UpsertOutcome(id, unlocked_key))
     /\ Initialize
     /\ UpsertSecret(id, unlocked_key)
     /\ UNCHANGED <<vault_key, sessionVars>>
  \/ /\ unlocked_key = NoKey
     /\ Begin(c, [cmd |-> "SecretPut", id |-> id])
     /\ Initialize
     /\ UNCHANGED <<secrets, vault_key, sessionVars>>

\* The user authenticated and the key was loaded.
SecretPutStore(c) ==
  /\ In(c, "SecretPut") /\ vault_key # NoKey
  /\ Finish(c, UpsertOutcome(call.id, vault_key))
  /\ UpsertSecret(call.id, vault_key)
  /\ UNCHANGED <<database, vault_key, sessionVars>>

\* Deleting the row only: grants and pending requests keep naming it.
ForgetNothing(id) == UNCHANGED <<approved_ids, pending_requests>>

\* Deleting the row and the grant only.
ForgetGrant(id) ==
  /\ approved_ids' = approved_ids \ {id}
  /\ UNCHANGED pending_requests

\* The session forgets a deleted secret: its grant and every pending mention of it.
Forget(id) ==
  /\ approved_ids' = approved_ids \ {id}
  /\ pending_requests' =
       [request_id \in DOMAIN pending_requests |-> pending_requests[request_id] \ {id}]

SecretDelete(c, id) ==
  \/ /\ ~Stored(id)
     /\ Handle(c, "refused")
     /\ Initialize
     /\ UNCHANGED <<secrets, vault_key, sessionVars>>
  \/ /\ Stored(id)
     /\ Handle(c, "ok")
     /\ Initialize
     /\ DeleteSecret(id)
     /\ Forget(id)
     /\ UNCHANGED <<vault_key, session, unlocked_key, next_request_id>>

SecretShow(c, id) ==
  /\ Handle(c, IF Stored(id) THEN "ok" ELSE "refused")
  /\ Initialize
  /\ UNCHANGED <<secrets, vault_key, sessionVars>>

SecretsList(c) ==
  /\ Handle(c, IF session THEN "ok" ELSE "refused")
  /\ QueryIf(session)
  /\ UNCHANGED <<secrets, vault_key, sessionVars>>

----------------------------------------------------------------------------
(* secrets request; requests list, show, approve, deny *)

\* Numbering a request by how many are pending: a number comes back.
AddRequestByCount(ids) ==
  /\ pending_requests' =
       Insert(pending_requests, Cardinality(DOMAIN pending_requests) + 1, ids)
  /\ next_request_id' = next_request_id + 1

\* A request gets the next number.
AddRequest(ids) ==
  /\ pending_requests' = Insert(pending_requests, next_request_id, ids)
  /\ next_request_id' = next_request_id + 1

SecretsRequest(c, ids) ==
  \/ /\ ~session \/ ids = {} \/ \E id \in ids : ~Stored(id)
     /\ Handle(c, "refused")
     /\ QueryIf(session /\ ids # {})
     /\ UNCHANGED <<secrets, vault_key, sessionVars>>
  \/ /\ session /\ ids # {} /\ \A id \in ids : Stored(id)
     /\ next_request_id <= MaxRequests
     /\ Handle(c, "ok")
     /\ Initialize
     /\ AddRequest(ids)
     /\ UNCHANGED <<secrets, vault_key, session, unlocked_key, approved_ids>>

RequestsList(c) ==
  /\ Handle(c, IF session THEN "ok" ELSE "refused")
  /\ UNCHANGED <<vaultVars, sessionVars>>

Pending(request_id) == session /\ request_id \in DOMAIN pending_requests

\* The numbered view reads the metadata of every id of the request.
RequestsShow(c, request_id) ==
  /\ Handle(c, IF ~Pending(request_id) THEN "refused"
               ELSE IF \A id \in pending_requests[request_id] : Stored(id)
                    THEN "ok" ELSE "broken")
  /\ QueryIf(Pending(request_id) /\ pending_requests[request_id] # {})
  /\ UNCHANGED <<secrets, vault_key, sessionVars>>

\* The ids a selection names in a pending request, when it is accepted.
Selected(request_id, selection) ==
  SelectRequestedIds(pending_requests[request_id], selection)

Selectable(request_id, selection) ==
  Pending(request_id) /\ SelectionOk(pending_requests[request_id], selection)

\* Taking the request out when its approval starts, before the user is prompted.
RequestsApproveTaking(c, request_id, selection) ==
  LET approvable == /\ Selectable(request_id, selection)
                    /\ Selected(request_id, selection) # {}
  IN \/ /\ ~approvable
        /\ Handle(c, "refused")
        /\ UNCHANGED <<vaultVars, sessionVars>>
     \/ /\ approvable
        /\ Begin(c, [cmd        |-> "RequestsApprove",
                     request_id |-> request_id,
                     selected   |-> Selected(request_id, selection)])
        /\ pending_requests' = Without(pending_requests, request_id)
        /\ UNCHANGED <<vaultVars, session, unlocked_key, approved_ids, next_request_id>>

\* What is approved is settled before the user is prompted.
RequestsApprove(c, request_id, selection) ==
  LET approvable == /\ Selectable(request_id, selection)
                    /\ Selected(request_id, selection) # {}
  IN \/ /\ ~approvable
        /\ Handle(c, "refused")
        /\ UNCHANGED <<vaultVars, sessionVars>>
     \/ /\ approvable
        /\ Begin(c, [cmd        |-> "RequestsApprove",
                     request_id |-> request_id,
                     selected   |-> Selected(request_id, selection)])
        /\ UNCHANGED <<vaultVars, sessionVars>>

\* Granting without unlocking the session.
GrantLocked(request_id, selected) ==
  /\ pending_requests' = Without(pending_requests, request_id)
  /\ approved_ids' = approved_ids \cup selected
  /\ UNCHANGED unlocked_key

\* The whole request is settled: what was not selected is dropped with it.
Grant(request_id, selected) ==
  /\ pending_requests' = Without(pending_requests, request_id)
  /\ unlocked_key' = vault_key
  /\ approved_ids' = approved_ids \cup selected

\* The user authenticated and the key was loaded.
RequestsApproveGrant(c) ==
  /\ In(c, "RequestsApprove") /\ vault_key # NoKey /\ session
  /\ Finish(c, "ok")
  /\ Grant(call.request_id, call.selected)
  /\ UNCHANGED <<vaultVars, session, next_request_id>>

\* The user authenticated and there is no key to load.
LoadKeyFails(c) ==
  /\ In(c, "SecretPut") \/ In(c, "RequestsApprove")
  /\ vault_key = NoKey
  /\ Finish(c, "refused")
  /\ UNCHANGED <<vaultVars, sessionVars>>

\* The user cancelled, failed to authenticate or let the prompt time out; or the
\* credential store refused to give the key; or the vault could not be written.
PromptFails(c) ==
  /\ In(c, "SecretPut") \/ In(c, "RequestsApprove")
  /\ Finish(c, "refused")
  /\ UNCHANGED <<vaultVars, sessionVars>>

\* A request that loses its last id is settled.
Deny(request_id, denied) ==
  LET left == pending_requests[request_id] \ denied
  IN pending_requests' = IF left = {}
                         THEN Without(pending_requests, request_id)
                         ELSE [pending_requests EXCEPT ![request_id] = left]

RequestsDenyAll(c, request_id) ==
  /\ Handle(c, IF Pending(request_id) THEN "ok" ELSE "refused")
  /\ pending_requests' = IF Pending(request_id)
                         THEN Without(pending_requests, request_id)
                         ELSE pending_requests
  /\ UNCHANGED <<vaultVars, session, unlocked_key, approved_ids, next_request_id>>

RequestsDeny(c, request_id, selection) ==
  \/ /\ ~Selectable(request_id, selection)
     /\ Handle(c, "refused")
     /\ UNCHANGED <<vaultVars, sessionVars>>
  \/ /\ Selectable(request_id, selection)
     /\ Handle(c, "ok")
     /\ Deny(request_id, Selected(request_id, selection))
     /\ UNCHANGED <<vaultVars, session, unlocked_key, approved_ids, next_request_id>>

----------------------------------------------------------------------------
(* secrets get; grants list *)

\* The grant is checked first, then the key is used; a field that the secret does
\* not have is refused after its fields were decrypted.
GetOutcomes(id) ==
  IF ~session \/ id \notin approved_ids THEN {"refused"}
  ELSE IF unlocked_key = NoKey THEN {"broken"}
  ELSE {ReadOutcome(id, unlocked_key), "refused"}

SecretsGet(c, id) ==
  /\ \E outcome \in GetOutcomes(id) : Handle(c, outcome)
  /\ QueryIf(session /\ id \in approved_ids /\ unlocked_key # NoKey)
  /\ UNCHANGED <<secrets, vault_key, sessionVars>>

GrantsList(c) ==
  /\ Handle(c, IF ~session THEN "refused"
               ELSE IF \A id \in approved_ids : Stored(id) THEN "ok" ELSE "broken")
  /\ QueryIf(session /\ approved_ids # {})
  /\ UNCHANGED <<secrets, vault_key, sessionVars>>

----------------------------------------------------------------------------
\* The requests that a thread can find in its connection when it gets the lock.
ManageVault(c) ==
  \/ VaultInit(c)
  \/ SecretsList(c)
  \/ \E id \in Ids : SecretPut(c, id) \/ SecretDelete(c, id) \/ SecretShow(c, id)

ManageSession(c) ==
  \/ SessionStatus(c)
  \/ SessionClose(c)
  \/ SessionClear(c)
  \/ \E replace \in BOOLEAN : SessionCreate(c, replace)

\* Some request numbers do not exist, some selections do not fit.
ManageRequests(c) ==
  \/ RequestsList(c)
  \/ \E ids \in SUBSET Ids : SecretsRequest(c, ids)
  \/ \E request_id \in 1..MaxRequests :
       \/ RequestsShow(c, request_id)
       \/ RequestsDenyAll(c, request_id)
       \/ \E selection \in SelectionInputs :
            \/ RequestsApprove(c, request_id, selection)
            \/ RequestsDeny(c, request_id, selection)

UseGrants(c) == GrantsList(c) \/ \E id \in Ids : SecretsGet(c, id)

\* A thread that waits for the lock gets it.
Locks(c) ==
  \/ ManageVault(c)
  \/ ManageSession(c)
  \/ ManageRequests(c)
  \/ UseGrants(c)
  \/ StorageFails(c)
  \/ LockPoisoned(c)

\* The thread that holds it goes on.
Continues(c) ==
  \/ VaultInitCreate(c)
  \/ VaultInitTruncate(c)
  \/ VaultInitWrite(c)
  \/ VaultInitFails(c)
  \/ SecretPutStore(c)
  \/ RequestsApproveGrant(c)
  \/ LoadKeyFails(c)
  \/ PromptFails(c)

Next ==
  \/ \E c \in Clients : Connect(c) \/ Locks(c) \/ Continues(c) \/ Exit(c)
  \/ Restart

Spec == Init /\ [][Next]_vars

\* A free lock goes to one of the threads that wait for it, though to none in
\* particular (std's Mutex is not fair), and the thread that has it runs on: the
\* user answers the prompt or it is dismissed, and file operations end.  Nothing
\* makes a user run another command, or a daemon die.
Fairness ==
  /\ WF_vars(\E c \in Clients : Locks(c))
  /\ WF_vars(\E c \in Clients : Continues(c))

FairSpec == Spec /\ Fairness

----------------------------------------------------------------------------
(* What the daemon promises. *)

\* The secrets whose fields SecretsGet returns.
Readable == {id \in Ids : "ok" \in GetOutcomes(id)}

\* Every grant can be used: what approved_ids names is in the vault, the session is
\* unlocked and its key opens it, whatever was approved, stored, replaced, deleted
\* or created again in between, and whichever secrets the key was unlocked for.
GrantsReadable == approved_ids = Readable

\* A pending request names stored secrets only, so that it can be shown, in every
\* order of deletions, requests and partial denials.
PendingStored ==
  \A request_id \in DOMAIN pending_requests :
    \A id \in pending_requests[request_id] : Stored(id)

\* All rows of the vault, the stored key and the session's key agree, across
\* crashes and whatever vault init is asked for: no stored secret is ever lost to a
\* key that no longer exists.
OneKey ==
  /\ \A id \in DOMAIN secrets : secrets[id] = vault_key
  /\ unlocked_key \in {NoKey, vault_key}

\* What was selected before the prompt is still pending when the user answers it:
\* no other command changes the request, deletes a secret of it or replaces the
\* session while the prompt is up.
ApprovalStillPending ==
  call.cmd = "RequestsApprove" =>
    /\ session
    /\ call.request_id \in DOMAIN pending_requests
    /\ call.selected \subseteq pending_requests[call.request_id]

\* The daemon never answers that an approved secret no longer exists, cannot be
\* decrypted or is locked, nor that a requested one is gone.
NeverBroken == \A c \in Clients : conn[c] # "broken"

\* A handler panics only on the half-written key file of a vault that was never
\* usable: a daemon that has served a secret does not lose its lock.
PanicsOnTornKeyOnly == poisoned => vault_key = TornKey /\ DOMAIN secrets = {}

\* While a session lasts, a pending request is never added to, and a number is
\* never given to another request: a number the user saw means what it meant, or
\* less.  (SessionCreate starts the numbers over, and close ends them.)
RequestsOnlyShrink ==
  [][next_request_id' >= next_request_id =>
       \A request_id \in DOMAIN pending_requests' :
         IF request_id \in DOMAIN pending_requests
         THEN pending_requests'[request_id] \subseteq pending_requests[request_id]
         ELSE request_id = next_request_id]_sessionVars

\* A command that is refused has changed nothing: from the step in which it takes the
\* lock, through the prompt it waits at, to the one in which it is told so, no step
\* changes the session or a secret, so that no request is lost to a selection that does
\* not fit or to a prompt that is dismissed.  Nor the stored key, which only a vault init
\* writes: one that fails at the mode of the key file leaves its key behind.  (Any command
\* that gets as far as the vault has created its file.)
RefusalsChangeNothing ==
  [][\A c \in Clients :
       conn'[c] = "holding" \/ (conn'[c] = "refused" /\ conn[c] # "refused")
         => /\ UNCHANGED <<secrets, sessionVars>>
            /\ vault_key' = vault_key \/ call.cmd = "VaultInit"]_vars

\* The daemon implements the abstract session of module Grants: what SecretsGet gives
\* out is what the user granted, no more and no less, at every step of every
\* interleaving, across crashes, and whatever the keys and files do.
Promise == INSTANCE Grants WITH
  stored   <- DOMAIN secrets,
  open     <- session,
  asked    <- pending_requests,
  last     <- next_request_id - 1,
  readable <- Readable

ImplementsGrants == Promise!GrantsSpec

\* The lock comes free again, whatever the handler that holds it meets.
LockIsReleased == mutex # Nobody ~> mutex = Nobody

\* When no more commands are issued, every one that was issued gets an answer or the
\* end of its stream.  (While others keep coming, the lock may pass it by forever.)
EveryoneIsAnswered ==
  <>[][\A c \in Clients : ~Connect(c)]_vars
    => \A c \in Clients : conn[c] = "waiting" ~> conn[c] # "waiting"

----------------------------------------------------------------------------
(* Why it keeps its promises: an invariant that every step preserves. *)

\* The lock is taken exactly by the handler that is under way.
LockInv ==
  /\ \A c \in Clients : conn[c] = "holding" <=> mutex = c
  /\ call = NoCall <=> mutex = Nobody
  /\ NeverBroken

\* No key without a database file, which is what stops a second vault init; no secret
\* without the key, and one key for all.
KeyInv ==
  /\ vault_key # NoKey => database
  /\ DOMAIN secrets # {} => vault_key \in Keys
  /\ OneKey
  /\ poisoned => vault_key = TornKey

\* While vault init is at work, nothing depends on the key it replaces.
InitInv ==
  call.cmd = "VaultInit" =>
    /\ call.at = "create" \/ database
    /\ DOMAIN secrets = {}
    /\ unlocked_key = NoKey
    /\ vault_key = IF call.at = "write" THEN TornKey ELSE NoKey

\* Grants and requests name stored secrets, grants come with a key, and an approval
\* under way is still backed by its request.
GrantInv ==
  /\ ApprovalStillPending
  /\ call.cmd = "RequestsApprove" => call.selected # {}
  /\ approved_ids \subseteq DOMAIN secrets
  /\ approved_ids # {} => session /\ unlocked_key # NoKey
  /\ PendingStored
  /\ DOMAIN pending_requests \subseteq 1..(next_request_id - 1)

\* Every reachable state of the daemon satisfies all of these, and they suffice to
\* show that they go on doing so, step by step.
IInv == TypeOK /\ LockInv /\ KeyInv /\ InitInv /\ GrantInv

----------------------------------------------------------------------------
(* What the repository says of the daemon, and is not so. *)

\* "Zeroizing guarantees the bytes are wiped when the session is closed, cleared, or
\* replaced": a session clear that takes grants away leaves no key behind.
ClearWipesKey ==
  [][\A c \in Clients : approved_ids # {} /\ SessionClear(c) => unlocked_key' = NoKey]_vars
=============================================================================
