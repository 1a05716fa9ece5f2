---------------------------- MODULE PromptProofs ----------------------------
(***************************************************************************)
(* The daemon with its prompts implements module Daemon, so that whatever  *)
(* is proved there holds with the prompts as well; and the vault key is    *)
(* used, and secrets are granted, only after the user identified.          *)
(***************************************************************************)
EXTENDS Prompt, GrantsProofs

\* A step of the prompt is none of the daemon, or ends the daemon's wait for it.
LEMMA PromptStep ==
  ASSUME [PromptNext]_<<vars, promptVars>>
  PROVE  [Next]_vars
  <1>1. ASSUME NEW c \in Clients, Authenticates(c) \/ UserAnswers(c) PROVE UNCHANGED vars
    BY <1>1 DEF Authenticates, RootPasses, NoTerminal, AskPassword, PamAnswers,
                DialogUnavailable, ShowDialog, DialogAnswers, UserAnswers, Becomes
  <1>2. ASSUME NEW c \in Clients, Resumes(c) \/ InitContinues(c) PROVE Continues(c)
    BY <1>2 DEF Resumes, InitContinues, Continues
  <1>3. CASE RestartPrompt
    BY <1>3 DEF RestartPrompt, Next
  <1>4. CASE UNCHANGED <<vars, promptVars>>
    BY <1>4
  <1>5. ASSUME NEW c \in Clients, DaemonRuns(c) \/ UserAnswers(c) PROVE [Next]_vars
    BY <1>1, <1>2, <1>5 DEF DaemonRuns, Next
  <1>6. ASSUME NEW c \in Clients, Connect(c) \/ Locks(c) \/ Exit(c) PROVE [Next]_vars
    BY <1>6 DEF Next
  <1> QED
    BY <1>3, <1>4, <1>5, <1>6 DEF PromptNext

\* With the prompt's own steps hidden, every behaviour is one of module Daemon.
THEOREM PromptImplementsDaemon == PromptSpec => Spec
  <1>1. PromptInit => Init
    BY DEF PromptInit
  <1> QED
    BY <1>1, PromptStep, PTL DEF PromptSpec, Spec

\* So the daemon's invariant holds whatever happens at its prompts.
THEOREM PromptInvariance == PromptSpec => []IInv
  BY PromptImplementsDaemon, Invariance, PTL

\* And so does all that is promised of single steps: what can be read is what was granted,
\* requests only shrink, and what is refused has changed nothing.
THEOREM PromptKeepsPromises ==
  PromptSpec => /\ ImplementsGrants
                /\ RequestsOnlyShrink
                /\ RefusalsChangeNothing
  BY PromptImplementsDaemon, DaemonImplementsGrants,
     NumbersKeepTheirMeaning, RefusedIsUndone, PTL

----------------------------------------------------------------------------
(* Who is let through. *)

\* A command starts only when the lock is free.
LEMMA LocksWhenFree ==
  ASSUME NEW c \in Clients, Locks(c)
  PROVE  mutex = Nobody
  BY DEF Locks, ManageVault, ManageSession, ManageRequests, UseGrants, StorageFails, LockPoisoned,
         VaultInit, SecretsList, SecretPut, SecretDelete, SecretShow, SessionStatus, SessionClose,
         SessionClear, SessionCreate, RequestsList, SecretsRequest, RequestsShow, RequestsDenyAll,
         RequestsApprove, RequestsDeny, GrantsList, SecretsGet, Handle, Begin, Serve

\* There is a prompt only while a handler waits for it, and only an identified user,
\* or root, passes.
LEMMA PromptInvStep ==
  ASSUME IInv, PromptInv, [PromptNext]_<<vars, promptVars>>
  PROVE  PromptInv'
  <1>1. TypeOK'
    BY PromptStep, NextKeepsIInv DEF IInv
  <1>2. root' \in BOOLEAN /\ terminal' \in BOOLEAN
    BY DEF PromptInv, PromptTypeOK, PromptNext, DaemonRuns, Authenticates, RootPasses, NoTerminal,
           AskPassword, PamAnswers, DialogUnavailable, ShowDialog, DialogAnswers, UserAnswers,
           Becomes, Resumes, PromptEnds, InitContinues, RestartPrompt, Terminals, promptVars
  <1> USE DEF PromptInv, PromptTypeOK
  <1>3. ASSUME NEW c \in Clients, Authenticates(c) PROVE PromptInv'
    <2>1. call' = call /\ call.cmd \in {"SecretPut", "RequestsApprove"} /\ answer' = answer
          /\ root' = root
      BY <1>3 DEF Authenticates, RootPasses, NoTerminal, AskPassword, PamAnswers, At, In,
                  DialogUnavailable, ShowDialog, DialogAnswers, Becomes, vars, threadVars
    <2>2. /\ prompt' \in {"none", "shown", "answered", "verified", "refused"}
          /\ prompt' = "verified" => root \/ answer = "right"
          /\ prompt' = "shown" => prompt = "none"
          /\ prompt' \notin {"none", "answered"}
      BY <1>3 DEF Authenticates, RootPasses, NoTerminal, AskPassword, PamAnswers, At,
                  DialogUnavailable, ShowDialog, DialogAnswers, Becomes
    <2> QED
      BY <1>1, <1>2, <2>1, <2>2
  <1>4. ASSUME NEW c \in Clients, UserAnswers(c) PROVE PromptInv'
    BY <1>1, <1>2, <1>4 DEF UserAnswers, At, In, vars, threadVars
  <1>5. ASSUME NEW c \in Clients, Resumes(c) PROVE PromptInv'
    BY <1>1, <1>2, <1>5 DEF Resumes, PromptEnds
  <1>6. ASSUME UNCHANGED promptVars, prompt = "none" PROVE PromptInv'
    BY <1>1, <1>2, <1>6 DEF promptVars
  <1>7. ASSUME NEW c \in Clients, InitContinues(c) PROVE PromptInv'
    <2>1. call.cmd = "VaultInit"
      BY <1>7 DEF InitContinues, VaultInitCreate, VaultInitTruncate, VaultInitWrite,
                  VaultInitFails, In
    <2> QED
      BY <1>6, <1>7, <2>1 DEF InitContinues
  <1>8. ASSUME NEW c \in Clients, Locks(c), UNCHANGED promptVars PROVE PromptInv'
    <2>1. mutex = Nobody
      BY <1>8, LocksWhenFree
    <2>2. prompt = "none"
      BY <2>1 DEF IInv, LockInv, NoCall
    <2> QED
      BY <1>6, <1>8, <2>2
  <1>9. ASSUME NEW c \in Clients, Connect(c) \/ Exit(c), UNCHANGED promptVars PROVE PromptInv'
    BY <1>1, <1>2, <1>9 DEF Connect, Exit, promptVars
  <1>10. CASE RestartPrompt
    BY <1>1, <1>2, <1>10 DEF RestartPrompt
  <1>11. CASE UNCHANGED <<vars, promptVars>>
    BY <1>1, <1>2, <1>11 DEF vars, threadVars, promptVars
  <1> QED
    BY <1>3, <1>4, <1>5, <1>7, <1>8, <1>9, <1>10, <1>11 DEF PromptNext, DaemonRuns

\* A command that has to load the key succeeds.
LoadSucceeds ==
  \E c \in Clients : (In(c, "SecretPut") \/ In(c, "RequestsApprove")) /\ conn'[c] = "ok"

\* Taking the lock unlocks nothing, grants nothing, and stores nothing unless the session
\* is unlocked.
LEMMA LocksUseNoKey ==
  ASSUME IInv, NEW c \in Clients, Locks(c)
  PROVE  ~KeyUsed
  <1> USE DEF vaultVars, sessionVars
  <1>1. ~LoadSucceeds
    <2>1. \A d \in Clients : conn[d] # "holding"
      BY LocksWhenFree, DaemonAssumption DEF IInv, LockInv
    <2> QED
      BY <2>1 DEF LoadSucceeds, In
  <1> SUFFICES /\ unlocked_key' \in {unlocked_key, NoKey}
               /\ approved_ids' \subseteq approved_ids
               /\ unlocked_key = NoKey => DOMAIN secrets' \subseteq DOMAIN secrets
    BY <1>1 DEF KeyUsed, LoadSucceeds
  <1>2. CASE ManageVault(c)
    <2>1. ASSUME NEW id \in Ids, SecretDelete(c, id)
          PROVE  /\ unlocked_key' = unlocked_key /\ approved_ids' \subseteq approved_ids
                 /\ DOMAIN secrets' \subseteq DOMAIN secrets
      BY <2>1 DEF SecretDelete, DeleteSecret, Forget, Without, Restrict
    <2> QED
      BY <1>2, <2>1 DEF ManageVault, VaultInit, SecretsList, SecretPut, SecretShow
  <1>3. CASE ManageSession(c)
    BY <1>3 DEF ManageSession, SessionStatus, SessionClose, SessionClear, SessionCreate,
                FreshSession
  <1>4. CASE ManageRequests(c)
    BY <1>4 DEF ManageRequests, RequestsList, SecretsRequest, RequestsShow, RequestsDenyAll,
                RequestsApprove, RequestsDeny
  <1>5. CASE UseGrants(c) \/ StorageFails(c) \/ LockPoisoned(c)
    BY <1>5 DEF UseGrants, SecretsGet, GrantsList, StorageFails, LockPoisoned
  <1> QED
    BY <1>2, <1>3, <1>4, <1>5 DEF Locks

\* A handler that resumes got past its prompt, or has nothing to show for it.
LEMMA ResumesWithKeyWhenPassed ==
  ASSUME IInv, PromptInv, NEW c \in Clients, Resumes(c), KeyUsed
  PROVE  prompt = "verified" /\ (root \/ answer = "right")
  <1> SUFFICES ASSUME prompt # "verified" PROVE FALSE
    BY DEF PromptInv
  <1>1. In(c, "SecretPut") \/ In(c, "RequestsApprove")
    BY DEF Resumes, At
  <1>2. Finish(c, "refused") /\ UNCHANGED <<vaultVars, sessionVars>>
    BY DEF Resumes, At, PromptFails
  <1>3. \A d \in Clients : conn[d] = "holding" => d = c
    BY <1>1 DEF In, IInv, LockInv
  <1>4. ~LoadSucceeds
    BY <1>2, <1>3 DEF LoadSucceeds, In, Finish, Respond, IInv, TypeOK, ThreadTypeOK
  <1> QED
    BY <1>2, <1>4 DEF KeyUsed, LoadSucceeds, vaultVars, sessionVars

\* The key is used by a handler that resumes, and by nothing else.
LEMMA KeyUsedWhenPassed ==
  ASSUME IInv, PromptInv, [PromptNext]_<<vars, promptVars>>, KeyUsed
  PROVE  prompt = "verified" /\ (root \/ answer = "right")
  <1> USE DEF vaultVars, sessionVars, vars
  <1>1. ASSUME UNCHANGED <<secrets, sessionVars>>, ~LoadSucceeds PROVE FALSE
    BY <1>1 DEF KeyUsed, LoadSucceeds
  <1>2. ASSUME NEW c \in Clients, Authenticates(c) \/ UserAnswers(c) PROVE FALSE
    <2>1. UNCHANGED vars
      BY <1>2 DEF Authenticates, RootPasses, NoTerminal, AskPassword, PamAnswers,
                  DialogUnavailable, ShowDialog, DialogAnswers, UserAnswers, Becomes
    <2> QED
      BY <1>1, <2>1 DEF LoadSucceeds, In, threadVars
  <1>3. ASSUME NEW c \in Clients, InitContinues(c) PROVE FALSE
    <2>1. call.cmd = "VaultInit" /\ UNCHANGED <<secrets, sessionVars>>
      BY <1>3 DEF InitContinues, VaultInitCreate, VaultInitTruncate, VaultInitWrite,
                  VaultInitFails, In
    <2> QED
      BY <1>1, <2>1 DEF LoadSucceeds, In
  <1>4. ASSUME NEW c \in Clients, Connect(c) \/ Exit(c) PROVE FALSE
    <2>1. ~LoadSucceeds
      BY <1>4 DEF LoadSucceeds, In, Connect, Exit, IInv, TypeOK, ThreadTypeOK
    <2> QED
      BY <1>1, <1>4, <2>1 DEF Connect, Exit
  <1>5. CASE RestartPrompt
    <2>1. ~LoadSucceeds
      BY <1>5 DEF LoadSucceeds, In, RestartPrompt, Restart
    <2> QED
      BY <1>5, <2>1 DEF KeyUsed, LoadSucceeds, RestartPrompt, Restart, FreshSession
  <1>6. CASE UNCHANGED <<vars, promptVars>>
    BY <1>1, <1>6 DEF LoadSucceeds, In, threadVars
  <1> QED
    BY <1>2, <1>3, <1>4, <1>5, <1>6, LocksUseNoKey, ResumesWithKeyWhenPassed
    DEF PromptNext, DaemonRuns

\* A prompt is up only in a handler that has the lock and waits for it, and is passed only
\* by who identified, or as root.
THEOREM PromptsAreGuarded == PromptSpec => []PromptInv
  <1>1. PromptInit => PromptInv
    <2>1. Init => TypeOK
      BY InitIInv DEF IInv
    <2> QED
      BY <2>1 DEF PromptInit, PromptInv, PromptTypeOK, Terminals
  <1> QED
    BY <1>1, PromptInvStep, PromptInvariance, PTL DEF PromptSpec

\* The variables of the prompt keep their types, and no prompt is left over once the
\* handler that waited for it is gone.
THEOREM PromptTypeCorrect == PromptSpec => []PromptTypeOK
  <1>1. PromptInv => PromptTypeOK
    BY DEF PromptInv
  <1> QED
    BY <1>1, PromptsAreGuarded, PTL

\* The stored key is used only for who identified at the prompt of the command that uses
\* it, or for root.
THEOREM KeyNeedsTheUser == PromptSpec => KeyIsConfirmed
  <1>1. IInv /\ PromptInv /\ [PromptNext]_<<vars, promptVars>>
          => [KeyUsed => root \/ answer = "right"]_<<vars, promptVars>>
    BY KeyUsedWhenPassed
  <1> QED
    BY <1>1, PromptInvariance, PromptsAreGuarded, PTL DEF PromptSpec, KeyIsConfirmed

\* A secret becomes readable only by an approval that selected it, from a request that is
\* settled with that, and whose prompt was passed by the user, or by root.
THEOREM NothingReadUnasked == PromptSpec => GrantsArePrompted
  <1> DEFINE Asked(id) ==
        /\ call.cmd = "RequestsApprove" /\ id \in call.selected
        /\ call.request_id \in DOMAIN pending_requests \ DOMAIN pending_requests'
        /\ id \in pending_requests[call.request_id]
        /\ prompt = "verified" /\ (root \/ answer = "right")
  <1>1. ASSUME IInv, PromptInv, [PromptNext]_<<vars, promptVars>>,
               NEW id \in Readable' \ Readable
        PROVE  Asked(id)
    <2>1. [Next]_vars
      BY <1>1, PromptStep
    <2>2. id \in approved_ids' \ approved_ids
      BY <1>1, <2>1, StepFacts
    <2>3. KeyUsed
      BY <2>2 DEF KeyUsed
    <2> QED
      BY <1>1, <2>1, <2>2, <2>3, StepsGrantByPrompt, KeyUsedWhenPassed
  <1>2. IInv /\ PromptInv /\ [PromptNext]_<<vars, promptVars>>
          => [\A id \in Readable' \ Readable : Asked(id)]_<<vars, promptVars>>
    BY <1>1
  <1> QED
    BY <1>2, PromptInvariance, PromptsAreGuarded, PTL DEF PromptSpec, GrantsArePrompted
=============================================================================
