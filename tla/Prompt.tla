------------------------------- MODULE Prompt -------------------------------
(***************************************************************************)
(* The daemon with the prompt its handlers wait at: biometric.rs on each   *)
(* platform, and the user in front of it.                                  *)
(*                                                                         *)
(* Touch ID and Windows Hello are dialogs of the operating system: the     *)
(* code asks whether there can be one, requests it, and blocks until its   *)
(* result comes.  On Linux the daemon itself reads the account password    *)
(* from its controlling terminal and hands it to PAM.                      *)
(***************************************************************************)
EXTENDS Daemon

VARIABLES
  root,      \* do the commands and the daemon run as root?
  terminal,  \* does the daemon have a controlling terminal?
  prompt,    \* how far authenticate() is, in the handler that has the lock
  answer     \* what the user did at the prompt

promptVars == <<root, terminal, prompt, answer>>

\* Types of the variables; there is a prompt only while a handler waits for it, and what
\* the user did at one is forgotten with it.
PromptTypeOK ==
  /\ TypeOK
  /\ root \in BOOLEAN
  /\ terminal \in BOOLEAN
  /\ prompt \in {"none", "shown", "answered", "verified", "refused"}
  /\ answer \in {"none", "right", "wrong", "aborted"}
  /\ prompt # "none" => call.cmd \in {"SecretPut", "RequestsApprove"}
  /\ answer # "none" => prompt \in {"answered", "verified", "refused"}

\* setsid leaves a daemon without the terminal of the command that spawned it; one
\* that is run by hand (the hidden command __daemon) keeps it.
Terminals == IF Platform = "linux" THEN BOOLEAN ELSE {FALSE}

PromptInit ==
  /\ Init
  /\ root \in IF Platform = "linux" THEN BOOLEAN ELSE {FALSE}
  /\ terminal \in Terminals
  /\ prompt = "none"
  /\ answer = "none"

----------------------------------------------------------------------------
(* authenticate *)

At(c, state) == (In(c, "SecretPut") \/ In(c, "RequestsApprove")) /\ prompt = state

Becomes(state) == prompt' = state /\ UNCHANGED <<vars, root, terminal, answer>>

\* Linux: root is not asked; without a terminal prompt_password fails.
RootPasses(c) ==
  At(c, "none") /\ Platform = "linux" /\ root /\ Becomes("verified")

NoTerminal(c) ==
  At(c, "none") /\ Platform = "linux" /\ ~root /\ ~terminal /\ Becomes("refused")

AskPassword(c) ==
  At(c, "none") /\ Platform = "linux" /\ ~root /\ terminal /\ Becomes("shown")

\* Only the result of pam_end is looked at.
PamAnswersLeniently(c) ==
  /\ At(c, "answered") /\ Platform = "linux"
  /\ \E state \in {"verified", "refused"} : Becomes(state)

\* A wrong password is asked for again, until it is right.
PamAsksAgain(c) ==
  /\ At(c, "answered") /\ Platform = "linux"
  /\ prompt' = IF answer = "right" THEN "verified" ELSE "shown"
  /\ UNCHANGED <<vars, root, terminal, answer>>

\* pam_start can fail, and an account can be refused whatever its password.
PamAnswers(c) ==
  /\ At(c, "answered") /\ Platform = "linux"
  /\ \/ Becomes("refused")
     \/ answer = "right" /\ Becomes("verified")

\* Elsewhere: no sensor, nothing enrolled, locked out, disabled by policy.
DialogUnavailable(c) ==
  At(c, "none") /\ Platform # "linux" /\ Becomes("refused")

ShowDialog(c) ==
  At(c, "none") /\ Platform # "linux" /\ Becomes("shown")

\* Any result the dialog comes back with passes.
DialogAnswersLeniently(c) ==
  At(c, "answered") /\ Platform # "linux" /\ Becomes("verified")

\* Nothing but a success passes: a cancelled dialog has a result of its own.
DialogAnswers(c) ==
  /\ At(c, "answered") /\ Platform # "linux"
  /\ Becomes(IF answer = "right" THEN "verified" ELSE "refused")

\* The user identifies, fails to, or gives up; the OS may end a dialog by itself.
UserAnswers(c) ==
  /\ At(c, "shown")
  /\ prompt' = "answered"
  /\ answer' \in {"right", "wrong", "aborted"}
  /\ UNCHANGED <<vars, root, terminal>>

Authenticates(c) ==
  \/ RootPasses(c) \/ NoTerminal(c) \/ AskPassword(c) \/ PamAnswers(c)
  \/ DialogUnavailable(c) \/ ShowDialog(c) \/ DialogAnswers(c)

----------------------------------------------------------------------------
(* The handler goes on. *)

PromptEnds == prompt' = "none" /\ answer' = "none" /\ UNCHANGED <<root, terminal>>

\* authenticate() is called without looking at its result.
ResumesAnyway(c) ==
  /\ At(c, "verified") \/ At(c, "refused")
  /\ SecretPutStore(c) \/ RequestsApproveGrant(c) \/ LoadKeyFails(c) \/ PromptFails(c)
  /\ PromptEnds

\* authenticate(..)? returns to the handler: with an error it ends there; without one,
\* the key is loaded and used, if the credential store and the vault allow.
Resumes(c) ==
  /\ \/ At(c, "refused") /\ PromptFails(c)
     \/ /\ At(c, "verified")
        /\ SecretPutStore(c) \/ RequestsApproveGrant(c) \/ LoadKeyFails(c) \/ PromptFails(c)
  /\ PromptEnds

\* The other split handler does not prompt.
InitContinues(c) ==
  /\ VaultInitCreate(c) \/ VaultInitTruncate(c) \/ VaultInitWrite(c) \/ VaultInitFails(c)
  /\ UNCHANGED promptVars

\* A daemon that dies takes its prompt along; the next one may have another terminal.
RestartPrompt ==
  /\ Restart
  /\ prompt' = "none" /\ answer' = "none"
  /\ terminal' \in Terminals
  /\ UNCHANGED root

DaemonRuns(c) == Authenticates(c) \/ Resumes(c) \/ InitContinues(c)

PromptNext ==
  \/ \E c \in Clients : DaemonRuns(c) \/ UserAnswers(c)
  \/ \E c \in Clients : (Connect(c) \/ Locks(c) \/ Exit(c)) /\ UNCHANGED promptVars
  \/ RestartPrompt

PromptSpec == PromptInit /\ [][PromptNext]_<<vars, promptVars>>

\* The lock goes to a thread that waits for it, the daemon runs on, and a prompt on the
\* screen is answered one day, or ended by the OS.
PromptFairSpec ==
  /\ PromptSpec
  /\ WF_vars(\E c \in Clients : Locks(c) /\ UNCHANGED promptVars)
  /\ WF_<<vars, promptVars>>(\E c \in Clients : DaemonRuns(c))
  /\ WF_<<vars, promptVars>>(\E c \in Clients : UserAnswers(c))

----------------------------------------------------------------------------
\* The session is unlocked, a secret is granted, a secret is new under the stored key; or
\* a command that has to load that key succeeds.
KeyUsed ==
  \/ unlocked_key' \notin {unlocked_key, NoKey}
  \/ approved_ids' \ approved_ids # {}
  \/ unlocked_key = NoKey /\ DOMAIN secrets' \ DOMAIN secrets # {}
  \/ \E c \in Clients : (In(c, "SecretPut") \/ In(c, "RequestsApprove")) /\ conn'[c] = "ok"

\* The stored key leaves the credential store, to unlock the session, to grant in one that
\* is unlocked already or to encrypt a secret, only after the user identified at the
\* prompt of that very command, or as root on Linux; a prompt that failed, was cancelled
\* or could not be shown at all leads nowhere.
KeyIsConfirmed ==
  [][KeyUsed => root \/ answer = "right"]_<<vars, promptVars>>

\* A secret becomes readable only by an approval that selected it from a request that
\* named it, that settles the request, and whose own prompt was passed by the user, or by
\* root, whether or not the session was unlocked before.
GrantsArePrompted ==
  [][\A id \in Readable' \ Readable :
       /\ call.cmd = "RequestsApprove" /\ id \in call.selected
       /\ call.request_id \in DOMAIN pending_requests \ DOMAIN pending_requests'
       /\ id \in pending_requests[call.request_id]
       /\ prompt = "verified" /\ (root \/ answer = "right")]_<<vars, promptVars>>

\* A prompt is passed by who identified at it, or by root; and the user is asked on
\* behalf of a handler that has the lock.
PromptInv ==
  /\ PromptTypeOK
  /\ prompt = "verified" => root \/ answer = "right"

\* What Daemon assumes of the prompt is what the platforms give it: with the prompt's
\* own steps hidden this is the fair daemon, so that a handler that waits for a prompt
\* does go on.
ImplementsDaemon == FairSpec

\* "failed to read key file ... - run `vault init` first": when a command got past its
\* prompt and fails because no key is stored, vault init is not refused.
InitAdviceHelps ==
  [][\A c \in Clients : At(c, "verified") /\ LoadKeyFails(c) => ~database']_vars

\* "Account password via PAM (root auto-approves)": nobody but root gets by without
\* being asked for the password, and nobody is refused either.
PasswordDecides == prompt = "refused" => answer # "none"
=============================================================================
