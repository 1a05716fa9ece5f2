# Verification of agent-password

agent-password is a local password manager for AI agents: an agent sees only the
metadata of secrets, asks for the ones it needs, the user reviews the numbered
request and approves all or some of it behind an OS authentication prompt, and
the agent then reads the approved secrets until the session ends. One background
daemon per user holds the session and the unlocked key in memory and answers
every CLI process over a local socket, or a named pipe on Windows.

These modules model that program: the daemon and its vault as a state machine,
its prompt on each platform, two daemons on one vault, the start-up protocol on
both transports, the user's review, and the pure algorithms where an off-by-one
would matter. TLC checks them on small instances; TLAPS proves every safety and
action property that these checks pass for instances of any size, and that the
daemon implements the abstract session. Liveness is left to TLC.

## Inventory

| Part | State | Operations | What is hard about it |
|---|---|---|---|
| Daemon (`src/src/daemon.rs`, `protocol.rs`) | the shared session: unlocked key, approved ids, pending requests, request counter; the mutex around it | 16 requests, one per `Request` variant | one thread per connection; the mutex is held while the user is prompted; approval uses what it read before the prompt; a panic poisons the mutex; a crash loses the session but not the vault; two daemons can share the vault |
| Selection (`daemon.rs`) | none | `select_requested_ids`, `parse_selection`, `parse_index` | positions, ranges, bounds |
| Vault storage (`storage.rs`) | `vault.db`: rows encrypted under the key of the time | initialize, upsert, delete, read, list | every access creates the file, and the file is what `vault init` tests |
| Credential store (`keychain.rs`) | the 32-byte vault key | store, load | on Linux a file that is truncated and then written |
| Encryption (`crypto.rs`) | none | encrypt, decrypt, key generation | a key of the wrong length panics |
| Authentication (`biometric.rs`) | the dialog, or the terminal and PAM | one prompt on each of three platforms | it waits for the user without a timeout of its own; it has many ends, one of them a success; root is not asked; the Linux daemon needs a terminal |
| Start-up and transport (`daemon.rs`, `ipc.rs`) | the socket file or the instances of the pipe, the daemon processes | probe, remove the stale socket, spawn, poll, connect; bind, listen, set the mode; test the pipe's name, offer an instance, accept | several CLI processes at once; crashes that leave the file; the five-second limit; no instance between one connection and the next; answers lost after they took effect |
| CLI (`cli.rs`) | none | argument parsing, printing, the env-file writer | the user types positions of a view that is older than the request; `KEY=VALUE`, env names and quoting |
| Paths, entry points (`paths.rs`, `main.rs`, `lib.rs`) | none | file locations | nothing |

Interaction: a CLI process probes the transport, starts a daemon when nobody
answers, connects again and sends one line; a daemon thread reads it, takes the
mutex, runs `Daemon::handle` against the session and the vault, releases the
mutex and writes one line. The daemon calls storage, the credential store and
the prompt from inside the handler, so all of that happens under the mutex.
What the user decides about is printed by one such exchange and acted on by a
later one.

What makes each part correct:

- daemon: a grant is given only for what was pending, stays usable while it
  lasts, and goes with the secret or the session; requests never grow; a command
  that is refused changed nothing at any of its steps; the lock comes free;
- prompt: the key is used and a grant is given after a success of the command's
  own prompt, and after nothing else;
- vault and key: one key opens everything, whatever fails or is repeated, and
  whichever daemon does it;
- selection: exactly the numbered lines;
- review: what the user's approvals and denials select is what the user saw;
- start-up: one daemon, so one session; a request takes effect at most once;
  every command ends;
- fields: what was put is got, and a shell reads back what was stored.

The hazards this suggests are listed, each at its line, in `PROJECT.json`.

## Modules

| Module | Models | Contents |
|---|---|---|
| `Selection` | the selection of positions | operators on sets of ids, no state |
| `Vault` | `vault.db`, the cipher and the credential store | variables `database`, `secrets`, `vault_key`; the storage calls as operators |
| `Daemon` | the daemon's session, threads, mutex and all its handlers, on top of `Vault` and `Selection` | one action per handler, properties, the inductive invariant |
| `Grants` | what the daemon promises: the abstract session | stored, asked and readable secrets; no threads, keys or files |
| `DaemonProofs` | | the invariant of `Daemon`, proved |
| `GrantsProofs` | | what a step of `Daemon` may do, and that it implements `Grants` |
| `Prompt` | `biometric.rs` and the user, on top of `Daemon` | root, the terminal, how far the prompt is, the user's answer |
| `PromptProofs` | | theorems about `Prompt`, and that it implements `Daemon` |
| `Review` | a user who shows a request, and later approves or denies positions of it, among other processes | `Prompt` with the view on the user's screen and the approval the user sent |
| `ReviewProofs` | | theorems about `Review`, and that it implements `Prompt` |
| `SharedVault` | a daemon whose vault another one uses too | `Daemon` with what it keeps true of a shared vault, proved |
| `Fleet` | two daemons on one vault | two copies of `SharedVault` that share the variables of `Vault` |
| `FleetProofs` | | theorems about `Fleet` |
| `Startup` | `ensure_daemon_running`, `send`, `run_daemon`, `ipc` on Unix and Windows | CLI processes, daemon processes, the socket file or the pipe |
| `StartupProofs` | | theorems about `Startup` |
| `Fields` | `--field` arguments, `select_fields`, the env-file writer, and a shell that reads it | names and values as sequences of characters |
| `AlgorithmProofs` | | theorems about `Selection` and `Fields` |
| `MCPrompt`, `MCReview`, `MCAlgorithms` | | small instances for TLC |

### How `Daemon` corresponds to the code

`session` to `next_request_id` are the `Option<SessionState>`; a session that
does not exist keeps the fields a new one starts with. `conn` is where each
connection is: not used, waiting for the lock, in a handler, or answered. An
answer is `ok`, `refused` (an error the request or the user brought about),
`broken` (an error that means the daemon contradicts itself, such as
"approved secret no longer exists") or `eof`, no answer at all. `mutex` is the
`Mutex<Daemon>`, `poisoned` its poison flag.

A handler is one action when it touches only memory and makes one access to the
vault: it runs under the mutex, so nobody sees it half done, and a crash in the
middle loses the memory anyway. Three handlers are split, because they stop at a
prompt or leave something on disk half done, and hold the mutex in between:

- `vault init`: `VaultInit` tests for the file, `VaultInitCreate` creates it,
  `VaultInitTruncate` and `VaultInitWrite` store the key (only the second where
  the store is atomic); `VaultInitFails` at any of them;
- `secret put` without an unlocked session: `SecretPut`, then `SecretPutStore`,
  `LoadKeyFails` or `PromptFails`;
- `requests approve`: `RequestsApprove` settles what is selected, then
  `RequestsApproveGrant`, `LoadKeyFails` or `PromptFails`.

`Restart` is the end of the daemon and its replacement, at any moment: memory is
lost, connections are cut, the vault stays. `StorageFails` is a handler whose
first access to SQLite fails. What a request asks for is chosen when its handler
gets the lock, since nothing depends on it before.

Secrets are reduced to the key they were encrypted under; a pending request to
the set of its ids, which the code keeps sorted and without repetition.

### `Prompt`

In `Daemon` a handler that waits at a prompt goes on with success or without,
and nothing says why. `Prompt` puts `biometric::authenticate` in between:
`prompt` goes from `none` to `verified` or `refused` (the value it returns), by
way of a dialog or password prompt that is `shown` and `answered`. On Linux root
passes at once, a daemon without a terminal fails at once, and otherwise PAM
judges the password; on macOS and Windows there may be no dialog, and any result
but success is an error. `Resumes` is the handler going on. `ImplementsDaemon`
says that this is the fair daemon of `Daemon` when the prompt's steps are
hidden, so what is shown of the one holds of the other.

### `Review`

The daemon takes `requests show`, `approve` and `deny` from any process, so
`ReviewNext` lets everybody send every command. `UserShows`, `UserApproves` and
`UserDenies` are the commands of one user, whose positions are those of `view`,
the last view on the screen; `own` tells whether an approval that is under way is
the user's, and `meant` which ids the user picked for it. `view.ended` says that
the session in which the view was taken is gone.

What is promised is about the user's own commands: an approval that the user sent
selects only what was on the screen. It says nothing of the approvals of others.
The prompt (`daemon.rs:387`) has one text for all approvals, so a user can pass
the prompt of another process's approval in the belief that it is their own, and
grant secrets they never looked at. The model has these behaviours; the
repository (`README.md:45`) says what the user does and not who else may, so
there is no claim to check them against, and they are listed with the hazards.

### `Fleet`

The variables of `Daemon` are the first daemon, `other_...` the second; `Other`
is the same module with those in their place (`SharedVault`, which is `Daemon`
and lemmas about it that both need). Both share `database`, `secrets` and
`vault_key`. `raced` remembers that two `vault init`s were under way at once. In
such a race both pass the test for the file and the second key replaces the
first; everything stated about the fleet is stated for fleets where that did not
happen. A secret deleted at one daemon stays granted at the other, so
`GrantsReadable`, `PendingStored` and `GrantsArePrompted` are promises of a
single daemon only.

### `Startup`

`transport` is a socket or a pipe. With a socket a daemon goes through
`starting`, `cleared` (it removed the stale file), `bound` (the file is its own),
`listening` and `serving` (the mode is set). The file leads to one daemon;
removing or replacing it cuts off the one that had it. With a pipe it goes
through `testing` (the instance of `bind`, which a client can already take),
`creating`, `offering` and `taken`, and then again from `creating`, where nobody
can connect. A pipe whose instances are all taken is busy, and `connect` waits.

A CLI process goes through probe, removal (socket only), spawn, poll, connection
(`asking`), `served` and `answered`, or `failed`. `effects` counts how often its
request was carried out. The 50 polls are one `GiveUp`. `load` says what the
machine is up to: with `alone` one command runs at a time and a spawned daemon
is there before the last poll, which is the assumption that five seconds are
enough; with `together` several commands run at a time; with `slow` a daemon may
also take longer.

### `Fields`

A secret from `secret put --field` through `secrets get` to the env file and the
shell. A text is a sequence over an alphabet with one character of each kind the
code tells apart, so that the splitting at `=`, the sanitizing and the quoting
are the code's own. `MCAlgorithms` has one initial state for each input, of this
module or of `Selection`, and no steps.

## Runs

Passing:

| Run | Question | Bounds |
|---|---|---|
| `algorithms` | is a selection accepted when it numbers lines, and does it pick exactly those? are fields got as they were put, and read back by a shell? | ids 1..4, up to two parts, numbers 0..5; one `--field` argument of up to 4 characters of 7, or two of up to 3 characters of 3 |
| `daemon_safety` | all safety and action properties of the daemon and its prompt, the inductive invariant, and that it implements `Grants` | macOS, 2 clients, 3 valid ids and 1 invalid, 2 keys, 2 request numbers per session, 5 selections |
| `daemon_live` | is the lock released, is everyone answered, is this the fair daemon? and does the key file do harm? | Linux, 2 clients, 1 valid id and 1 invalid, 1 key, 1 request number, 3 selections |
| `review` | does what the user sends decide only on what was shown, whatever other processes send, and does the invariant behind it hold? | macOS, 2 clients, 2 ids, 1 key, 2 request numbers |
| `fleet` | which guarantees survive a second daemon, and is their invariant one? | Linux, 2 daemons with 1 client each, 2 ids, 2 keys, 1 request number |
| `startup` | is there one daemon, does it start cleanly, does a request take effect at most once, does every command end (where several run at a time, once no more come), and does the inductive invariant hold? | both transports and all three loads, 2 CLI slots, 2 daemon slots |

Violations, each of something the repository says:

| Run | What is said | What happens |
|---|---|---|
| `clear_keeps_key` | `protocol.rs:122`: the key bytes are wiped "when the session is closed, cleared, or replaced" | `session clear` leaves `unlocked_key` as it is |
| `init_advice` | `keychain.rs:161`: "run `vault init` first" | the command that says so has created `vault.db`, so `vault init` refuses |
| `prompt_tty` | `README.md:31`: "Account password via PAM (root auto-approves)" | the daemon was detached with `setsid` and has no terminal, so whoever is not root is refused unasked |
| `review_numbers` | `README.md:241`: approves "only the numbered subset" | the request shrank after it was shown, and the numbers mean other secrets |
| `startup_race` | `README.md:40`: "one shared local session per OS user" | two commands started together leave two daemons with a session each |
| `env_names` | `README.md:226`: "shell-compatible environment assignments" | `--field =x` becomes `='x'` and `2fa` becomes `2FA=...`; `api-key` and `api_key` share a variable. The trace shows the first, the others follow from the same code |

Why the bounds suffice: the handlers exclude each other by the mutex, so two
connections already give every order of two commands, with one waiting through
the other's prompt, and a slot is used again for any number of commands. Three
secrets let a request lose its first, middle or last position and still have one;
an invalid id exercises validation. Two request numbers let a second request be
made after a first was settled. Two keys would show up if a second vault init
ever replaced the first. In `Fleet` one client at each daemon is enough, since
within a daemon the mutex orders them, and between daemons nothing does. In
`Startup`, one daemon that is being replaced and one that replaces it are all a
race needs; a daemon slot is free again after a crash. The platforms differ in
the key file and in the prompt: Linux has the file and asks for the password
(`daemon_live`, and `fleet` with two keys), the others replace the key atomically
and show a dialog (`daemon_safety`, `review`).

Every property has a mutant in `PROJECT.json`: a plausible bug in one definition
that the run then detects, such as forgetting the session's copy of a deleted
secret, not unlocking at approval, releasing the lock during the prompt, taking
the request out before it, going on without looking at its result, taking any
result of a dialog for a success, retrying a request whose answer was lost,
or dropping the test for an existing vault.

Symmetry (of clients and keys) is used in the safety runs only.

## Fairness

- `Daemon`: some waiting thread gets a free lock (weak fairness of `Locks` for
  all connections together: std's `Mutex` promises no more), and the thread that
  has the lock runs on (weak fairness of `Continues`). No fairness for new
  commands, for crashes or for CLI processes. Since the lock is unfair,
  `EveryoneIsAnswered` is about the time when no more commands come.
- `Prompt` splits the second of these into the daemon's own steps and the
  user's: the daemon runs on, and a prompt that is shown is answered or ended by
  the operating system. The code has no timeout of its own for a prompt, so this
  is an assumption about the user and the OS. `ImplementsDaemon` checks that it
  amounts to the fairness of `Daemon`.
- `Startup`: every CLI process takes its next step (weak fairness of `Proceeds`
  for each), and so does every daemon's accept loop (`DaemonStep` for each). A
  request is handled when its thread gets the daemon's mutex, which is held
  across prompts and is not fair: as in `Daemon`, one of those that wait for a
  daemon is served one day (`ServesOne`), none in particular. Nobody has to run a
  command or crash. So, where several commands run at a time (`load` is not
  `alone`), `EveryCommandEnds` is about the time when no more are run: until then
  others can go on taking the mutex, and every instance of a pipe that is
  offered.

## Proofs

The theorems hold for any sets of clients, ids, keys and processes, finite or
not, for any platform, any bound on request numbers and texts of any length,
from the assumptions on the constants that `Vault`, `Daemon`, `Startup` and
`MCAlgorithms` name, and no others.

| Module | Theorem | Statement |
|---|---|---|
| `DaemonProofs` | `Invariance` | `Spec => []IInv` |
| | `TypeCorrect` | `Spec => []TypeOK` |
| | `GrantsAreReadable` | every grant can be used, and nothing else can be read |
| | `KeysAgree` | rows, credential store and session have one key |
| | `RequestsCanBeShown` | pending requests name stored secrets |
| | `ApprovalsAreBacked` | a selection at the prompt is still pending |
| | `NoBrokenAnswer` | the daemon never contradicts itself |
| | `PanicsAreConfined` | a panic only over a vault whose key was never written |
| `GrantsProofs` | `NumbersKeepTheirMeaning` | `Spec => RequestsOnlyShrink` |
| | `RefusedIsUndone` | `Spec => RefusalsChangeNothing`: from taking the lock to the refusal, no step changes anything |
| | `DaemonImplementsGrants` | `Spec => ImplementsGrants` |
| `PromptProofs` | `PromptImplementsDaemon` | `PromptSpec => Spec`: a step of the daemon with its prompt is one of the daemon's, or none |
| | `PromptInvariance`, `PromptKeepsPromises` | so `IInv`, the refinement and the action properties hold with the prompt |
| | `PromptsAreGuarded`, `PromptTypeCorrect` | where there can be a prompt, and what a verified one was |
| | `KeyNeedsTheUser` | the stored key is used only after the user identified at that command's prompt, or as root |
| | `NothingReadUnasked` | `PromptSpec => GrantsArePrompted`: a grant comes of an approval that selected it and whose own prompt was passed |
| `ReviewProofs` | `ReviewImplementsPrompt` | `ReviewSpec => PromptSpec`: the user's steps are commands like others |
| | `ShownInvariance` | `ReviewSpec => [](IInv /\ ShownInv)` |
| | `UserApprovesTheShown`, `UserDeniesTheShown` | what the user's approvals and denials select was on the screen, while its session lasts |
| `FleetProofs` | `FleetInvariance` | `FleetSpec => []FleetInv` |
| | `KeySurvivesBoth`, `GrantsSurviveBoth` | without a race, one key, and stored grants can be read |
| `StartupProofs` | `StartupInvariance`, `StartupTypeCorrect` | `StartupSpec => []StartupInv` |
| | `CarriedOutOnce` | a request takes effect at most once, whatever dies |
| | `AloneHaveOneDaemon`, `AloneShareOneSession`, `AloneStartCleanly` | commands run one after another on a socket: one daemon, one session, no failed start |
| `AlgorithmProofs` | `SelectionsPickLines` | a selection is accepted exactly when it numbers lines, and picks exactly those |
| | `PutsAreGot` | what is got is what was put last |
| | `QuotedValuesReadBack` | a shell reads back every value as one word |
| | `NamesBecomeShellNames` | names that can be variables become shell names |

### The daemon

None of its properties is inductive by itself. That a grant can be read needs
that rows were encrypted under the key in the credential store (`KeyInv`); that
this key never changes once there are rows needs that there is no key without a
database file (`KeyInv`) and that nothing is stored or unlocked while `vault
init` is between its steps (`InitInv`); that what is granted is stored needs that
pending requests name stored secrets and that an approval at the prompt is still
backed by its request (`GrantInv`), which holds because whoever is in a handler
has the lock (`LockInv`). `IInv` is the conjunction with the types.

The proof treats first what actions have in common (`HandleKeepsLocks`,
`BeginKeepsLocks`, `FinishKeepsLocks` for the lock, `Frame` for steps that leave
session and secrets alone, `RequestsHandler` for those that only change
requests), then each handler in a lemma of its own, and joins them in
`NextKeepsIInv`.

### Steps of the daemon, and `Grants`

`NextHasEffect` says once what each action does to the session and the stored
secrets: it stores or deletes a secret, renews the session, clears its grants,
asks, denies or grants, and then nobody is in a handler any more and no answer
turns to "refused" (`Succeeds`); or it does nothing at all. The action properties
are read off these effects: a command that is refused later is in its handler
until then, so none of its steps had one. For the refinement,
`IInv` turns approved ids into readable ones (`ApprovedIsReadable`), before and
after the step; then each effect is an action of `Grants`: a renewal is a
`Reset`, a denial a `Withdraw` or, for a request all of whose secrets were
deleted, a `Dismiss`. `RequestsOnlyShrink` needs that the counter is above every
pending number, or a new request would take the place of an old one.

### Prompt and review

`KeyNeedsTheUser` and `NothingReadUnasked` rest on `KeyUsedWhenPassed`, which
needs two facts: a step that takes the lock neither uses the stored key nor
grants anything (`LocksUseNoKey`: a session without a key begins a split handler,
one that has it uses its own, and nobody else is in a handler then, by `LockInv`);
and a prompt that is verified was answered rightly or belongs to root
(`PromptInv`), which uses that there is a prompt only in a handler that has the
lock, and an answer only while there is that prompt. A grant in a session that is
unlocked already counts as a use, as the code authenticates for each approval.
That what is granted was selected from a pending request is `StepsGrantByPrompt`,
from `GrantInv`.

`Prompt` implements `Daemon` and `Review` implements `Prompt`, so each starts
from what is proved of the one before. `ShownInv` of `Review` says that, while
the session in which a request was shown lasts, its number is below the counter,
and what is still pending under it is a part of what was shown. It is kept
because requests only shrink and numbers are not given twice, the properties
proved of the daemon: what the user decides about is then a part of what is
pending, and so of what was on the screen. An approval that the user sent is not
taken for one of somebody else's, because it keeps the lock until it has its
answer (`ApprovalGoesOn`).

### Two daemons

`IInv` does not hold for one of two daemons: its `GrantInv` is broken when the
other deletes a secret. What survives is about the key alone. `VaultKeyInv`
speaks of the vault, `HeldKeyInv` of what one daemon holds in memory or is about
to write, and `KeyKept` is what a step of either guarantees to the other: the
key is only ever replaced by `vault init`, and only where it was of no use yet.
`SharedVault` proves that a step of a daemon keeps the first two and guarantees
the third, and that `HeldKeyInv` survives whatever another daemon does under that
guarantee; `FleetProofs` uses these lemmas for each of the two daemons.

### Start-up

`EffectsInv` ties the count of effects to where a command is: zero until its
request is taken, one once it was served; a daemon that dies sends its clients
to `failed`, never back. One daemon needs more: `FoundByTheNext` says that a
daemon that starts has the file to itself from the time it removed a stale one,
and that until it serves there is a command that waits for it (`Awaits`), so that
no other command can run meanwhile (`OneCommand`), miss it and spawn a second.

### Algorithms

A selection: the position of an id is the number of ids not above it; positions
ascend with the ids and there are as many as lines, so line `i` has the id at
position `i` (`LineHasPosition`).

The loops over characters and arguments are functions over the steps of the
loop. The library states induction with an operator as its parameter, which
cannot be instantiated here; `SetInduction` states it for a set of numbers and
derives it from the fact that every non-empty set of numbers has a minimal
element. It gives that each loop has its steps, in one way (`LoopExists`,
`LoopUnique`), what it does with one more element, and by that the properties:
a quoted character of a value is read as that character whatever came before
(`QuotedCharIsRead`), so a quoted value is read as the value (`QuotedIsRead`);
after each argument the fields are the last ones given under their names
(`HoldsLast`), and an argument is split at its first equals sign, which is the
only place where its name can end (`PairIsSplit`, `PairBegins`).

### Only model-checked

The liveness properties `LockIsReleased`, `EveryoneIsAnswered` and
`EveryCommandEnds`, and the fairness that `ImplementsDaemon` promises beyond
`PromptImplementsDaemon`: they need fairness and `ENABLED`, which the provers do
not handle. The violations are behaviours that TLC exhibits. All other
properties of the passing runs are proved.

## Not modelled

- the foreign code behind the prompts and the credential stores; a prompt is its
  possible results, a store is one replacement of the key;
- cryptography beyond which key opens what;
- argument parsing apart from `--field`, printing, JSON, metadata (titles, tags,
  timestamps): no step of the program depends on them;
- limits on threads and connections: the code sets none;
- failures of SQLite in the middle of a statement, which SQLite rolls back, and
  its locking of two daemons' statements, each of which is one access;
- the text of a selection before it is split into parts: a part that is no
  number is refused like one that is out of range.

## Plan

Done: all modules, and the theorems above.

Next, in this order:

1. the action properties for each of two daemons: requests only shrink and
   refusals change nothing whatever the other daemon does to the vault, which
   needs an invariant of the request numbers without that of the grants;
2. an abstract specification of the start-up, in which a request is carried out
   or lost, with a theorem that `Startup` implements it;
3. the pipe: what holds of several daemons there when commands run one after
   another, beyond what the socket's invariant says.
