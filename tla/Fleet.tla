-------------------------------- MODULE Fleet --------------------------------
(***************************************************************************)
(* Two daemons at one vault, as two commands that start at once leave them *)
(* (see module Startup): each has its own session, threads and mutex, and  *)
(* serves CLI processes of its own; the database and the credential store  *)
(* are the same.  No lock is held across them, so the steps of one fall    *)
(* between any two steps of the other's handlers.                          *)
(*                                                                         *)
(* The variables of module Daemon, which module SharedVault extends, are   *)
(* one daemon, those declared here the other.                              *)
(***************************************************************************)
EXTENDS SharedVault, TLC

VARIABLES
  other_session, other_unlocked_key, other_approved_ids,
  other_pending_requests, other_next_request_id,
  other_conn, other_mutex, other_call, other_poisoned,
  raced        \* were two vault inits ever past their check at the same time?

Other == INSTANCE SharedVault WITH
  session <- other_session, unlocked_key <- other_unlocked_key,
  approved_ids <- other_approved_ids, pending_requests <- other_pending_requests,
  next_request_id <- other_next_request_id,
  conn <- other_conn, mutex <- other_mutex, call <- other_call, poisoned <- other_poisoned

otherVars == <<other_session, other_unlocked_key, other_approved_ids,
               other_pending_requests, other_next_request_id,
               other_conn, other_mutex, other_call, other_poisoned>>

fleetVars == <<vars, otherVars, raced>>

FleetInit == Init /\ Other!Init /\ raced = FALSE

\* Both are between the test for the database file and the end of vault init.
Races == call.cmd = "VaultInit" /\ other_call.cmd = "VaultInit"

\* Each daemon takes its steps as if it were alone.
FleetNext ==
  /\ \/ Next /\ UNCHANGED otherVars
     \/ Other!Next /\ UNCHANGED <<sessionVars, threadVars>>
  /\ raced' = (raced \/ Races')

FleetSpec == FleetInit /\ [][FleetNext]_fleetVars

\* One secret per request needs no positions.
AllOnly == {AllSelection}

\* Keys are interchangeable.
FleetSymmetry == Permutations(Keys)

----------------------------------------------------------------------------
\* Unless two vault inits race, the rows, the stored key and the keys of both sessions
\* agree: a key is never replaced under secrets that either daemon stored, nor under a
\* session that either unlocked, whatever the other does between a handler's steps and
\* whenever either dies in vault init.
OneKeyUnlessRaced == ~raced => OneKey /\ Other!OneKey

\* Then every secret that one daemon approved, and that is in the vault, can be read
\* there, no matter which of the two stored it last, or stored it again after the other
\* deleted it.  (That a grant outlives a secret deleted at the other daemon is why this
\* speaks of stored ones only.)
StoredGrantsReadable ==
  ~raced => /\ approved_ids \cap DOMAIN secrets \subseteq Readable
            /\ other_approved_ids \cap DOMAIN secrets \subseteq Other!Readable

----------------------------------------------------------------------------
\* Why both hold: until two vault inits race, the vault is in order, and what either daemon
\* has in its memory, or is about to do to the key, agrees with it.
FleetInv ==
  ~raced => ~Races /\ VaultKeyInv /\ HeldKeyInv /\ Other!HeldKeyInv
=============================================================================
