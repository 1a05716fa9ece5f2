----------------------------- MODULE FleetProofs -----------------------------
(***************************************************************************)
(* Proofs for two daemons at one vault, of any number of secrets, keys and *)
(* connections.  Each daemon keeps the vault in order and its own memory   *)
(* in accord with it (module SharedVault, taken once for each), and cannot *)
(* replace a key that was of use; so what the other has in memory stays in *)
(* accord too, unless both are in vault init at once.                      *)
(***************************************************************************)
EXTENDS Fleet

\* The other daemon is subject to the assumptions of the first one.
LEMMA OtherAssumptions == Other!VaultAssumption /\ Other!DaemonAssumption
  BY VaultAssumption, DaemonAssumption DEF Other!VaultAssumption, Other!DaemonAssumption

\* Both find the same vault.
LEMMA SameVault == Other!VaultKeyInv <=> VaultKeyInv
  BY DEF Other!VaultKeyInv, VaultKeyInv

\* The invariant holds of a fresh machine.
LEMMA FleetInitHolds == FleetInit => FleetInv
  <1>1. Other!Init => Other!HeldKeyInv
    BY OtherAssumptions, Other!InitShares
  <1>2. FleetInit => ~Races
    BY DEF FleetInit, Init, NoCall, Races
  <1> QED
    BY <1>1, <1>2, InitShares DEF FleetInit, FleetInv

\* A step of the first daemon.
LEMMA OwnStep ==
  ASSUME ~Races, VaultKeyInv, HeldKeyInv, Other!HeldKeyInv, Next, UNCHANGED otherVars
  PROVE  VaultKeyInv' /\ HeldKeyInv' /\ Other!HeldKeyInv'
  <1>1. VaultKeyInv' /\ HeldKeyInv' /\ KeyKept
    BY StepShares
  <1>2. Other!HeldKeyInv'
    BY <1>1, OtherAssumptions, Other!OthersShare
    DEF KeyKept, Races, otherVars, Other!sessionVars, Other!threadVars
  <1> QED
    BY <1>1, <1>2

\* A step of the other one.
LEMMA OtherStep ==
  ASSUME ~Races, VaultKeyInv, HeldKeyInv, Other!HeldKeyInv, Other!Next,
         UNCHANGED <<sessionVars, threadVars>>
  PROVE  VaultKeyInv' /\ HeldKeyInv' /\ Other!HeldKeyInv'
  <1>1. Other!VaultKeyInv' /\ Other!HeldKeyInv' /\ Other!KeyKept
    BY SameVault, OtherAssumptions, Other!StepShares
  <1>2. VaultKeyInv'
    BY <1>1, SameVault, PTL
  <1>3. HeldKeyInv'
    BY <1>1, OthersShare DEF Other!KeyKept, Races
  <1> QED
    BY <1>1, <1>2, <1>3

\* And every step of the two together keeps it.
LEMMA FleetStepHolds == FleetInv /\ [FleetNext]_fleetVars => FleetInv'
  <1> SUFFICES ASSUME FleetInv, [FleetNext]_fleetVars PROVE FleetInv'
    OBVIOUS
  <1>1. CASE FleetNext
    <2> SUFFICES ASSUME ~raced' PROVE ~Races' /\ VaultKeyInv' /\ HeldKeyInv' /\ Other!HeldKeyInv'
      BY DEF FleetInv
    <2>1. ~Races' /\ ~raced
      BY <1>1 DEF FleetNext
    <2>2. ~Races /\ VaultKeyInv /\ HeldKeyInv /\ Other!HeldKeyInv
      BY <2>1 DEF FleetInv
    <2> QED
      BY <1>1, <2>1, <2>2, OwnStep, OtherStep DEF FleetNext
  <1>2. CASE UNCHANGED fleetVars
    BY <1>2
    DEF fleetVars, vars, vaultVars, sessionVars, threadVars, otherVars,
        FleetInv, Races, VaultKeyInv, HeldKeyInv, Other!HeldKeyInv
  <1> QED
    BY <1>1, <1>2

\* Until two vault inits race, the vault is in order and both daemons agree with it.
THEOREM FleetInvariance == FleetSpec => []FleetInv
  BY FleetInitHolds, FleetStepHolds, PTL DEF FleetSpec

\* Unless two vault inits race, rows, stored key and both sessions agree on one key.
THEOREM KeySurvivesBoth == FleetSpec => []OneKeyUnlessRaced
  <1>1. Other!VaultKeyInv /\ Other!HeldKeyInv => Other!OneKey
    BY OtherAssumptions, Other!StoredGrantIsReadable
  <1>2. FleetInv => OneKeyUnlessRaced
    BY <1>1, SameVault, StoredGrantIsReadable DEF FleetInv, OneKeyUnlessRaced
  <1> QED
    BY <1>2, FleetInvariance, PTL

\* And every secret that one of them approved and that is in the vault can be read there.
THEOREM GrantsSurviveBoth == FleetSpec => []StoredGrantsReadable
  <1>1. Other!VaultKeyInv /\ Other!HeldKeyInv
          => other_approved_ids \cap DOMAIN secrets \subseteq Other!Readable
    BY OtherAssumptions, Other!StoredGrantIsReadable
  <1>2. FleetInv => StoredGrantsReadable
    BY <1>1, SameVault, StoredGrantIsReadable DEF FleetInv, StoredGrantsReadable
  <1> QED
    BY <1>2, FleetInvariance, PTL
=============================================================================
