------------------------------- MODULE Grants -------------------------------
(***************************************************************************)
(* What agent-password promises its users, without threads, prompts, keys  *)
(* or files: an agent reads a stored secret only after it asked for it in  *)
(* the session that is open, by a request that the user then granted, and  *)
(* for as long as the secret stays and the grant is not taken back; and    *)
(* what was granted can be read.                                           *)
(***************************************************************************)
EXTENDS Naturals, FiniteSets, Functions

CONSTANT Ids

VARIABLES
  stored,     \* the secrets of the vault
  open,       \* is there a shared session?
  asked,      \* the requests that wait for the user, by number
  last,       \* the number of the session's latest request
  readable    \* the secrets whose fields an agent can read

grantsVars == <<stored, open, asked, last, readable>>

NothingAsked == [n \in {} |-> {}]

GrantsInit ==
  /\ stored = {}
  /\ open = FALSE
  /\ asked = NothingAsked
  /\ last = 0
  /\ readable = {}

\* A new secret, or new fields for one that is there: grants are not disturbed.
Store(id) ==
  /\ stored' = stored \cup {id}
  /\ UNCHANGED <<open, asked, last, readable>>

\* A deleted secret is gone from the grants and from the requests.
Remove(id) ==
  /\ id \in stored
  /\ stored' = stored \ {id}
  /\ readable' = readable \ {id}
  /\ asked' = [n \in DOMAIN asked |-> asked[n] \ {id}]
  /\ UNCHANGED <<open, last>>

\* A session is created or replaced, or it ends: by a command, or with its daemon.
Reset(opened) ==
  /\ open' = opened
  /\ asked' = NothingAsked
  /\ last' = 0
  /\ readable' = {}
  /\ UNCHANGED stored

Ask(ids) ==
  /\ open /\ ids # {} /\ ids \subseteq stored
  /\ last' = last + 1
  /\ asked' = [n \in DOMAIN asked \cup {last + 1} |-> IF n = last + 1 THEN ids ELSE asked[n]]
  /\ UNCHANGED <<stored, open, readable>>

\* The user grants some of a request, which settles all of it.
Settle(n, granted) ==
  /\ open /\ n \in DOMAIN asked
  /\ granted # {} /\ granted \subseteq asked[n]
  /\ readable' = readable \cup granted
  /\ asked' = Restrict(asked, DOMAIN asked \ {n})
  /\ UNCHANGED <<stored, open, last>>

\* The user denies a part of a request, or all of it.
Withdraw(n, denied) ==
  /\ open /\ n \in DOMAIN asked
  /\ denied # {} /\ denied \subseteq asked[n]
  /\ asked' = IF denied = asked[n]
              THEN Restrict(asked, DOMAIN asked \ {n})
              ELSE [asked EXCEPT ![n] = @ \ denied]
  /\ UNCHANGED <<stored, open, last, readable>>

\* A request whose secrets were all deleted can only be denied as a whole.
Dismiss(n) ==
  /\ open /\ n \in DOMAIN asked /\ asked[n] = {}
  /\ asked' = Restrict(asked, DOMAIN asked \ {n})
  /\ UNCHANGED <<stored, open, last, readable>>

Revoke ==
  /\ open
  /\ readable' = {}
  /\ UNCHANGED <<stored, open, asked, last>>

GrantsNext ==
  \/ \E id \in Ids : Store(id) \/ Remove(id)
  \/ \E opened \in BOOLEAN : Reset(opened)
  \/ \E ids \in SUBSET Ids : Ask(ids)
  \/ \E n \in DOMAIN asked :
       \/ \E ids \in SUBSET asked[n] : Settle(n, ids) \/ Withdraw(n, ids)
       \/ Dismiss(n)
  \/ Revoke

GrantsSpec == GrantsInit /\ [][GrantsNext]_grantsVars
=============================================================================
