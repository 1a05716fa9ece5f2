---------------------------- MODULE ReviewProofs ----------------------------
(***************************************************************************)
(* What the user sends decides only on what was on the screen: proved for  *)
(* any number of other processes, and whatever they send, approvals        *)
(* included, between the look at a request and the decision on it.         *)
(***************************************************************************)
EXTENDS Review, PromptProofs

\* What the user does is a command like any other.
LEMMA ReviewStep ==
  ASSUME ShownInv, [ReviewNext]_<<vars, promptVars, reviewVars>>
  PROVE  [PromptNext]_<<vars, promptVars>>
  <1>1. ASSUME NEW c \in Clients, NEW request_id \in 1..MaxRequests, UserShows(c, request_id)
        PROVE  Locks(c)
    BY <1>1 DEF UserShows, Locks, ManageRequests
  <1>2. ASSUME NEW c \in Clients, NEW selection \in SelectionInputs,
               UserApproves(c, selection) \/ UserDenies(c, selection)
        PROVE  Locks(c)
    <2>1. view.request_id \in 1..MaxRequests
      BY <1>2, DaemonAssumption DEF UserApproves, UserDenies, ShownInv
    <2> QED
      BY <1>2, <2>1 DEF UserApproves, UserDenies, Locks, ManageRequests
  <1> QED
    BY <1>1, <1>2 DEF ReviewNext, PromptNext

\* An approval stays what it was until it has its answer.
LEMMA ApprovalGoesOn ==
  ASSUME IInv, [Next]_vars, call.cmd = "RequestsApprove"
  PROVE  call' \in {call, NoCall}
  <1>1. ASSUME NEW c \in Clients, Locks(c) PROVE FALSE
    BY <1>1, LocksWhenFree DEF IInv, LockInv, NoCall
  <1>2. ASSUME NEW c \in Clients, Connect(c) \/ Exit(c) PROVE call' = call
    BY <1>2 DEF Connect, Exit
  <1>3. ASSUME NEW c \in Clients, VaultInitCreate(c) \/ VaultInitTruncate(c) PROVE FALSE
    BY <1>3 DEF VaultInitCreate, VaultInitTruncate, In
  <1>4. ASSUME NEW c \in Clients,
               \/ VaultInitWrite(c) \/ VaultInitFails(c) \/ SecretPutStore(c)
               \/ RequestsApproveGrant(c) \/ LoadKeyFails(c) \/ PromptFails(c)
        PROVE  call' = NoCall
    BY <1>4 DEF VaultInitWrite, VaultInitFails, SecretPutStore, RequestsApproveGrant,
                LoadKeyFails, PromptFails, Finish
  <1>5. CASE Restart
    BY <1>5 DEF Restart
  <1>6. CASE UNCHANGED vars
    BY <1>6 DEF vars, threadVars
  <1> QED
    BY <1>1, <1>2, <1>3, <1>4, <1>5, <1>6 DEF Next, Continues

\* What others do, and what the daemon does by itself, leaves no more of the request on
\* the screen than there was, or ends the session.
LEMMA WatchedKeepsShown ==
  ASSUME IInv, ShownInv, [Next]_vars, Watched, Sent
  PROVE  ShownInv'
  <1>1. /\ view' \in [request_id : 0..MaxRequests, ids : SUBSET Ids, ended : BOOLEAN]
        /\ view'.request_id = view.request_id /\ view'.ids = view.ids
        /\ ~view'.ended => ~view.ended /\ ~SessionEnds
    BY DEF Watched, ShownInv, SessionEnds
  <1>2. ASSUME ~view'.ended
        PROVE  /\ view'.request_id < next_request_id'
               /\ view'.request_id \in DOMAIN pending_requests'
                    => pending_requests'[view'.request_id] \subseteq view'.ids
    <2>1. next_request_id \in Nat /\ next_request_id' \in Nat
      BY NextKeepsIInv DEF IInv, TypeOK, SessionTypeOK
    <2>2. next_request_id' >= next_request_id
      BY <1>1, <1>2, <2>1 DEF SessionEnds
    <2>3. /\ view.request_id < next_request_id /\ view.request_id \in Nat
          /\ view.request_id \in DOMAIN pending_requests
               => pending_requests[view.request_id] \subseteq view.ids
      BY <1>1, <1>2, DaemonAssumption DEF ShownInv
    <2>4. view.request_id # next_request_id /\ view.request_id < next_request_id'
      BY <2>1, <2>2, <2>3
    <2>5. view.request_id \in DOMAIN pending_requests'
            => /\ view.request_id \in DOMAIN pending_requests
               /\ pending_requests'[view.request_id] \subseteq pending_requests[view.request_id]
      BY <2>2, <2>4, StepsOnlyShrinkRequests
    <2> QED
      BY <1>1, <2>3, <2>4, <2>5
  <1>3. own' \in BOOLEAN /\ (own' => own /\ call' # NoCall)
    BY DEF Sent
  <1>4. own' => call' = call /\ call.cmd = "RequestsApprove"
    BY <1>3, ApprovalGoesOn DEF ShownInv
  <1>5. ApprovesOnlyTheShown'
    BY <1>1, <1>3, <1>4 DEF ShownInv, ApprovesOnlyTheShown
  <1> QED
    BY <1>1, <1>2, <1>3, <1>4, <1>5 DEF ShownInv

\* A look at a request shows all of it.
LEMMA UserShowsKeepsShown ==
  ASSUME IInv, ShownInv, NEW c \in Clients, NEW request_id \in 1..MaxRequests,
         UserShows(c, request_id)
  PROVE  ShownInv'
  <1>1. /\ request_id \in DOMAIN pending_requests
        /\ pending_requests[request_id] \subseteq Ids
        /\ request_id < next_request_id
    BY DEF UserShows, Pending, IInv, TypeOK, SessionTypeOK, GrantInv
  <1>2. UNCHANGED sessionVars /\ call' = call /\ call = NoCall
    BY DEF UserShows, RequestsShow, Handle, Serve, IInv, LockInv
  <1> QED
    BY <1>1, <1>2 DEF UserShows, ShownInv, ApprovesOnlyTheShown, NoCall, sessionVars

\* What the user approves is read against what is left of the request on the screen.
LEMMA UserApprovesKeepsShown ==
  ASSUME IInv, ShownInv, NEW c \in Clients, NEW selection, UserApproves(c, selection)
  PROVE  ShownInv'
  <1>1. UNCHANGED sessionVars /\ view' = view
    BY DEF UserApproves, RequestsApprove
  <1>2. \/ call' = NoCall
        \/ /\ Pending(view.request_id)
           /\ call'.cmd = "RequestsApprove"
           /\ call'.selected = Selected(view.request_id, selection)
    BY DEF UserApproves, RequestsApprove, Handle, Begin, Serve, Selectable, IInv, LockInv
  <1>3. own' \in BOOLEAN /\ (own' => call'.cmd = "RequestsApprove")
    BY <1>2 DEF UserApproves
  <1>4. ApprovesOnlyTheShown'
    <2> SUFFICES ASSUME call'.cmd = "RequestsApprove", ~view.ended
                 PROVE  call'.selected \subseteq view.ids
      BY <1>1 DEF ApprovesOnlyTheShown
    <2>1. Pending(view.request_id) /\ call'.selected = Selected(view.request_id, selection)
      BY <1>2 DEF NoCall
    <2>2. Selected(view.request_id, selection) \subseteq pending_requests[view.request_id]
      BY SelectedArePending
    <2> QED
      BY <2>1, <2>2 DEF ShownInv, Pending
  <1>5. UNCHANGED <<pending_requests, next_request_id>>
    BY <1>1 DEF sessionVars
  <1> QED
    BY <1>1, <1>3, <1>4, <1>5 DEF ShownInv

\* What the user denies goes, and nothing comes.
LEMMA UserDeniesKeepsShown ==
  ASSUME IInv, ShownInv, NEW c \in Clients, NEW selection, UserDenies(c, selection), Next
  PROVE  ShownInv'
  <1>1. /\ UNCHANGED reviewVars /\ UNCHANGED <<session, next_request_id>>
        /\ call' = call
    BY DEF UserDenies, RequestsDeny, Handle, sessionVars
  <1>2. next_request_id \in Nat /\ view.request_id \in Nat
    BY DaemonAssumption DEF IInv, TypeOK, SessionTypeOK, ShownInv
  <1>3. ~view.ended /\ view.request_id \in DOMAIN pending_requests'
          => /\ view.request_id \in DOMAIN pending_requests
             /\ pending_requests'[view.request_id] \subseteq pending_requests[view.request_id]
    BY <1>1, <1>2, StepsOnlyShrinkRequests DEF ShownInv
  <1> QED
    BY <1>1, <1>3 DEF ShownInv, ApprovesOnlyTheShown, reviewVars

\* Every step keeps what is said of the view on the screen.
LEMMA ShownStep ==
  ASSUME IInv, ShownInv, [ReviewNext]_<<vars, promptVars, reviewVars>>
  PROVE  ShownInv'
  <1>1. [PromptNext]_<<vars, promptVars>>
    BY ReviewStep
  <1>2. ASSUME NEW c \in Clients, NEW selection \in SelectionInputs, UserDenies(c, selection)
        PROVE  ShownInv'
    <2>1. view.request_id \in 1..MaxRequests
      BY <1>2, DaemonAssumption DEF UserDenies, ShownInv
    <2>2. Next
      BY <1>2, <2>1 DEF UserDenies, ManageRequests, Locks, Next
    <2> QED
      BY <1>2, <2>2, UserDeniesKeepsShown
  <1>3. CASE UNCHANGED <<vars, promptVars, reviewVars>>
    BY <1>3 DEF vars, sessionVars, threadVars, reviewVars, ShownInv, ApprovesOnlyTheShown
  <1> QED
    BY <1>1, <1>2, <1>3, UserShowsKeepsShown, UserApprovesKeepsShown, WatchedKeepsShown,
       PromptStep
    DEF ReviewNext

----------------------------------------------------------------------------
(* The theorems. *)

\* The request on the screen only loses ids while its session lasts.
THEOREM ShownInvariance == ReviewSpec => [](IInv /\ ShownInv)
  <1>1. ReviewInit => IInv /\ ShownInv
    <2> SUFFICES ASSUME ReviewInit PROVE IInv /\ ShownInv
      OBVIOUS
    <2>1. Init /\ view = NoView /\ own = FALSE
      BY DEF ReviewInit, PromptInit
    <2>2. 0 \in 0..MaxRequests
      BY DaemonAssumption
    <2>3. view \in [request_id : 0..MaxRequests, ids : SUBSET Ids, ended : BOOLEAN]
      BY <2>1, <2>2 DEF NoView
    <2>4. /\ view.request_id < next_request_id
          /\ view.request_id \notin DOMAIN pending_requests
      BY <2>1 DEF NoView, Init
    <2>5. ApprovesOnlyTheShown
      BY <2>1 DEF ApprovesOnlyTheShown
    <2> QED
      BY <2>1, <2>3, <2>4, <2>5, InitIInv DEF ShownInv
  <1>2. IInv /\ ShownInv /\ [ReviewNext]_<<vars, promptVars, reviewVars>> => IInv' /\ ShownInv'
    <2>1. IInv /\ ShownInv /\ [ReviewNext]_<<vars, promptVars, reviewVars>> => IInv'
      BY ReviewStep, PromptStep, NextKeepsIInv
    <2> QED
      BY <2>1, ShownStep
  <1> QED
    BY <1>1, <1>2, PTL DEF ReviewSpec

\* A user who shows requests and decides on them is a user of the daemon: whatever is
\* proved of the daemon with its prompt holds in a review.
THEOREM ReviewImplementsPrompt == ReviewSpec => PromptSpec
  <1>1. ReviewInit => PromptInit
    BY DEF ReviewInit
  <1>2. ShownInv /\ [ReviewNext]_<<vars, promptVars, reviewVars>> => [PromptNext]_<<vars, promptVars>>
    BY ReviewStep
  <1> QED
    BY <1>1, <1>2, ShownInvariance, PTL DEF ReviewSpec, PromptSpec

\* While the session lasts in which the request was shown, what the user's approval selects
\* was on the screen, whatever other processes request, approve, deny or delete.
THEOREM UserApprovesTheShown == ReviewSpec => []ApprovesOnlyTheShown
  <1>1. ShownInv => ApprovesOnlyTheShown
    BY DEF ShownInv
  <1> QED
    BY <1>1, ShownInvariance, PTL

\* And so was what the user denies.
THEOREM UserDeniesTheShown == ReviewSpec => DeniesOnlyTheShown
  <1>1. IInv /\ ShownInv =>
          [\A c \in Clients, selection \in SelectionInputs :
             UserDenies(c, selection) /\ Selectable(view.request_id, selection) /\ ~view.ended
               => Selected(view.request_id, selection) \subseteq view.ids]_<<vars, reviewVars>>
    BY SelectedArePending DEF ShownInv, Selectable, Pending
  <1> QED
    BY <1>1, ShownInvariance, PTL DEF DeniesOnlyTheShown
=============================================================================
