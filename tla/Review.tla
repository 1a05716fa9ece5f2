------------------------------- MODULE Review -------------------------------
(***************************************************************************)
(* The user who decides on requests: looks at the numbered view of one     *)
(* with requests show, and later types positions of that view into         *)
(* requests approve or requests deny.  Other processes go on in between,   *)
(* and the daemon reads the positions against what the request holds when  *)
(* the command arrives; an approval then waits for the same user at the    *)
(* prompt.                                                                 *)
(*                                                                         *)
(* One user reviews, with one view on the screen; every command of module  *)
(* Daemon, requests approve included, may also come from anyone else.  The *)
(* prompt says neither whose approval it is for nor of what, so that the   *)
(* user may pass it for another's: what is promised here is about the      *)
(* commands that the user sends.                                           *)
(***************************************************************************)
EXTENDS Prompt

VARIABLES
  view,   \* the last numbered view: the request, and its ids in order
  own,    \* is an approval under way that the user sent, and not somebody else?
  meant   \* the ids the user picked for it

reviewVars == <<view, own, meant>>

NoView == [request_id |-> 0, ids |-> {}, ended |-> FALSE]

ReviewInit == PromptInit /\ view = NoView /\ own = FALSE /\ meant = {}

----------------------------------------------------------------------------
\* A view outlives the session it was taken in, when that is closed, replaced or lost
\* with its daemon.
SessionEnds == ~session' \/ next_request_id' < next_request_id

Watched == view' = [view EXCEPT !.ended = @ \/ SessionEnds]

\* Until it has its answer, the approval is the user's.
Sent ==
  /\ own' = (own /\ call' # NoCall)
  /\ meant' = IF own' THEN meant ELSE {}

\* requests show, by the user; the positions are those of the ids in order.
UserShows(c, request_id) ==
  /\ Pending(request_id)
  /\ RequestsShow(c, request_id)
  /\ view' = [request_id |-> request_id, ids |-> pending_requests[request_id], ended |-> FALSE]
  /\ UNCHANGED <<own, meant>>

\* requests approve, by the user, with positions of the view on the screen.
UserApproves(c, selection) ==
  /\ view.request_id # 0
  /\ SelectionOk(view.ids, selection)
  /\ RequestsApprove(c, view.request_id, selection)
  /\ own' = (call' # NoCall)
  /\ meant' = IF own' THEN SelectRequestedIds(view.ids, selection) ELSE {}
  /\ UNCHANGED view

\* requests deny, by the user, with positions of the view.
UserDenies(c, selection) ==
  /\ view.request_id # 0
  /\ SelectionOk(view.ids, selection)
  /\ RequestsDeny(c, view.request_id, selection)
  /\ UNCHANGED reviewVars

ReviewNext ==
  \/ /\ \E c \in Clients :
          \/ \E request_id \in 1..MaxRequests : UserShows(c, request_id)
          \/ \E selection \in SelectionInputs :
               UserApproves(c, selection) \/ UserDenies(c, selection)
     /\ UNCHANGED promptVars
  \/ /\ \/ \E c \in Clients :
             \/ (Connect(c) \/ Locks(c) \/ Exit(c)) /\ UNCHANGED promptVars
             \/ DaemonRuns(c) \/ UserAnswers(c)
        \/ RestartPrompt
     /\ Watched
     /\ Sent

ReviewSpec == ReviewInit /\ [][ReviewNext]_<<vars, promptVars, reviewVars>>

----------------------------------------------------------------------------
\* What the user is approving was on the user's screen, for as long as the session lasts
\* in which it was shown: what others request, approve, deny and delete meanwhile can
\* move positions, but not bring in a secret the user never saw.  (An approval that
\* somebody else sent is another matter: nobody has to have looked at what it selects.)
ApprovesOnlyTheShown ==
  own /\ call.cmd = "RequestsApprove" /\ ~view.ended => call.selected \subseteq view.ids

\* Nor does the user deny a secret that was not on the screen.
DeniesOnlyTheShown ==
  [][\A c \in Clients, selection \in SelectionInputs :
       UserDenies(c, selection) /\ Selectable(view.request_id, selection) /\ ~view.ended
         => Selected(view.request_id, selection) \subseteq view.ids]_<<vars, reviewVars>>

\* Why: while the session lasts, the request on the screen only loses ids, and when it is
\* settled, its number is not used again; and an approval stays the one that the user sent.
ShownInv ==
  /\ view \in [request_id : 0..MaxRequests, ids : SUBSET Ids, ended : BOOLEAN]
  /\ own \in BOOLEAN
  /\ own => call.cmd = "RequestsApprove"
  /\ ~view.ended => /\ view.request_id < next_request_id
                    /\ view.request_id \in DOMAIN pending_requests
                         => pending_requests[view.request_id] \subseteq view.ids
  /\ ApprovesOnlyTheShown

\* "Prompts for OS authentication and approves only the numbered subset": what the
\* user's approval selects is what the user picked.
ApprovesNumberedSubset == own /\ call.cmd = "RequestsApprove" => call.selected \subseteq meant
=============================================================================
