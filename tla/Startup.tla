------------------------------- MODULE Startup -------------------------------
(***************************************************************************)
(* How a CLI process finds its daemon, or starts one: the probe, the       *)
(* removal of a stale socket file, the spawn and the polling of            *)
(* ensure_daemon_running, the connection of send, and the daemon's side of *)
(* it in module ipc, which is a socket on Unix and a named pipe on         *)
(* Windows.                                                                *)
(*                                                                         *)
(* The socket file carries a name only: a daemon whose file is removed or  *)
(* taken over keeps listening where nobody can reach it.  A pipe's name    *)
(* may have instances of several daemons, one for each connection and one  *)
(* that each daemon offers to the next; nothing is removed.  Of the        *)
(* daemon's own state there is one bit, whether it holds a session.  Its   *)
(* threads and its vault are module Daemon.                                *)
(***************************************************************************)
EXTENDS Naturals, FiniteSets

CONSTANTS
  Clis,       \* CLI processes, each slot used by one after another
  Daemons,    \* daemon processes, each slot used by one after another
  NoFile,     \* there is no socket file
  Stale,      \* the socket file of a daemon that is no more
  NoDaemon,   \* a CLI process has nobody to wait for
  Transports, \* which of the two transports there may be
  Loads       \* how busy the machine may be

ASSUME StartupAssumption ==
  /\ {NoFile, Stale, NoDaemon} \cap Daemons = {}
  /\ NoFile # Stale
  /\ Transports \subseteq {"socket", "pipe"}
  /\ Loads \subseteq {"alone", "together", "slow"}

VARIABLES
  transport, \* "socket" or "pipe", once and for all
  load,      \* "alone": one command at a time, and a daemon starts within the
             \* 50 x 100 ms it is given; "together": several commands at a time;
             \* "slow": and a daemon may take longer
  socket,    \* what the socket file leads to
  daemon,    \* how far each daemon process is
  session,   \* does it hold a shared session?
  cli,       \* how far each CLI process is
  peer,      \* the daemon it spawned, then the one it is connected to
  effects    \* how often its request was carried out

machine     == <<transport, load>>
startupVars == <<machine, socket, daemon, session, cli, peer, effects>>

\* A daemon that goes through its accept loop.  With a pipe it is about to create an
\* instance, offers one, or has one taken.
Serving   == {"serving", "creating", "offering", "taken"}
Serves(d) == daemon[d] \in Serving

\* Types of the variables; and only a daemon that serves holds a session, since there
\* is nowhere else to keep one.
StartupTypeOK ==
  /\ transport \in Transports /\ load \in Loads
  /\ socket \in Daemons \cup {NoFile, Stale}
  /\ daemon \in [Daemons -> Serving \cup
       {"none", "starting", "cleared", "bound", "listening", "testing", "tested"}]
  /\ session \in [Daemons -> BOOLEAN]
  /\ \A d \in Daemons : session[d] => Serves(d)
  /\ cli \in [Clis -> {"idle", "probe", "remove", "spawn", "poll", "connect", "asking",
                       "served", "answered", "failed"}]
  /\ peer \in [Clis -> Daemons \cup {NoDaemon}]
  /\ effects \in [Clis -> Nat]

StartupInit ==
  /\ transport \in Transports /\ load \in Loads
  /\ socket = NoFile
  /\ daemon = [d \in Daemons |-> "none"]
  /\ session = [d \in Daemons |-> FALSE]
  /\ cli = [c \in Clis |-> "idle"]
  /\ peer = [c \in Clis |-> NoDaemon]
  /\ effects = [c \in Clis |-> 0]

----------------------------------------------------------------------------
(* ipc::connect *)

\* The file leads to a socket that is being listened on: the kernel queues the
\* connection even before the daemon accepts it.  Or an instance of the pipe is free,
\* be it only the one that tests the name.
Reachable(d) ==
  IF transport = "socket"
  THEN socket = d /\ daemon[d] \in {"listening", "serving"}
  ELSE daemon[d] \in {"testing", "offering"}

Connectable == \E d \in Daemons : Reachable(d)

\* A connection takes the instance of the pipe.
Take(d) ==
  daemon' = IF transport = "socket" THEN daemon
            ELSE [daemon EXCEPT ![d] = IF @ = "testing" THEN "tested" ELSE "taken"]

\* A pipe all of whose instances have a client is busy, and connect waits.  Those of
\* connections that were probes may be closed by now, or not yet.
Busy ==
  /\ transport = "pipe"
  /\ \/ \E d \in Daemons : daemon[d] \in {"tested", "taken"}
     \/ \E c \in Clis : cli[c] \in {"asking", "served"}

Unreachable == ~Connectable /\ ~Busy

\* The processes there are; their slots bound how many there can be.
Alive == {d \in Daemons : daemon[d] # "none"}

At(c, state) == cli[c] = state
Go(c, state) == cli' = [cli EXCEPT ![c] = state]

----------------------------------------------------------------------------
(* ensure_daemon_running and send *)

Ended(c) == cli[c] \in {"idle", "answered", "failed"}

\* Another command is run.
Run(c) ==
  /\ Ended(c)
  /\ load = "alone" => \A other \in Clis : Ended(other)
  /\ Go(c, "probe")
  /\ peer' = [peer EXCEPT ![c] = NoDaemon]
  /\ effects' = [effects EXCEPT ![c] = 0]
  /\ UNCHANGED <<machine, socket, daemon, session>>

\* Starting a daemon without looking for one.
ProbeNothing(c) ==
  /\ At(c, "probe")
  /\ Go(c, "remove")
  /\ UNCHANGED <<machine, socket, daemon, session, peer, effects>>

\* The probe's own connection is dropped at once.
Probe(c) ==
  /\ At(c, "probe")
  /\ \/ \E d \in Daemons : Reachable(d) /\ Take(d) /\ Go(c, "connect")
     \/ /\ Unreachable
        /\ Go(c, IF transport = "socket" THEN "remove" ELSE "spawn")
        /\ UNCHANGED daemon
  /\ UNCHANGED <<machine, socket, session, peer, effects>>

\* Whatever file is there now goes, stale or not.
RemoveSocket(c) ==
  /\ At(c, "remove")
  /\ socket' = NoFile
  /\ Go(c, "spawn")
  /\ UNCHANGED <<machine, daemon, session, peer, effects>>

\* Spawning fails when no process can be had.
Spawn(c) ==
  /\ At(c, "spawn")
  /\ \/ \E d \in Daemons \ Alive :
          /\ daemon' = [daemon EXCEPT ![d] = "starting"]
          /\ peer' = [peer EXCEPT ![c] = d]
          /\ Go(c, "poll")
     \/ /\ Daemons \subseteq Alive
        /\ Go(c, "failed")
        /\ UNCHANGED <<daemon, peer>>
  /\ UNCHANGED <<machine, socket, session, effects>>

\* Any daemon that can be reached will do.
Poll(c) ==
  /\ At(c, "poll")
  /\ \E d \in Daemons : Reachable(d) /\ Take(d)
  /\ Go(c, "connect")
  /\ UNCHANGED <<machine, socket, session, peer, effects>>

\* Polling without sleeping in between.
GiveUpAtOnce(c) ==
  /\ At(c, "poll") /\ Unreachable
  /\ Go(c, "failed")
  /\ UNCHANGED <<machine, socket, daemon, session, peer, effects>>

\* Polling until the daemon is there, however long it takes.
GiveUpNever(c) == FALSE /\ UNCHANGED startupVars

\* The last poll fails.  Unless daemons are slow, the one that was spawned has had
\* the time to start: it is gone, or its socket is not the one the file leads to.
GiveUp(c) ==
  /\ At(c, "poll") /\ Unreachable
  /\ load = "slow" \/ \A d \in Alive : peer[c] = d => daemon[d] = "serving"
  /\ Go(c, "failed")
  /\ UNCHANGED <<machine, socket, daemon, session, peer, effects>>

\* The connection that carries the request is another one than the probe's.
Connect(c) ==
  /\ At(c, "connect")
  /\ \/ \E d \in Daemons : /\ Reachable(d) /\ Take(d)
                           /\ peer' = [peer EXCEPT ![c] = d]
                           /\ Go(c, "asking")
     \/ /\ Unreachable
        /\ Go(c, "failed")
        /\ UNCHANGED <<daemon, peer>>
  /\ UNCHANGED <<machine, socket, session, effects>>

\* The daemon, having accepted the connection, handles the request, which may create
\* its session, or close it.
Serve(c) ==
  /\ At(c, "asking")
  /\ \E d \in Daemons, exists \in BOOLEAN :
       /\ peer[c] = d /\ Serves(d) /\ daemon[d] # "taken"
       /\ session' = [session EXCEPT ![d] = exists]
  /\ effects' = [effects EXCEPT ![c] = @ + 1]
  /\ Go(c, "served")
  /\ UNCHANGED <<machine, socket, daemon, peer>>

\* The answer arrives.
Answer(c) ==
  /\ At(c, "served")
  /\ Go(c, "answered")
  /\ UNCHANGED <<machine, socket, daemon, session, peer, effects>>

----------------------------------------------------------------------------
(* run_daemon, ipc::bind and, for a pipe, ipc::accept_one *)

ClearStale(d) ==
  /\ daemon[d] = "starting" /\ transport = "socket"
  /\ socket' = NoFile
  /\ daemon' = [daemon EXCEPT ![d] = "cleared"]
  /\ UNCHANGED <<machine, session, cli, peer, effects>>

\* bind(2) creates the file, or fails when there is one.
BindSocket(d) ==
  /\ daemon[d] = "cleared" /\ socket = NoFile
  /\ socket' = d
  /\ daemon' = [daemon EXCEPT ![d] = "bound"]
  /\ UNCHANGED <<machine, session, cli, peer, effects>>

Listen(d) ==
  /\ daemon[d] = "bound"
  /\ daemon' = [daemon EXCEPT ![d] = "listening"]
  /\ UNCHANGED <<machine, socket, session, cli, peer, effects>>

\* The file's mode is set by its path, whoever's file that is by now.
RestrictMode(d) ==
  /\ daemon[d] = "listening" /\ socket # NoFile
  /\ daemon' = [daemon EXCEPT ![d] = "serving"]
  /\ UNCHANGED <<machine, socket, session, cli, peer, effects>>

\* A first instance of the pipe tests its name.
TestName(d) ==
  /\ daemon[d] = "starting" /\ transport = "pipe"
  /\ daemon' = [daemon EXCEPT ![d] = "testing"]
  /\ UNCHANGED <<machine, socket, session, cli, peer, effects>>

\* It is closed at once, and cuts off who connected to it.
CloseTest(d) ==
  /\ daemon[d] \in {"testing", "tested"}
  /\ daemon' = [daemon EXCEPT ![d] = "creating"]
  /\ cli' = [c \in Clis |-> IF peer[c] = d /\ cli[c] = "asking" THEN "failed" ELSE cli[c]]
  /\ UNCHANGED <<machine, socket, session, peer, effects>>

\* The accept loop creates an instance for the next client.
Offer(d) ==
  /\ daemon[d] = "creating"
  /\ daemon' = [daemon EXCEPT ![d] = "offering"]
  /\ UNCHANGED <<machine, socket, session, cli, peer, effects>>

\* The client's instance goes to a thread; until the next one there is none to take.
Accept(d) ==
  /\ daemon[d] = "taken"
  /\ daemon' = [daemon EXCEPT ![d] = "creating"]
  /\ UNCHANGED <<machine, socket, session, cli, peer, effects>>

\* What a process leaves behind: a socket file that leads nowhere.
LeaveFile(d) == socket' = IF socket = d THEN Stale ELSE socket

\* Its connections are cut.
Disconnect(d, state) ==
  /\ cli' = [c \in Clis |->
       IF peer[c] = d /\ cli[c] \in {"asking", "served"} THEN state ELSE cli[c]]
  /\ peer' = [c \in Clis |-> IF peer[c] = d THEN NoDaemon ELSE peer[c]]

\* A session that outlives its daemon.
ExitsKeepingSession(d) ==
  /\ daemon' = [daemon EXCEPT ![d] = "none"]
  /\ LeaveFile(d) /\ Disconnect(d, "failed")
  /\ UNCHANGED <<machine, session, effects>>

\* A client that asks again when it gets no answer.
ExitsRetried(d) ==
  /\ daemon' = [daemon EXCEPT ![d] = "none"]
  /\ session' = [session EXCEPT ![d] = FALSE]
  /\ LeaveFile(d) /\ Disconnect(d, "probe")
  /\ UNCHANGED <<machine, effects>>

\* A daemon process ends: its memory is gone, and a request it has not answered fails,
\* whether it was carried out or not.
Exits(d) ==
  /\ daemon' = [daemon EXCEPT ![d] = "none"]
  /\ session' = [session EXCEPT ![d] = FALSE]
  /\ LeaveFile(d) /\ Disconnect(d, "failed")
  /\ UNCHANGED <<machine, effects>>

BindFails(d)     == daemon[d] = "cleared" /\ socket # NoFile /\ Exits(d)
RestrictFails(d) == daemon[d] = "listening" /\ socket = NoFile /\ Exits(d)
Crash(d)         == daemon[d] # "none" /\ Exits(d)

----------------------------------------------------------------------------
\* What a CLI process does by itself, and what is done for it.
Proceeds(c) ==
  \/ Probe(c) \/ RemoveSocket(c) \/ Spawn(c) \/ Poll(c) \/ GiveUp(c)
  \/ Connect(c) \/ Answer(c)

CliStep(c) == Proceeds(c) \/ Serve(c)

\* The mutex around the daemon's state goes to one of the threads that wait for it.
ServesOne(d) == \E c \in Clis : peer[c] = d /\ Serve(c)

DaemonStep(d) ==
  \/ ClearStale(d) \/ BindSocket(d) \/ BindFails(d)
  \/ Listen(d) \/ RestrictMode(d) \/ RestrictFails(d)
  \/ TestName(d) \/ CloseTest(d) \/ Offer(d) \/ Accept(d)

StartupNext ==
  \/ \E c \in Clis : Run(c) \/ CliStep(c)
  \/ \E d \in Daemons : DaemonStep(d) \/ Crash(d)

StartupSpec == StartupInit /\ [][StartupNext]_startupVars

\* Processes run on, and so does the accept loop of a daemon.  Of the requests that wait
\* for a daemon's mutex one is handled, though none in particular: std's Mutex is not
\* fair, and its holder may be at a prompt, which ends one day (module Prompt).  Nobody
\* has to run another command, and no daemon has to crash.
StartupFairSpec ==
  /\ StartupSpec
  /\ \A c \in Clis : WF_startupVars(Proceeds(c))
  /\ \A d \in Daemons : WF_startupVars(ServesOne(d)) /\ WF_startupVars(DaemonStep(d))

----------------------------------------------------------------------------
\* "There is one shared local session per OS user."
OneSharedSession == \A d, e \in Daemons : session[d] /\ session[e] => d = e

\* When commands are run one after another, daemons start in time and the transport is
\* a socket, no command starts a second daemon beside a live one, and so no session is
\* left behind where nobody can close it, whenever daemons crash.  (With a pipe, a
\* probe can come when the only daemon has no instance between two of them.)
OneDaemon == load = "alone" /\ transport = "socket" => Cardinality(Alive) <= 1

\* Then a daemon also never fails to start, whatever file the last one left.
StartsCleanly ==
  [][load = "alone" => \A d \in Daemons : ~BindFails(d) /\ ~RestrictFails(d)]_startupVars

\* A request is carried out at most once, and exactly once when it is answered, though
\* connections are cut, probes are repeated and daemons are replaced in between.
AtMostOnce ==
  \A c \in Clis : effects[c] <= 1 /\ (cli[c] = "answered" => effects[c] = 1)

\* Why a request is carried out once at most: it has not been while its command looks for
\* a daemon, and it has when the answer is on its way.
EffectsInv ==
  \A c \in Clis :
    /\ effects[c] <= 1
    /\ cli[c] \in {"probe", "remove", "spawn", "poll", "connect", "asking"} => effects[c] = 0
    /\ cli[c] \in {"served", "answered"} => effects[c] = 1

\* A daemon goes through the steps of its transport.
TransportInv ==
  \A d \in Daemons :
    daemon[d] \in {"none", "starting"} \cup
      (IF transport = "socket" THEN {"cleared", "bound", "listening", "serving"}
       ELSE {"testing", "tested", "creating", "offering", "taken"})

\* A command waits for a daemon that starts: for the one it spawned, and then for one that
\* it could connect to before it serves.
Awaits(c, d) ==
  \/ cli[c] = "poll" /\ peer[c] = d
  \/ cli[c] = "connect" /\ daemon[d] = "listening"
  \/ cli[c] = "asking" /\ peer[c] = d /\ daemon[d] = "listening"

\* One command runs at a time.
OneCommand == \A c, other \in Clis : Ended(c) \/ Ended(other) \/ c = other

\* A daemon that starts has the socket file to itself, and the command that spawned it does
\* not end before it serves; so the next one finds it.
FoundByTheNext ==
  /\ \A d, e \in Alive : d = e
  /\ \A d \in Alive :
       /\ daemon[d] = "cleared" => socket = NoFile
       /\ daemon[d] \in {"bound", "listening", "serving"} => socket = d
       /\ daemon[d] = "serving" \/ \E c \in Clis : Awaits(c, d)
       /\ \A c \in Clis : cli[c] \notin {"remove", "spawn"}

\* Why there is one daemon when commands are run one after another.
AloneInv == load = "alone" => OneCommand /\ (transport = "socket" => FoundByTheNext)

StartupInv == StartupTypeOK /\ EffectsInv /\ TransportInv /\ AloneInv

\* Every command ends, with an answer or with an error, even when several start
\* daemons and remove each other's sockets.  Where several run at a time it is about the
\* time when no more of them come: until then others can go on taking the mutex of the
\* daemon, and every instance of its pipe, before it.
EveryCommandEnds ==
  (load # "alone" => <>[][\A c \in Clis : ~Run(c)]_startupVars)
    => \A c \in Clis : cli[c] = "probe" ~> cli[c] \in {"answered", "failed"}
=============================================================================
