---------------------------- MODULE StartupProofs ----------------------------
(***************************************************************************)
(* The start-up of daemons, proved for any number of CLI and daemon        *)
(* processes: a request is carried out at most once, and commands that are *)
(* run one after another on a socket share one daemon.                     *)
(***************************************************************************)
EXTENDS Startup, FiniteSetTheorems, TLAPS

\* The steps of a CLI process that only move it on.
LEMMA TypesOfCli ==
  ASSUME StartupTypeOK, NEW c \in Clis, Run(c) \/ CliStep(c)
  PROVE  StartupTypeOK'
  <1> USE DEF StartupTypeOK, machine, Go, At, Ended
  <1>1. CASE Run(c)
    BY <1>1 DEF Run, Serves
  <1>2. ASSUME NEW d \in Daemons, Take(d), Reachable(d), UNCHANGED <<machine, session>>
        PROVE  /\ daemon' \in [Daemons -> Serving \cup
                    {"none", "starting", "cleared", "bound", "listening", "testing", "tested"}]
               /\ \A e \in Daemons : session'[e] => Serves(e)'
    BY <1>2 DEF Take, Reachable, Serves, Serving
  <1>3. CASE Probe(c)
    BY <1>2, <1>3 DEF Probe, Serves
  <1>4. CASE RemoveSocket(c) \/ GiveUp(c) \/ Answer(c)
    BY <1>4 DEF RemoveSocket, GiveUp, Answer, Serves
  <1>5. CASE Spawn(c)
    BY <1>5 DEF Spawn, Alive, Serves, Serving
  <1>6. CASE Poll(c)
    BY <1>2, <1>6 DEF Poll
  <1>7. CASE Connect(c)
    BY <1>2, <1>7 DEF Connect, Serves
  <1>8. CASE Serve(c)
    BY <1>8 DEF Serve, Serves
  <1> QED
    BY <1>1, <1>3, <1>4, <1>5, <1>6, <1>7, <1>8 DEF CliStep, Proceeds

\* The steps of a daemon keep the types.
LEMMA TypesOfDaemon ==
  ASSUME StartupTypeOK, NEW d \in Daemons, DaemonStep(d) \/ Crash(d)
  PROVE  StartupTypeOK'
  <1> USE DEF StartupTypeOK, machine, Serves, Serving
  <1>1. CASE ClearStale(d) \/ BindSocket(d) \/ Listen(d) \/ RestrictMode(d)
    BY <1>1 DEF ClearStale, BindSocket, Listen, RestrictMode
  <1>2. CASE TestName(d) \/ Offer(d) \/ Accept(d)
    BY <1>2 DEF TestName, Offer, Accept
  <1>3. CASE CloseTest(d)
    BY <1>3 DEF CloseTest
  <1>4. CASE Exits(d)
    BY <1>4 DEF Exits, LeaveFile, Disconnect
  <1> QED
    BY <1>1, <1>2, <1>3, <1>4 DEF DaemonStep, BindFails, RestrictFails, Crash

----------------------------------------------------------------------------
(* A request is carried out at most once. *)

\* Every step counts what it carries out.
LEMMA EffectsStep ==
  ASSUME StartupTypeOK, EffectsInv, [StartupNext]_startupVars
  PROVE  EffectsInv'
  <1> USE DEF StartupTypeOK, EffectsInv, Go, At, Ended
  <1>1. ASSUME NEW c \in Clis, Run(c) PROVE EffectsInv'
    BY <1>1 DEF Run
  <1>2. ASSUME NEW c \in Clis, UNCHANGED effects,
               \/ Probe(c) \/ RemoveSocket(c) \/ Spawn(c) \/ Poll(c)
               \/ GiveUp(c) \/ Connect(c) \/ Answer(c)
        PROVE  EffectsInv'
    BY <1>2 DEF Probe, RemoveSocket, Spawn, Poll, GiveUp, Connect, Answer
  <1>3. ASSUME NEW c \in Clis, Serve(c) PROVE EffectsInv'
    BY <1>3 DEF Serve
  <1>4. ASSUME NEW c \in Clis, CliStep(c) PROVE EffectsInv'
    BY <1>2, <1>3, <1>4
    DEF CliStep, Proceeds, Probe, RemoveSocket, Spawn, Poll, GiveUp, Connect, Answer
  <1>5. ASSUME NEW d \in Daemons, Exits(d) PROVE EffectsInv'
    BY <1>5 DEF Exits, Disconnect
  <1>6. ASSUME NEW d \in Daemons, CloseTest(d) PROVE EffectsInv'
    BY <1>6 DEF CloseTest
  <1>7. ASSUME NEW d \in Daemons, DaemonStep(d) \/ Crash(d) PROVE EffectsInv'
    BY <1>5, <1>6, <1>7
    DEF DaemonStep, Crash, BindFails, RestrictFails, ClearStale, BindSocket, Listen,
        RestrictMode, TestName, Offer, Accept
  <1>8. CASE UNCHANGED startupVars
    BY <1>8 DEF startupVars
  <1> QED
    BY <1>1, <1>4, <1>7, <1>8 DEF StartupNext

----------------------------------------------------------------------------
(* Each transport has its own steps. *)

\* Every step uses the files of its transport, and no others.
LEMMA TransportStep ==
  ASSUME StartupTypeOK, TransportInv, [StartupNext]_startupVars
  PROVE  TransportInv'
  <1> USE DEF StartupTypeOK, TransportInv, machine
  <1>1. ASSUME NEW d \in Daemons, Reachable(d), Take(d), UNCHANGED machine PROVE TransportInv'
    BY <1>1 DEF Reachable, Take
  <1>2. ASSUME NEW c \in Clis, Spawn(c) PROVE TransportInv'
    BY <1>2 DEF Spawn
  <1>3. ASSUME NEW c \in Clis, Run(c) \/ CliStep(c) PROVE TransportInv'
    BY <1>1, <1>2, <1>3
    DEF CliStep, Proceeds, Run, Probe, RemoveSocket, Poll, GiveUp, Connect, Serve, Answer
  <1>4. ASSUME NEW d \in Daemons, DaemonStep(d) \/ Crash(d) PROVE TransportInv'
    BY <1>4
    DEF DaemonStep, Crash, BindFails, RestrictFails, ClearStale, BindSocket, Listen,
        RestrictMode, TestName, CloseTest, Offer, Accept, Exits
  <1>5. CASE UNCHANGED startupVars
    BY <1>5 DEF startupVars
  <1> QED
    BY <1>3, <1>4, <1>5 DEF StartupNext
----------------------------------------------------------------------------
(* Commands that are run one after another. *)

\* Only a new command starts when the others have ended.
LEMMA OneCommandStep ==
  ASSUME StartupTypeOK, OneCommand, load = "alone", [StartupNext]_startupVars
  PROVE  OneCommand'
  <1> USE DEF StartupTypeOK, OneCommand, Ended, Go, At
  <1>1. ASSUME NEW c \in Clis, Run(c) PROVE OneCommand'
    BY <1>1 DEF Run
  <1>2. ASSUME NEW c \in Clis, CliStep(c) PROVE OneCommand'
    <2>1. ~Ended(c) /\ \E state \in {"remove", "spawn", "poll", "connect", "asking", "served",
                                     "answered", "failed"} : Go(c, state)
      BY <1>2 DEF CliStep, Proceeds, Probe, RemoveSocket, Spawn, Poll, GiveUp, Connect, Serve, Answer
    <2> QED
      BY <2>1
  <1>3. ASSUME NEW d \in Daemons, DaemonStep(d) \/ Crash(d) PROVE OneCommand'
    <2>1. \A c \in Clis : cli'[c] = cli[c] \/ cli'[c] = "failed"
      BY <1>3
      DEF DaemonStep, Crash, BindFails, RestrictFails, ClearStale, BindSocket, Listen,
          RestrictMode, TestName, CloseTest, Offer, Accept, Exits, Disconnect
    <2> QED
      BY <2>1
  <1>4. CASE UNCHANGED startupVars
    BY <1>4 DEF startupVars
  <1> QED
    BY <1>1, <1>2, <1>3, <1>4 DEF StartupNext

\* A command that can connect to nobody is right: there is no daemon.
LEMMA NobodyIsThere ==
  ASSUME OneCommand, FoundByTheNext, transport = "socket",
         NEW c \in Clis, cli[c] \in {"probe", "poll", "connect"}, Unreachable,
         cli[c] = "poll" => \A d \in Alive : peer[c] = d => daemon[d] = "serving"
  PROVE  Alive = {}
  <1> SUFFICES ASSUME NEW d \in Alive PROVE FALSE
    OBVIOUS
  <1>1. d \in Daemons /\ ~Reachable(d)
    BY DEF Unreachable, Connectable, Alive
  <1>2. daemon[d] \notin {"listening", "serving"}
    BY <1>1 DEF FoundByTheNext, Reachable
  <1>3. PICK other \in Clis : Awaits(other, d)
    BY <1>2 DEF FoundByTheNext
  <1>4. other = c
    BY <1>3 DEF OneCommand, Ended, Awaits
  <1> QED
    BY <1>2, <1>3, <1>4 DEF Awaits

\* A command that waits for no daemon leaves none behind that does not serve.
LEMMA AllServe ==
  ASSUME OneCommand, FoundByTheNext, NEW c \in Clis,
         \/ \A other \in Clis : Ended(other)
         \/ cli[c] \in {"probe", "served"}
  PROVE  \A d \in Alive : daemon[d] = "serving"
  <1> SUFFICES ASSUME NEW d \in Alive, NEW other \in Clis, Awaits(other, d) PROVE FALSE
    BY DEF FoundByTheNext
  <1> QED
    BY DEF OneCommand, Ended, Awaits

\* While all there is serves, nothing is waited for.
LEMMA ServingIsFound ==
  ASSUME FoundByTheNext, UNCHANGED <<socket, daemon>>,
         \A d \in Alive : daemon[d] = "serving",
         \A c \in Clis : Alive # {} => cli'[c] \notin {"remove", "spawn"}
  PROVE  FoundByTheNext'
  BY DEF FoundByTheNext, Alive

\* A command that looks for a daemon leaves it to be found.
LEMMA FoundAfterCli ==
  ASSUME StartupTypeOK, TransportInv, OneCommand, FoundByTheNext, transport = "socket",
         load = "alone", NEW c \in Clis, Run(c) \/ CliStep(c)
  PROVE  FoundByTheNext'
  <1> USE DEF Go, At
  <1>1. CASE Run(c)
    <2>1. \A d \in Alive : daemon[d] = "serving"
      BY <1>1, AllServe DEF Run
    <2> QED
      BY <1>1, <2>1, ServingIsFound DEF Run, StartupTypeOK, FoundByTheNext
  <1>2. CASE Probe(c)
    <2>1. UNCHANGED <<socket, daemon>>
      BY <1>2 DEF Probe, Take
    <2>2. \A d \in Alive : daemon[d] = "serving"
      BY <1>2, AllServe DEF Probe
    <2>3. Unreachable => Alive = {}
      BY <1>2, NobodyIsThere DEF Probe
    <2>4. Alive # {} => Go(c, "connect")
      BY <1>2, <2>3 DEF Probe
    <2> QED
      BY <2>1, <2>2, <2>4, ServingIsFound DEF StartupTypeOK, FoundByTheNext
  <1>3. CASE RemoveSocket(c)
    <2>1. Alive = {} /\ daemon' = daemon
      BY <1>3 DEF RemoveSocket, FoundByTheNext
    <2>2. Alive' = {}
      BY <2>1 DEF Alive
    <2> QED
      BY <2>2 DEF FoundByTheNext
  <1>4. CASE Spawn(c)
    <2>1. Alive = {}
      BY <1>4 DEF Spawn, FoundByTheNext
    <2>2. ASSUME NEW d \in Daemons, daemon' = [daemon EXCEPT ![d] = "starting"],
                 peer' = [peer EXCEPT ![c] = d], Go(c, "poll")
          PROVE  FoundByTheNext'
      <3>1. Alive' = {d} /\ daemon'[d] = "starting"
        BY <2>1, <2>2 DEF Alive, StartupTypeOK
      <3>2. Awaits(c, d)'
        BY <2>2 DEF Awaits, StartupTypeOK
      <3>3. \A other \in Clis : cli'[other] \notin {"remove", "spawn"}
        BY <1>4, <2>2 DEF Spawn, OneCommand, Ended, StartupTypeOK
      <3> QED
        BY <3>1, <3>2, <3>3 DEF FoundByTheNext
    <2>3. CASE daemon' = daemon
      BY <2>1, <2>3 DEF Alive, FoundByTheNext
    <2> QED
      BY <1>4, <2>2, <2>3 DEF Spawn
  <1>5. CASE Poll(c) \/ Connect(c)
    <2>1. UNCHANGED <<socket, daemon>>
      BY <1>5 DEF Poll, Connect, Take
    <2>2. CASE Alive = {}
      BY <2>1, <2>2 DEF Alive, FoundByTheNext
    <2>3. CASE Alive # {}
      <3>1. PICK d \in Daemons : Reachable(d) /\ \/ UNCHANGED peer /\ Go(c, "connect")
                                                 \/ /\ peer' = [peer EXCEPT ![c] = d]
                                                    /\ Go(c, "asking")
        BY <1>5, <2>3, NobodyIsThere DEF Poll, Connect
      <3>2. daemon[d] \in {"listening", "serving"} /\ Alive = {d}
        BY <3>1 DEF Reachable, Alive, FoundByTheNext
      <3>3. daemon'[d] = "serving" \/ Awaits(c, d)'
        BY <2>1, <3>1, <3>2 DEF Awaits, StartupTypeOK
      <3>4. \A other \in Clis : cli'[other] \notin {"remove", "spawn"}
        BY <3>1, <3>2 DEF StartupTypeOK, FoundByTheNext
      <3>5. Alive' = {d}
        BY <2>1, <3>2 DEF Alive
      <3> QED
        BY <2>1, <3>2, <3>3, <3>4, <3>5 DEF FoundByTheNext
    <2> QED
      BY <2>2, <2>3
  <1>6. CASE GiveUp(c)
    <2>1. Alive = {} /\ daemon' = daemon
      BY <1>6, NobodyIsThere DEF GiveUp
    <2> QED
      BY <2>1 DEF Alive, FoundByTheNext
  <1>7. CASE Serve(c)
    <2>1. PICK d \in Daemons : Serves(d)
      BY <1>7 DEF Serve
    <2>2. daemon[d] = "serving" /\ Alive = {d}
      BY <2>1 DEF Serves, Serving, TransportInv, Alive, FoundByTheNext
    <2> QED
      BY <1>7, <2>2, ServingIsFound DEF Serve, StartupTypeOK, FoundByTheNext
  <1>8. CASE Answer(c)
    <2>1. \A d \in Alive : daemon[d] = "serving"
      BY <1>8, AllServe DEF Answer
    <2> QED
      BY <1>8, <2>1, ServingIsFound DEF Answer, StartupTypeOK, FoundByTheNext
  <1> QED
    BY <1>1, <1>2, <1>3, <1>4, <1>5, <1>6, <1>7, <1>8 DEF CliStep, Proceeds

\* So does a daemon that starts, serves, ends or crashes.
LEMMA FoundAfterDaemon ==
  ASSUME StartupTypeOK, TransportInv, FoundByTheNext, transport = "socket",
         NEW d \in Daemons, DaemonStep(d) \/ Crash(d)
  PROVE  FoundByTheNext'
  <1>1. daemon[d] \in {"starting", "cleared", "bound", "listening", "serving"}
    BY DEF DaemonStep, Crash, ClearStale, BindSocket, BindFails, Listen, RestrictMode,
           RestrictFails, TestName, CloseTest, Offer, Accept, TransportInv
  <1>2. Alive = {d}
    BY <1>1 DEF Alive, FoundByTheNext
  <1>3. CASE Exits(d)
    <2>1. Alive' = {}
      BY <1>2, <1>3 DEF Exits, Alive, StartupTypeOK
    <2> QED
      BY <2>1 DEF FoundByTheNext
  <1>4. ASSUME NEW state \in {"cleared", "bound", "listening", "serving"},
               daemon' = [daemon EXCEPT ![d] = state], UNCHANGED <<cli, peer>>,
               state = "cleared" => socket' = NoFile,
               state \in {"bound", "listening", "serving"} => socket' = d,
               daemon[d] # "serving", daemon[d] # "listening" \/ state = "serving"
        PROVE  FoundByTheNext'
    <2>1. Alive' = {d} /\ daemon'[d] = state
      BY <1>2, <1>4 DEF Alive, StartupTypeOK
    <2> QED
      BY <1>2, <1>4, <2>1 DEF FoundByTheNext, Awaits
  <1> QED
    BY <1>1, <1>2, <1>3, <1>4
    DEF DaemonStep, Crash, ClearStale, BindSocket, BindFails, Listen, RestrictMode,
        RestrictFails, TestName, CloseTest, Offer, Accept, FoundByTheNext
\* Every step keeps the invariant of one command at a time.
LEMMA AloneStep ==
  ASSUME StartupTypeOK, TransportInv, AloneInv, [StartupNext]_startupVars
  PROVE  AloneInv'
  <1>1. load' = load /\ transport' = transport
    BY DEF StartupNext, DaemonStep, Crash, BindFails, RestrictFails, ClearStale, BindSocket,
           Listen, RestrictMode, TestName, CloseTest, Offer, Accept, Exits, CliStep, Proceeds, Run, Probe,
           RemoveSocket, Spawn, Poll, GiveUp, Connect, Serve, Answer, startupVars, machine
  <1>2. ASSUME load = "alone" PROVE OneCommand'
    BY <1>2, OneCommandStep DEF AloneInv
  <1>3. ASSUME load = "alone", transport = "socket" PROVE FoundByTheNext'
    <2>1. OneCommand /\ FoundByTheNext
      BY <1>3 DEF AloneInv
    <2>2. ASSUME UNCHANGED startupVars PROVE FoundByTheNext'
      BY <2>1, <2>2 DEF startupVars, FoundByTheNext, Alive, Awaits
    <2> QED
      BY <1>3, <2>1, <2>2, FoundAfterCli, FoundAfterDaemon DEF StartupNext
  <1> QED
    BY <1>1, <1>2, <1>3 DEF AloneInv

----------------------------------------------------------------------------
(* The theorems. *)

\* What every state of a start-up satisfies, on either transport and under any load.
THEOREM StartupInvariance == StartupSpec => []StartupInv
  <1>1. StartupInit => StartupInv
    <2> SUFFICES ASSUME StartupInit PROVE StartupInv
      OBVIOUS
    <2>1. StartupTypeOK
      BY DEF StartupInit, StartupTypeOK, Serves, Serving
    <2>2. EffectsInv /\ TransportInv /\ OneCommand
      BY DEF StartupInit, EffectsInv, TransportInv, OneCommand, Ended
    <2>3. FoundByTheNext
      BY DEF StartupInit, FoundByTheNext, Alive
    <2> QED
      BY <2>1, <2>2, <2>3 DEF StartupInv, AloneInv
  <1>2. StartupInv /\ [StartupNext]_startupVars => StartupInv'
    <2> SUFFICES ASSUME StartupInv, [StartupNext]_startupVars PROVE StartupInv'
      OBVIOUS
    <2>1. StartupTypeOK'
      <3>1. CASE UNCHANGED startupVars
        BY <3>1 DEF StartupInv, StartupTypeOK, startupVars, machine, Serves
      <3> QED
        BY <3>1, TypesOfCli, TypesOfDaemon DEF StartupInv, StartupNext
    <2> QED
      BY <2>1, EffectsStep, TransportStep, AloneStep DEF StartupInv
  <1> QED
    BY <1>1, <1>2, PTL DEF StartupSpec

\* All variables keep their types, and only a daemon that serves holds a session.
THEOREM StartupTypeCorrect == StartupSpec => []StartupTypeOK
  <1>1. StartupInv => StartupTypeOK
    BY DEF StartupInv
  <1> QED
    BY <1>1, StartupInvariance, PTL

\* A request is carried out at most once, and exactly once when it is answered.
THEOREM CarriedOutOnce == StartupSpec => []AtMostOnce
  <1>1. StartupInv => AtMostOnce
    BY DEF StartupInv, EffectsInv, AtMostOnce
  <1> QED
    BY <1>1, StartupInvariance, PTL

\* Commands that are run one after another, over a socket and with daemons that start in
\* time, never have two daemons, whenever daemons crash.
THEOREM AloneHaveOneDaemon == StartupSpec => []OneDaemon
  <1>1. StartupInv => OneDaemon
    <2> SUFFICES ASSUME StartupInv, load = "alone", transport = "socket"
                 PROVE  Cardinality(Alive) <= 1
      BY DEF OneDaemon
    <2>1. \A d, e \in Alive : d = e
      BY DEF StartupInv, AloneInv, FoundByTheNext
    <2>2. CASE Alive = {}
      BY <2>2, FS_EmptySet
    <2>3. CASE Alive # {}
      <3>1. PICK d : Alive = {d}
        BY <2>1, <2>3
      <3> QED
        BY <3>1, FS_Singleton
    <2> QED
      BY <2>2, <2>3
  <1> QED
    BY <1>1, StartupInvariance, PTL

\* So the one shared session that the documentation speaks of is what they have.
THEOREM AloneShareOneSession ==
  StartupSpec => [](load = "alone" /\ transport = "socket" => OneSharedSession)
  <1>1. StartupInv => (load = "alone" /\ transport = "socket" => OneSharedSession)
    BY DEF StartupInv, AloneInv, FoundByTheNext, OneSharedSession, StartupTypeOK, Serves,
           Serving, Alive
  <1> QED
    BY <1>1, StartupInvariance, PTL

\* Nor does a daemon fail to start over the socket file that the last one left.
THEOREM AloneStartCleanly == StartupSpec => StartsCleanly
  <1>1. StartupInv =>
          [load = "alone" => \A d \in Daemons : ~BindFails(d) /\ ~RestrictFails(d)]_startupVars
    <2> SUFFICES ASSUME StartupInv, load = "alone", NEW d \in Daemons,
                        \/ daemon[d] = "cleared" /\ socket # NoFile
                        \/ daemon[d] = "listening" /\ socket = NoFile
                 PROVE  FALSE
      BY DEF BindFails, RestrictFails
    <2>1. transport = "socket" /\ d \in Alive
      BY DEF StartupInv, TransportInv, Alive
    <2>2. d # NoFile
      BY StartupAssumption
    <2> QED
      BY <2>1, <2>2 DEF StartupInv, AloneInv, FoundByTheNext
  <1> QED
    BY <1>1, StartupInvariance, PTL DEF StartsCleanly
=============================================================================
