----------------------------- MODULE Lifecycle -----------------------------
(***************************************************************************)
(* The life of the server (main.cpp): main builds the datastore, the       *)
(* protocol handler, the effect runner and the command server, each with   *)
(* threads of its own, waits for SIGINT and takes them down in the reverse *)
(* order.  Only the coordinator is joined; the protocol worker, the accept *)
(* thread and the client threads are detached and left to themselves until *)
(* the process exits.                                                      *)
(*                                                                         *)
(* Three things end the process before main returns: ~CommandServer        *)
(* deletes a client's std::thread that stop() has not detached, which      *)
(* terminates; ~ProtocolHandler deletes a discovery that the worker has    *)
(* not created yet, a pointer that nothing has set; and a detached thread  *)
(* uses an object that main has deleted.                                   *)
(*                                                                         *)
(* SIGINT is handled on the main thread.  The checkpoint thread and the    *)
(* inside of ~DataStore are in Checkpointing.                              *)
(***************************************************************************)
EXTENDS Integers

CONSTANT Connections   \* the connections to the command server

VARIABLES
  main,          \* what main() does next
  keepRunning,
  alive,         \* the objects that have been built and not deleted
  coordinator, coordinatorRunning,
  mapped,        \* the output map is not empty
  outputChannels, frees,   \* the list of channels; how often they were deleted
  worker,        \* the protocol worker
  acceptor, run, \* the accept thread and CommandServer::run
  client,        \* the client threads
  joinable,      \* those whose std::thread has not been detached
  missed         \* history: the signal came between the test of keepRunning and
                 \* the call of pause(), and none has come since

runnerVars == <<coordinator, coordinatorRunning, mapped, outputChannels, frees>>
serverVars == <<acceptor, run, client, joinable>>
waitVars == <<keepRunning, missed>>
lifeVars == <<main, waitVars, alive, runnerVars, worker, serverVars>>

LifeInit ==
  /\ main = "store"
  /\ keepRunning = TRUE
  /\ alive = {}
  /\ coordinator = "none" /\ coordinatorRunning = FALSE
  /\ mapped = FALSE
  /\ outputChannels = "empty" /\ frees = 0
  /\ worker = "none"
  /\ acceptor = "none"
  /\ run \in BOOLEAN   \* not initialised before createSocket
  /\ client = [c \in Connections |-> "none"]
  /\ joinable = {}
  /\ missed = FALSE

Goes(from, to) == main = from /\ main' = to

\* The process has not ended, in whatever way.
Running == main \notin {"exited", "crashed"}

---------------------------------------------------------------------------
(***************************************************************************)
(* main() up to the wait: each constructor starts its threads.             *)
(***************************************************************************)
NewStore ==
  /\ Goes("store", "protocol")
  /\ alive' = {"store"}
  /\ UNCHANGED <<waitVars, runnerVars, worker, serverVars>>

NewProtocol ==
  /\ Goes("protocol", "runner")
  /\ alive' = alive \cup {"protocol"}
  /\ worker' = "creating"
  /\ UNCHANGED <<waitVars, runnerVars, serverVars>>

NewRunner ==
  /\ Goes("runner", "server")
  /\ alive' = alive \cup {"runner"}
  /\ coordinator' = "starting"
  /\ coordinatorRunning' = TRUE
  /\ UNCHANGED <<waitVars, mapped, outputChannels, frees, worker, serverVars>>

\* new CommandServer and start()
NewServer ==
  /\ Goes("server", "mappings")
  /\ alive' = alive \cup {"server"}
  /\ acceptor' = "creating"
  /\ UNCHANGED <<waitVars, runnerVars, worker, run, client, joinable>>

\* Every group of the datastore, if there are any, gets a routine.
AddInitialMappings ==
  /\ Goes("mappings", "test")
  /\ mapped' \in {mapped, TRUE}
  /\ UNCHANGED <<waitVars, alive, coordinator, coordinatorRunning, outputChannels,
                 frees, worker, serverVars>>

\* while(keepRunning)
TestKeepRunning ==
  /\ Goes("test", IF keepRunning THEN "pause" ELSE "stop")
  /\ UNCHANGED <<waitVars, alive, runnerVars, worker, serverVars>>

\* The call of pause(), which only a signal that comes from now on ends.
Pause ==
  /\ Goes("pause", "paused")
  /\ UNCHANGED <<waitVars, alive, runnerVars, worker, serverVars>>

\* signalHandler
Signal ==
  /\ Running
  /\ keepRunning' = FALSE
  /\ main' = IF main = "paused" THEN "test" ELSE main
  /\ missed' = (main = "pause")
  /\ UNCHANGED <<alive, runnerVars, worker, serverVars>>

---------------------------------------------------------------------------
(***************************************************************************)
(* main() after the wait.                                                  *)
(***************************************************************************)

\* CommandServer::stop: the flag first ...
StopServer ==
  /\ Goes("stop", "detach")
  /\ run' = FALSE
  /\ UNCHANGED <<waitVars, alive, runnerVars, worker, acceptor, client, joinable>>

\* ... then the loop over the clients accepted so far.
DetachClients ==
  /\ Goes("detach", "deleteServer")
  /\ joinable' = {}
  /\ UNCHANGED <<waitVars, alive, runnerVars, worker, acceptor, run, client>>

\* ~CommandServer deletes every client's std::thread; one that is still joinable
\* calls std::terminate.
DeleteServer ==
  /\ Goes("deleteServer", IF joinable = {} THEN "deleteRunner" ELSE "crashed")
  /\ alive' = alive \ {"server"}
  /\ UNCHANGED <<waitVars, runnerVars, worker, serverVars>>

\* Mutant of DeleteRunner: the coordinator is not told.
DeleteRunnerSilently ==
  /\ Goes("deleteRunner", "join")
  /\ UNCHANGED <<waitVars, alive, runnerVars, worker, serverVars>>

\* ~EffectRunner up to join()
DeleteRunner ==
  /\ Goes("deleteRunner", "join")
  /\ coordinatorRunning' = FALSE
  /\ UNCHANGED <<waitVars, alive, coordinator, mapped, outputChannels, frees,
                 worker, serverVars>>

\* delete every channel that is listed
FreeChannels ==
  frees' = IF outputChannels = "full" THEN frees + 1 ELSE frees

\* Mutant of JoinCoordinator: the coordinator is detached like the others.
DetachCoordinator ==
  /\ Goes("join", "deleteProtocol")
  /\ FreeChannels
  /\ alive' = alive \ {"runner"}
  /\ UNCHANGED <<waitVars, coordinator, coordinatorRunning, mapped, outputChannels,
                 worker, serverVars>>

\* The rest of ~EffectRunner: join, then delete the channels that are listed.
JoinCoordinator ==
  /\ Goes("join", "deleteProtocol")
  /\ coordinator = "ended"
  /\ FreeChannels
  /\ alive' = alive \ {"runner"}
  /\ UNCHANGED <<waitVars, coordinator, coordinatorRunning, mapped, outputChannels,
                 worker, serverVars>>

\* ~ProtocolHandler deletes discovery, whatever is there before the worker has
\* set it.
DeleteProtocol ==
  /\ \/ Goes("deleteProtocol", "deleteStore")
     \/ worker = "creating" /\ Goes("deleteProtocol", "crashed")
  /\ alive' = alive \ {"protocol"}
  /\ UNCHANGED <<waitVars, runnerVars, worker, serverVars>>

DeleteStore ==
  /\ Goes("deleteStore", "exit")
  /\ alive' = {}
  /\ UNCHANGED <<waitVars, runnerVars, worker, serverVars>>

\* main returns and the process ends, with the threads that are left.
Exit ==
  /\ Goes("exit", "exited")
  /\ UNCHANGED <<waitVars, alive, runnerVars, worker, serverVars>>

---------------------------------------------------------------------------
(***************************************************************************)
(* coordinatorThreadEntry.                                                 *)
(***************************************************************************)
CoordinatorGoes(from, to) ==
  /\ Running
  /\ coordinator = from
  /\ coordinator' = to
  /\ UNCHANGED <<main, waitVars, alive, coordinatorRunning, mapped, worker, serverVars>>

\* updateChannels
UpdateChannels ==
  /\ CoordinatorGoes("starting", "loop")
  /\ outputChannels' = "full"
  /\ UNCHANGED frees

\* The head of the loop, and the test whether there are effects.
FrameBegins ==
  /\ CoordinatorGoes("loop", IF ~coordinatorRunning THEN "cleanup"
                             ELSE IF mapped THEN "effects" ELSE "sleep")
  /\ UNCHANGED <<outputChannels, frees>>

\* A stage of a frame, unless the coordinator has been told to stop.
Stage(stage, next) ==
  /\ CoordinatorGoes(stage, IF coordinatorRunning THEN next ELSE "cleanup")
  /\ UNCHANGED <<outputChannels, frees>>

RunEffects == Stage("effects", "convert")
DoConversions == Stage("convert", "send")
SendData == Stage("send", "sleep")

Sleep ==
  /\ CoordinatorGoes("sleep", "loop")
  /\ UNCHANGED <<outputChannels, frees>>

\* Mutant of Cleanup: the list is not cleared.
CleanupKeepsList ==
  /\ CoordinatorGoes("cleanup", "ended")
  /\ FreeChannels
  /\ UNCHANGED outputChannels

Cleanup ==
  /\ CoordinatorGoes("cleanup", "ended")
  /\ FreeChannels
  /\ outputChannels' = "empty"

---------------------------------------------------------------------------
(***************************************************************************)
(* The detached threads.  One that reads a member of a deleted object may  *)
(* find anything there, and may end the process.                           *)
(***************************************************************************)
Detached == Running /\ UNCHANGED <<main, waitVars, alive, coordinator,
                                   coordinatorRunning, outputChannels, frees>>

ThreadsOfServer ==
  acceptor \in {"creating", "accepting"} \/ \E c \in Connections : client[c] \in {"reading", "processing"}
ThreadsOfProtocol == worker \in {"creating", "waiting", "handling"}

\* A thread that is left has followed a pointer in a deleted object.
UseDeleted ==
  /\ Running
  /\ \/ "server" \notin alive /\ ThreadsOfServer
     \/ "protocol" \notin alive /\ ThreadsOfProtocol
  /\ main' = "crashed"
  /\ UNCHANGED <<waitVars, alive, runnerVars, worker, serverVars>>

\* ProtocolHandler::threadEntry: the socket and NodeDiscovery are created.
WorkerCreates ==
  /\ Detached /\ UNCHANGED <<mapped, serverVars>>
  /\ worker = "creating" /\ worker' = "waiting"

\* recvmsg returns a packet, and handlePacket works on it.
WorkerReceives ==
  /\ Detached /\ UNCHANGED <<mapped, serverVars>>
  /\ worker = "waiting" /\ worker' = "handling"

\* recvmsg returns zero or fails: the thread leaves its loop for good.
WorkerEnds ==
  /\ Detached /\ UNCHANGED <<mapped, serverVars>>
  /\ worker = "waiting" /\ worker' = "ended"

\* while(this->run)
WorkerHandled ==
  /\ Detached /\ UNCHANGED <<mapped, serverVars>>
  /\ worker = "handling"
  /\ worker' \in IF "protocol" \in alive THEN {"waiting"} ELSE {"waiting", "ended"}

\* createSocket, whose last statement is run = true.
AcceptorCreates ==
  /\ Detached /\ UNCHANGED <<mapped, worker, client, joinable>>
  /\ acceptor = "creating" /\ acceptor' = "accepting"
  /\ run' = TRUE

\* accept() returns, also after stop() has closed the socket under it, and the
\* new thread is added to clients; the loop ends once run is false.
AcceptClient(c) ==
  /\ Detached /\ UNCHANGED <<mapped, worker, run>>
  /\ acceptor = "accepting"
  /\ client[c] = "none"
  /\ client' = [client EXCEPT ![c] = "reading"]
  /\ joinable' = joinable \cup {c}
  /\ acceptor' \in {"accepting", "ended"}
  /\ "server" \in alive => acceptor' = IF run THEN "accepting" ELSE "ended"

\* read() returns a request, or the end of the stream.
ClientReads(c) ==
  /\ Detached /\ UNCHANGED <<mapped, worker, acceptor, run, joinable>>
  /\ client[c] = "reading"
  /\ \E next \in {"processing", "ended"} : client' = [client EXCEPT ![c] = next]

\* processClientRequest is done; it may have changed the output map.
ClientAnswers(c) ==
  /\ Detached /\ UNCHANGED <<worker, acceptor, run, joinable>>
  /\ client[c] = "processing"
  /\ mapped' \in BOOLEAN
  /\ \E next \in {"reading", "ended"} :
       /\ "server" \in alive => next = IF run THEN "reading" ELSE "ended"
       /\ client' = [client EXCEPT ![c] = next]

---------------------------------------------------------------------------
Startup == \/ NewStore \/ NewProtocol \/ NewRunner \/ NewServer
           \/ AddInitialMappings \/ TestKeepRunning \/ Pause

Shutdown == \/ StopServer \/ DetachClients \/ DeleteServer \/ DeleteRunner
            \/ JoinCoordinator \/ DeleteProtocol \/ DeleteStore \/ Exit

CoordinatorThread == \/ UpdateChannels \/ FrameBegins \/ RunEffects \/ DoConversions
                     \/ SendData \/ Sleep \/ Cleanup

Worker == WorkerCreates \/ WorkerReceives \/ WorkerEnds \/ WorkerHandled

ClientThread(c) == AcceptClient(c) \/ ClientReads(c) \/ ClientAnswers(c)

LifeNext ==
  \/ Startup \/ Signal \/ Shutdown
  \/ CoordinatorThread
  \/ Worker
  \/ AcceptorCreates
  \/ UseDeleted
  \/ \E c \in Connections : ClientThread(c)

\* The scheduler runs every thread; nobody has to send a signal or a packet.
LifeFairness ==
  /\ WF_lifeVars(Startup) /\ WF_lifeVars(Shutdown)
  /\ WF_lifeVars(CoordinatorThread)
  /\ WF_lifeVars(WorkerCreates) /\ WF_lifeVars(AcceptorCreates)

LifeSpec == LifeInit /\ [][LifeNext]_lifeVars /\ LifeFairness

---------------------------------------------------------------------------
\* The coordinator never works on a deleted framebuffer, output mapper,
\* protocol handler or datastore, whenever the signal comes: ~EffectRunner
\* waits for it, even when the shutdown begins in the middle of a frame or
\* before the coordinator has run at all.
CoordinatorUsesLiveObjects ==
  coordinator \notin {"none", "ended"} => {"store", "protocol", "runner"} \subseteq alive

\* The output channels, which the coordinator deletes on its way out and
\* ~EffectRunner deletes again, are deleted once.
ChannelsAreFreedOnce ==
  "runner" \notin alive /\ coordinator = "ended" => frees = 1

\* Every thread that main waits for has been joined.
RunnerIsJoined == main \in {"deleteStore", "exit", "exited"}

\* The process has crashed over a thread that was left: one of the command
\* server or, once the coordinator has been joined, the protocol worker.
CrashedOverThread ==
  /\ main = "crashed"
  /\ \/ joinable # {} \/ ThreadsOfServer
     \/ "runner" \notin alive /\ ThreadsOfProtocol

\* A signal ends the server whenever it comes, during the start, the wait or the
\* shutdown, and though clients and nodes keep all other threads busy: main gets
\* past its join and only the datastore is left to be deleted.  There are two
\* exceptions.  A signal that is handled between the test of keepRunning and
\* pause() is slept through until the next one; and the server may crash over a
\* thread that it has left: a client accepted after stop()'s loop, which is not
\* detached, a worker that has not created discovery yet, or a thread that uses
\* what has been deleted.  With no such thread it does not.
SignalEndsServer == ~keepRunning ~> RunnerIsJoined \/ missed \/ CrashedOverThread
===========================================================================
