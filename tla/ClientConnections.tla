------------------------- MODULE ClientConnections -------------------------
(***************************************************************************)
(* The connections of the command server and their file descriptors        *)
(* (CommandServer.cpp): one thread accepts, one thread per connection      *)
(* reads and answers, and stop() closes what is left.                      *)
(*                                                                         *)
(* A descriptor is a number: once closed, the next accept() gets the       *)
(* lowest free one, and a thread that still has the old number cannot tell *)
(* the difference.  fcntl(fd, F_GETFD) only says whether it is open.       *)
(* Nothing handles SIGPIPE: an answer to a client that has hung up may end *)
(* the process.                                                            *)
(***************************************************************************)
EXTENDS Integers, FiniteSetsExt

CONSTANTS
  Conns,       \* connections
  MaxFd,       \* descriptors 1..MaxFd are free for clients
  NoConn       \* the descriptor is closed

ASSUME ConnectionParameters == MaxFd \in Nat \ {0} /\ NoConn \notin Conns

Fds == 1..MaxFd

VARIABLES
  owner,      \* the connection behind each descriptor
  pc,         \* the client threads
  fd,         \* the descriptor each thread was given
  hungUp,     \* connections the client has closed
  unread,     \* those of them with a request that nobody has read
  run,        \* CommandServer::run
  accepting,  \* the worker thread is in its loop
  toStop,     \* what the loop of stop() has still to close
  died,       \* write() has raised SIGPIPE
  reused      \* history: numbers given out while a thread that had closed
              \* them itself was on its way to fcntl()

vars == <<owner, pc, fd, unread, hungUp, run, accepting, toStop, died, reused>>

Init ==
  /\ owner = [f \in Fds |-> NoConn]
  /\ pc = [c \in Conns |-> "none"]
  /\ fd = [c \in Conns |-> 0]
  /\ unread = {}
  /\ hungUp = {}
  /\ run = TRUE
  /\ accepting = TRUE
  /\ toStop = {}
  /\ died = FALSE
  /\ reused = {}

IsOpen(c) == \E f \in Fds : owner[f] = c

FreeFds == {f \in Fds : owner[f] = NoConn}

\* accept() returns and acceptClient starts a thread.  A call that was waiting
\* when stop() was called may still return a connection; the loop then ends.
\* Clients are alike, so the next connection is any fixed one not yet used.
Accept(c) ==
  /\ accepting
  /\ pc[c] = "none" /\ c = CHOOSE d \in Conns : pc[d] = "none"
  /\ FreeFds # {}
  /\ owner' = [owner EXCEPT ![Min(FreeFds)] = c]
  /\ fd' = [fd EXCEPT ![c] = Min(FreeFds)]
  /\ pc' = [pc EXCEPT ![c] = "reading"]
  /\ accepting' = run
  /\ reused' = reused \cup {f \in {Min(FreeFds)} :
                             \E d \in Conns : fd[d] = f /\ pc[d] = "rejected"}
  /\ UNCHANGED <<unread, hungUp, run, toStop, died>>

\* The client closes its end, with a request on the way or none.
HangUp(c, last) ==
  /\ IsOpen(c)
  /\ c \notin hungUp
  /\ hungUp' = hungUp \cup {c}
  /\ unread' = unread \cup last
  /\ UNCHANGED <<owner, pc, fd, run, accepting, toStop, died, reused>>

---------------------------------------------------------------------------
(***************************************************************************)
(* clientThreadEntry of the thread that was started for c.                 *)
(***************************************************************************)
Goes(c, from, to) == pc[c] = from /\ pc' = [pc EXCEPT ![c] = to]

\* read() returns a request, of a client that may send one at any time or has
\* sent one before it hung up.
Read(c) ==
  /\ Goes(c, "reading", "processing")
  /\ owner[fd[c]] \in (Conns \ hungUp) \cup unread
  /\ unread' = unread \ {owner[fd[c]]}
  /\ UNCHANGED <<owner, fd, hungUp, run, accepting, toStop, died, reused>>

\* The request has been processed and is answered.  A write() to a descriptor
\* that has been closed meanwhile fails, which is logged; one to a client that
\* has hung up still succeeds if the RST of its end is under way.
Answer(c) ==
  /\ Goes(c, "processing", IF run THEN "reading" ELSE "check")
  /\ UNCHANGED <<owner, fd, unread, hungUp, run, accepting, toStop, died, reused>>

\* The write() raises SIGPIPE: every thread ends, every descriptor is closed.
BreakPipe(c) ==
  /\ pc[c] = "processing"
  /\ owner[fd[c]] \in hungUp
  /\ died' = TRUE
  /\ owner' = [f \in Fds |-> NoConn]
  /\ pc' = [d \in Conns |-> IF pc[d] = "none" THEN "none" ELSE "done"]
  /\ UNCHANGED <<fd, unread, hungUp, run, accepting, toStop, reused>>

\* A message that cannot be parsed or processed: close(fd), and out.
Reject(c) ==
  /\ Goes(c, "processing", "rejected")
  /\ owner' = [owner EXCEPT ![fd[c]] = NoConn]
  /\ UNCHANGED <<fd, unread, hungUp, run, accepting, toStop, died, reused>>

\* Mutant of ReadEnds: the end of the stream is not looked for.
ReadNeverEnds(c) ==
  /\ pc[c] = "reading"
  /\ owner[fd[c]] = NoConn
  /\ Goes(c, "reading", "check")
  /\ UNCHANGED <<owner, fd, unread, hungUp, run, accepting, toStop, died, reused>>

\* read() returns zero, the client has hung up, or -1, the descriptor is
\* closed; or run was false when the thread began.
ReadEnds(c) ==
  /\ pc[c] = "reading"
  /\ owner[fd[c]] \in (hungUp \ unread) \cup {NoConn} \/ ~run
  /\ Goes(c, "reading", "check")
  /\ UNCHANGED <<owner, fd, unread, hungUp, run, accepting, toStop, died, reused>>

\* Mutant of Check: a thread that has been told to stop does not look.
CheckWhileRunning(c) ==
  /\ pc[c] \in {"check", "rejected"}
  /\ pc' = [pc EXCEPT ![c] = IF owner[fd[c]] # NoConn /\ run THEN "closing" ELSE "done"]
  /\ UNCHANGED <<owner, fd, unread, hungUp, run, accepting, toStop, died, reused>>

\* Mutant of Check: close(fd) whether it is open or not.
CloseAnyway(c) ==
  /\ pc[c] \in {"check", "rejected"}
  /\ pc' = [pc EXCEPT ![c] = "closing"]
  /\ UNCHANGED <<owner, fd, unread, hungUp, run, accepting, toStop, died, reused>>

\* if(fcntl(fd, F_GETFD) != -1)
Check(c) ==
  /\ pc[c] \in {"check", "rejected"}
  /\ pc' = [pc EXCEPT ![c] = IF owner[fd[c]] # NoConn THEN "closing" ELSE "done"]
  /\ UNCHANGED <<owner, fd, unread, hungUp, run, accepting, toStop, died, reused>>

CloseFd(c) ==
  /\ Goes(c, "closing", "done")
  /\ owner' = [owner EXCEPT ![fd[c]] = NoConn]
  /\ UNCHANGED <<fd, unread, hungUp, run, accepting, toStop, died, reused>>

---------------------------------------------------------------------------
(***************************************************************************)
(* stop(): the clients vector still lists every thread ever started.       *)
(***************************************************************************)
Stop ==
  /\ run
  /\ run' = FALSE
  /\ toStop' = {c \in Conns : pc[c] # "none"}
  /\ UNCHANGED <<owner, pc, fd, unread, hungUp, accepting, died, reused>>

StopClient(c) ==
  /\ c \in toStop
  /\ owner' = [owner EXCEPT ![fd[c]] = NoConn]
  /\ toStop' = toStop \ {c}
  /\ UNCHANGED <<pc, fd, unread, hungUp, run, accepting, died, reused>>

\* The listening socket is closed: a waiting accept() may also fail.
AcceptFails ==
  /\ ~run /\ accepting
  /\ accepting' = FALSE
  /\ UNCHANGED <<owner, pc, fd, unread, hungUp, run, toStop, died, reused>>

ThreadStep(c) ==
  /\ ~died
  /\ \/ Read(c) \/ Answer(c) \/ BreakPipe(c) \/ Reject(c)
     \/ ReadEnds(c) \/ Check(c) \/ CloseFd(c)

Next ==
  \/ \E c \in Conns : ThreadStep(c)
  \/ /\ ~died
     /\ \/ \E c \in Conns : Accept(c) \/ StopClient(c) \/ HangUp(c, {}) \/ HangUp(c, {c})
        \/ Stop \/ AcceptFails

(***************************************************************************)
(* A client thread that has something to do does it; clients need not send *)
(* or hang up, and stop() need not be called.                              *)
(***************************************************************************)
Fairness == \A c \in Conns : WF_vars(ThreadStep(c))

Spec == Init /\ [][Next]_vars /\ Fairness

---------------------------------------------------------------------------
\* No thread ends and leaves its connection open, whether the client hung up,
\* sent something malformed, or stop() came in between.
NothingIsLeaked == \A c \in Conns : pc[c] = "done" => ~IsOpen(c)

\* "only close it if needed" (CommandServer.cpp:401): as long as the server
\* runs, the descriptor a thread reads, answers or closes is that of its own
\* connection.  The exception is a number that accept() gave out while a thread
\* that had closed it, after a malformed request, had not come to the fcntl()
\* after the loop.
DescriptorIsOwn ==
  run => \A c \in Conns :
    pc[c] \in {"reading", "processing", "closing"} /\ fd[c] \notin reused =>
      owner[fd[c]] = c

\* A connection its client has closed is closed by the server as well, by the
\* thread that reads the end of the stream or, if that thread was answering a
\* last request, with the process that SIGPIPE ends (clientThreadEntry,
\* processClientRequest).
HungUpIsClosed == \A c \in Conns : c \in hungUp ~> ~IsOpen(c)
===========================================================================
