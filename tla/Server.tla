------------------------------- MODULE Server -------------------------------
(***************************************************************************)
(* The connections of the server and its shutdown: src/code/Server.cpp     *)
(* (StartServer, AcceptLoop, threadPoolWorker, HandleClient, StopServer    *)
(* and the destructor), with the authenticator it calls, start, stop and   *)
(* the end of run of ClientSession.cpp, and the peers that connect.        *)
(*                                                                         *)
(* Threads: the program's main thread (StartServer, then StopServer called *)
(* by the destructor), the accept thread, which also does each TLS         *)
(* handshake, the pool, whose threads run HandleClient, and one thread per *)
(* session.  A thread that reads from a peer is blocked until the peer     *)
(* writes or leaves.  What sessions do with commands is in other modules.  *)
(***************************************************************************)
EXTENDS Integers, Sequences, FiniteSets

CONSTANTS
  Clients,      \* identifiers peers authenticate as
  Connections,  \* bound: the connections ever opened
  None,         \* no client, no connection
  PoolSizes     \* numbers of threads of the pool to consider (StartServer: 4)

ASSUME ServerAssumption ==
  /\ PoolSizes \subseteq Nat \ {0}
  /\ None \notin Clients \cup Connections

VARIABLES
  sent,       \* what a peer has sent: nothing, tcp, hello, credentials
  left,       \* the peers that have closed their end
  claim,      \* the client whose credentials a peer sent; None: bad ones
  stage,      \* of a connection: where the server is with it
  reply,      \* the first line the server has sent on it
  session,    \* of a connection's ClientSession: none, made, running, ended
              \* (its loop is over), stopped (its thread is joined), failed
              \* (its thread could not be created) or destroyed
  running,    \* ClientSession::running
  activeSessions, sessionMap,  \* of the server and of the queue
  accept,     \* the accept thread: off, waiting, busy, ended
  taskQueue,
  pool,       \* threads of the pool that have not returned
  stopThreadPool,
  main,       \* control point of the main thread
  passes,     \* StopServer calls left to make
  toStop,     \* sessions StopServer, or the destructor, has still to stop
  current     \* the one whose thread it is waiting for, or None

peerVars  == <<sent, left, claim>>
connVars  == <<stage, reply>>
sessVars  == <<session, running, activeSessions, sessionMap>>
poolVars  == <<taskQueue, pool, stopThreadPool>>
mainVars  == <<main, passes, toStop, current>>
vars == <<peerVars, connVars, sessVars, accept, poolVars, mainVars>>

Handling == {"authenticating", "claiming", "answering", "registering", "starting",
             "launching", "unwinding"}
Busy == {c \in Connections : stage[c] \in Handling}

TypeOK ==
  /\ sent \in [Connections -> {"nothing", "tcp", "hello", "credentials"}]
  /\ left \subseteq Connections
  /\ claim \in [Connections -> Clients \cup {None}]
  /\ stage \in [Connections -> {"none", "shaking", "queued", "served", "closed"} \cup Handling]
  /\ reply \in [Connections -> {"none", "admitted", "refused", "error"}]
  /\ session \in [Connections -> {"none", "made", "running", "ended", "stopped", "failed",
                                  "destroyed"}]
  /\ running \in [Connections -> BOOLEAN]
  /\ activeSessions \in [Clients -> Connections \cup {None}]
  /\ sessionMap \in [Clients -> Connections \cup {None}]
  /\ accept \in {"off", "waiting", "busy", "ended"}
  /\ taskQueue \in Seq(Connections)
  /\ pool \in Nat /\ Cardinality(Busy) <= pool
  /\ stopThreadPool \in BOOLEAN
  /\ main \in {"starting", "serving", "stopping", "finishing", "joining", "destroying",
               "done", "dead"}
  /\ passes \in 1..2
  /\ toStop \subseteq Connections /\ current \in toStop \cup {None}

(* The pool's stop flag is never initialised: Server.h:146 declares it, no *)
(* constructor sets it, and C++17 leaves an atomic as it was.              *)
Init ==
  /\ sent = [c \in Connections |-> "nothing"] /\ left = {}
  /\ claim = [c \in Connections |-> None]
  /\ stage = [c \in Connections |-> "none"]
  /\ reply = [c \in Connections |-> "none"]
  /\ session = [c \in Connections |-> "none"]
  /\ running = [c \in Connections |-> FALSE]
  /\ activeSessions = [k \in Clients |-> None]
  /\ sessionMap = [k \in Clients |-> None]
  /\ accept = "off"
  /\ taskQueue = << >> /\ pool \in PoolSizes
  /\ stopThreadPool \in BOOLEAN
  /\ main = "starting" /\ passes = 1 /\ toStop = {} /\ current = None

Up == main # "dead"

-----------------------------------------------------------------------------
(* Peers: the client program and the benchmarks.  Any of them may leave at *)
(* any time; whatever it sent before can still be read.                    *)

Knock(c) ==
  /\ accept \in {"waiting", "busy"} /\ Up
  /\ sent[c] = "nothing" /\ c \notin left
  /\ sent' = [sent EXCEPT ![c] = "tcp"]
  /\ UNCHANGED <<left, claim, connVars, sessVars, accept, poolVars, mainVars>>

Hello(c) ==
  /\ sent[c] = "tcp" /\ c \notin left
  /\ sent' = [sent EXCEPT ![c] = "hello"]
  /\ UNCHANGED <<left, claim, connVars, sessVars, accept, poolVars, mainVars>>

Identify(c) ==
  /\ sent[c] = "hello" /\ stage[c] \in {"queued", "authenticating"} /\ c \notin left
  /\ sent' = [sent EXCEPT ![c] = "credentials"]
  /\ \E k \in Clients \cup {None} : claim' = [claim EXCEPT ![c] = k]
  /\ UNCHANGED <<left, connVars, sessVars, accept, poolVars, mainVars>>

Leave(c) ==
  /\ sent[c] # "nothing" /\ c \notin left
  /\ left' = left \cup {c}
  /\ UNCHANGED <<sent, claim, connVars, sessVars, accept, poolVars, mainVars>>

-----------------------------------------------------------------------------
(* AcceptLoop.                                                             *)

(* accept() and the start of the handshake.                                *)
Accept(c) ==
  /\ Up /\ accept = "waiting" /\ sent[c] # "nothing" /\ stage[c] = "none"
  /\ accept' = "busy"
  /\ stage' = [stage EXCEPT ![c] = "shaking"]
  /\ UNCHANGED <<peerVars, reply, sessVars, poolVars, mainVars>>

(* SSL_accept returns: the task is queued, or the socket closed.           *)
Shaken(c) ==
  /\ Up /\ stage[c] = "shaking"
  /\ \/ /\ sent[c] = "hello"
        /\ stage' = [stage EXCEPT ![c] = "queued"]
        /\ taskQueue' = Append(taskQueue, c)
     \/ /\ c \in left
        /\ stage' = [stage EXCEPT ![c] = "closed"]
        /\ UNCHANGED taskQueue
  /\ accept' = "waiting"
  /\ UNCHANGED <<peerVars, reply, sessVars, pool, stopThreadPool, mainVars>>

(* accept() fails with EBADF or EINVAL; other errors are retried.          *)
AcceptFails ==
  /\ Up /\ accept = "waiting"
  /\ accept' = "ended"
  /\ UNCHANGED <<peerVars, connVars, sessVars, poolVars, mainVars>>

-----------------------------------------------------------------------------
(* threadPoolWorker and HandleClient.                                      *)

(* Mutant: an idle thread is counted that is not there.                    *)
SomeoneMayBeFree == pool >= Cardinality(Busy)

(* Threads of the pool that are not in HandleClient.                       *)
SomeoneIsFree == pool > Cardinality(Busy)

Take ==
  /\ Up /\ SomeoneIsFree /\ taskQueue # << >>
  /\ stage' = [stage EXCEPT ![Head(taskQueue)] = "authenticating"]
  /\ taskQueue' = Tail(taskQueue)
  /\ UNCHANGED <<peerVars, reply, sessVars, accept, pool, stopThreadPool, mainVars>>

(* Mutant: the tasks still queued are forgotten.                           *)
ReturnsAtOnce == stopThreadPool

(* When a thread of the pool returns.                                      *)
MayReturn == stopThreadPool /\ taskQueue = << >>

Return ==
  /\ Up /\ SomeoneIsFree /\ MayReturn
  /\ pool' = pool - 1
  /\ UNCHANGED <<peerVars, connVars, sessVars, accept, taskQueue, stopThreadPool, mainVars>>

(* AuthenticateClient.  A failure is answered by closing the connection.   *)
Authenticate(c) ==
  /\ Up /\ stage[c] = "authenticating"
  /\ sent[c] = "credentials" \/ c \in left
  /\ stage' = [stage EXCEPT ![c] = IF claim[c] = None THEN "closed" ELSE "claiming"]
  /\ UNCHANGED <<peerVars, reply, sessVars, accept, poolVars, mainVars>>

(* A line is sent.  The first write to a peer that left may still succeed  *)
(* or it fails; a later one raises SIGPIPE, which the server neither       *)
(* ignores nor handles: DiesOnSend below.                                  *)
Answers(c, line) ==
  reply' = [reply EXCEPT ![c] = IF @ = "none" THEN line ELSE @]

(* Mutant: the queue's map is looked up, which is filled later.            *)
ActiveInQueue(k) == sessionMap[k]

Active(k) == activeSessions[k]

Refuse(c) ==
  /\ Up /\ stage[c] = "claiming" /\ Active(claim[c]) # None
  /\ Answers(c, "refused")
  /\ stage' = [stage EXCEPT ![c] = "closed"]
  /\ UNCHANGED <<peerVars, sessVars, accept, poolVars, mainVars>>

(* The wallet is loaded and the session made, all under sessionsMutex.     *)
OpenSession(c) ==
  /\ Up /\ stage[c] = "claiming" /\ Active(claim[c]) = None
  /\ session' = [session EXCEPT ![c] = "made"]
  /\ activeSessions' = [activeSessions EXCEPT ![claim[c]] = c]
  /\ stage' = [stage EXCEPT ![c] = "answering"]
  /\ UNCHANGED <<peerVars, reply, running, sessionMap, accept, poolVars, mainVars>>

(* The wallet or the session could not be made.                            *)
NoSession(c) ==
  /\ Up /\ stage[c] = "claiming" /\ Active(claim[c]) = None
  /\ Answers(c, "error")
  /\ stage' = [stage EXCEPT ![c] = "closed"]
  /\ UNCHANGED <<peerVars, sessVars, accept, poolVars, mainVars>>

Admit(c) ==
  /\ Up /\ stage[c] = "answering"
  /\ Answers(c, "admitted")
  /\ stage' = [stage EXCEPT ![c] = "registering"]
  /\ UNCHANGED <<peerVars, sessVars, accept, poolVars, mainVars>>

(* Mutant: the session is not made known to the queue.                     *)
RegisterNot(c) ==
  /\ Up /\ stage[c] = "registering"
  /\ stage' = [stage EXCEPT ![c] = "starting"]
  /\ UNCHANGED <<peerVars, reply, sessVars, accept, poolVars, mainVars>>

Register(c) ==
  /\ Up /\ stage[c] = "registering"
  /\ sessionMap' = [sessionMap EXCEPT ![claim[c]] = c]
  /\ stage' = [stage EXCEPT ![c] = "starting"]
  /\ UNCHANGED <<peerVars, reply, session, running, activeSessions, accept, poolVars,
                 mainVars>>

(* ClientSession::start sets the flag, then creates the thread.  A session *)
(* whose answer could not be sent is not started, and stays where it is.   *)
Start(c) ==
  /\ Up /\ stage[c] = "starting"
  /\ \/ /\ running' = [running EXCEPT ![c] = TRUE]
        /\ stage' = [stage EXCEPT ![c] = "launching"]
     \/ /\ c \in left
        /\ stage' = [stage EXCEPT ![c] = "served"]
        /\ UNCHANGED running
  /\ UNCHANGED <<peerVars, reply, session, activeSessions, sessionMap, accept, poolVars,
                 mainVars>>

(* (A stop() in between has cleared the flag and closed the connection.)   *)
Launch(c) ==
  /\ Up /\ stage[c] = "launching"
  /\ session' = [session EXCEPT ![c] = "running"]
  /\ stage' = [stage EXCEPT ![c] = IF running[c] THEN "served" ELSE "closed"]
  /\ UNCHANGED <<peerVars, reply, running, activeSessions, sessionMap, accept, poolVars,
                 mainVars>>

(* The thread cannot be created: HandleClient takes the session out of     *)
(* activeSessions.                                                         *)
LaunchFails(c) ==
  /\ Up /\ stage[c] = "launching"
  /\ session' = [session EXCEPT ![c] = "failed"]
  /\ activeSessions' = [activeSessions EXCEPT ![claim[c]] = None]
  /\ stage' = [stage EXCEPT ![c] = "unwinding"]
  /\ UNCHANGED <<peerVars, reply, running, sessionMap, accept, poolVars, mainVars>>

(* It returns, and the session is destroyed: stop, as running is still     *)
(* set, closes the connection and unregisters the client, whoever is       *)
(* registered for it by now.  (A session in StopServer's hands is          *)
(* destroyed a little later, when the queue no longer runs.)               *)
Unwind(c) ==
  /\ Up /\ stage[c] = "unwinding"
  /\ stage' = [stage EXCEPT ![c] = "closed"]
  /\ running' = [running EXCEPT ![c] = FALSE]
  /\ sessionMap' = IF running[c] THEN [sessionMap EXCEPT ![claim[c]] = None] ELSE sessionMap
  /\ UNCHANGED <<peerVars, reply, session, activeSessions, accept, poolVars, mainVars>>

Handle(c) ==
  \/ Authenticate(c) \/ Refuse(c) \/ OpenSession(c) \/ NoSession(c) \/ Admit(c)
  \/ Register(c) \/ Start(c) \/ Launch(c) \/ LaunchFails(c) \/ Unwind(c)

-----------------------------------------------------------------------------
(* The loop of ClientSession::run ends: the peer left or sent QUIT, or     *)
(* running is false and the peer sent anything that woke the thread.       *)
(* Nothing else is cleaned up: the server is not told.                     *)
SessionEnds(c) ==
  /\ Up /\ session[c] = "running"
  /\ session' = [session EXCEPT ![c] = "ended"]
  /\ running' = [running EXCEPT ![c] = FALSE]
  /\ UNCHANGED <<peerVars, connVars, activeSessions, sessionMap, accept, poolVars, mainVars>>

(* Something is sent to a peer that left: SIGPIPE ends the process.        *)
DiesOnSend(c) ==
  /\ Up /\ c \in left /\ session[c] = "running"
  /\ main' = "dead"
  /\ UNCHANGED <<peerVars, connVars, sessVars, accept, poolVars, passes, toStop,
                 current>>

-----------------------------------------------------------------------------
(* The main thread.                                                        *)

(* StartServer; it then waits for the accept thread.                       *)
StartServer ==
  /\ main = "starting"
  /\ main' = "serving" /\ accept' = "waiting"
  /\ UNCHANGED <<peerVars, connVars, sessVars, poolVars, passes, toStop, current>>

(* No TLS context: StartServer returns, and the destructor stops what      *)
(* runs.  No socket: StartServer stops it itself, then the destructor      *)
(* does once more.                                                         *)
StartFails ==
  /\ main = "starting"
  /\ main' = "stopping" /\ passes' \in 1..2
  /\ UNCHANGED <<peerVars, connVars, sessVars, accept, poolVars, toStop, current>>

ActiveNow == {activeSessions[k] : k \in Clients} \ {None}

(* The accept thread is over: ~Server, StopServer, and its copy of         *)
(* activeSessions.                                                         *)
Collect ==
  /\ main = "serving" /\ accept = "ended"
  /\ main' = "stopping" /\ toStop' = ActiveNow
  /\ UNCHANGED <<peerVars, connVars, sessVars, accept, poolVars, passes, current>>

(* ClientSession::stop, called by StopServer and by the destructor.  It    *)
(* does nothing for a session that is not running.  Else it clears the     *)
(* flag, waits for the thread if there is one, closes the connection and   *)
(* unregisters the client.                                                 *)
StopSession(c) ==
  /\ main \in {"stopping", "destroying"} /\ current = None
  /\ c \in toStop /\ running[c]
  /\ running' = [running EXCEPT ![c] = FALSE]
  /\ current' = c
  /\ UNCHANGED <<peerVars, connVars, session, activeSessions, sessionMap, accept, poolVars,
                 main, passes, toStop>>

(* The thread to join has ended, or there is none (yet).                   *)
Joinable(c) == session[c] # "running"

JoinSession(c) ==
  /\ Up /\ current = c /\ Joinable(c)
  /\ session' = [session EXCEPT ![c] = IF @ = "ended" THEN "stopped" ELSE @]
  /\ stage' = [stage EXCEPT ![c] = IF @ = "served" THEN "closed" ELSE @]
  /\ sessionMap' = [sessionMap EXCEPT ![claim[c]] = None]
  /\ current' = None
  /\ toStop' = IF main = "stopping" THEN toStop \ {c} ELSE toStop
  /\ UNCHANGED <<peerVars, reply, running, activeSessions, accept, poolVars, main, passes>>

SkipSession(c) ==
  /\ main = "stopping" /\ current = None
  /\ c \in toStop /\ ~running[c]
  /\ toStop' = toStop \ {c}
  /\ UNCHANGED <<peerVars, connVars, sessVars, accept, poolVars, main, passes, current>>

(* Users, counter, price thread, queue: each is stopped in its own module. *)
StopOthers ==
  /\ main = "stopping" /\ toStop = {}
  /\ main' = "finishing"
  /\ UNCHANGED <<peerVars, connVars, sessVars, accept, poolVars, passes, toStop, current>>

(* Mutant: the pool is joined without being told to stop.                  *)
StopPoolUntold ==
  /\ main = "finishing"
  /\ main' = "joining"
  /\ UNCHANGED <<peerVars, connVars, sessVars, accept, poolVars, passes, toStop, current>>

StopPool ==
  /\ main = "finishing"
  /\ stopThreadPool' = TRUE
  /\ main' = "joining"
  /\ UNCHANGED <<peerVars, connVars, sessVars, accept, taskQueue, pool, passes, toStop,
                 current>>

(* Mutant: the threads of the pool are detached, not joined.               *)
Detached == TRUE

(* All threads of the pool have returned.                                  *)
Joined == pool = 0

(* StopServer returns: to StartServer, then it is called again, or to the  *)
(* destructor, which destroys the members.                                 *)
PoolJoined ==
  /\ main = "joining" /\ Joined
  /\ IF passes = 2 THEN main' = "stopping" /\ passes' = 1
                   ELSE main' = "destroying" /\ UNCHANGED passes
  /\ toStop' = ActiveNow
  /\ UNCHANGED <<peerVars, connVars, sessVars, accept, poolVars, current>>

(* ~ClientSession, after stop: a session whose thread has ended by itself  *)
(* was never joined, and destroying the std::thread ends the process.      *)
DestroySession(c) ==
  /\ main = "destroying" /\ current = None
  /\ c \in toStop /\ ~running[c]
  /\ IF session[c] \in {"running", "ended"}
     THEN main' = "dead" /\ UNCHANGED <<session, activeSessions, toStop>>
     ELSE /\ session' = [session EXCEPT ![c] = "destroyed"]
          /\ activeSessions' = [activeSessions EXCEPT ![claim[c]] = None]
          /\ toStop' = toStop \ {c}
          /\ UNCHANGED main
  /\ UNCHANGED <<peerVars, connVars, running, sessionMap, accept, poolVars, passes, current>>

Exit ==
  /\ main = "destroying" /\ toStop = {}
  /\ main' = "done"
  /\ UNCHANGED <<peerVars, connVars, sessVars, accept, poolVars, passes, toStop, current>>

-----------------------------------------------------------------------------
Main ==
  \/ StartServer \/ StartFails \/ Collect
  \/ \E c \in Connections :
       StopSession(c) \/ JoinSession(c) \/ SkipSession(c) \/ DestroySession(c)
  \/ StopOthers \/ StopPool \/ PoolJoined \/ Exit

Next ==
  \/ \E c \in Connections :
       \/ Knock(c) \/ Hello(c) \/ Identify(c) \/ Leave(c)
       \/ Accept(c) \/ Shaken(c)
       \/ Handle(c)
       \/ SessionEnds(c) \/ DiesOnSend(c)
  \/ AcceptFails \/ Take \/ Return
  \/ Main

Spec == Init /\ [][Next]_vars

(* Every thread goes on while it can.  A session's thread is only sure to  *)
(* wake up if its peer left or its connection is closed.  Nothing is       *)
(* assumed of peers here.                                                  *)
FairSpec ==
  /\ Spec
  /\ WF_vars(Main) /\ WF_vars(Take) /\ WF_vars(Return)
  /\ \A c \in Connections :
       /\ WF_vars(Accept(c)) /\ WF_vars(Shaken(c)) /\ WF_vars(Handle(c))
       /\ WF_vars((c \in left \/ stage[c] = "closed") /\ SessionEnds(c))

-----------------------------------------------------------------------------
(* The detailed server implements the admission of connections: the check  *)
(* of activeSessions and the entry in it are one step under sessionsMutex, *)
(* so that of two connections that authenticate as one client at the same  *)
(* time exactly one is admitted (Server.cpp, HandleClient).                *)
Verdict(c) == IF session[c] # "none" THEN "admitted"
              ELSE IF reply[c] = "refused" THEN "refused" ELSE "none"

A == INSTANCE Admission WITH
       owner <- activeSessions, verdict <- [c \in Connections |-> Verdict(c)]

ImplementsAdmission == A!ASpec

(* A session that serves its client is the one the server and the queue    *)
(* know for the client, so that StopServer finds it and its results reach  *)
(* it.  The exception is a client one of whose sessions could not create   *)
(* its thread: destroying that one unregisters the client by its name,     *)
(* which by then may be the next session's (ClientSession.cpp, stop).      *)
ServedIsRegistered ==
  \A c \in Connections :
    (session[c] = "running" /\ running[c]) =>
      /\ activeSessions[claim[c]] = c
      /\ \/ sessionMap[claim[c]] = c
         \/ \E d \in Connections : session[d] = "failed" /\ claim[d] = claim[c]

(* When main returns no thread of the server is left, not even that of a   *)
(* session opened while StopServer ran, which its copy of activeSessions   *)
(* misses: the pool is joined before the members are destroyed.            *)
NothingRunsAtExit ==
  main = "done" =>
    /\ Busy = {}
    /\ \A c \in Connections : session[c] # "running"

(* What is asked of the peers: that those who connect identify themselves  *)
(* or leave; that all of them leave in the end.                            *)
PeersSpeak ==
  \A c \in Connections : <>[](sent[c] \in {"nothing", "credentials"} \/ c \in left)
PeersLeave ==
  \A c \in Connections : <>[](sent[c] = "nothing" \/ c \in left)

(* A connection whose handshake is done is served or closed in the end,    *)
(* though StopServer may run meanwhile: the pool empties its queue before  *)
(* it returns.  One silent peer per thread of the pool is enough to break  *)
(* it, hence PeersSpeak, and so is a stop flag that happens to be set at   *)
(* the start.                                                              *)
Answered ==
  PeersSpeak =>
    \A c \in Connections :
      (stage[c] = "queued" /\ ~stopThreadPool) ~>
        (stage[c] \in {"served", "closed"} \/ main = "dead")

(* StopServer and the destructor come to an end, with sessions in any      *)
(* state, once the peers are gone: the join in ClientSession::stop and     *)
(* that of the pool wait for threads that read from peers.                 *)
StopReturns ==
  PeersLeave => (main = "stopping" ~> main \in {"done", "dead"})

(* "Already connected with this ID": the client refused has a session that *)
(* serves it.                                                              *)
RefusedIsConnected ==
  [][\A c \in Connections :
       Refuse(c) => session[activeSessions[claim[c]]] \in {"made", "running"}]_vars
=============================================================================
