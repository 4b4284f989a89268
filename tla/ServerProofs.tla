---------------------------- MODULE ServerProofs ----------------------------
(***************************************************************************)
(* Theorems about Server for every set of clients and connections and      *)
(* every number of threads in the pool.                                    *)
(***************************************************************************)
EXTENDS Server, FiniteSetTheorems, SequenceTheorems, TLAPS

-----------------------------------------------------------------------------
(* The inductive invariant.                                                *)

Early   == {"none", "shaking", "queued", "authenticating", "claiming"}
Unstarted == Early \cup {"answering", "registering", "starting"}

(* The sessions that activeSessions holds.                                 *)
Held == {"made", "running", "ended", "stopped"}

(* The queue of tasks holds each connection that is queued once.           *)
Queued ==
  /\ \A i \in 1 .. Len(taskQueue) : stage[taskQueue[i]] = "queued"
  /\ \A i, j \in 1 .. Len(taskQueue) : taskQueue[i] = taskQueue[j] => i = j

(* How far HandleClient is with a connection and what has become of its    *)
(* session.                                                                *)
Control ==
  \A c \in Connections :
    /\ stage[c] \in Early => session[c] = "none" /\ reply[c] = "none"
    /\ stage[c] \in {"answering", "registering", "starting", "launching"}
         => session[c] = "made"
    /\ stage[c] = "unwinding" => session[c] = "failed"
    /\ session[c] # "none" \/ stage[c] = "claiming" => claim[c] \in Clients
    /\ stage[c] \in Unstarted => ~ running[c] /\ current # c
    /\ running[c] => session[c] \in {"made", "running", "failed"}
    /\ current = c => ~ running[c]

(* activeSessions is the sessions held, each under its own client.         *)
Owned ==
  /\ \A k \in Clients :
       activeSessions[k] # None =>
         session[activeSessions[k]] \in Held /\ claim[activeSessions[k]] = k
  /\ \A c \in Connections : session[c] \in Held => activeSessions[claim[c]] = c

(* The main thread waits for sessions that exist, and destroys the last of *)
(* them when the pool has gone.                                            *)
Stopping ==
  /\ IsFiniteSet(Busy)
  /\ \A c \in toStop : session[c] \notin {"none", "destroyed"}
  /\ main \notin {"stopping", "destroying", "dead"} => current = None
  /\ main \in {"destroying", "done"} => pool = 0
  /\ main \in {"destroying", "done"} =>
       /\ \A c \in toStop : session[c] \in Held
       /\ \A c \in Connections : session[c] = "running" => c \in toStop
  /\ main = "done" => toStop = {}

(* A session that runs is registered with the queue, unless one of its     *)
(* client's failed to start.                                               *)
Lost(c) == \E d \in Connections : session[d] = "failed" /\ claim[d] = claim[c]

Known ==
  \A c \in Connections :
    stage[c] = "starting" \/ running[c] => sessionMap[claim[c]] = c \/ Lost(c)

IInv == TypeOK /\ Queued /\ Control /\ Owned /\ Stopping /\ Known

-----------------------------------------------------------------------------
(* The threads of the pool.                                                *)

(* A connection that is being handled occupies a thread: with no thread    *)
(* left there is none.                                                     *)
LEMMA EmptyPool ==
  ASSUME TypeOK, IsFiniteSet(Busy), pool = 0
  PROVE  Busy = {}
<1>1. Cardinality(Busy) \in Nat /\ Cardinality(Busy) <= 0
  BY FS_CardinalityType DEF TypeOK
<1>2. QED
  BY <1>1, FS_EmptySet

(* Steps that take nobody from the pool keep the occupied threads within   *)
(* it.                                                                     *)
LEMMA BusyShrinks ==
  ASSUME TypeOK, IsFiniteSet(Busy), Busy' \subseteq Busy, pool' = pool
  PROVE  IsFiniteSet(Busy') /\ Cardinality(Busy') <= pool'
<1>1. IsFiniteSet(Busy') /\ Cardinality(Busy') <= Cardinality(Busy)
  BY FS_Subset
<1>2. Cardinality(Busy') \in Nat /\ Cardinality(Busy) \in Nat
  BY <1>1, FS_CardinalityType
<1>3. QED
  BY <1>1, <1>2 DEF TypeOK

(* Only Take adds to the connections being handled, and only Return takes  *)
(* from the pool.                                                          *)
LEMMA OthersKeepThePool ==
  ASSUME TypeOK, [Next]_vars
  PROVE  \/ Take \/ Return
         \/ Busy' \subseteq Busy /\ pool' = pool
<1> USE DEF TypeOK, Busy, Handling, Up, peerVars, connVars, sessVars, poolVars, mainVars
<1>1. ASSUME NEW c \in Connections, Knock(c) \/ Hello(c) \/ Identify(c) \/ Leave(c)
      PROVE  Busy' \subseteq Busy /\ pool' = pool
  BY <1>1 DEF Knock, Hello, Identify, Leave
<1>2. ASSUME NEW c \in Connections, Accept(c) \/ Shaken(c)
      PROVE  Busy' \subseteq Busy /\ pool' = pool
  BY <1>2 DEF Accept, Shaken
<1>3. ASSUME NEW c \in Connections, Handle(c)
      PROVE  Busy' \subseteq Busy /\ pool' = pool
  BY <1>3 DEF Handle, Authenticate, Refuse, OpenSession, NoSession, Admit, Register,
       Start, Launch, LaunchFails, Unwind
<1>4. ASSUME NEW c \in Connections, SessionEnds(c) \/ DiesOnSend(c)
      PROVE  Busy' \subseteq Busy /\ pool' = pool
  BY <1>4 DEF SessionEnds, DiesOnSend
<1>5. CASE AcceptFails \/ UNCHANGED vars
  BY <1>5 DEF AcceptFails, vars
<1>6. ASSUME Main PROVE Busy' \subseteq Busy /\ pool' = pool
  BY <1>6 DEF Main, StartServer, StartFails, Collect, StopSession, JoinSession,
       SkipSession, DestroySession, StopOthers, StopPool, PoolJoined, Exit
<1>7. QED
  BY <1>1, <1>2, <1>3, <1>4, <1>5, <1>6 DEF Next

(* The pool has a thread for each connection being handled, always.        *)
LEMMA NextPool ==
  ASSUME TypeOK, Queued, IsFiniteSet(Busy), [Next]_vars
  PROVE  pool' \in Nat /\ IsFiniteSet(Busy') /\ Cardinality(Busy') <= pool'
<1>0. Cardinality(Busy) \in Nat /\ pool \in Nat
  BY FS_CardinalityType DEF TypeOK
<1>1. CASE Take
  <2>1. pool > Cardinality(Busy) /\ pool' = pool
    BY <1>1 DEF Take, SomeoneIsFree
  <2>2. Busy' = Busy \cup {Head(taskQueue)}
    BY <1>1 DEF Take, Busy, Handling, TypeOK, Queued
  <2>3. IsFiniteSet(Busy') /\ Cardinality(Busy') <= Cardinality(Busy) + 1
    BY <1>0, <2>2, FS_AddElement
  <2>4. Cardinality(Busy') \in Nat
    BY <2>3, FS_CardinalityType
  <2>5. QED
    BY <1>0, <2>1, <2>3, <2>4
<1>2. CASE Return
  <2>1. pool > Cardinality(Busy) /\ pool' = pool - 1
    BY <1>2 DEF Return, SomeoneIsFree
  <2>2. Busy' = Busy
    BY <1>2 DEF Return, Busy, connVars
  <2>3. QED
    BY <1>0, <2>1, <2>2
<1>3. CASE Busy' \subseteq Busy /\ pool' = pool
  BY <1>0, <1>3, BusyShrinks
<1>4. QED
  BY <1>1, <1>2, <1>3, OthersKeepThePool

-----------------------------------------------------------------------------
(* Types.                                                                  *)

(* The initial state has the types.                                       *)
LEMMA InitTypeOK == Init => TypeOK
<1> SUFFICES ASSUME Init PROVE TypeOK
  OBVIOUS
<1>1. Busy = {}
  BY DEF Init, Busy, Handling
<1>2. Cardinality(Busy) = 0
  BY <1>1, FS_EmptySet
<1>3. pool \in Nat
  BY ServerAssumption DEF Init
<1>4. QED
  BY <1>2, <1>3 DEF Init, TypeOK

(* Every step keeps them.                                                  *)
LEMMA NextTypeOK ==
  ASSUME TypeOK, Queued, Control, Stopping, [Next]_vars
  PROVE  TypeOK'
<1>0. pool' \in Nat /\ Cardinality(Busy') <= pool'
  BY NextPool DEF Stopping
<1> USE <1>0 DEF TypeOK, Up, peerVars, connVars, sessVars, poolVars, mainVars
<1>1. ASSUME NEW c \in Connections, Knock(c) \/ Hello(c) \/ Identify(c) \/ Leave(c)
      PROVE  TypeOK'
  BY <1>1 DEF Knock, Hello, Identify, Leave
<1>2. ASSUME NEW c \in Connections, Accept(c) \/ Shaken(c)
      PROVE  TypeOK'
  <2>1. CASE Accept(c)
    BY <2>1 DEF Accept
  <2>2. Append(taskQueue, c) \in Seq(Connections)
    OBVIOUS
  <2>3. CASE Shaken(c)
    BY <2>2, <2>3 DEF Shaken
  <2>4. QED
    BY <1>2, <2>1, <2>3
<1>3. ASSUME NEW c \in Connections, Handle(c)
      PROVE  TypeOK'
  <2> USE DEF Handling, Control, Unstarted, Early, Answers
  <2>1. CASE Authenticate(c)
    BY <2>1 DEF Authenticate
  <2>2. CASE Refuse(c)
    BY <2>2 DEF Refuse
  <2>3. CASE OpenSession(c)
    BY <2>3 DEF OpenSession
  <2>4. CASE NoSession(c)
    BY <2>4 DEF NoSession
  <2>5. CASE Admit(c)
    BY <2>5 DEF Admit
  <2>6. CASE Register(c)
    BY <2>6 DEF Register
  <2>7. CASE Start(c)
    BY <2>7 DEF Start
  <2>8. CASE Launch(c)
    BY <2>8 DEF Launch
  <2>9. CASE LaunchFails(c)
    BY <2>9 DEF LaunchFails
  <2>10. CASE Unwind(c)
    BY <2>10 DEF Unwind
  <2>11. QED
    BY <1>3, <2>1, <2>2, <2>3, <2>4, <2>5, <2>6, <2>7, <2>8, <2>9, <2>10 DEF Handle
<1>4. ASSUME NEW c \in Connections, SessionEnds(c) \/ DiesOnSend(c)
      PROVE  TypeOK'
  BY <1>4 DEF SessionEnds, DiesOnSend
<1>5. CASE AcceptFails \/ UNCHANGED vars
  BY <1>5 DEF AcceptFails, vars
<1>6. CASE Take \/ Return
  <2>1. CASE Take
    <3>1. Head(taskQueue) \in Connections /\ Tail(taskQueue) \in Seq(Connections)
      BY <2>1 DEF Take
    <3>2. QED
      BY <2>1, <3>1 DEF Take, Handling
  <2>2. CASE Return
    BY <2>2 DEF Return
  <2>3. QED
    BY <1>6, <2>1, <2>2
<1>7. ASSUME Main PROVE TypeOK'
  <2> USE DEF Stopping
  <2>1. CASE StartServer
    BY <2>1 DEF StartServer
  <2>2. CASE StartFails
    BY <2>2 DEF StartFails
  <2>3. CASE Collect
    BY <2>3 DEF Collect, ActiveNow
  <2>4. CASE StopOthers
    BY <2>4 DEF StopOthers
  <2>5. CASE StopPool
    BY <2>5 DEF StopPool
  <2>6. CASE PoolJoined
    BY <2>6 DEF PoolJoined, ActiveNow
  <2>7. CASE Exit
    BY <2>7 DEF Exit
  <2>8. ASSUME NEW c \in Connections,
               StopSession(c) \/ JoinSession(c) \/ SkipSession(c) \/ DestroySession(c)
        PROVE  TypeOK'
    <3>1. CASE StopSession(c)
      BY <3>1 DEF StopSession
    <3>2. CASE JoinSession(c)
      BY <3>2 DEF JoinSession
    <3>3. CASE SkipSession(c)
      BY <3>3 DEF SkipSession
    <3>4. CASE DestroySession(c)
      BY <3>4 DEF DestroySession
    <3>5. QED
      BY <2>8, <3>1, <3>2, <3>3, <3>4
  <2>9. QED
    BY <1>7, <2>1, <2>2, <2>3, <2>4, <2>5, <2>6, <2>7, <2>8 DEF Main
<1>8. QED
  BY <1>1, <1>2, <1>3, <1>4, <1>5, <1>6, <1>7 DEF Next

-----------------------------------------------------------------------------
(* The queue of tasks.                                                     *)

(* Only the accept thread and Take touch the queue of tasks.               *)
LEMMA OthersKeepTheQueue ==
  ASSUME TypeOK, [Next]_vars
  PROVE  \/ \E c \in Connections : Shaken(c)
         \/ Take
         \/ /\ UNCHANGED taskQueue
            /\ \A c \in Connections : stage[c] = "queued" => stage'[c] = "queued"
<1> DEFINE Kept == /\ UNCHANGED taskQueue
                   /\ \A c \in Connections : stage[c] = "queued" => stage'[c] = "queued"
<1> USE DEF TypeOK, Handling, peerVars, connVars, sessVars, poolVars, mainVars
<1>1. ASSUME NEW c \in Connections, Knock(c) \/ Hello(c) \/ Identify(c) \/ Leave(c)
      PROVE  Kept
  BY <1>1 DEF Knock, Hello, Identify, Leave
<1>2. ASSUME NEW c \in Connections, Accept(c)
      PROVE  Kept
  BY <1>2 DEF Accept
<1>3. ASSUME NEW c \in Connections, Handle(c)
      PROVE  Kept
  BY <1>3 DEF Handle, Authenticate, Refuse, OpenSession, NoSession, Admit, Register,
       Start, Launch, LaunchFails, Unwind
<1>4. ASSUME NEW c \in Connections, SessionEnds(c) \/ DiesOnSend(c)
      PROVE  Kept
  BY <1>4 DEF SessionEnds, DiesOnSend
<1>5. CASE AcceptFails \/ Return \/ UNCHANGED vars
  BY <1>5 DEF AcceptFails, Return, vars
<1>6. ASSUME Main PROVE Kept
  BY <1>6 DEF Main, StartServer, StartFails, Collect, StopSession, JoinSession,
       SkipSession, DestroySession, StopOthers, StopPool, PoolJoined, Exit
<1>7. QED
  BY <1>1, <1>2, <1>3, <1>4, <1>5, <1>6 DEF Next

(* A connection enters the queue when it is queued and is taken once.       *)
LEMMA NextQueued ==
  ASSUME TypeOK, Queued, [Next]_vars
  PROVE  Queued'
<1> USE DEF TypeOK
<1>1. CASE \E c \in Connections : Shaken(c)
  <2>1. PICK c \in Connections : Shaken(c)
    BY <1>1
  <2>2. CASE taskQueue' = Append(taskQueue, c)
    <3>1. stage' = [stage EXCEPT ![c] = "queued"] /\ stage[c] = "shaking"
      BY <2>1, <2>2 DEF Shaken
    <3>2. \A i \in 1 .. Len(taskQueue) : taskQueue[i] # c
      BY <3>1 DEF Queued
    <3>3. Len(taskQueue') = Len(taskQueue) + 1
      BY <2>2
    <3>4. \A i \in 1 .. Len(taskQueue') :
            taskQueue'[i] = IF i = Len(taskQueue) + 1 THEN c ELSE taskQueue[i]
      BY <2>2
    <3>5. /\ Len(taskQueue) \in Nat
          /\ \A i \in 1 .. Len(taskQueue') : i # Len(taskQueue) + 1 => i \in 1 .. Len(taskQueue)
      BY <3>3
    <3>6. \A i \in 1 .. Len(taskQueue') : stage'[taskQueue'[i]] = "queued"
      BY <3>1, <3>4, <3>5 DEF Queued
    <3>7. \A i, j \in 1 .. Len(taskQueue') : taskQueue'[i] = taskQueue'[j] => i = j
      BY <3>2, <3>4, <3>5 DEF Queued
    <3>8. QED
      BY <3>6, <3>7 DEF Queued
  <2>3. CASE UNCHANGED taskQueue
    BY <2>1, <2>3 DEF Shaken, Queued
  <2>4. QED
    BY <2>1, <2>2, <2>3 DEF Shaken
<1>2. CASE Take
  <2>1. Len(taskQueue) > 0 /\ Len(taskQueue') = Len(taskQueue) - 1
    BY <1>2 DEF Take
  <2>2. \A i \in 1 .. Len(taskQueue') : taskQueue'[i] = taskQueue[i + 1]
    BY <1>2 DEF Take
  <2>3. stage' = [stage EXCEPT ![taskQueue[1]] = "authenticating"]
    BY <1>2 DEF Take
  <2>4. /\ Len(taskQueue) \in Nat /\ 1 \in 1 .. Len(taskQueue)
        /\ \A i \in 1 .. Len(taskQueue') : i \in Int /\ i + 1 # 1 /\ i + 1 \in 1 .. Len(taskQueue)
    BY <2>1
  <2>5. \A i \in 1 .. Len(taskQueue') :
          /\ stage[taskQueue[i + 1]] = "queued" /\ taskQueue[i + 1] # taskQueue[1]
          /\ taskQueue[i + 1] \in Connections
    BY <2>4 DEF Queued
  <2>6. \A i \in 1 .. Len(taskQueue') : stage'[taskQueue'[i]] = "queued"
    BY <2>2, <2>3, <2>5
  <2>7. \A i, j \in 1 .. Len(taskQueue') : taskQueue'[i] = taskQueue'[j] => i + 1 = j + 1
    BY <2>2, <2>4 DEF Queued
  <2>8. \A i, j \in 1 .. Len(taskQueue') : i + 1 = j + 1 => i = j
    OBVIOUS
  <2>9. QED
    BY <2>6, <2>7, <2>8 DEF Queued
<1>3. CASE /\ UNCHANGED taskQueue
           /\ \A c \in Connections : stage[c] = "queued" => stage'[c] = "queued"
  BY <1>3 DEF Queued
<1>4. QED
  BY <1>1, <1>2, <1>3, OthersKeepTheQueue

-----------------------------------------------------------------------------
(* HandleClient and sessions.                                              *)

(* Each step of HandleClient finds the session as the step before left it. *)
LEMMA NextControl ==
  ASSUME TypeOK, Queued, Control, Owned, Stopping, [Next]_vars
  PROVE  Control'
<1>0. main \in {"destroying", "done"} => \A c \in Connections : stage[c] \notin Handling
  BY EmptyPool DEF Stopping, Busy
<1> USE DEF TypeOK, Handling, peerVars, connVars, sessVars, poolVars, mainVars, Control, Early, Unstarted
<1>1. ASSUME NEW c \in Connections, Knock(c) \/ Hello(c) \/ Identify(c) \/ Leave(c)
      PROVE  Control'
  BY <1>1 DEF Knock, Hello, Identify, Leave
<1>2. ASSUME NEW c \in Connections, Accept(c) \/ Shaken(c)
      PROVE  Control'
  BY <1>2 DEF Accept, Shaken
<1>3. ASSUME NEW c \in Connections, Handle(c)
      PROVE  Control'
  <2>1. CASE Authenticate(c)
    BY <2>1 DEF Authenticate, Answers, Up
  <2>2. CASE Refuse(c)
    BY <2>2 DEF Refuse, Answers, Up
  <2>3. CASE OpenSession(c)
    BY <2>3 DEF OpenSession, Answers, Up
  <2>4. CASE NoSession(c)
    BY <2>4 DEF NoSession, Answers, Up
  <2>5. CASE Admit(c)
    BY <2>5 DEF Admit, Answers, Up
  <2>6. CASE Register(c)
    BY <2>6 DEF Register, Answers, Up
  <2>7. CASE Start(c)
    BY <2>7 DEF Start, Answers, Up
  <2>8. CASE Launch(c)
    BY <2>8 DEF Launch, Answers, Up
  <2>9. CASE LaunchFails(c)
    BY <2>9 DEF LaunchFails, Answers, Up
  <2>10. CASE Unwind(c)
    BY <2>10 DEF Unwind, Answers, Up
  <2>11. QED
    BY <1>3, <2>1, <2>2, <2>3, <2>4, <2>5, <2>6, <2>7, <2>8, <2>9, <2>10 DEF Handle
<1>4. ASSUME NEW c \in Connections, SessionEnds(c) \/ DiesOnSend(c)
      PROVE  Control'
  BY <1>4 DEF SessionEnds, DiesOnSend
<1>5. CASE AcceptFails \/ Return \/ UNCHANGED vars
  BY <1>5 DEF AcceptFails, Return, vars
<1>6. CASE Take
  <2>1. Head(taskQueue) \in Connections /\ stage[Head(taskQueue)] = "queued"
    BY <1>6 DEF Take, Queued
  <2>2. QED
    BY <1>6, <2>1 DEF Take
<1>7. ASSUME Main PROVE Control'
  <2>1. CASE StartServer
    BY <2>1 DEF StartServer, Stopping, Up
  <2>2. CASE StartFails
    BY <2>2 DEF StartFails, Stopping, Up
  <2>3. CASE Collect
    BY <2>3 DEF Collect, Stopping, Up
  <2>4. CASE StopOthers
    BY <2>4 DEF StopOthers, Stopping, Up
  <2>5. CASE StopPool
    BY <2>5 DEF StopPool, Stopping, Up
  <2>6. CASE PoolJoined
    BY <2>6 DEF PoolJoined, Stopping, Up
  <2>7. CASE Exit
    BY <2>7 DEF Exit, Stopping, Up
  <2>8. ASSUME NEW c \in Connections, StopSession(c) PROVE Control'
    BY <2>8 DEF StopSession, Stopping, Up
  <2>9. ASSUME NEW c \in Connections, JoinSession(c) PROVE Control'
    <3>1. /\ UNCHANGED <<claim, reply, running>> /\ current' = None
          /\ \A d \in Connections :
               /\ \/ session'[d] = session[d]
                  \/ session[d] = "ended" /\ session'[d] = "stopped"
               /\ \/ stage'[d] = stage[d]
                  \/ stage[d] = "served" /\ stage'[d] = "closed"
      BY <2>9 DEF JoinSession
    <3>2. QED
      BY <3>1, ServerAssumption
  <2>10. ASSUME NEW c \in Connections, SkipSession(c) PROVE Control'
    BY <2>10 DEF SkipSession, Stopping, Up
  <2>11. ASSUME NEW c \in Connections, DestroySession(c) PROVE Control'
    BY <2>11, <1>0 DEF DestroySession, Stopping, Up
  <2>12. QED
    BY <1>7, <2>1, <2>2, <2>3, <2>4, <2>5, <2>6, <2>7, <2>8, <2>9, <2>10, <2>11 DEF Main
<1>8. QED
  BY <1>1, <1>2, <1>3, <1>4, <1>5, <1>6, <1>7 DEF Next

(* A session enters activeSessions when its client has none there, and     *)
(* leaves it when it is destroyed or could not start.                      *)
LEMMA NextOwned ==
  ASSUME TypeOK, Queued, Control, Owned, Stopping, [Next]_vars
  PROVE  Owned'
<1> USE ServerAssumption DEF TypeOK, Handling, peerVars, connVars, sessVars, poolVars, mainVars, Owned, Held, Control, Early
<1>1. ASSUME NEW c \in Connections, Knock(c) \/ Hello(c) \/ Identify(c) \/ Leave(c)
      PROVE  Owned'
  BY <1>1 DEF Knock, Hello, Identify, Leave
<1>2. ASSUME NEW c \in Connections, Accept(c) \/ Shaken(c)
      PROVE  Owned'
  BY <1>2 DEF Accept, Shaken
<1>3. ASSUME NEW c \in Connections, Handle(c)
      PROVE  Owned'
  <2>1. CASE Authenticate(c)
    BY <2>1 DEF Authenticate, Active
  <2>2. CASE Refuse(c)
    BY <2>2 DEF Refuse, Active
  <2>3. CASE OpenSession(c)
    BY <2>3 DEF OpenSession, Active
  <2>4. CASE NoSession(c)
    BY <2>4 DEF NoSession, Active
  <2>5. CASE Admit(c)
    BY <2>5 DEF Admit, Active
  <2>6. CASE Register(c)
    BY <2>6 DEF Register, Active
  <2>7. CASE Start(c)
    BY <2>7 DEF Start, Active
  <2>8. CASE Launch(c)
    BY <2>8 DEF Launch, Active
  <2>9. CASE LaunchFails(c)
    BY <2>9 DEF LaunchFails, Active
  <2>10. CASE Unwind(c)
    BY <2>10 DEF Unwind, Active
  <2>11. QED
    BY <1>3, <2>1, <2>2, <2>3, <2>4, <2>5, <2>6, <2>7, <2>8, <2>9, <2>10 DEF Handle
<1>4. ASSUME NEW c \in Connections, SessionEnds(c) \/ DiesOnSend(c)
      PROVE  Owned'
  BY <1>4 DEF SessionEnds, DiesOnSend
<1>5. CASE AcceptFails \/ Return \/ UNCHANGED vars
  BY <1>5 DEF AcceptFails, Return, vars
<1>6. CASE Take
  <2>1. Head(taskQueue) \in Connections /\ stage[Head(taskQueue)] = "queued"
    BY <1>6 DEF Take, Queued
  <2>2. QED
    BY <1>6, <2>1 DEF Take
<1>7. ASSUME Main PROVE Owned'
  <2>1. CASE StartServer
    BY <2>1 DEF StartServer, Stopping
  <2>2. CASE StartFails
    BY <2>2 DEF StartFails, Stopping
  <2>3. CASE Collect
    BY <2>3 DEF Collect, Stopping
  <2>4. CASE StopOthers
    BY <2>4 DEF StopOthers, Stopping
  <2>5. CASE StopPool
    BY <2>5 DEF StopPool, Stopping
  <2>6. CASE PoolJoined
    BY <2>6 DEF PoolJoined, Stopping
  <2>7. CASE Exit
    BY <2>7 DEF Exit, Stopping
  <2>8. ASSUME NEW c \in Connections, StopSession(c) PROVE Owned'
    BY <2>8 DEF StopSession, Stopping
  <2>9. ASSUME NEW c \in Connections, JoinSession(c) PROVE Owned'
    BY <2>9 DEF JoinSession, Stopping
  <2>10. ASSUME NEW c \in Connections, SkipSession(c) PROVE Owned'
    BY <2>10 DEF SkipSession, Stopping
  <2>11. ASSUME NEW c \in Connections, DestroySession(c) PROVE Owned'
    BY <2>11, SMTT(30) DEF DestroySession, Stopping
  <2>12. QED
    BY <1>7, <2>1, <2>2, <2>3, <2>4, <2>5, <2>6, <2>7, <2>8, <2>9, <2>10, <2>11 DEF Main
<1>8. QED
  BY <1>1, <1>2, <1>3, <1>4, <1>5, <1>6, <1>7 DEF Next

(* The main thread never waits for, nor destroys, a session that is not    *)
(* there, and leaves none that runs.                                       *)
LEMMA NextStopping ==
  ASSUME TypeOK, Queued, Control, Owned, Stopping, [Next]_vars
  PROVE  Stopping'
<1>0. /\ main \in {"destroying", "done"} => \A c \in Connections : stage[c] \notin Handling
      /\ main = "joining" /\ pool = 0 => \A c \in Connections : stage[c] \notin Handling
  BY EmptyPool DEF Stopping, Busy
<1>9. IsFiniteSet(Busy')
  BY NextPool DEF Stopping
<1>10. Cardinality(Busy) \in Nat
  BY FS_CardinalityType DEF Stopping
<1> USE ServerAssumption, <1>9 DEF TypeOK, Handling, peerVars, connVars, sessVars, poolVars, mainVars, Stopping, Held, Control, Early
<1>1. ASSUME NEW c \in Connections, Knock(c) \/ Hello(c) \/ Identify(c) \/ Leave(c)
      PROVE  Stopping'
  BY <1>1 DEF Knock, Hello, Identify, Leave
<1>2. ASSUME NEW c \in Connections, Accept(c) \/ Shaken(c)
      PROVE  Stopping'
  BY <1>2 DEF Accept, Shaken
<1>3. ASSUME NEW c \in Connections, Handle(c)
      PROVE  Stopping'
  <2>1. CASE Authenticate(c)
    BY <2>1, <1>0 DEF Authenticate, Active, Up
  <2>2. CASE Refuse(c)
    BY <2>2, <1>0 DEF Refuse, Active, Up
  <2>3. CASE OpenSession(c)
    BY <2>3, <1>0 DEF OpenSession, Active, Up
  <2>4. CASE NoSession(c)
    BY <2>4, <1>0 DEF NoSession, Active, Up
  <2>5. CASE Admit(c)
    BY <2>5, <1>0 DEF Admit, Active, Up
  <2>6. CASE Register(c)
    BY <2>6, <1>0 DEF Register, Active, Up
  <2>7. CASE Start(c)
    BY <2>7, <1>0 DEF Start, Active, Up
  <2>8. CASE Launch(c)
    BY <2>8, <1>0 DEF Launch, Active, Up
  <2>9. CASE LaunchFails(c)
    BY <2>9, <1>0 DEF LaunchFails, Active, Up
  <2>10. CASE Unwind(c)
    BY <2>10, <1>0 DEF Unwind, Active, Up
  <2>11. QED
    BY <1>3, <2>1, <2>2, <2>3, <2>4, <2>5, <2>6, <2>7, <2>8, <2>9, <2>10 DEF Handle
<1>4. ASSUME NEW c \in Connections, SessionEnds(c) \/ DiesOnSend(c)
      PROVE  Stopping'
  BY <1>4 DEF SessionEnds, DiesOnSend
<1>5. CASE AcceptFails \/ Return \/ UNCHANGED vars
  BY <1>5, <1>10 DEF AcceptFails, Return, SomeoneIsFree, vars
<1>6. CASE Take
  <2>1. Head(taskQueue) \in Connections /\ stage[Head(taskQueue)] = "queued"
    BY <1>6 DEF Take, Queued
  <2>2. QED
    BY <1>6, <2>1, <1>10 DEF Take, SomeoneIsFree
<1>7. ASSUME Main PROVE Stopping'
  <2>1. CASE StartServer
    BY <2>1 DEF StartServer, Owned, ActiveNow
  <2>2. CASE StartFails
    BY <2>2 DEF StartFails, Owned, ActiveNow
  <2>3. CASE Collect
    BY <2>3 DEF Collect, Owned, ActiveNow
  <2>4. CASE StopOthers
    BY <2>4 DEF StopOthers, Owned, ActiveNow
  <2>5. CASE StopPool
    BY <2>5 DEF StopPool, Owned, ActiveNow
  <2>6. CASE PoolJoined
    <3>1. current = None /\ toStop' = ActiveNow /\ pool' = 0
      BY <2>6 DEF PoolJoined, Joined
    <3>2. \A c \in ActiveNow : session[c] \in Held
      BY DEF Owned, ActiveNow
    <3>3. \A c \in Connections : session[c] = "running" => c \in ActiveNow
      BY DEF Owned, ActiveNow
    <3>4. UNCHANGED <<session, current>> /\ main' \in {"stopping", "destroying"}
      BY <2>6 DEF PoolJoined
    <3>5. QED
      BY <3>1, <3>2, <3>3, <3>4
  <2>7. CASE Exit
    BY <2>7 DEF Exit, Owned, ActiveNow
  <2>8. ASSUME NEW c \in Connections, StopSession(c) PROVE Stopping'
    BY <2>8 DEF StopSession, Owned, ActiveNow
  <2>9. ASSUME NEW c \in Connections, JoinSession(c) PROVE Stopping'
    BY <2>9 DEF JoinSession, Owned, ActiveNow
  <2>10. ASSUME NEW c \in Connections, SkipSession(c) PROVE Stopping'
    BY <2>10 DEF SkipSession, Owned, ActiveNow
  <2>11. ASSUME NEW c \in Connections, DestroySession(c) PROVE Stopping'
    BY <2>11 DEF DestroySession, Owned, ActiveNow
  <2>12. QED
    BY <1>7, <2>1, <2>2, <2>3, <2>4, <2>5, <2>6, <2>7, <2>8, <2>9, <2>10, <2>11 DEF Main
<1>8. QED
  BY <1>1, <1>2, <1>3, <1>4, <1>5, <1>6, <1>7 DEF Next

(* Registering a session, stopping one and destroying one that failed      *)
(* change the queue's map under the client's name only: no other session of *)
(* the client runs then, unless one failed to start.                       *)
LEMMA NextKnown ==
  ASSUME TypeOK, Queued, Control, Owned, Stopping, Known, [Next]_vars
  PROVE  Known'
<1> USE ServerAssumption DEF TypeOK, Handling, peerVars, connVars, sessVars, poolVars, mainVars, Owned, Held, Control, Early, Unstarted, Known, Lost
<1>1. ASSUME NEW c \in Connections, Knock(c) \/ Hello(c) \/ Identify(c) \/ Leave(c)
      PROVE  Known'
  BY <1>1 DEF Knock, Hello, Identify, Leave
<1>2. ASSUME NEW c \in Connections, Accept(c) \/ Shaken(c)
      PROVE  Known'
  BY <1>2 DEF Accept, Shaken
<1>3. ASSUME NEW c \in Connections, Handle(c)
      PROVE  Known'
  <2>1. CASE Authenticate(c)
    BY <2>1 DEF Authenticate, Active
  <2>2. CASE Refuse(c)
    BY <2>2 DEF Refuse, Active
  <2>3. CASE OpenSession(c)
    BY <2>3 DEF OpenSession, Active
  <2>4. CASE NoSession(c)
    BY <2>4 DEF NoSession, Active
  <2>5. CASE Admit(c)
    BY <2>5 DEF Admit, Active
  <2>6. CASE Register(c)
    BY <2>6 DEF Register, Active
  <2>7. CASE Start(c)
    BY <2>7 DEF Start, Active
  <2>8. CASE Launch(c)
    BY <2>8 DEF Launch, Active
  <2>9. CASE LaunchFails(c)
    BY <2>9 DEF LaunchFails, Active
  <2>10. CASE Unwind(c)
    BY <2>10 DEF Unwind, Active
  <2>11. QED
    BY <1>3, <2>1, <2>2, <2>3, <2>4, <2>5, <2>6, <2>7, <2>8, <2>9, <2>10 DEF Handle
<1>4. ASSUME NEW c \in Connections, SessionEnds(c) \/ DiesOnSend(c)
      PROVE  Known'
  BY <1>4 DEF SessionEnds, DiesOnSend
<1>5. CASE AcceptFails \/ Return \/ UNCHANGED vars
  BY <1>5 DEF AcceptFails, Return, vars
<1>6. CASE Take
  <2>1. Head(taskQueue) \in Connections /\ stage[Head(taskQueue)] = "queued"
    BY <1>6 DEF Take, Queued
  <2>2. QED
    BY <1>6, <2>1 DEF Take
<1>7. ASSUME Main PROVE Known'
  <2>1. CASE StartServer
    BY <2>1 DEF StartServer, Stopping
  <2>2. CASE StartFails
    BY <2>2 DEF StartFails, Stopping
  <2>3. CASE Collect
    BY <2>3 DEF Collect, Stopping
  <2>4. CASE StopOthers
    BY <2>4 DEF StopOthers, Stopping
  <2>5. CASE StopPool
    BY <2>5 DEF StopPool, Stopping
  <2>6. CASE PoolJoined
    BY <2>6 DEF PoolJoined, Stopping
  <2>7. CASE Exit
    BY <2>7 DEF Exit, Stopping
  <2>8. ASSUME NEW c \in Connections, StopSession(c) PROVE Known'
    BY <2>8 DEF StopSession, Stopping
  <2>9. ASSUME NEW c \in Connections, JoinSession(c) PROVE Known'
    <3>1. /\ session[c] \in Held \cup {"failed"} /\ ~ running[c] /\ stage[c] # "starting"
          /\ claim[c] \in Clients
      BY <2>9 DEF JoinSession, Stopping
    <3>2. /\ claim' = claim /\ running' = running
          /\ sessionMap' = [sessionMap EXCEPT ![claim[c]] = None]
          /\ \A d \in Connections :
               /\ stage'[d] = "starting" => stage[d] = "starting"
               /\ session[d] = "failed" => session'[d] = "failed"
      BY <2>9 DEF JoinSession
    <3> DEFINE Needs(d) == stage[d] = "starting" \/ running[d]
    <3>3. ASSUME NEW d \in Connections, Needs(d), claim[d] = claim[c]
          PROVE  Lost(d)
      BY <3>1, <3>3
    <3>4. ASSUME NEW d \in Connections, Needs(d), claim[d] # claim[c]
          PROVE  sessionMap'[claim[d]] = sessionMap[claim[d]]
      BY <3>2, <3>4
    <3>5. ASSUME NEW d \in Connections, Lost(d) PROVE Lost(d)'
      <4>1. PICK e \in Connections : session[e] = "failed" /\ claim[e] = claim[d]
        BY <3>5
      <4>2. QED
        BY <3>2, <4>1
    <3>6. ASSUME NEW d \in Connections, Needs(d)' PROVE sessionMap'[claim'[d]] = d \/ Lost(d)'
      <4>1. Needs(d) /\ claim'[d] = claim[d]
        BY <3>2, <3>6
      <4>2. QED
        BY <3>3, <3>4, <3>5, <4>1
    <3>7. QED
      BY <3>6
  <2>10. ASSUME NEW c \in Connections, SkipSession(c) PROVE Known'
    BY <2>10 DEF SkipSession, Stopping
  <2>11. ASSUME NEW c \in Connections, DestroySession(c) PROVE Known'
    BY <2>11, SMTT(30) DEF DestroySession, Stopping
  <2>12. QED
    BY <1>7, <2>1, <2>2, <2>3, <2>4, <2>5, <2>6, <2>7, <2>8, <2>9, <2>10, <2>11 DEF Main
<1>8. QED
  BY <1>1, <1>2, <1>3, <1>4, <1>5, <1>6, <1>7 DEF Next

-----------------------------------------------------------------------------
(* The invariant.                                                          *)

(* It holds before anything has connected.                                 *)
LEMMA InitIInv == Init => IInv
<1> SUFFICES ASSUME Init PROVE IInv
  OBVIOUS
<1>1. TypeOK
  BY InitTypeOK
<1>2. Queued
  BY DEF Init, Queued
<1>3. Control
  BY ServerAssumption DEF Init, Control, Early, Unstarted
<1>4. Owned
  BY DEF Init, Owned, Held
<1>5. Stopping
  <2>1. Busy = {}
    BY DEF Init, Busy, Handling
  <2>2. IsFiniteSet(Busy)
    BY <2>1, FS_EmptySet
  <2>3. QED
    BY <2>2 DEF Init, Stopping
<1>6. Known
  BY DEF Init, Known
<1>7. QED
  BY <1>1, <1>2, <1>3, <1>4, <1>5, <1>6 DEF IInv

(* Every step of every thread and every peer keeps it.                     *)
LEMMA NextIInv == IInv /\ [Next]_vars => IInv'
<1> SUFFICES ASSUME IInv, [Next]_vars PROVE IInv'
  OBVIOUS
<1>1. Stopping => IsFiniteSet(Busy)
  BY DEF Stopping
<1>2. QED
  BY <1>1, NextTypeOK, NextQueued, NextControl, NextOwned, NextStopping, NextKnown DEF IInv

(* The invariant holds for any number of clients, connections and threads, *)
(* whatever the pool's stop flag was at the start.                         *)
THEOREM Invariance == Spec => []IInv
BY InitIInv, NextIInv, PTL DEF Spec

(* Type correctness of the server, of which one part is not a matter of    *)
(* types: no connection is being handled without a thread of the pool.     *)
THEOREM TypeCorrect == Spec => []TypeOK
<1>1. IInv => TypeOK
  BY DEF IInv
<1>2. QED
  BY <1>1, Invariance, PTL

(* A session that serves its client is the one activeSessions holds and,   *)
(* unless a session of the client failed to start, the one the queue sends *)
(* results to (HandleClient, registerSession, ClientSession::stop).        *)
THEOREM RegisteredWhenServed == Spec => []ServedIsRegistered
<1>1. IInv => ServedIsRegistered
  BY DEF IInv, TypeOK, Owned, Held, Known, Lost, ServedIsRegistered
<1>2. QED
  BY <1>1, Invariance, PTL

(* When main returns, no thread of the pool and no session's thread is     *)
(* left, whenever StopServer ran: it joins the pool before the destructor  *)
(* goes through activeSessions.                                            *)
THEOREM CleanExit == Spec => []NothingRunsAtExit
<1>1. IInv => NothingRunsAtExit
  <2> SUFFICES ASSUME IInv, main = "done" PROVE Busy = {} /\ \A c \in Connections : session[c] # "running"
    BY DEF NothingRunsAtExit
  <2>1. Busy = {}
    BY EmptyPool DEF IInv, Stopping
  <2>2. QED
    BY <2>1 DEF IInv, Stopping
<1>2. QED
  BY <1>1, Invariance, PTL

-----------------------------------------------------------------------------
(* The server implements Admission.                                        *)

Verdicts == [c \in Connections |-> Verdict(c)]

(* A step that adds no session and refuses nobody gives no verdict.        *)
LEMMA NoVerdict ==
  ASSUME UNCHANGED activeSessions,
         \A c \in Connections : /\ session'[c] = "none" <=> session[c] = "none"
                                /\ session[c] = "none" =>
                                     (reply'[c] = "refused" <=> reply[c] = "refused")
  PROVE  UNCHANGED <<activeSessions, Verdicts>>
<1>1. \A c \in Connections : Verdict(c)' = Verdict(c)
  BY DEF Verdict
<1>2. QED
  BY <1>1 DEF Verdicts

(* Opening a session admits the connection, if nobody holds the client.    *)
LEMMA OpenAdmits ==
  ASSUME IInv, NEW c \in Connections, OpenSession(c)
  PROVE  A!ANext
<1>1. claim[c] \in Clients /\ session[c] = "none" /\ reply[c] = "none"
  BY DEF IInv, Control, Early, OpenSession
<1>2. Verdicts[c] = "none"
  BY <1>1 DEF Verdicts, Verdict
<1>3. Verdicts' = [Verdicts EXCEPT ![c] = "admitted"]
  BY <1>1 DEF IInv, TypeOK, OpenSession, Verdicts, Verdict
<1>4. activeSessions[claim[c]] = None /\ activeSessions' = [activeSessions EXCEPT ![claim[c]] = c]
  BY DEF OpenSession, Active
<1>5. A!Admit(c, claim[c])
  BY <1>2, <1>3, <1>4 DEF A!Admit, Verdicts
<1>6. QED
  BY <1>1, <1>5 DEF A!ANext

(* Refusing a connection is a verdict on it, and somebody holds the client. *)
LEMMA RefuseRefuses ==
  ASSUME IInv, NEW c \in Connections, Refuse(c)
  PROVE  A!ANext
<1>1. claim[c] \in Clients /\ session[c] = "none" /\ reply[c] = "none"
  BY DEF IInv, Control, Early, Refuse
<1>2. Verdicts[c] = "none"
  BY <1>1 DEF Verdicts, Verdict
<1>3. Verdicts' = [Verdicts EXCEPT ![c] = "refused"]
  BY <1>1 DEF IInv, TypeOK, Refuse, Answers, sessVars, Verdicts, Verdict
<1>4. activeSessions[claim[c]] # None /\ UNCHANGED activeSessions
  BY DEF Refuse, Active, sessVars
<1>5. A!Refuse(c, claim[c])
  BY <1>2, <1>3, <1>4 DEF A!Refuse, Verdicts
<1>6. QED
  BY <1>1, <1>5 DEF A!ANext

(* A session that is taken out of activeSessions is its client's.          *)
LEMMA GivingUpReleases ==
  ASSUME IInv, NEW c \in Connections, session[c] \in Held,
         activeSessions' = [activeSessions EXCEPT ![claim[c]] = None],
         UNCHANGED reply,
         session' = [session EXCEPT ![c] = "failed"] \/ session' = [session EXCEPT ![c] = "destroyed"]
  PROVE  A!ANext
<1>1. claim[c] \in Clients /\ activeSessions[claim[c]] = c /\ c # None
  BY ServerAssumption DEF IInv, Control, Owned, Held
<1>2. Verdicts' = Verdicts
  <2>1. \A d \in Connections : Verdict(d)' = Verdict(d)
    BY DEF IInv, TypeOK, Held, Verdict
  <2>2. QED
    BY <2>1 DEF Verdicts
<1>3. A!Release(claim[c])
  BY <1>1, <1>2 DEF A!Release, Verdicts
<1>4. QED
  BY <1>1, <1>3 DEF A!ANext

(* Every step of the server is a step of Admission or changes nothing of   *)
(* it.                                                                     *)
LEMMA StepAdmission ==
  ASSUME IInv, [Next]_vars
  PROVE  A!ANext \/ UNCHANGED <<activeSessions, Verdicts>>
<1> DEFINE Same == UNCHANGED <<activeSessions, Verdicts>>
<1> USE DEF IInv, TypeOK, peerVars, connVars, sessVars, poolVars, mainVars
<1>1. ASSUME NEW c \in Connections, Knock(c) \/ Hello(c) \/ Identify(c) \/ Leave(c)
      PROVE  Same
  BY <1>1, NoVerdict DEF Knock, Hello, Identify, Leave
<1>2. ASSUME NEW c \in Connections, Accept(c) \/ Shaken(c)
      PROVE  Same
  BY <1>2, NoVerdict DEF Accept, Shaken
<1>3. ASSUME NEW c \in Connections, Handle(c)
      PROVE  A!ANext \/ Same
  <2>1. CASE Authenticate(c) \/ Register(c) \/ Start(c) \/ Unwind(c)
    BY <2>1, NoVerdict DEF Authenticate, Register, Start, Unwind
  <2>2. CASE Refuse(c)
    BY <2>2, RefuseRefuses
  <2>3. CASE OpenSession(c)
    BY <2>3, OpenAdmits
  <2>4. CASE NoSession(c)
    BY <2>4, NoVerdict DEF NoSession, Answers, Control, Early
  <2>5. CASE Admit(c)
    BY <2>5, NoVerdict DEF Admit, Answers, Control
  <2>6. CASE Launch(c)
    BY <2>6, NoVerdict DEF Launch, Control
  <2>7. CASE LaunchFails(c)
    <3>1. session[c] = "made"
      BY <2>7 DEF LaunchFails, Control
    <3>2. QED
      BY <2>7, <3>1, GivingUpReleases DEF LaunchFails, Held
  <2>8. QED
    BY <1>3, <2>1, <2>2, <2>3, <2>4, <2>5, <2>6, <2>7 DEF Handle
<1>4. ASSUME NEW c \in Connections, SessionEnds(c) \/ DiesOnSend(c)
      PROVE  Same
  BY <1>4, NoVerdict DEF SessionEnds, DiesOnSend
<1>5. CASE AcceptFails \/ Take \/ Return \/ UNCHANGED vars
  BY <1>5, NoVerdict DEF AcceptFails, Take, Return, vars
<1>6. ASSUME Main PROVE A!ANext \/ Same
  <2>1. ASSUME NEW c \in Connections, DestroySession(c) PROVE A!ANext \/ Same
    <3>1. CASE session[c] \in {"running", "ended"}
      BY <2>1, <3>1, NoVerdict DEF DestroySession
    <3>2. CASE session[c] \notin {"running", "ended"}
      <4>1. session[c] \in Held
        BY <2>1 DEF DestroySession, Stopping
      <4>2. QED
        BY <2>1, <3>2, <4>1, GivingUpReleases DEF DestroySession
    <3>3. QED
      BY <3>1, <3>2
  <2>2. ASSUME NEW c \in Connections, StopSession(c) \/ JoinSession(c) \/ SkipSession(c)
        PROVE  Same
    BY <2>2, NoVerdict DEF StopSession, JoinSession, SkipSession
  <2>3. CASE StartServer \/ StartFails \/ Collect \/ StopOthers \/ StopPool \/ PoolJoined \/ Exit
    BY <2>3, NoVerdict DEF StartServer, StartFails, Collect, StopOthers, StopPool,
       PoolJoined, Exit
  <2>4. QED
    BY <1>6, <2>1, <2>2, <2>3 DEF Main
<1>7. QED
  BY <1>1, <1>2, <1>3, <1>4, <1>5, <1>6 DEF Next

(* The server implements Admission: however the pool's threads interleave  *)
(* and whenever it is shut down, a client belongs to one connection at a   *)
(* time and each connection gets at most one verdict.                      *)
THEOREM AdmissionImplemented == Spec => ImplementsAdmission
<1>1. Init => A!AInit
  BY DEF Init, A!AInit, Verdict
<1>2. ASSUME IInv, [Next]_vars PROVE [A!ANext]_<<activeSessions, [c \in Connections |-> Verdict(c)]>>
  BY <1>2, StepAdmission DEF Verdicts
<1>3. QED
  BY <1>1, <1>2, Invariance, PTL DEF Spec, ImplementsAdmission, A!ASpec
=============================================================================
