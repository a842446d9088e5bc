----------------------------- MODULE CoreManager -----------------------------
(***************************************************************************)
(* The manager's CoreManager (manager/CoreManager.cpp): one client thread  *)
(* starts cores, any thread ends them and sends to them, and a listener    *)
(* thread, alive while there is a core, reads what they send.              *)
(*                                                                         *)
(* coresMutex_ is held by the listener from the end of its select() to the *)
(* end of the iteration; the other users of it are single steps.           *)
(***************************************************************************)
EXTENDS Connection

CONSTANTS
  IdModulus,   \* ids are counted modulo this: 256 in the code, a uint8_t
  MaxRunning,  \* bound: cores that run at once
  MaxPackets   \* bound: calls of sendPacket(), endCore() and endCoreConnection()

ASSUME ManagerAssumption ==
  IdModulus \in Nat \ {0, 1} /\ MaxRunning \in Nat /\ MaxPackets \in Nat

VARIABLES
  client,       \* where the thread that starts cores is
  starting,     \* the core it starts
  cores,        \* cores_: from id to core, the connection goes with it
  nextAvailableCoreId,
  listener,     \* where the listener thread is
  armed,        \* the cores in its fd_set
  ready,        \* those that select() found readable
  quitReady,    \* whether it found the quit socket readable
  quit,         \* the quit socket: ids to disconnect, 0 to look again
  reset,        \* connections on which a send found the core gone
  fate,         \* "alive", or what the manager process came to
  stdin,        \* descriptor 0 of the manager: "open", or "closed" by the listener
  packets,      \* calls counted against MaxPackets
  issued        \* history: the core each id was given to

clientVars   == <<client, starting>>
registryVars == <<cores, nextAvailableCoreId, issued>>
listenerVars == <<listener, armed, ready, quitReady>>
managerVars  == <<clientVars, registryVars, listenerVars, quit, reset, fate, stdin, packets>>

CoreId == 0..(IdModulus - 1)

LockFree == listener # "serve"

ManagerInit ==
  /\ client = "idle" /\ starting = CHOOSE c \in Core : TRUE
  /\ cores = <<>> /\ nextAvailableCoreId = 1 /\ issued = <<>>
  /\ listener = "none" /\ armed = {} /\ ready = {} /\ quitReady = FALSE
  /\ quit = <<>> /\ reset = {} /\ fate = "alive" /\ packets = 0
  /\ stdin = "open"

-----------------------------------------------------------------------------
(* startCore().                                                            *)

\* close(listenSocket): connections that were not accepted are reset.
CloseListenSocket(accepted) ==
  /\ listening' = IF listening = "open" THEN "none" ELSE listening
  /\ backlog' = IF listening = "open" THEN <<>> ELSE backlog
  /\ managerEnd' = [c \in Core |->
       CASE c \in accepted -> "open"
         [] c \notin accepted /\ listening = "open" /\ Contains(backlog, c) -> "closed"
         [] OTHER -> managerEnd[c]]

\* Processes that were not started yet are all alike: any one will do.
Fresh == CHOOSE c \in Core : process[c] = "none"

\* startConnectCore_ and startCore_; one that throws closes what it opened.
\* While a leaked socket holds the port, bind() fails, unchecked, and the
\* client listens where no core connects.
StartCore(c) ==
  /\ client = "idle" /\ process[c] = "none" /\ c = Fresh
  /\ Cardinality({d \in Core : process[d] = "running"}) < MaxRunning
  /\ client' = "connecting" /\ starting' = c
  /\ listening' = IF listening = "none" THEN "open" ELSE listening
  /\ process' = [process EXCEPT ![c] = "running"]
  /\ UNCHANGED <<backlog, toCore, toManager, coreEnd, managerEnd,
                 registryVars, listenerVars, quit, reset, fate, packets, stdin>>

\* select() gives up after five seconds: the process is killed and the
\* listening socket is left open.
ConnectTimesOut ==
  /\ client = "connecting" /\ ~ (listening = "open" /\ backlog # <<>>)
  /\ client' = "idle"
  /\ Dies(starting)
  /\ listening' = IF listening = "open" THEN "leaked" ELSE listening
  /\ UNCHANGED <<backlog, toManager, managerEnd, starting, registryVars,
                 listenerVars, quit, reset, fate, packets, stdin>>

\* accept() and the handshake.  A core that was gone before it said CONNECT
\* leaves the opcode uninitialised: the handshake is refused or goes on.  Of
\* the three sends to a core that is gone the second raises SIGPIPE.
Accept ==
  LET core == Head(backlog)
      silent == toManager[core] = <<>>
  IN
  /\ client = "connecting" /\ listening = "open" /\ backlog # <<>>
  /\ starting' = core
  /\ toManager' = [toManager EXCEPT ![core] = IF silent THEN @ ELSE Tail(@)]
  /\ \/ /\ silent
        /\ CloseListenSocket({})
        /\ client' = "idle"
        /\ UNCHANGED <<toCore, fate>>
     \/ /\ CloseListenSocket({core})
        /\ IF coreEnd[core] = "closed"
           THEN fate' = "sigpipe" /\ UNCHANGED <<client, toCore>>
           ELSE client' = "await" /\ SendToCore(core, "CONNECT_OK") /\ UNCHANGED fate
  /\ UNCHANGED <<process, coreEnd, registryVars, listenerVars, quit, reset, packets, stdin>>

\* A core that dies here leaves the client reading nothing for ever.
AwaitReady ==
  /\ client = "await" /\ toManager[starting] # <<>>
  /\ client' = IF Head(toManager[starting]) = "READY" THEN "register" ELSE client
  /\ toManager' = [toManager EXCEPT ![starting] = Tail(@)]
  /\ UNCHANGED <<process, listening, backlog, toCore, coreEnd, managerEnd, starting,
                 registryVars, listenerVars, quit, reset, fate, packets, stdin>>

\* Mutant: the listener is not told of a new core.
AssumesAwake == quit' = quit

\* A zero on the quit socket breaks the listener out of select().
NotifyListener == quit' = Append(quit, 0)

\* Mutant: the listener is only notified.
OnlyNotifies == NotifyListener /\ UNCHANGED <<listener, fate>>

\* The listener is started with the first core and notified of the others;
\* a thread that was started before cannot be assigned to.
WakeListener ==
  IF Cardinality(DOMAIN cores') = 1
  THEN /\ IF listener = "none" THEN listener' = "arm" /\ UNCHANGED fate
                               ELSE fate' = "terminate" /\ UNCHANGED listener
       /\ UNCHANGED quit
  ELSE NotifyListener /\ UNCHANGED <<listener, fate>>

GetNextAvailableCoreId == nextAvailableCoreId

\* Mutant: the id does not wrap.
Unwrapped == nextAvailableCoreId + 1

\* Mutant: the id wraps past the zero that means there is none left.
SkipsZero == (nextAvailableCoreId % (IdModulus - 1)) + 1

FollowingCoreId == (nextAvailableCoreId + 1) % IdModulus

\* The last step of startCore(), under the lock; the information that the
\* managers send the new core may stop at an exception of theirs.
Register ==
  /\ client = "register" /\ LockFree /\ nextAvailableCoreId # 0
  /\ client' = "idle"
  /\ LET id == GetNextAvailableCoreId IN
       /\ cores' = With(cores, id, starting)
       /\ issued' = IF id \in DOMAIN issued THEN issued ELSE With(issued, id, starting)
       /\ nextAvailableCoreId' = FollowingCoreId
  /\ WakeListener
  /\ \/ coreEnd[starting] = "open" /\ SendToCore(starting, "INFO")
     \/ UNCHANGED toCore
  /\ UNCHANGED <<process, listening, backlog, toManager, coreEnd, managerEnd, starting,
                 armed, ready, quitReady, reset, packets, stdin>>

\* The core is gone when the managers send: SIGPIPE.
RegisterGone ==
  /\ client = "register" /\ LockFree /\ nextAvailableCoreId # 0
  /\ coreEnd[starting] = "closed"
  /\ fate' = "sigpipe"
  /\ UNCHANGED <<connectionVars, clientVars, registryVars, listenerVars, quit, reset,
                 packets, stdin>>

\* The ids ran out: the core stays connected and is not registered.
RegisterFails ==
  /\ client = "register" /\ LockFree /\ nextAvailableCoreId = 0
  /\ client' = "idle"
  /\ UNCHANGED <<connectionVars, starting, registryVars, listenerVars, quit, reset,
                 fate, packets, stdin>>

-----------------------------------------------------------------------------
(* endCoreConnection(), endCore(), sendPacket() and the destructor.         *)

\* What one send does: to a core that is gone the first is answered with a
\* reset, and the next one raises SIGPIPE.
SendOnce(ids, packet) ==
  LET all  == {cores[id] : id \in ids}
      gone == {c \in all : coreEnd[c] = "closed"}
  IN  IF gone \cap reset # {}
      THEN fate' = "sigpipe" /\ UNCHANGED <<toCore, reset>>
      ELSE /\ toCore' = [c \in Core |-> IF c \in all THEN Append(toCore[c], packet)
                                                     ELSE toCore[c]]
           /\ reset' = reset \cup gone
           /\ UNCHANGED fate

EndCore(id) ==
  /\ client # "destroyed" /\ client # "joining" /\ LockFree
  /\ id \in DOMAIN cores /\ packets < MaxPackets
  /\ packets' = packets + 1
  /\ SendOnce({id}, "DISCONNECT")
  /\ quit' = IF fate' = "alive" THEN Append(quit, id) ELSE quit
  /\ UNCHANGED <<process, listening, backlog, toManager, coreEnd, managerEnd,
                 clientVars, registryVars, listenerVars, stdin>>

\* A packet is two sends, so one core that is gone is enough for SIGPIPE.
SendPacket ==
  /\ client # "destroyed" /\ client # "joining" /\ LockFree
  /\ DOMAIN cores # {} /\ packets < MaxPackets
  /\ packets' = packets + 1
  /\ IF \E id \in DOMAIN cores : coreEnd[cores[id]] = "closed"
     THEN fate' = "sigpipe" /\ UNCHANGED <<toCore, reset>>
     ELSE SendOnce(DOMAIN cores, "INFO")
  /\ UNCHANGED <<process, listening, backlog, toManager, coreEnd, managerEnd,
                 clientVars, registryVars, listenerVars, quit, stdin>>

\* The registered ids in the order of the map.
Registered == {ids \in [1..Cardinality(DOMAIN cores) -> DOMAIN cores] :
                 \A i, j \in DOMAIN ids : i < j => ids[i] < ids[j]}

\* endAllCoreConnections_, then the join.
Destroy ==
  /\ client = "idle" /\ LockFree
  /\ client' = "joining"
  /\ SendOnce(DOMAIN cores, "DISCONNECT")
  /\ \E ids \in Registered : quit' = quit \o ids
  /\ UNCHANGED <<process, listening, backlog, toManager, coreEnd, managerEnd,
                 starting, registryVars, listenerVars, packets, stdin>>

Joined ==
  /\ client = "joining" /\ listener \in {"none", "finished"}
  /\ client' = "destroyed"
  /\ UNCHANGED <<connectionVars, starting, registryVars, listenerVars, quit, reset,
                 fate, packets, stdin>>

-----------------------------------------------------------------------------
(* coreListener_, the thread.                                              *)

\* Mutant: it does not end.
NeverEnds ==
  /\ listener = "arm"
  /\ listener' = "select" /\ armed' = DOMAIN cores
  /\ UNCHANGED <<connectionVars, clientVars, registryVars, ready, quitReady, quit,
                 reset, fate, packets, stdin>>

\* It ends when there is no core left, else it fills its fd_set.
Arm ==
  /\ listener = "arm"
  /\ IF cores = <<>> THEN listener' = "finished" /\ UNCHANGED armed
                     ELSE listener' = "select" /\ armed' = DOMAIN cores
  /\ UNCHANGED <<connectionVars, clientVars, registryVars, ready, quitReady, quit,
                 reset, fate, packets, stdin>>

\* Mutant: the end of the stream is not looked at.
HasData(id) == toManager[cores[id]] # <<>>

Readable(id) == toManager[cores[id]] # <<>> \/ ManagerAtEnd(cores[id])

Select ==
  /\ listener = "select"
  /\ ready' = {id \in armed : Readable(id)}
  /\ quitReady' = (quit # <<>>)
  /\ ready' # {} \/ quitReady'
  /\ listener' = "lock" /\ armed' = {}
  /\ UNCHANGED <<connectionVars, clientVars, registryVars, quit, reset, fate,
                 packets, stdin>>

\* Mutant: the connection is closed and the core stays registered.
ClosesOnly(id) ==
  /\ managerEnd' = [managerEnd EXCEPT ![cores[id]] = "closed"]
  /\ toManager' = [toManager EXCEPT ![cores[id]] = <<>>]
  /\ UNCHANGED cores

Drop(id) ==
  /\ managerEnd' = [managerEnd EXCEPT ![cores[id]] = "closed"]
  /\ toManager' = [toManager EXCEPT ![cores[id]] = <<>>]
  /\ cores' = Without(cores, id)

\* An id that is not registered any more finds a new entry in cores_, whose
\* socket is 0: the manager closes its standard input and erases the entry.
\* What a second one closes has taken descriptor 0 since: it is not followed.
ClosesStdin ==
  /\ IF stdin = "open" THEN stdin' = "closed" /\ UNCHANGED fate
                       ELSE fate' = "closed0" /\ UNCHANGED stdin
  /\ UNCHANGED <<managerEnd, toManager, cores>>

\* Under the lock, the quit socket first.
ReadQuit ==
  /\ listener = "lock" /\ quitReady
  /\ LET coreToQuit == Head(quit) IN
       \/ coreToQuit = 0 /\ UNCHANGED <<managerEnd, toManager, cores, fate, stdin>>
       \/ coreToQuit # 0 /\ coreToQuit \in DOMAIN cores /\ Drop(coreToQuit)
            /\ UNCHANGED <<fate, stdin>>
       \/ coreToQuit # 0 /\ coreToQuit \notin DOMAIN cores /\ ClosesStdin
  /\ quit' = Tail(quit)
  /\ listener' = "serve" /\ quitReady' = FALSE
  /\ UNCHANGED <<process, listening, backlog, toCore, coreEnd, clientVars,
                 nextAvailableCoreId, issued, armed, ready, reset, packets>>

\* The cores that were readable, by id: one packet, or the end of the core.
ServeCore(id) ==
  /\ listener = "serve" \/ (listener = "lock" /\ ~ quitReady)
  /\ listener' = "serve"
  /\ id \in ready \cap DOMAIN cores /\ \A other \in ready \cap DOMAIN cores : id <= other
  /\ ready' = ready \ {id}
  /\ IF ManagerAtEnd(cores[id])
     THEN Drop(id)
     ELSE /\ toManager' = [toManager EXCEPT ![cores[id]] = Tail(@)]
          /\ UNCHANGED <<managerEnd, cores>>
  /\ UNCHANGED <<process, listening, backlog, toCore, coreEnd, clientVars,
                 nextAvailableCoreId, issued, armed, quitReady, quit, reset,
                 fate, packets, stdin>>

EndIteration ==
  /\ listener = "serve" /\ ready \cap DOMAIN cores = {}
  /\ listener' = "arm" /\ ready' = {}
  /\ UNCHANGED <<connectionVars, clientVars, registryVars, armed, quitReady, quit, reset,
                 fate, packets, stdin>>

-----------------------------------------------------------------------------
StartStep ==
  \/ ConnectTimesOut \/ Accept \/ AwaitReady
  \/ Register \/ RegisterGone \/ RegisterFails
  \/ \E c \in Core : StartCore(c)

ListenerStep ==
  Arm \/ Select \/ ReadQuit \/ EndIteration \/ \E id \in DOMAIN cores : ServeCore(id)

ManagerNext ==
  /\ fate = "alive"
  /\ \/ StartStep \/ ListenerStep \/ Destroy \/ Joined \/ SendPacket
     \/ \E id \in DOMAIN cores : EndCore(id)

ManagerTypes ==
  /\ client \in {"idle", "connecting", "await", "register",
                 "joining", "destroyed"}
  /\ starting \in Core
  /\ DOMAIN cores \subseteq CoreId /\ \A id \in DOMAIN cores : cores[id] \in Core
  /\ DOMAIN issued \subseteq CoreId /\ \A id \in DOMAIN issued : issued[id] \in Core
  /\ nextAvailableCoreId \in CoreId
  /\ listener \in {"none", "arm", "select", "lock", "serve", "finished"}
  /\ armed \subseteq CoreId /\ ready \subseteq CoreId /\ quitReady \in BOOLEAN
  /\ quit \in Seq(CoreId) /\ reset \subseteq Core
  /\ fate \in {"alive", "terminate", "sigpipe", "closed0"} /\ packets \in 0..MaxPackets
  /\ stdin \in {"open", "closed"}
=============================================================================
