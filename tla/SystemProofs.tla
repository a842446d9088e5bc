----------------------------- MODULE SystemProofs -----------------------------
(***************************************************************************)
(* The registry of the manager names open connections only, each id one    *)
(* core, and somebody listens to every core and is woken for it: for any   *)
(* number of cores, ids and packets, whatever mix of cores starts, leaves, *)
(* dies and is told to go. No fairness is needed.                          *)
(***************************************************************************)
EXTENDS System, FiniteSetTheorems, SequenceTheorems, TLAPS

-----------------------------------------------------------------------------
(* The inductive invariant.                                                *)

\* A registered core has the id it was given.
Recorded == IdsNotReused /\ DOMAIN cores \subseteq DOMAIN issued

\* Registered cores are open, each under one id, and the ids that were given
\* are below the next one until there is no next one.
Registry ==
  /\ RegisteredIsOpen
  /\ nextAvailableCoreId # 0 => \A id \in DOMAIN issued : id < nextAvailableCoreId

\* The core that is being started is open and not registered yet; the ones
\* before it, on the way to accept(), have no connection of the manager's.
Newcomers ==
  /\ client \in {"await", "register"} =>
       managerEnd[starting] = "open" /\ \A id \in DOMAIN cores : cores[id] # starting
  /\ \A i \in DOMAIN backlog :
       managerEnd[backlog[i]] = "none" /\ program[backlog[i]] # "Core()"
  /\ \A c \in Core :
       /\ program[c] = "Core()" => managerEnd[c] = "none"
       /\ process[c] = "none" => program[c] = "Core()"

\* What the listener knows: of whom it may have to be woken for, and that
\* what select() has found is still there when it is used.
Listening ==
  /\ Listened /\ Watched
  /\ armed \subseteq DOMAIN issued /\ ready \subseteq DOMAIN issued
  /\ quitReady => listener = "lock" /\ quit # <<>>
  /\ listener \in {"lock", "serve"} => \A id \in ready \cap DOMAIN cores : Readable(id)

\* The two threads on their way through disconnect_(): while isConnected_ is
\* cleared and the socket still open, one of them is about to close it, and
\* the one that does not see to it that the other has before ~Core returns.
Leaving ==
  \A c \in Core :
    /\ managerListener[c] # "none" => program[c] \notin {"Core()", "handshake"}
    /\ process[c] = "running" =>
         /\ program[c] \in {"close", "join", "~Core()"} \/ managerListener[c] \in {"close", "done"}
              => ~ isConnected[c]
         /\ program[c] \notin {"Core()", "handshake", "gone"} /\ ~ isConnected[c]
              => coreEnd[c] = "closed" \/ program[c] = "close" \/ managerListener[c] = "close"
         /\ program[c] = "~Core()" => managerListener[c] = "done"

IInv ==
  /\ TypeOK /\ Leaving /\ Recorded
  /\ Alive => Registry /\ Newcomers /\ Listening

-----------------------------------------------------------------------------
(* Types.                                                                  *)

LEMMA NextIdType ==
  ASSUME nextAvailableCoreId \in CoreId
  PROVE  /\ FollowingCoreId \in CoreId
         /\ FollowingCoreId # 0 => FollowingCoreId = nextAvailableCoreId + 1
<1>1. CASE nextAvailableCoreId + 1 < IdModulus
  BY <1>1, ManagerAssumption DEF FollowingCoreId, CoreId
<1>2. CASE nextAvailableCoreId + 1 = IdModulus
  BY <1>2, ManagerAssumption DEF FollowingCoreId, CoreId
<1> QED
  BY <1>1, <1>2, ManagerAssumption DEF CoreId

LEMMA RegisteredType ==
  ASSUME TypeOK, NEW ids \in Registered
  PROVE  ids \in Seq(CoreId)
<1>1. DOMAIN cores \subseteq CoreId /\ IsFiniteSet(CoreId)
  <2>1. 0 \in Int /\ IdModulus - 1 \in Int
    BY ManagerAssumption
  <2> QED
    BY <2>1, FS_Interval DEF TypeOK, ManagerTypes, CoreId
<1>2. Cardinality(DOMAIN cores) \in Nat
  BY <1>1, FS_Subset, FS_CardinalityType
<1>3. ids \in [1..Cardinality(DOMAIN cores) -> CoreId]
  BY <1>1 DEF Registered
<1> QED
  BY <1>2, <1>3

LEMMA InitTypes ==
  ASSUME Init
  PROVE  TypeOK
<1>1. ConnectionTypes
  BY DEF Init, ConnectionInit, ConnectionTypes, End
<1>2. ManagerTypes
  <2>1. 1 \in CoreId /\ 0 \in 0..MaxPackets
    BY ManagerAssumption DEF CoreId
  <2>2. starting \in Core
    BY CoreAssumption DEF Init, ManagerInit
  <2>3. DOMAIN cores = {} /\ DOMAIN issued = {}
    BY DEF Init, ManagerInit
  <2>4. quit \in Seq(CoreId) /\ nextAvailableCoreId \in CoreId /\ packets \in 0..MaxPackets
    BY <2>1 DEF Init, ManagerInit
  <2> QED
    BY <2>2, <2>3, <2>4 DEF Init, ManagerInit, ManagerTypes
<1>3. CoreTypes
  BY DEF Init, CoreInit, CoreTypes
<1> QED
  BY <1>1, <1>2, <1>3 DEF TypeOK

\* A packet more, or one less, in the stream of a connection.
LEMMA StreamTypes ==
  ASSUME NEW S, NEW stream \in [Core -> Seq(S)], NEW c \in Core
  PROVE  /\ [stream EXCEPT ![c] = <<>>] \in [Core -> Seq(S)]
         /\ stream[c] # <<>> => /\ [stream EXCEPT ![c] = Tail(@)] \in [Core -> Seq(S)]
                                /\ Head(stream[c]) \in S
OBVIOUS

LEMMA LongerStream ==
  ASSUME NEW S, NEW stream \in [Core -> Seq(S)], NEW c \in Core, NEW packet \in S
  PROVE  [stream EXCEPT ![c] = Append(@, packet)] \in [Core -> Seq(S)]
OBVIOUS

LEMMA SentTypes ==
  ASSUME ConnectionTypes, NEW c \in Core, NEW packet \in ClientPacket, SendToManager(c, packet)
  PROVE  toManager' \in [Core -> Seq(ClientPacket)]
<1>1. toManager \in [Core -> Seq(ClientPacket)]
  BY DEF ConnectionTypes
<1>2. toManager' = toManager \/ toManager' = [toManager EXCEPT ![c] = Append(@, packet)]
  BY DEF SendToManager
<1>3. [toManager EXCEPT ![c] = Append(@, packet)] \in [Core -> Seq(ClientPacket)]
  BY <1>1, LongerStream
<1> QED
  BY <1>1, <1>2, <1>3

\* A step of a core keeps the types of what it changes.
LEMMA CoreTypesStep ==
  ASSUME TypeOK, CoreNext, UNCHANGED managerVars
  PROVE  TypeOK'
<1>0. ManagerTypes'
  BY DEF TypeOK, managerVars, clientVars, registryVars, listenerVars, ManagerTypes
<1>1. ASSUME NEW c \in Core, Ends(c) PROVE ConnectionTypes' /\ CoreTypes'
  BY <1>1 DEF TypeOK, ConnectionTypes, CoreTypes, End, Ends, Dies, ClosedByDeath, Goes
<1>2. ASSUME NEW c \in Core, CoreStep(c) PROVE ConnectionTypes' /\ CoreTypes'
  <2>0. {"CONNECT", "READY", "LOG"} \subseteq ClientPacket
    BY DEF ClientPacket
  <2>1. ASSUME Connect(c), ~ Ends(c) PROVE ConnectionTypes' /\ CoreTypes'
    <3>1. toManager' \in [Core -> Seq(ClientPacket)]
      BY <2>0, <2>1, SentTypes DEF TypeOK, Connect
    <3>2. backlog' = Append(backlog, c) /\ backlog \in Seq(Core)
      BY <2>1 DEF Connect, TypeOK, ConnectionTypes
    <3>3. backlog' \in Seq(Core)
      BY <3>2
    <3>4. coreEnd' \in [Core -> End] /\ program' \in [Core -> {"Core()", "handshake", "main",
            "clear", "close", "join", "~Core()", "gone"}]
      BY <2>1 DEF Connect, TypeOK, ConnectionTypes, CoreTypes, Goes, End
    <3> QED
      BY <2>1, <3>1, <3>3, <3>4 DEF Connect, TypeOK, ConnectionTypes, CoreTypes
  <2>2. ASSUME ShakeHands(c), ~ Ends(c) PROVE ConnectionTypes' /\ CoreTypes'
    <3>1. toManager' \in [Core -> Seq(ClientPacket)]
      BY <2>0, <2>2, SentTypes DEF TypeOK, ShakeHands
    <3>2. CoreAtEnd(c) \/ Contains(toCore[c], "CONNECT_OK")
      BY <2>2 DEF ShakeHands
    <3>3. toCore' \in [Core -> Seq(ServerPacket)]
      <4> DEFINE rest == IF CoreAtEnd(c) THEN toCore[c] ELSE Tail(toCore[c])
      <4>1. toCore[c] \in Seq(ServerPacket) /\ toCore \in [Core -> Seq(ServerPacket)]
        BY DEF TypeOK, ConnectionTypes
      <4>2. CoreAtEnd(c) \/ toCore[c] # <<>>
        BY <3>2 DEF Contains
      <4>3. rest \in Seq(ServerPacket)
        BY <4>1, <4>2 DEF CoreAtEnd
      <4>4. toCore' = [toCore EXCEPT ![c] = rest]
        BY <2>2 DEF ShakeHands
      <4> QED
        BY <4>1, <4>3, <4>4
    <3> QED
      BY <2>2, <3>1, <3>3 DEF ShakeHands, TypeOK, ConnectionTypes, CoreTypes, Goes
  <2>3. CASE ListenerLeaves(c)
    <3>1. toCore' = IF Asked(c) THEN [toCore EXCEPT ![c] = Tail(@)] ELSE toCore
      BY <2>3 DEF ListenerLeaves, Asked
    <3>2. Asked(c) => toCore[c] # <<>>
      BY DEF Asked
    <3>3. toCore' \in [Core -> Seq(ServerPacket)]
      BY <3>1, <3>2, StreamTypes DEF TypeOK, ConnectionTypes, Asked
    <3> QED
      BY <2>3, <3>3 DEF ListenerLeaves, TypeOK, ConnectionTypes, CoreTypes, Goes
  <2>4. ASSUME Handle(c), ~ Ends(c) PROVE ConnectionTypes' /\ CoreTypes'
    <3>1. toManager' = toManager \/ SendToManager(c, "LOG")
      BY <2>4 DEF Handle
    <3>2. toManager' \in [Core -> Seq(ClientPacket)]
      BY <2>0, <3>1, SentTypes DEF TypeOK, ConnectionTypes
    <3>3. toCore[c] # <<>> /\ toCore' = [toCore EXCEPT ![c] = Tail(@)]
      BY <2>4 DEF Handle
    <3>4. toCore' \in [Core -> Seq(ServerPacket)]
      BY <3>3, StreamTypes DEF TypeOK, ConnectionTypes
    <3> QED
      BY <2>4, <3>2, <3>4 DEF Handle, coreVars, TypeOK, ConnectionTypes, CoreTypes
  <2>5. CASE ListenerClears(c) \/ ListenerCloses(c)
    BY <2>5 DEF ListenerClears, ListenerCloses, Goes, connectionVars, TypeOK, ConnectionTypes,
                CoreTypes, End
  <2>6. CASE ExitClears(c) \/ ExitCloses(c)
    BY <2>6 DEF ExitClears, ExitCloses, Goes, connectionVars, TypeOK, ConnectionTypes,
                CoreTypes, End
  <2>7. CASE ExitJoins(c)
    BY <2>7 DEF ExitJoins, Goes, connectionVars, TypeOK, ConnectionTypes, CoreTypes
  <2>8. CASE ExitEnds(c)
    BY <2>8, <1>1 DEF ExitEnds
  <2> QED
    BY <1>1, <1>2, <2>1, <2>2, <2>3, <2>4, <2>5, <2>6, <2>7, <2>8 DEF CoreStep
<1>3. ASSUME NEW c \in Core, Exit(c) PROVE ConnectionTypes' /\ CoreTypes'
  BY <1>3 DEF Exit, Goes, connectionVars, TypeOK, ConnectionTypes, CoreTypes
<1>4. ASSUME NEW c \in Core, DiesConnecting(c) PROVE ConnectionTypes' /\ CoreTypes'
  <2>1. backlog' = Append(backlog, c) /\ backlog \in Seq(Core)
    BY <1>4 DEF DiesConnecting, TypeOK, ConnectionTypes
  <2>2. backlog' \in Seq(Core)
    BY <2>1
  <2> QED
    BY <1>4, <2>2 DEF DiesConnecting, Goes, TypeOK, ConnectionTypes, CoreTypes, End
<1> QED
  BY <1>0, <1>1, <1>2, <1>3, <1>4 DEF CoreNext, Crash, TypeOK

\* What a send leaves is of its type.
LEMMA SendOnceTypes ==
  ASSUME TypeOK, NEW ids \in SUBSET DOMAIN cores, NEW packet \in ServerPacket,
         SendOnce(ids, packet)
  PROVE  /\ toCore' \in [Core -> Seq(ServerPacket)]
         /\ reset' \subseteq Core
         /\ fate' \in {"alive", "terminate", "sigpipe", "closed0"}
<1> DEFINE all == {cores[id] : id \in ids}
           gone == {c \in all : coreEnd[c] = "closed"}
           Longer == [c \in Core |-> IF c \in all THEN Append(toCore[c], packet) ELSE toCore[c]]
<1>1. /\ toCore \in [Core -> Seq(ServerPacket)] /\ reset \subseteq Core
      /\ fate \in {"alive", "terminate", "sigpipe", "closed0"}
  BY DEF TypeOK, ConnectionTypes, ManagerTypes
<1>2. gone \subseteq Core
  BY DEF TypeOK, ManagerTypes
<1>3. \A c \in Core : Append(toCore[c], packet) \in Seq(ServerPacket)
  BY <1>1
<1>4. Longer \in [Core -> Seq(ServerPacket)]
  BY <1>1, <1>3
<1>5. \/ toCore' = toCore /\ reset' = reset /\ fate' = "sigpipe"
      \/ toCore' = Longer /\ reset' = reset \cup gone /\ fate' = fate
  BY DEF SendOnce
<1> QED
  BY <1>1, <1>2, <1>4, <1>5

\* A core that is dropped leaves the registry.
LEMMA DropTypes ==
  ASSUME TypeOK, NEW id \in DOMAIN cores, Drop(id)
  PROVE  /\ managerEnd' \in [Core -> End] /\ toManager' \in [Core -> Seq(ClientPacket)]
         /\ DOMAIN cores' = DOMAIN cores \ {id}
         /\ \A other \in DOMAIN cores' : cores'[other] = cores[other]
<1>1. cores[id] \in Core
  BY DEF TypeOK, ManagerTypes
<1>2. managerEnd' \in [Core -> End]
  BY <1>1 DEF Drop, TypeOK, ConnectionTypes, End
<1>3. toManager' = [toManager EXCEPT ![cores[id]] = <<>>]
  BY DEF Drop
<1>4. toManager' \in [Core -> Seq(ClientPacket)]
  BY <1>1, <1>3, StreamTypes DEF TypeOK, ConnectionTypes
<1>5. cores' = [k \in DOMAIN cores \ {id} |-> cores[k]]
  BY DEF Drop, Without, Restrict
<1> QED
  BY <1>2, <1>4, <1>5

\* A step of the client thread that starts cores keeps the types.
LEMMA StartTypesStep ==
  ASSUME IInv, Alive, StartStep, UNCHANGED coreVars
  PROVE  TypeOK'
<1>0. TypeOK /\ CoreTypes'
  BY DEF IInv, TypeOK, coreVars, CoreTypes
<1>1. ASSUME NEW c \in Core, StartCore(c) PROVE TypeOK'
  BY <1>0, <1>1 DEF StartCore, registryVars, listenerVars, TypeOK, ConnectionTypes, ManagerTypes
<1>2. CASE ConnectTimesOut
  <2>1. toCore' \in [Core -> Seq(ServerPacket)]
    <3>1. toCore' = [toCore EXCEPT ![starting] = <<>>]
      BY <1>2 DEF ConnectTimesOut, Dies
    <3> QED
      BY <1>0, <3>1, StreamTypes DEF TypeOK, ConnectionTypes, ManagerTypes
  <2> QED
    BY <1>0, <1>2, <2>1 DEF ConnectTimesOut, Dies, ClosedByDeath, registryVars, listenerVars,
                            TypeOK, ConnectionTypes, ManagerTypes, End
<1>3. CASE Accept
  <2> DEFINE core == Head(backlog)
  <2>1. backlog # <<>> /\ starting' = core
    BY <1>3 DEF Accept
  <2>2. core \in Core
    BY <1>0, <2>1 DEF TypeOK, ConnectionTypes
  <2>3. toManager' \in [Core -> Seq(ClientPacket)]
    <3> DEFINE rest == IF toManager[core] = <<>> THEN toManager[core] ELSE Tail(toManager[core])
    <3>1. toManager \in [Core -> Seq(ClientPacket)] /\ toManager[core] \in Seq(ClientPacket)
      BY <1>0, <2>2 DEF TypeOK, ConnectionTypes
    <3>2. rest \in Seq(ClientPacket)
      BY <3>1
    <3>3. toManager' = [toManager EXCEPT ![core] = rest]
      BY <1>3 DEF Accept
    <3> QED
      BY <3>1, <3>2, <3>3
  <2>4. ASSUME NEW accepted, CloseListenSocket(accepted)
        PROVE  /\ listening' \in {"none", "open", "leaked"} /\ backlog' \in Seq(Core)
               /\ managerEnd' \in [Core -> End]
    BY <1>0, <2>4 DEF CloseListenSocket, TypeOK, ConnectionTypes, End
  <2>5. /\ listening' \in {"none", "open", "leaked"} /\ backlog' \in Seq(Core)
        /\ managerEnd' \in [Core -> End]
    BY <1>3, <2>4 DEF Accept
  <2>6. toCore' \in [Core -> Seq(ServerPacket)]
    <3>1. toCore' = toCore \/ toCore' = [toCore EXCEPT ![core] = Append(@, "CONNECT_OK")]
      BY <1>3 DEF Accept, SendToCore
    <3>2. "CONNECT_OK" \in ServerPacket /\ toCore \in [Core -> Seq(ServerPacket)]
      BY <1>0 DEF TypeOK, ConnectionTypes, ServerPacket
    <3>3. [toCore EXCEPT ![core] = Append(@, "CONNECT_OK")] \in [Core -> Seq(ServerPacket)]
      BY <2>2, <3>2, LongerStream
    <3> QED
      BY <3>1, <3>2, <3>3
  <2>7. client' \in {"idle", "connecting", "await"} /\ fate' \in {"alive", "sigpipe"}
    BY <1>3 DEF Accept, Alive
  <2>8. UNCHANGED <<process, coreEnd, registryVars, listenerVars, quit, reset, packets, stdin>>
    BY <1>3 DEF Accept
  <2>9. ConnectionTypes'
    BY <1>0, <2>3, <2>5, <2>6, <2>8 DEF TypeOK, ConnectionTypes
  <2> QED
    BY <1>0, <2>1, <2>2, <2>7, <2>8, <2>9 DEF registryVars, listenerVars, TypeOK, ManagerTypes
<1>4. CASE AwaitReady
  <2>1. toManager' \in [Core -> Seq(ClientPacket)]
    <3>1. toManager[starting] # <<>> /\ toManager' = [toManager EXCEPT ![starting] = Tail(@)]
      BY <1>4 DEF AwaitReady
    <3> QED
      BY <1>0, <3>1, StreamTypes DEF TypeOK, ConnectionTypes, ManagerTypes
  <2>2. client' \in {"await", "register"}
    BY <1>4 DEF AwaitReady
  <2>3. ConnectionTypes'
    BY <1>0, <1>4, <2>1 DEF AwaitReady, TypeOK, ConnectionTypes
  <2> QED
    BY <1>0, <1>4, <2>2, <2>3 DEF AwaitReady, registryVars, listenerVars, TypeOK, ManagerTypes
<1>5. CASE Register
  <2> DEFINE id == nextAvailableCoreId
  <2>1. id \in CoreId /\ FollowingCoreId \in CoreId /\ starting \in Core
    BY <1>0, NextIdType DEF TypeOK, ManagerTypes
  <2>2. /\ cores' = [k \in DOMAIN cores \cup {id} |-> IF k = id THEN starting ELSE cores[k]]
        /\ nextAvailableCoreId' = FollowingCoreId
        /\ \/ issued' = issued
           \/ issued' = [k \in DOMAIN issued \cup {id} |-> IF k = id THEN starting ELSE issued[k]]
    BY <1>5 DEF Register, GetNextAvailableCoreId, With
  <2>3. /\ DOMAIN cores' \subseteq CoreId /\ \A k \in DOMAIN cores' : cores'[k] \in Core
        /\ DOMAIN issued' \subseteq CoreId /\ \A k \in DOMAIN issued' : issued'[k] \in Core
    BY <1>0, <2>1, <2>2 DEF TypeOK, ManagerTypes
  <2>4. /\ listener' \in {"none", "arm", "select", "lock", "serve", "finished"}
        /\ fate' \in {"alive", "terminate"}
    BY <1>0, <1>5 DEF Register, WakeListener, NotifyListener, Alive, TypeOK, ManagerTypes
  <2>5. quit' \in Seq(CoreId)
    <3>1. 0 \in CoreId
      BY ManagerAssumption DEF CoreId
    <3>2. quit' = quit \/ quit' = Append(quit, 0)
      BY <1>5 DEF Register, WakeListener, NotifyListener
    <3>3. quit \in Seq(CoreId)
      BY <1>0 DEF TypeOK, ManagerTypes
    <3> QED
      BY <3>1, <3>2, <3>3
  <2>6. toCore' \in [Core -> Seq(ServerPacket)]
    <3>1. toCore' = toCore \/ toCore' = [toCore EXCEPT ![starting] = Append(@, "INFO")]
      BY <1>5 DEF Register, SendToCore
    <3>2. "INFO" \in ServerPacket /\ toCore \in [Core -> Seq(ServerPacket)]
      BY <1>0 DEF TypeOK, ConnectionTypes, ServerPacket
    <3>3. [toCore EXCEPT ![starting] = Append(@, "INFO")] \in [Core -> Seq(ServerPacket)]
      BY <2>1, <3>2, LongerStream
    <3> QED
      BY <3>1, <3>2, <3>3
  <2>7. ConnectionTypes'
    BY <1>0, <1>5, <2>6 DEF Register, TypeOK, ConnectionTypes
  <2>8. /\ client' = "idle" /\ UNCHANGED <<starting, armed, ready, quitReady, reset, packets, stdin>>
    BY <1>5 DEF Register
  <2> QED
    BY <1>0, <2>1, <2>2, <2>3, <2>4, <2>5, <2>7, <2>8 DEF TypeOK, ManagerTypes
<1>6. CASE RegisterGone
  BY <1>0, <1>6 DEF RegisterGone, connectionVars, clientVars, registryVars, listenerVars,
                    TypeOK, ConnectionTypes, ManagerTypes
<1>7. CASE RegisterFails
  BY <1>0, <1>7 DEF RegisterFails, connectionVars, registryVars, listenerVars,
                    TypeOK, ConnectionTypes, ManagerTypes
<1> QED
  BY <1>1, <1>2, <1>3, <1>4, <1>5, <1>6, <1>7 DEF StartStep

\* So does a step of the listener.
LEMMA ListenerTypesStep ==
  ASSUME IInv, Alive, ListenerStep, UNCHANGED coreVars
  PROVE  TypeOK'
<1>0. TypeOK /\ CoreTypes'
  BY DEF IInv, TypeOK, coreVars, CoreTypes
<1>1. CASE Arm
  <2>1. listener' \in {"finished", "select"} /\ (armed' = armed \/ armed' = DOMAIN cores)
    BY <1>1 DEF Arm
  <2> QED
    BY <1>0, <1>1, <2>1 DEF Arm, connectionVars, clientVars, registryVars, TypeOK,
                            ConnectionTypes, ManagerTypes
<1>2. CASE Select
  BY <1>0, <1>2 DEF Select, connectionVars, clientVars, registryVars, TypeOK,
                    ConnectionTypes, ManagerTypes
<1>3. CASE ReadQuit
  <2>1. quit # <<>>
    BY <1>3 DEF ReadQuit, IInv, Listening
  <2>2. quit \in Seq(CoreId) /\ quit' = Tail(quit)
    BY <1>0, <1>3 DEF ReadQuit, TypeOK, ManagerTypes
  <2>3. quit' \in Seq(CoreId)
    BY <2>1, <2>2
  <2>4. /\ managerEnd' \in [Core -> End] /\ toManager' \in [Core -> Seq(ClientPacket)]
        /\ DOMAIN cores' \subseteq DOMAIN cores
        /\ \A other \in DOMAIN cores' : cores'[other] = cores[other]
        /\ fate' \in {"alive", "closed0"} /\ stdin' \in {"open", "closed"}
    <3>0. stdin \in {"open", "closed"}
      BY <1>0 DEF TypeOK, ManagerTypes
    <3>1. \/ /\ UNCHANGED <<managerEnd, toManager, cores>> /\ fate' \in {fate, "closed0"}
             /\ stdin' \in {stdin, "closed"}
          \/ Head(quit) \in DOMAIN cores /\ Drop(Head(quit)) /\ UNCHANGED <<fate, stdin>>
      BY <1>3 DEF ReadQuit, ClosesStdin
    <3>2. CASE /\ UNCHANGED <<managerEnd, toManager, cores>> /\ fate' \in {fate, "closed0"}
               /\ stdin' \in {stdin, "closed"}
      BY <1>0, <3>0, <3>2 DEF TypeOK, ConnectionTypes, Alive
    <3>3. CASE Head(quit) \in DOMAIN cores /\ Drop(Head(quit)) /\ UNCHANGED <<fate, stdin>>
      BY <1>0, <3>0, <3>3, DropTypes DEF Alive
    <3> QED
      BY <3>1, <3>2, <3>3
  <2>5. ConnectionTypes'
    BY <1>0, <1>3, <2>4 DEF ReadQuit, TypeOK, ConnectionTypes
  <2>6. UNCHANGED <<clientVars, nextAvailableCoreId, issued, armed, ready, reset, packets>>
        /\ listener' = "serve" /\ quitReady' = FALSE
    BY <1>3 DEF ReadQuit
  <2> QED
    BY <1>0, <2>3, <2>4, <2>5, <2>6 DEF clientVars, TypeOK, ManagerTypes
<1>4. ASSUME NEW id \in DOMAIN cores, ServeCore(id) PROVE TypeOK'
  <2> DEFINE Typed == /\ managerEnd' \in [Core -> End] /\ toManager' \in [Core -> Seq(ClientPacket)]
                      /\ DOMAIN cores' \subseteq DOMAIN cores
                      /\ \A other \in DOMAIN cores' : cores'[other] = cores[other]
  <2>1. Typed
    <3>1. ASSUME ManagerAtEnd(cores[id]), Drop(id) PROVE Typed
      BY <1>0, <3>1, DropTypes
    <3>2. ASSUME ~ ManagerAtEnd(cores[id]),
                 toManager' = [toManager EXCEPT ![cores[id]] = Tail(@)],
                 UNCHANGED <<managerEnd, cores>>
          PROVE Typed
      <4>1. toManager[cores[id]] # <<>>
        BY <1>4, <3>2 DEF ServeCore, IInv, Listening, Readable
      <4>2. toManager' \in [Core -> Seq(ClientPacket)]
        BY <1>0, <3>2, <4>1, StreamTypes DEF TypeOK, ConnectionTypes, ManagerTypes
      <4> QED
        BY <1>0, <3>2, <4>2 DEF TypeOK, ConnectionTypes
    <3> QED
      BY <1>4, <3>1, <3>2 DEF ServeCore
  <2>2. ConnectionTypes'
    BY <1>0, <1>4, <2>1 DEF ServeCore, TypeOK, ConnectionTypes
  <2>3. /\ UNCHANGED <<clientVars, nextAvailableCoreId, issued, armed, quitReady, quit, reset,
                       fate, packets, stdin>>
        /\ listener' = "serve" /\ ready' = ready \ {id}
    BY <1>4 DEF ServeCore
  <2> QED
    BY <1>0, <2>1, <2>2, <2>3 DEF clientVars, TypeOK, ManagerTypes
<1>5. CASE EndIteration
  BY <1>0, <1>5 DEF EndIteration, connectionVars, clientVars, registryVars, TypeOK,
                    ConnectionTypes, ManagerTypes
<1> QED
  BY <1>1, <1>2, <1>3, <1>4, <1>5 DEF ListenerStep

\* So do the other calls.
LEMMA CallTypesStep ==
  ASSUME IInv, Alive, UNCHANGED coreVars,
         \/ Destroy \/ Joined \/ SendPacket
         \/ \E id \in DOMAIN cores : EndCore(id)
  PROVE  TypeOK'
<1>0. TypeOK /\ CoreTypes'
  BY DEF IInv, TypeOK, coreVars, CoreTypes
<1>1. "DISCONNECT" \in ServerPacket /\ "INFO" \in ServerPacket
  BY DEF ServerPacket
<1>2. CASE Destroy
  <2>1. PICK ids \in Registered : quit' = quit \o ids
    BY <1>2 DEF Destroy
  <2>2. quit \in Seq(CoreId) /\ ids \in Seq(CoreId)
    BY <1>0, RegisteredType DEF TypeOK, ManagerTypes
  <2>3. quit' \in Seq(CoreId)
    BY <2>1, <2>2
  <2>4. SendOnce(DOMAIN cores, "DISCONNECT")
    BY <1>2 DEF Destroy
  <2>5. /\ toCore' \in [Core -> Seq(ServerPacket)] /\ reset' \subseteq Core
        /\ fate' \in {"alive", "terminate", "sigpipe", "closed0"}
    BY <1>0, <1>1, <2>4, SendOnceTypes
  <2>6. ConnectionTypes'
    BY <1>0, <1>2, <2>5 DEF Destroy, TypeOK, ConnectionTypes
  <2> QED
    BY <1>0, <1>2, <2>3, <2>5, <2>6 DEF Destroy, registryVars, listenerVars, TypeOK, ManagerTypes
<1>3. CASE Joined
  BY <1>0, <1>3 DEF Joined, connectionVars, registryVars, listenerVars, TypeOK,
                    ConnectionTypes, ManagerTypes
<1>4. CASE SendPacket
  <2>1. \/ toCore' = toCore /\ reset' = reset /\ fate' = "sigpipe"
        \/ SendOnce(DOMAIN cores, "INFO")
    BY <1>4 DEF SendPacket
  <2>2. /\ toCore' \in [Core -> Seq(ServerPacket)] /\ reset' \subseteq Core
        /\ fate' \in {"alive", "terminate", "sigpipe", "closed0"}
    <3>1. CASE SendOnce(DOMAIN cores, "INFO")
      BY <1>0, <1>1, <3>1, SendOnceTypes
    <3>2. CASE toCore' = toCore /\ reset' = reset /\ fate' = "sigpipe"
      BY <1>0, <3>2 DEF TypeOK, ConnectionTypes, ManagerTypes
    <3> QED
      BY <2>1, <3>1, <3>2
  <2>3. packets' \in 0..MaxPackets
    BY <1>0, <1>4, ManagerAssumption DEF SendPacket, TypeOK, ManagerTypes
  <2>4. ConnectionTypes'
    BY <1>0, <1>4, <2>2 DEF SendPacket, TypeOK, ConnectionTypes
  <2> QED
    BY <1>0, <1>4, <2>2, <2>3, <2>4 DEF SendPacket, clientVars, registryVars, listenerVars,
                                        TypeOK, ManagerTypes
<1>5. ASSUME NEW id \in DOMAIN cores, EndCore(id) PROVE TypeOK'
  <2>1. SendOnce({id}, "DISCONNECT")
    BY <1>5 DEF EndCore
  <2>2. /\ toCore' \in [Core -> Seq(ServerPacket)] /\ reset' \subseteq Core
        /\ fate' \in {"alive", "terminate", "sigpipe", "closed0"}
    BY <1>0, <1>1, <2>1, SendOnceTypes
  <2>3. packets' \in 0..MaxPackets
    BY <1>0, <1>5, ManagerAssumption DEF EndCore, TypeOK, ManagerTypes
  <2>4. quit' \in Seq(CoreId)
    <3>1. quit' = quit \/ quit' = Append(quit, id)
      BY <1>5 DEF EndCore
    <3>2. quit \in Seq(CoreId) /\ id \in CoreId
      BY <1>0 DEF TypeOK, ManagerTypes
    <3> QED
      BY <3>1, <3>2
  <2>5. ConnectionTypes'
    BY <1>0, <1>5, <2>2 DEF EndCore, TypeOK, ConnectionTypes
  <2> QED
    BY <1>0, <1>5, <2>2, <2>3, <2>4, <2>5 DEF EndCore, clientVars, registryVars, listenerVars,
                                              TypeOK, ManagerTypes
<1> QED
  BY <1>2, <1>3, <1>4, <1>5

-----------------------------------------------------------------------------
(* What a step of a core leaves alone.                                     *)

\* A core writes to the end of its stream, closes its own end only, and is in
\* the backlog from where it leaves the start of its constructor.
Framed ==
  /\ managerEnd' = managerEnd
  /\ \A d \in Core :
       /\ toManager[d] # <<>> => toManager'[d] # <<>>
       /\ coreEnd[d] = "closed" /\ program[d] # "Core()" => coreEnd'[d] = "closed"
       /\ program'[d] = "Core()" => program[d] = "Core()"
       /\ process'[d] = "none" => process[d] = "none" /\ program'[d] = program[d]
  /\ \/ backlog' = backlog
     \/ \E d \in Core : /\ program[d] = "Core()" /\ program'[d] # "Core()"
                        /\ backlog' = Append(backlog, d)

LEMMA CoreFrame ==
  ASSUME TypeOK, CoreNext
  PROVE  Framed
<1>1. /\ process \in [Core -> {"none", "running", "dead"}]
      /\ toManager \in [Core -> Seq(ClientPacket)] /\ coreEnd \in [Core -> End]
      /\ program \in [Core -> {"Core()", "handshake", "main", "clear", "close", "join",
                           "~Core()", "gone"}]
  BY DEF TypeOK, ConnectionTypes, CoreTypes
<1>2. ASSUME NEW c \in Core, NEW packet \in ClientPacket, SendToManager(c, packet)
      PROVE  \A d \in Core : toManager[d] # <<>> => toManager'[d] # <<>>
  <2>1. \A d \in Core : Append(toManager[d], packet) # <<>>
    BY <1>1, AppendProperties
  <2>2. toManager' = toManager \/ toManager' = [toManager EXCEPT ![c] = Append(@, packet)]
    BY <1>2 DEF SendToManager
  <2> QED
    BY <1>1, <2>1, <2>2
<1>3. {"CONNECT", "READY", "LOG"} \subseteq ClientPacket
  BY DEF ClientPacket
<1>4. ASSUME NEW c \in Core, Ends(c) PROVE Framed
  BY <1>1, <1>4 DEF Ends, Dies, ClosedByDeath, Goes, Framed
<1>5. ASSUME NEW c \in Core, CoreStep(c), ~ Ends(c) PROVE Framed
  <2>1. CASE Connect(c)
    <3>1. \A d \in Core : toManager[d] # <<>> => toManager'[d] # <<>>
      BY <1>2, <1>3, <1>5, <2>1 DEF Connect
    <3> QED
      BY <1>1, <1>5, <2>1, <3>1 DEF Connect, Goes, Framed
  <2>2. CASE ShakeHands(c)
    <3>1. \A d \in Core : toManager[d] # <<>> => toManager'[d] # <<>>
      BY <1>2, <1>3, <1>5, <2>2 DEF ShakeHands
    <3> QED
      BY <1>1, <1>5, <2>2, <3>1 DEF ShakeHands, Goes, Framed
  <2>3. CASE ListenerLeaves(c)
    BY <1>1, <2>3 DEF ListenerLeaves, Framed
  <2>4. CASE Handle(c)
    <3>1. toManager' = toManager \/ SendToManager(c, "LOG")
      BY <1>5, <2>4 DEF Handle
    <3>2. \A d \in Core : toManager[d] # <<>> => toManager'[d] # <<>>
      BY <1>2, <1>3, <3>1
    <3> QED
      BY <1>1, <1>5, <2>4, <3>2 DEF Handle, coreVars, Framed
  <2>5. CASE ListenerClears(c) \/ ListenerCloses(c)
    BY <1>1, <2>5 DEF ListenerClears, ListenerCloses, Goes, connectionVars, Framed
  <2>6. CASE ExitClears(c) \/ ExitCloses(c)
    BY <1>1, <2>6 DEF ExitClears, ExitCloses, Goes, connectionVars, Framed
  <2>7. CASE ExitJoins(c)
    BY <1>1, <2>7 DEF ExitJoins, Goes, connectionVars, Framed
  <2> QED
    BY <1>5, <2>1, <2>2, <2>3, <2>4, <2>5, <2>6, <2>7 DEF CoreStep, ExitEnds
<1>6. ASSUME NEW c \in Core, Exit(c) PROVE Framed
  BY <1>1, <1>6 DEF Exit, Goes, connectionVars, Framed
<1>7. ASSUME NEW c \in Core, DiesConnecting(c) PROVE Framed
  BY <1>1, <1>7 DEF DiesConnecting, Goes, Framed
<1> QED
  BY <1>4, <1>5, <1>6, <1>7 DEF CoreNext, Crash

\* Wherever the two threads are in disconnect_(), their next step leaves the
\* close to somebody.
LEMMA CoreLeavesStep ==
  ASSUME TypeOK, Leaving, CoreNext
  PROVE  Leaving'
<1>1. /\ process \in [Core -> {"none", "running", "dead"}]
      /\ program \in [Core -> {"Core()", "handshake", "main", "clear", "close", "join",
                           "~Core()", "gone"}]
      /\ managerListener \in [Core -> {"none", "recv", "clear", "close", "done"}]
      /\ isConnected \in [Core -> BOOLEAN] /\ coreEnd \in [Core -> End]
  BY DEF TypeOK, ConnectionTypes, CoreTypes
<1>2. ASSUME NEW c \in Core, Ends(c) PROVE Leaving'
  BY <1>1, <1>2 DEF Ends, Dies, ClosedByDeath, Goes, Leaving
<1>3. ASSUME NEW c \in Core, CoreStep(c), ~ Ends(c) PROVE Leaving'
  <2>1. CASE Connect(c)
    BY <1>1, <1>3, <2>1 DEF Connect, Goes, Leaving
  <2>2. CASE ShakeHands(c)
    BY <1>1, <1>3, <2>2 DEF ShakeHands, Goes, Leaving
  <2>3. CASE ListenerLeaves(c)
    BY <1>1, <2>3 DEF ListenerLeaves, Goes, Leaving
  <2>4. CASE Handle(c)
    BY <1>1, <1>3, <2>4 DEF Handle, coreVars, Leaving
  <2>5. CASE ListenerClears(c)
    BY <1>1, <2>5 DEF ListenerClears, Goes, connectionVars, Leaving
  <2>6. CASE ListenerCloses(c)
    BY <1>1, <2>6 DEF ListenerCloses, Goes, Leaving
  <2>7. CASE ExitClears(c)
    BY <1>1, <2>7 DEF ExitClears, Goes, connectionVars, Leaving
  <2>8. CASE ExitCloses(c)
    BY <1>1, <2>8 DEF ExitCloses, Goes, Leaving
  <2>9. CASE ExitJoins(c)
    BY <1>1, <2>9 DEF ExitJoins, ListenerDone, Goes, connectionVars, Leaving
  <2> QED
    BY <1>3, <2>1, <2>2, <2>3, <2>4, <2>5, <2>6, <2>7, <2>8, <2>9 DEF CoreStep, ExitEnds
<1>4. ASSUME NEW c \in Core, Exit(c) PROVE Leaving'
  BY <1>1, <1>4 DEF Exit, Goes, connectionVars, Leaving
<1>5. ASSUME NEW c \in Core, DiesConnecting(c) PROVE Leaving'
  BY <1>1, <1>5 DEF DiesConnecting, Goes, Leaving
<1> QED
  BY <1>2, <1>3, <1>4, <1>5 DEF CoreNext, Crash

\* A step of a core keeps the invariant.
LEMMA CoreInvStep ==
  ASSUME IInv, Alive, CoreNext, UNCHANGED managerVars
  PROVE  IInv'
<1>0. TypeOK /\ Leaving /\ Recorded /\ Registry /\ Newcomers /\ Listening
  BY DEF IInv
<1>1. TypeOK' /\ Leaving' /\ Framed
  BY <1>0, CoreTypesStep, CoreLeavesStep, CoreFrame
<1>2. UNCHANGED <<clientVars, registryVars, listenerVars, quit, fate>>
  BY DEF managerVars
<1>3. Recorded' /\ Registry'
  BY <1>0, <1>1, <1>2 DEF Recorded, IdsNotReused, Registry, RegisteredIsOpen, Alive, Framed,
                          registryVars
<1>4. Newcomers'
  <2>1. backlog \in Seq(Core) /\ managerEnd \in [Core -> End]
    BY <1>0 DEF TypeOK, ConnectionTypes
  <2>2. client' \in {"await", "register"} =>
          managerEnd'[starting'] = "open" /\ \A id \in DOMAIN cores' : cores'[id] # starting'
    BY <1>0, <1>1, <1>2 DEF Newcomers, Framed, clientVars, registryVars
  <2>3. ASSUME NEW i \in DOMAIN backlog'
        PROVE  managerEnd'[backlog'[i]] = "none" /\ program'[backlog'[i]] # "Core()"
    <3>1. CASE i \in DOMAIN backlog /\ backlog'[i] = backlog[i]
      BY <1>0, <1>1, <2>1, <3>1 DEF Newcomers, Framed
    <3>2. ASSUME NEW d \in Core, program[d] = "Core()", program'[d] # "Core()",
                 backlog' = Append(backlog, d)
          PROVE  (i \in DOMAIN backlog /\ backlog'[i] = backlog[i]) \/ backlog'[i] = d
      BY <2>1, <2>3, <3>2
    <3>3. ASSUME NEW d \in Core, program[d] = "Core()", program'[d] # "Core()", backlog'[i] = d
          PROVE  managerEnd'[backlog'[i]] = "none" /\ program'[backlog'[i]] # "Core()"
      BY <1>0, <1>1, <3>3 DEF Newcomers, Framed
    <3> QED
      BY <1>1, <2>3, <3>1, <3>2, <3>3 DEF Framed
  <2>4. ASSUME NEW c \in Core
        PROVE  /\ program'[c] = "Core()" => managerEnd'[c] = "none"
               /\ process'[c] = "none" => program'[c] = "Core()"
    BY <1>0, <1>1 DEF Newcomers, Framed
  <2> QED
    BY <2>2, <2>3, <2>4 DEF Newcomers
<1>5. Listening'
  <2>1. ASSUME NEW id \in ready \cap DOMAIN cores, listener \in {"lock", "serve"}
        PROVE  Readable(id)'
    <3>1. Readable(id) /\ cores[id] \in Core /\ managerEnd[cores[id]] = "open"
      BY <1>0, <2>1 DEF Listening, TypeOK, ManagerTypes, Registry, RegisteredIsOpen
    <3>2. program[cores[id]] # "Core()"
      BY <1>0, <3>1 DEF Newcomers
    <3>3. cores' = cores
      BY <1>2 DEF registryVars
    <3> QED
      BY <1>1, <3>1, <3>2, <3>3 DEF Readable, ManagerAtEnd, Framed
  <2> QED
    BY <1>0, <1>2, <2>1 DEF Listening, Listened, Watched, Alive, registryVars, listenerVars
<1> QED
  BY <1>1, <1>3, <1>4, <1>5 DEF IInv

-----------------------------------------------------------------------------
(* Steps of the manager.                                                   *)

\* The manager starts cores and kills them, and no more.
LEMMA ManagerLeavesStep ==
  ASSUME TypeOK, Leaving, Newcomers, ManagerNext, UNCHANGED coreVars
  PROVE  Leaving'
<1>1. /\ process \in [Core -> {"none", "running", "dead"}] /\ starting \in Core
      /\ coreEnd \in [Core -> End]
  BY DEF TypeOK, ConnectionTypes, ManagerTypes
<1>2. program' = program /\ managerListener' = managerListener /\ isConnected' = isConnected
  BY DEF coreVars
<1>3. \/ process' = process /\ coreEnd' = coreEnd
      \/ process' = [process EXCEPT ![starting] = "dead"] /\
         \A c \in Core : coreEnd[c] = "closed" => coreEnd'[c] = "closed"
      \/ coreEnd' = coreEnd /\
         \E c \in Core : process[c] = "none" /\ process' = [process EXCEPT ![c] = "running"]
  <2>1. CASE StartStep
    <3>1. CASE ConnectTimesOut
      BY <1>1, <3>1 DEF ConnectTimesOut, Dies, ClosedByDeath
    <3> QED
      BY <2>1, <3>1 DEF StartStep, StartCore, Accept, AwaitReady, Register,
                RegisterGone, RegisterFails, connectionVars
  <2>2. CASE ListenerStep
    BY <2>2 DEF ListenerStep, Arm, Select, ReadQuit, EndIteration, ServeCore, connectionVars
  <2> QED
    BY <2>1, <2>2 DEF ManagerNext, Destroy, Joined, SendPacket, EndCore, connectionVars
<1> QED
  BY <1>1, <1>2, <1>3 DEF Leaving, Newcomers

\* A step that leaves the registry and the manager's ends alone.
LEMMA SameRegistry ==
  ASSUME Recorded, Alive => Registry, UNCHANGED <<registryVars, managerEnd>>, Alive
  PROVE  Recorded' /\ (Alive' => Registry')
BY DEF Recorded, IdsNotReused, Registry, RegisteredIsOpen, registryVars, Alive

\* What the manager does elsewhere leaves the newcomers where they are.
LEMMA SameNewcomers ==
  ASSUME Newcomers,
         UNCHANGED <<clientVars, registryVars, managerEnd, backlog, process, program>>
  PROVE  Newcomers'
BY DEF Newcomers, clientVars, registryVars

\* The wake-up calls that are under way stay so.
LEMMA SameListening ==
  ASSUME Listening, TypeOK, Alive, UNCHANGED <<listenerVars, registryVars, toManager>>,
         \A d \in Core : coreEnd[d] = "closed" => coreEnd'[d] = "closed",
         quit # <<>> => quit' # <<>>
  PROVE  Listening'
<1>1. ASSUME NEW id \in ready \cap DOMAIN cores, listener \in {"lock", "serve"}
      PROVE  Readable(id)'
  <2>1. Readable(id) /\ cores[id] \in Core
    BY <1>1 DEF Listening, TypeOK, ManagerTypes
  <2> QED
    BY <2>1 DEF Readable, ManagerAtEnd, registryVars
<1> QED
  BY <1>1 DEF Listening, Listened, Watched, Alive, registryVars, listenerVars

LEMMA StartCoreStep ==
  ASSUME IInv, Alive, NEW c \in Core, StartCore(c), UNCHANGED coreVars
  PROVE  Recorded' /\ (Alive' => Registry' /\ Newcomers' /\ Listening')
<1>0. TypeOK /\ Recorded /\ Registry /\ Newcomers /\ Listening
  BY DEF IInv
<1>1. Recorded' /\ (Alive' => Registry')
  BY <1>0, SameRegistry DEF StartCore
<1>2. Newcomers'
  BY <1>0 DEF StartCore, Newcomers, coreVars, registryVars, TypeOK, ConnectionTypes
<1>3. Listening'
  BY <1>0, SameListening DEF StartCore
<1> QED
  BY <1>1, <1>2, <1>3

LEMMA ConnectTimesOutStep ==
  ASSUME IInv, Alive, ConnectTimesOut, UNCHANGED coreVars
  PROVE  Recorded' /\ (Alive' => Registry' /\ Newcomers' /\ Listening')
<1>0. TypeOK /\ Recorded /\ Registry /\ Newcomers /\ Listening
  BY DEF IInv
<1>1. Recorded' /\ (Alive' => Registry')
  BY <1>0, SameRegistry DEF ConnectTimesOut
<1>2. Newcomers'
  <2>1. /\ process' = [process EXCEPT ![starting] = "dead"] /\ client' = "idle"
        /\ UNCHANGED <<managerEnd, backlog, registryVars>> /\ program' = program
    BY DEF ConnectTimesOut, Dies, coreVars
  <2> QED
    BY <1>0, <2>1 DEF Newcomers, registryVars, TypeOK, ConnectionTypes
<1>3. \A d \in Core : coreEnd[d] = "closed" => coreEnd'[d] = "closed"
  BY <1>0 DEF ConnectTimesOut, Dies, ClosedByDeath, TypeOK, ConnectionTypes
<1>4. Listening'
  BY <1>0, <1>3, SameListening DEF ConnectTimesOut
<1> QED
  BY <1>1, <1>2, <1>4

\* The core that is accepted is not one that is registered: it had no
\* connection of the manager's.
LEMMA AcceptStep ==
  ASSUME IInv, Alive, Accept, UNCHANGED coreVars
  PROVE  Recorded' /\ (Alive' => Registry' /\ Newcomers' /\ Listening')
<1> DEFINE core == Head(backlog)
<1>0. TypeOK /\ Recorded /\ Registry /\ Newcomers /\ Listening
  BY DEF IInv
<1>1. /\ listening = "open" /\ backlog # <<>> /\ starting' = core
      /\ UNCHANGED <<process, coreEnd, registryVars, listenerVars, quit>>
  BY DEF Accept
<1>2. /\ backlog \in Seq(Core) /\ core \in Core /\ core = backlog[1] /\ 1 \in DOMAIN backlog
      /\ managerEnd \in [Core -> End]
  BY <1>0, <1>1 DEF TypeOK, ConnectionTypes
<1>3. managerEnd[core] = "none"
  BY <1>0, <1>2 DEF Newcomers
<1>4. \A id \in DOMAIN cores : cores[id] \in Core /\ managerEnd[cores[id]] = "open"
  BY <1>0 DEF TypeOK, ManagerTypes, Registry, RegisteredIsOpen
<1>5. PICK accepted \in {{}, {core}} : CloseListenSocket(accepted) /\
        (client' = "await" => accepted = {core}) /\ client' \in {"idle", "await", client}
  BY DEF Accept
<1>6. /\ backlog' = <<>>
      /\ \A c \in Core : managerEnd'[c] =
           IF c \in accepted THEN "open"
           ELSE IF Contains(backlog, c) THEN "closed" ELSE managerEnd[c]
  BY <1>1, <1>5 DEF CloseListenSocket
<1>7. \A c \in Core : Contains(backlog, c) => managerEnd[c] = "none" /\ program[c] # "Core()"
  BY <1>0, <1>2 DEF Newcomers, Contains
<1>8. \A c \in Core : managerEnd[c] = "open" => managerEnd'[c] = "open"
  BY <1>3, <1>5, <1>6, <1>7
<1>9. Recorded' /\ Registry'
  BY <1>0, <1>1, <1>4, <1>8 DEF Recorded, IdsNotReused, Registry, RegisteredIsOpen, registryVars
<1>10. Newcomers'
  <2>1. client' \in {"await", "register"} =>
          managerEnd'[core] = "open" /\ \A id \in DOMAIN cores : cores[id] # core
    BY <1>2, <1>3, <1>4, <1>5, <1>6 DEF Accept
  <2>2. \A c \in Core : program[c] = "Core()" => managerEnd'[c] = "none"
    BY <1>0, <1>2, <1>5, <1>6, <1>7 DEF Newcomers
  <2> QED
    BY <1>0, <1>1, <1>6, <2>1, <2>2 DEF Newcomers, coreVars, registryVars
<1>11. Listening'
  <2>1. ASSUME NEW id \in ready \cap DOMAIN cores, listener \in {"lock", "serve"}
        PROVE  Readable(id)'
    <3>1. Readable(id) /\ cores[id] \in Core /\ cores[id] # core
      BY <1>0, <1>3, <1>4, <2>1 DEF Listening
    <3>2. toManager'[cores[id]] = toManager[cores[id]]
      BY <1>0, <3>1 DEF Accept, TypeOK, ConnectionTypes
    <3> QED
      BY <1>1, <3>1, <3>2 DEF Readable, ManagerAtEnd, registryVars
  <2> QED
    BY <1>0, <1>1, <2>1 DEF Listening, Listened, Watched, Alive, registryVars, listenerVars
<1> QED
  BY <1>9, <1>10, <1>11

LEMMA AwaitReadyStep ==
  ASSUME IInv, Alive, AwaitReady, UNCHANGED coreVars
  PROVE  Recorded' /\ (Alive' => Registry' /\ Newcomers' /\ Listening')
<1>0. TypeOK /\ Recorded /\ Registry /\ Newcomers /\ Listening
  BY DEF IInv
<1>1. Recorded' /\ (Alive' => Registry')
  BY <1>0, SameRegistry DEF AwaitReady
<1>2. Newcomers'
  BY <1>0 DEF AwaitReady, Newcomers, coreVars, registryVars
<1>3. Listening'
  <2>1. ASSUME NEW id \in ready \cap DOMAIN cores, listener \in {"lock", "serve"}
        PROVE  Readable(id)'
    <3>1. Readable(id) /\ cores[id] \in Core /\ cores[id] # starting
      BY <1>0, <2>1 DEF Listening, Newcomers, AwaitReady, TypeOK, ManagerTypes
    <3>2. toManager'[cores[id]] = toManager[cores[id]]
      BY <1>0, <3>1 DEF AwaitReady, TypeOK, ConnectionTypes
    <3> QED
      BY <3>1, <3>2 DEF AwaitReady, Readable, ManagerAtEnd, registryVars
  <2> QED
    BY <1>0, <2>1 DEF AwaitReady, Listening, Listened, Watched, Alive, registryVars, listenerVars
<1> QED
  BY <1>1, <1>2, <1>3

\* A new core gets an id that nobody had, and either the listener starts with
\* it or it is told of it.
LEMMA RegisterStep ==
  ASSUME IInv, Alive, Register, UNCHANGED coreVars
  PROVE  Recorded' /\ (Alive' => Registry' /\ Newcomers' /\ Listening')
<1> DEFINE id == nextAvailableCoreId
<1>0. TypeOK /\ Recorded /\ Registry /\ Newcomers /\ Listening
  BY DEF IInv
<1>1. /\ client = "register" /\ client' = "idle" /\ id # 0 /\ listener # "serve"
      /\ UNCHANGED <<process, backlog, toManager, coreEnd, managerEnd, starting,
                     armed, ready, quitReady>>
      /\ nextAvailableCoreId' = FollowingCoreId
  BY DEF Register, LockFree
<1>2. id \notin DOMAIN issued /\ id \notin DOMAIN cores
  <2>1. id \in Nat /\ \A k \in DOMAIN issued : k < id
    BY <1>0, <1>1 DEF TypeOK, ManagerTypes, CoreId, Registry
  <2> QED
    BY <1>0, <2>1 DEF Recorded
<1>3. /\ cores' = [k \in DOMAIN cores \cup {id} |-> IF k = id THEN starting ELSE cores[k]]
      /\ issued' = [k \in DOMAIN issued \cup {id} |-> IF k = id THEN starting ELSE issued[k]]
  BY <1>2 DEF Register, GetNextAvailableCoreId, With
<1>4. /\ DOMAIN cores' = DOMAIN cores \cup {id} /\ cores'[id] = starting
      /\ \A k \in DOMAIN cores : cores'[k] = cores[k]
      /\ DOMAIN issued' = DOMAIN issued \cup {id} /\ issued'[id] = starting
      /\ \A k \in DOMAIN issued : issued'[k] = issued[k]
  BY <1>2, <1>3
<1>5. Recorded'
  BY <1>0, <1>1, <1>4 DEF Recorded, IdsNotReused
<1>6. Registry'
  <2>1. managerEnd[starting] = "open" /\ \A k \in DOMAIN cores : cores[k] # starting
    BY <1>0, <1>1 DEF Newcomers
  <2>2. RegisteredIsOpen'
    BY <1>0, <1>1, <1>4, <2>1 DEF Registry, RegisteredIsOpen, Alive
  <2>3. FollowingCoreId # 0 => FollowingCoreId = id + 1
    BY <1>0, NextIdType DEF TypeOK, ManagerTypes
  <2>4. id \in Nat /\ \A k \in DOMAIN issued : k \in Nat /\ k < id
    BY <1>0, <1>1 DEF TypeOK, ManagerTypes, CoreId, Registry
  <2>5. nextAvailableCoreId' # 0 => \A k \in DOMAIN issued' : k < nextAvailableCoreId'
    BY <1>1, <1>4, <2>3, <2>4
  <2> QED
    BY <2>2, <2>5 DEF Registry
<1>7. Newcomers'
  BY <1>0, <1>1 DEF Newcomers, coreVars
<1>8. ASSUME Alive' PROVE Listening'
  <2>1. \/ DOMAIN cores = {} /\ listener = "none" /\ listener' = "arm"
        \/ DOMAIN cores # {} /\ listener' = listener /\ quit' = Append(quit, 0)
    <3>1. CASE Cardinality(DOMAIN cores') = 1
      <4>1. listener = "none" /\ listener' = "arm"
        BY <1>8, <3>1 DEF Register, WakeListener, Alive
      <4>2. DOMAIN cores = {}
        BY <1>0, <4>1 DEF Listening, Listened
      <4> QED
        BY <4>1, <4>2
    <3>2. CASE Cardinality(DOMAIN cores') # 1
      <4>1. DOMAIN cores # {}
        <5>1. Cardinality({id}) = 1
          BY FS_Singleton
        <5>2. DOMAIN cores = {} => DOMAIN cores' = {id}
          BY <1>4
        <5> QED
          BY <3>2, <5>1, <5>2
      <4> QED
        BY <3>2, <4>1 DEF Register, WakeListener, NotifyListener
    <3> QED
      BY <3>1, <3>2
  <2>2. quit \in Seq(CoreId) /\ 0 \in CoreId
    BY <1>0, ManagerAssumption DEF TypeOK, ManagerTypes, CoreId
  <2>3. Append(quit, 0) # <<>>
    BY <2>2, AppendProperties
  <2>4. Listened' /\ Watched'
    BY <1>0, <2>1, <2>3 DEF Listening, Listened, Watched, Alive
  <2>5. ASSUME NEW k \in ready \cap DOMAIN cores', listener' \in {"lock", "serve"}
        PROVE  Readable(k)'
    <3>1. k \in DOMAIN cores /\ listener \in {"lock", "serve"}
      BY <1>0, <1>2, <1>4, <2>1, <2>5 DEF Listening
    <3>2. Readable(k)
      BY <1>0, <2>5, <3>1 DEF Listening
    <3> QED
      BY <1>1, <1>4, <3>1, <3>2 DEF Readable, ManagerAtEnd
  <2>6. quitReady' => listener' = "lock" /\ quit' # <<>>
    BY <1>0, <1>1, <2>1, <2>3 DEF Listening
  <2>7. armed' \subseteq DOMAIN issued' /\ ready' \subseteq DOMAIN issued'
    BY <1>0, <1>1, <1>4 DEF Listening
  <2> QED
    BY <1>1, <2>4, <2>5, <2>6, <2>7 DEF Listening
<1> QED
  BY <1>5, <1>6, <1>7, <1>8

\* A core that is dropped was its own: nobody else is registered with its
\* connection.
LEMMA DropStep ==
  ASSUME IInv, Alive, NEW id \in DOMAIN cores, Drop(id),
         UNCHANGED <<clientVars, nextAvailableCoreId, issued, armed, process, backlog, coreEnd,
                     program, fate>>,
         ready' \subseteq ready, listener \in {"lock", "serve"}, listener' = "serve", ~ quitReady'
  PROVE  Recorded' /\ Registry' /\ Newcomers' /\ Listening'
<1>0. TypeOK /\ Recorded /\ Registry /\ Newcomers /\ Listening
  BY DEF IInv
<1>1. cores' = [k \in DOMAIN cores \ {id} |-> cores[k]]
  BY DEF Drop, Without, Restrict
<1>2. DOMAIN cores' = DOMAIN cores \ {id} /\ \A k \in DOMAIN cores' : cores'[k] = cores[k]
  BY <1>1
<1>3. \A k \in DOMAIN cores' : cores[k] # cores[id] /\ cores[k] \in Core
  BY <1>0, <1>2 DEF Registry, RegisteredIsOpen, TypeOK, ManagerTypes
<1>4. /\ managerEnd \in [Core -> End] /\ toManager \in [Core -> Seq(ClientPacket)]
      /\ cores[id] \in Core /\ managerEnd[cores[id]] = "open"
  BY <1>0 DEF TypeOK, ConnectionTypes, ManagerTypes, Registry, RegisteredIsOpen
<1>5. \A c \in Core : c # cores[id] => managerEnd'[c] = managerEnd[c] /\ toManager'[c] = toManager[c]
  BY <1>4 DEF Drop
<1>6. Recorded' /\ Registry'
  BY <1>0, <1>2, <1>3, <1>5 DEF Recorded, IdsNotReused, Registry, RegisteredIsOpen, Alive
<1>7. Newcomers'
  <2>1. client \in {"await", "register"} =>
          managerEnd'[starting] = "open" /\ \A k \in DOMAIN cores' : cores'[k] # starting
    BY <1>0, <1>2, <1>5 DEF Newcomers, TypeOK, ManagerTypes
  <2>2. \A i \in DOMAIN backlog : managerEnd'[backlog[i]] = "none" /\ program[backlog[i]] # "Core()"
    <3>1. backlog \in Seq(Core)
      BY <1>0 DEF TypeOK, ConnectionTypes
    <3> QED
      BY <1>0, <1>4, <1>5, <3>1 DEF Newcomers
  <2>3. \A c \in Core : program[c] = "Core()" => managerEnd'[c] = "none"
    BY <1>0, <1>4, <1>5 DEF Newcomers
  <2> QED
    BY <1>0, <2>1, <2>2, <2>3 DEF Newcomers, clientVars
<1>8. Listening'
  <2>1. \A k \in ready' \cap DOMAIN cores' : Readable(k)'
    BY <1>0, <1>2, <1>3, <1>5 DEF Listening, Readable, ManagerAtEnd
  <2> QED
    BY <1>0, <1>2, <2>1 DEF Listening, Listened, Watched
<1> QED
  BY <1>6, <1>7, <1>8

LEMMA ReadQuitStep ==
  ASSUME IInv, Alive, ReadQuit, UNCHANGED coreVars
  PROVE  Recorded' /\ (Alive' => Registry' /\ Newcomers' /\ Listening')
<1>0. TypeOK /\ Recorded /\ Registry /\ Newcomers /\ Listening
  BY DEF IInv
<1>1. /\ listener = "lock" /\ listener' = "serve" /\ ~ quitReady'
      /\ UNCHANGED <<process, backlog, coreEnd, clientVars, nextAvailableCoreId, issued, armed, ready>>
  BY DEF ReadQuit
<1>2. \/ UNCHANGED <<managerEnd, toManager, cores>>
      \/ Head(quit) \in DOMAIN cores /\ Drop(Head(quit)) /\ fate' = fate
  BY DEF ReadQuit, ClosesStdin
<1>3. CASE UNCHANGED <<managerEnd, toManager, cores>>
  <2>1. Recorded' /\ (Alive' => Registry')
    BY <1>0, <1>1, <1>3, SameRegistry DEF registryVars
  <2>2. Newcomers'
    BY <1>0, <1>1, <1>3, SameNewcomers DEF registryVars, coreVars
  <2>3. Listening'
    BY <1>0, <1>1, <1>3 DEF Listening, Listened, Watched, Readable, ManagerAtEnd, Alive
  <2> QED
    BY <2>1, <2>2, <2>3
<1>4. CASE Head(quit) \in DOMAIN cores /\ Drop(Head(quit)) /\ fate' = fate
  BY <1>1, <1>4, DropStep DEF coreVars
<1> QED
  BY <1>2, <1>3, <1>4

LEMMA ServeCoreStep ==
  ASSUME IInv, Alive, NEW id \in DOMAIN cores, ServeCore(id), UNCHANGED coreVars
  PROVE  Recorded' /\ (Alive' => Registry' /\ Newcomers' /\ Listening')
<1>0. TypeOK /\ Recorded /\ Registry /\ Newcomers /\ Listening
  BY DEF IInv
<1>1. /\ listener \in {"lock", "serve"} /\ listener' = "serve" /\ ready' = ready \ {id}
      /\ UNCHANGED <<process, backlog, coreEnd, clientVars, nextAvailableCoreId, issued, armed,
                     quitReady, quit, fate>>
  BY DEF ServeCore
<1>2. ~ quitReady
  BY <1>0 DEF ServeCore, Listening
<1>3. CASE Drop(id)
  BY <1>1, <1>2, <1>3, DropStep DEF coreVars
<1>4. CASE ~ Drop(id)
  <2>1. toManager' = [toManager EXCEPT ![cores[id]] = Tail(@)] /\ UNCHANGED <<managerEnd, cores>>
    BY <1>4 DEF ServeCore
  <2>2. Recorded' /\ (Alive' => Registry')
    BY <1>0, <1>1, <2>1, SameRegistry DEF registryVars
  <2>3. Newcomers'
    BY <1>0, <1>1, <2>1, SameNewcomers DEF registryVars, coreVars
  <2>4. ASSUME NEW other \in ready' \cap DOMAIN cores' PROVE Readable(other)'
    <3>1. Readable(other) /\ cores[other] # cores[id] /\ cores[other] \in Core
      BY <1>0, <1>1, <2>1, <2>4 DEF Listening, Registry, RegisteredIsOpen, TypeOK, ManagerTypes
    <3>2. toManager'[cores[other]] = toManager[cores[other]]
      BY <1>0, <2>1, <3>1 DEF TypeOK, ConnectionTypes
    <3> QED
      BY <1>1, <2>1, <3>1, <3>2 DEF Readable, ManagerAtEnd
  <2>5. Listening'
    BY <1>0, <1>1, <1>2, <2>1, <2>4 DEF Listening, Listened, Watched, Alive
  <2> QED
    BY <2>2, <2>3, <2>5
<1> QED
  BY <1>3, <1>4

\* The other steps of the listener and of the clients.
LEMMA OtherStep ==
  ASSUME IInv, Alive, UNCHANGED coreVars,
         \/ RegisterGone \/ RegisterFails \/ Arm \/ Select \/ EndIteration
         \/ Destroy \/ Joined \/ SendPacket \/ \E id \in DOMAIN cores : EndCore(id)
  PROVE  Recorded' /\ (Alive' => Registry' /\ Newcomers' /\ Listening')
<1>0. TypeOK /\ Recorded /\ Registry /\ Newcomers /\ Listening
  BY DEF IInv
<1>1. /\ UNCHANGED <<registryVars, managerEnd, backlog, process, coreEnd, toManager>>
      /\ UNCHANGED clientVars \/ client' \in {"idle", "joining", "destroyed"}
  BY DEF RegisterGone, RegisterFails, Arm, Select, EndIteration, Destroy, Joined, SendPacket,
         EndCore, connectionVars, clientVars
<1>2. Recorded' /\ (Alive' => Registry')
  BY <1>0, <1>1, SameRegistry
<1>3. Newcomers'
  BY <1>0, <1>1 DEF Newcomers, clientVars, registryVars, coreVars
<1>4. ASSUME Alive' PROVE Listening'
  <2>1. CASE RegisterGone
    BY <1>4, <2>1 DEF RegisterGone, Alive
  <2>2. CASE RegisterFails \/ Joined
    BY <1>0, <1>1, <2>2, SameListening DEF RegisterFails, Joined
  <2>3. CASE Arm
    BY <1>0, <1>1, <2>3 DEF Arm, Listening, Listened, Watched, Recorded, Alive, registryVars
  <2>4. CASE Select
    <3>1. ready' = {id \in armed : Readable(id)}
      BY <2>4 DEF Select
    <3>2. \A id \in ready' \cap DOMAIN cores' : Readable(id)'
      BY <1>1, <3>1 DEF Readable, ManagerAtEnd, registryVars
    <3> QED
      BY <1>0, <1>1, <2>4, <3>1, <3>2 DEF Select, Listening, Listened, Watched, Alive, registryVars
  <2>5. CASE EndIteration
    BY <1>0, <1>1, <2>5 DEF EndIteration, Listening, Listened, Watched, Alive, registryVars
  <2>6. ASSUME Destroy \/ SendPacket \/ \E id \in DOMAIN cores : EndCore(id) PROVE Listening'
    <3>1. quit \in Seq(CoreId)
      BY <1>0 DEF TypeOK, ManagerTypes
    <3>2. quit # <<>> => quit' # <<>>
      <4>1. CASE Destroy
        <5>1. PICK ids \in Registered : quit' = quit \o ids
          BY <4>1 DEF Destroy
        <5>2. ids \in Seq(CoreId)
          BY <1>0, RegisteredType
        <5> QED
          BY <3>1, <5>1, <5>2
      <4>2. CASE SendPacket
        BY <4>2 DEF SendPacket
      <4>3. ASSUME NEW id \in DOMAIN cores, EndCore(id) PROVE quit # <<>> => quit' # <<>>
        <5>1. id \in CoreId
          BY <1>0 DEF TypeOK, ManagerTypes
        <5>2. quit' = quit \/ quit' = Append(quit, id)
          BY <4>3 DEF EndCore
        <5>3. Append(quit, id) # <<>>
          BY <3>1, <5>1, AppendProperties
        <5> QED
          BY <5>2, <5>3
      <4> QED
        BY <2>6, <4>1, <4>2, <4>3
    <3>3. UNCHANGED listenerVars
      BY <2>6 DEF Destroy, SendPacket, EndCore
    <3> QED
      BY <1>0, <1>1, <3>2, <3>3, SameListening
  <2> QED
    BY <2>1, <2>2, <2>3, <2>4, <2>5, <2>6
<1> QED
  BY <1>2, <1>3, <1>4

\* A step of the manager keeps the invariant.
LEMMA ManagerInvStep ==
  ASSUME IInv, Alive, ManagerNext, UNCHANGED coreVars
  PROVE  IInv'
<1>1. TypeOK'
  BY StartTypesStep, ListenerTypesStep, CallTypesStep DEF ManagerNext
<1>2. Leaving'
  BY ManagerLeavesStep DEF IInv
<1>3. Recorded' /\ (Alive' => Registry' /\ Newcomers' /\ Listening')
  <2>1. CASE StartStep
    BY <2>1, StartCoreStep, ConnectTimesOutStep, AcceptStep, AwaitReadyStep, RegisterStep,
       OtherStep DEF StartStep
  <2>2. CASE ListenerStep
    BY <2>2, ReadQuitStep, ServeCoreStep, OtherStep DEF ListenerStep
  <2>3. CASE Destroy \/ Joined \/ SendPacket \/ \E id \in DOMAIN cores : EndCore(id)
    BY <2>3, OtherStep
  <2> QED
    BY <2>1, <2>2, <2>3 DEF ManagerNext
<1> QED
  BY <1>1, <1>2, <1>3 DEF IInv

-----------------------------------------------------------------------------
(* The theorems.                                                           *)

LEMMA InitInv == Init => IInv
<1> SUFFICES ASSUME Init PROVE IInv
  OBVIOUS
<1>1. TypeOK
  BY InitTypes
<1>2. DOMAIN cores = {} /\ DOMAIN issued = {} /\ cores = <<>>
  BY DEF Init, ManagerInit
<1>3. Leaving
  BY DEF Init, ConnectionInit, CoreInit, Leaving
<1>4. Newcomers
  BY <1>2 DEF Init, ConnectionInit, ManagerInit, CoreInit, Newcomers
<1>5. Listening
  BY <1>2 DEF Init, ManagerInit, Listening, Listened, Watched
<1> QED
  BY <1>1, <1>2, <1>3, <1>4, <1>5 DEF IInv, Recorded, IdsNotReused, Registry, RegisteredIsOpen

LEMMA NextInv == IInv /\ [Next]_vars => IInv'
<1> SUFFICES ASSUME IInv, [Next]_vars PROVE IInv'
  OBVIOUS
<1>1. CASE ManagerNext /\ UNCHANGED coreVars
  BY <1>1, ManagerInvStep DEF ManagerNext, Alive
<1>2. CASE CoreNext /\ UNCHANGED managerVars /\ Alive
  BY <1>2, CoreInvStep
<1>3. CASE UNCHANGED vars
  BY <1>3 DEF vars, connectionVars, managerVars, clientVars, registryVars, listenerVars, coreVars,
     IInv, TypeOK, ConnectionTypes, ManagerTypes, CoreTypes, Leaving, Recorded, IdsNotReused,
     Registry, RegisteredIsOpen, Newcomers, Listening, Listened, Watched, Readable, ManagerAtEnd,
     Alive
<1> QED
  BY <1>1, <1>2, <1>3 DEF Next, Alive

LEMMA InvHolds == Spec => []IInv
BY InitInv, NextInv, PTL DEF Spec

\* Every variable of the manager, of the cores and of the streams between
\* them holds a value of its type; what was read was there to be read.
THEOREM SystemTypeOK == Spec => []TypeOK
<1>1. IInv => TypeOK
  BY DEF IInv
<1> QED
  BY <1>1, InvHolds, PTL

\* cores_ holds no descriptor that was closed, and none of them twice.
THEOREM SystemRegisteredIsOpen == Spec => []RegisteredIsOpen
<1>1. IInv => RegisteredIsOpen
  BY DEF IInv, Registry, RegisteredIsOpen
<1> QED
  BY <1>1, InvHolds, PTL

\* While a core is registered a listener runs.
THEOREM SystemListened == Spec => []Listened
<1>1. IInv => Listened
  BY DEF IInv, Listening, Listened
<1> QED
  BY <1>1, InvHolds, PTL

\* No wake-up of the listener is lost.
THEOREM SystemWatched == Spec => []Watched
<1>1. IInv => Watched
  BY DEF IInv, Listening, Watched
<1> QED
  BY <1>1, InvHolds, PTL

\* An id is one core's for ever, whatever the number of ids.
THEOREM SystemIdsNotReused == Spec => []IdsNotReused
<1>1. IInv => IdsNotReused
  BY DEF IInv, Recorded
<1> QED
  BY <1>1, InvHolds, PTL

\* However the two disconnect_() of a core interleave, its destructor returns
\* with the connection closed and its listener done.
THEOREM SystemDisconnectedAtExit == Spec => []DisconnectedAtExit
<1>1. IInv => DisconnectedAtExit
  BY DEF IInv, Leaving, DisconnectedAtExit
<1> QED
  BY <1>1, InvHolds, PTL

=============================================================================
