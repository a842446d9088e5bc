--------------------------------- MODULE Core ---------------------------------
(***************************************************************************)
(* The core's Core (core/Core.cpp): the constructor connects the process   *)
(* to the manager before main() runs, a listener thread handles what the   *)
(* manager sends, and the destructor runs when the program exits.  Both    *)
(* threads run disconnect_(), which reads and clears isConnected_ without  *)
(* a lock.                                                                 *)
(***************************************************************************)
EXTENDS Connection

VARIABLES
  program,          \* where the process's main thread is, by core
  managerListener,  \* where its listener thread is
  isConnected       \* isConnected_

coreVars == <<program, managerListener, isConnected>>

CoreInit ==
  /\ program = [c \in Core |-> "Core()"]
  /\ managerListener = [c \in Core |-> "none"]
  /\ isConnected = [c \in Core |-> FALSE]

Goes(var, c, to) == [var EXCEPT ![c] = to]

\* The process ends, and both threads with it.
Ends(c) ==
  /\ Dies(c)
  /\ program' = Goes(program, c, "gone")
  /\ managerListener' = Goes(managerListener, c, "none")
  /\ isConnected' = Goes(isConnected, c, FALSE)
  /\ UNCHANGED <<listening, backlog, toManager, managerEnd>>

\* Nobody catches what a constructor of a static object throws.
Connect(c) ==
  /\ process[c] = "running" /\ program[c] = "Core()"
  /\ \/ listening = "none" /\ Ends(c)
     \/ /\ listening # "none"
        /\ program' = Goes(program, c, "handshake")
        /\ backlog' = Append(backlog, c)
        /\ coreEnd' = Goes(coreEnd, c, "open")
        /\ SendToManager(c, "CONNECT")
        /\ UNCHANGED <<process, listening, toCore, managerEnd, managerListener, isConnected>>

\* The process is killed between connect() and the CONNECT.
DiesConnecting(c) ==
  /\ process[c] = "running" /\ program[c] = "Core()" /\ listening # "none"
  /\ backlog' = Append(backlog, c)
  /\ process' = Goes(process, c, "dead") /\ program' = Goes(program, c, "gone")
  /\ coreEnd' = Goes(coreEnd, c, "closed")
  /\ UNCHANGED <<listening, toCore, toManager, managerEnd, managerListener, isConnected>>

\* CONNECT_OK and the core's name, the other singletons, the listener and
\* READY; nothing else in the process runs yet.  When the manager is gone the
\* reply is uninitialised: the constructor throws, or takes it for CONNECT_OK.
ShakeHands(c) ==
  /\ process[c] = "running" /\ program[c] = "handshake"
  /\ \/ CoreAtEnd(c) /\ Ends(c)
     \/ /\ CoreAtEnd(c) \/ Contains(toCore[c], "CONNECT_OK")
        /\ toCore' = [toCore EXCEPT ![c] = IF CoreAtEnd(c) THEN @ ELSE Tail(@)]
        /\ isConnected' = Goes(isConnected, c, TRUE)
        /\ program' = Goes(program, c, "main")
        /\ managerListener' = Goes(managerListener, c, "recv")
        /\ SendToManager(c, "READY")
        /\ UNCHANGED <<process, listening, backlog, coreEnd, managerEnd>>

-----------------------------------------------------------------------------
(* managerListener_, the thread.                                           *)

Asked(c) == toCore[c] # <<>> /\ Head(toCore[c]) = "DISCONNECT"

\* The connection ended, or the manager asked to end it: disconnect_()
\* tests isConnected_, clears it later and closes the socket later still.
ListenerLeaves(c) ==
  /\ process[c] = "running" /\ managerListener[c] = "recv"
  /\ Asked(c) \/ CoreAtEnd(c)
  /\ toCore' = IF Asked(c) THEN [toCore EXCEPT ![c] = Tail(@)] ELSE toCore
  /\ managerListener' = Goes(managerListener, c, IF isConnected[c] THEN "clear" ELSE "done")
  /\ UNCHANGED <<process, listening, backlog, toManager, coreEnd, managerEnd, program,
                 isConnected>>

\* A handler does its work, and may log: sendPacket() says nothing when it is
\* not connected, and to a manager that is gone it raises SIGPIPE.
Handle(c) ==
  /\ process[c] = "running" /\ managerListener[c] = "recv"
  /\ toCore[c] # <<>> /\ ~ Asked(c)
  /\ \/ isConnected[c] /\ managerEnd[c] = "closed" /\ Ends(c)
     \/ /\ toCore' = [toCore EXCEPT ![c] = Tail(@)]
        /\ \/ UNCHANGED toManager
           \/ isConnected[c] /\ managerEnd[c] = "open" /\ coreEnd[c] = "open"
              /\ SendToManager(c, "LOG")
        /\ UNCHANGED <<process, listening, backlog, coreEnd, managerEnd, coreVars>>

ListenerClears(c) ==
  /\ process[c] = "running" /\ managerListener[c] = "clear"
  /\ managerListener' = Goes(managerListener, c, "close")
  /\ isConnected' = Goes(isConnected, c, FALSE)
  /\ UNCHANGED <<connectionVars, program>>

\* Mutant: the socket is left open.
ForgetsSocket(c) ==
  /\ process[c] = "running" /\ managerListener[c] = "close"
  /\ managerListener' = Goes(managerListener, c, "done")
  /\ UNCHANGED <<connectionVars, program, isConnected>>

\* isConnected_ is false by the time DISCONNECT would be sent: it never is.
ListenerCloses(c) ==
  /\ process[c] = "running" /\ managerListener[c] = "close"
  /\ managerListener' = Goes(managerListener, c, "done")
  /\ coreEnd' = Goes(coreEnd, c, "closed")
  /\ UNCHANGED <<process, listening, backlog, toCore, toManager, managerEnd, program,
                 isConnected>>

-----------------------------------------------------------------------------
(* The end of the process.                                                 *)

\* main() returned: ~Core tests isConnected_.
Exit(c) ==
  /\ process[c] = "running" /\ program[c] = "main"
  /\ program' = Goes(program, c, IF isConnected[c] THEN "clear" ELSE "join")
  /\ UNCHANGED <<connectionVars, managerListener, isConnected>>

ExitClears(c) ==
  /\ process[c] = "running" /\ program[c] = "clear"
  /\ program' = Goes(program, c, "close")
  /\ isConnected' = Goes(isConnected, c, FALSE)
  /\ UNCHANGED <<connectionVars, managerListener>>

\* The shutdown() in close() wakes the listener's recv().
ExitCloses(c) ==
  /\ process[c] = "running" /\ program[c] = "close"
  /\ program' = Goes(program, c, "join")
  /\ coreEnd' = Goes(coreEnd, c, "closed")
  /\ UNCHANGED <<process, listening, backlog, toCore, toManager, managerEnd, managerListener,
                 isConnected>>

\* Mutant: the destructor does not wait for the listener.
NoJoin(c) == TRUE

ListenerDone(c) == managerListener[c] = "done"

\* The join returns, and the other singletons are destroyed.
ExitJoins(c) ==
  /\ process[c] = "running" /\ program[c] = "join" /\ ListenerDone(c)
  /\ program' = Goes(program, c, "~Core()")
  /\ UNCHANGED <<connectionVars, managerListener, isConnected>>

ExitEnds(c) == process[c] = "running" /\ program[c] = "~Core()" /\ Ends(c)

\* A crash or a kill, at any point.
Crash(c) == process[c] = "running" /\ Ends(c)

-----------------------------------------------------------------------------
\* What the scheduler runs; the program exits and crashes when it likes.
CoreStep(c) ==
  \/ Connect(c) \/ ShakeHands(c)
  \/ ListenerLeaves(c) \/ Handle(c) \/ ListenerClears(c) \/ ListenerCloses(c)
  \/ ExitClears(c) \/ ExitCloses(c) \/ ExitJoins(c) \/ ExitEnds(c)

CoreNext == \E c \in Core : CoreStep(c) \/ Exit(c) \/ Crash(c) \/ DiesConnecting(c)

CoreTypes ==
  /\ program \in [Core -> {"Core()", "handshake", "main", "clear", "close",
                           "join", "~Core()", "gone"}]
  /\ managerListener \in [Core -> {"none", "recv", "clear", "close", "done"}]
  /\ isConnected \in [Core -> BOOLEAN]
=============================================================================
