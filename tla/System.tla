-------------------------------- MODULE System --------------------------------
(***************************************************************************)
(* The manager and its cores together: CoreManager in one process, a Core  *)
(* in each of the others, over the sockets of Connection.                  *)
(***************************************************************************)
EXTENDS CoreManager, Core

vars == <<connectionVars, managerVars, coreVars>>

Init == ConnectionInit /\ ManagerInit /\ CoreInit

\* What the cores do once the manager process is gone is not followed.
Next ==
  /\ fate = "alive"
  /\ \/ ManagerNext /\ UNCHANGED coreVars
     \/ CoreNext /\ UNCHANGED managerVars

\* Both processes are scheduled: the listener, the threads of the cores and
\* the join of the destructor.  Nobody has to call anything.
Fairness ==
  /\ WF_vars(fate = "alive" /\ ListenerStep /\ UNCHANGED coreVars)
  /\ WF_vars(fate = "alive" /\ Joined /\ UNCHANGED coreVars)
  /\ \A c \in Core : WF_vars(fate = "alive" /\ CoreStep(c) /\ UNCHANGED managerVars)

Spec == Init /\ [][Next]_vars /\ Fairness
-----------------------------------------------------------------------------
\* Every variable holds a value of its type.
TypeOK == ConnectionTypes /\ ManagerTypes /\ CoreTypes

Alive == fate = "alive"

\* cores_ names open connections only, each once: the listener, the only
\* thread that closes them, forgets a core in the step that closes it, so no
\* send and no fd_set ever holds a descriptor the system may have reused.
RegisteredIsOpen ==
  Alive => \A id, other \in DOMAIN cores :
    /\ managerEnd[cores[id]] = "open"
    /\ cores[id] = cores[other] => id = other

\* While a core is registered somebody listens to it, whatever mix of cores
\* leaving and joining ran before.
Listened ==
  (Alive /\ DOMAIN cores # {}) => listener \notin {"none", "finished"}

\* No lost wake-up: while the listener sleeps in select(), every registered
\* core is in its fd_set or a byte on the quit socket will wake it, although
\* cores are registered after it filled the set and before it sleeps.
Watched ==
  (Alive /\ listener = "select" /\ quit = <<>>) => DOMAIN cores \subseteq armed

\* An id means one core for ever and is never the zero that says "look again"
\* on the quit socket, also when more cores come than there are ids: a packet
\* or a disconnection meant for a core that quit never reaches another one (the
\* comment of getNextAvailableCoreId_).
IdsNotReused == \A id \in DOMAIN cores : id # 0 /\ cores[id] = issued[id]

\* When ~Core returns the connection is closed, nobody believes it open and
\* no handler runs on the singletons that are destroyed after it, although two
\* threads run disconnect_() and test and clear isConnected_ without a lock: a
\* destructor that finds it cleared leaves the close to the listener, and the
\* join is what waits for it.
DisconnectedAtExit ==
  \A c \in Core :
    process[c] = "running" /\ program[c] = "~Core()" =>
      coreEnd[c] = "closed" /\ ~ isConnected[c] /\ managerListener[c] = "done"

\* A core that is gone is forgotten in the end, whether it said so, was killed
\* or was told to go, and whatever the listener was doing.
GoneForgotten ==
  \A c \in Core :
    (\E id \in DOMAIN cores : cores[id] = c /\ coreEnd[c] = "closed")
      ~> (~ Alive \/ \A id \in DOMAIN cores : cores[id] # c)

\* A core that was told to go goes.
EndedLeaves ==
  \A c \in Core :
    (\E i \in DOMAIN toCore[c] : toCore[c][i] = "DISCONNECT")
      ~> (coreEnd[c] = "closed" \/ ~ Alive)

\* The destructor of the manager is not left waiting for its listener.
DestroyCompletes == client = "joining" ~> (client = "destroyed" \/ ~ Alive)

\* "Start the listener thread if it isn't running".
ListenerCanStart == fate # "terminate"

=============================================================================
