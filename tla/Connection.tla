------------------------------ MODULE Connection ------------------------------
(***************************************************************************)
(* What CoreManager and the cores share: the processes, the port that the  *)
(* manager listens on and a stream in each direction per connection.  It   *)
(* is the operating system's side of the calls the two of them make.       *)
(*                                                                         *)
(* A packet is its opcode; header and data travel together.  "INFO" stands *)
(* for every packet that carries work for a handler of the core, and       *)
(* "DISCONNECT" for DETACH too, which the core handles the same way.       *)
(* What nobody will read any more is forgotten.                            *)
(***************************************************************************)
EXTENDS Integers, Sequences, FiniteSets, SequencesExt, Maps

CONSTANT Core   \* the processes the manager may start, each with a core in it

ASSUME CoreAssumption == Core # {}

VARIABLES
  process,    \* "none", "running" or "dead"
  listening,  \* the port: "none", "open", or "leaked" by a failed start
  backlog,    \* connections to the port that are not accepted
  toCore,     \* packets the manager sent that the core has not read
  toManager,  \* packets the core sent that the manager has not read
  coreEnd,    \* the core's end of its connection
  managerEnd  \* the manager's end of it

connectionVars == <<process, listening, backlog, toCore, toManager, coreEnd, managerEnd>>

ServerPacket == {"CONNECT_OK", "INFO", "DISCONNECT"}
ClientPacket == {"CONNECT", "READY", "LOG"}
End == {"none", "open", "closed"}

ConnectionInit ==
  /\ process = [c \in Core |-> "none"]
  /\ listening = "none" /\ backlog = <<>>
  /\ toCore = [c \in Core |-> <<>>] /\ toManager = [c \in Core |-> <<>>]
  /\ coreEnd = [c \in Core |-> "none"] /\ managerEnd = [c \in Core |-> "none"]

ConnectionTypes ==
  /\ process \in [Core -> {"none", "running", "dead"}]
  /\ listening \in {"none", "open", "leaked"} /\ backlog \in Seq(Core)
  /\ toCore \in [Core -> Seq(ServerPacket)] /\ toManager \in [Core -> Seq(ClientPacket)]
  /\ coreEnd \in [Core -> End] /\ managerEnd \in [Core -> End]

\* The peer has closed and everything it sent has been read.
ManagerAtEnd(c) == toManager[c] = <<>> /\ coreEnd[c] = "closed"
CoreAtEnd(c)    == toCore[c] = <<>> /\ (managerEnd[c] = "closed" \/ coreEnd[c] = "closed")

SendToCore(c, packet) == toCore' = [toCore EXCEPT ![c] = Append(@, packet)]
SendToManager(c, packet) ==
  toManager' = IF managerEnd[c] = "closed" THEN toManager
                                           ELSE [toManager EXCEPT ![c] = Append(@, packet)]

\* A process that ends has its connection closed for it.
ClosedByDeath(c) == IF coreEnd[c] = "open" THEN "closed" ELSE coreEnd[c]

Dies(c) ==
  /\ process' = [process EXCEPT ![c] = "dead"]
  /\ coreEnd' = [coreEnd EXCEPT ![c] = ClosedByDeath(c)]
  /\ toCore' = [toCore EXCEPT ![c] = <<>>]
=============================================================================
