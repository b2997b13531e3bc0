-------------------------- MODULE ModbusTcpServer --------------------------
(***************************************************************************)
(* The server task and the per-client worker tasks of                      *)
(* Com/modbus_tcp_server/modbus_tcp_server_task.c, from the accept to the  *)
(* end of the worker, with the part of lwIP they rest on: the accept       *)
(* mailbox and the pool of netconns (one is the listener's).               *)
(*                                                                         *)
(* active_clients is a volatile uint32_t shared by tasks of equal priority *)
(* that the tick may switch between any two instructions: ++ and -- are a  *)
(* load and a store, and a worker tests the counter before it decrements.  *)
(*                                                                         *)
(* A connection is used once.  What a worker receives and answers is the   *)
(* business of FrameStream: here it only decides when the worker stops.    *)
(* No receive timeout stops it: LWIP_SO_RCVTIMEO is 0, so lwIP refuses the *)
(* SO_RCVTIMEO that set_client_socket_opts asks for.                       *)
(***************************************************************************)
EXTENDS Integers, Sequences, FiniteSets

CONSTANTS
  Conns,        \* connections that clients may open
  NoConn,       \* no connection; in the mailbox: an error (ERR_ABRT)
  MaxClients,   \* LAN8742A_MAX_CLIENTS
  NetconnPool,  \* MEMP_NUM_NETCONN, the listener's netconn included
  MboxSize,     \* DEFAULT_ACCEPTMBOX_SIZE
  Word          \* size of a uint32_t; any value well above MaxClients will do

ASSUME ServerAssumption ==
  /\ IsFiniteSet(Conns)
  /\ NoConn \notin Conns
  /\ MaxClients \in Nat \ {0}
  /\ NetconnPool \in Nat \ {0}
  /\ MboxSize \in Nat \ {0}
  /\ Word \in Nat
  /\ Word > Cardinality(Conns)

VARIABLES
  acceptmbox, \* connections and errors the server has not accepted yet
  netconns,   \* netconns in use
  conn,       \* [Conns -> state of the connection's socket]
  spc,        \* where the server task is
  client_fd,  \* the connection it is working on
  sreg,       \* the register of its ++ or --
  wpc,        \* [Conns -> where the connection's worker is]
  wreg,       \* [Conns -> the register of its --]
  active_clients,
  lost        \* history: a store has overwritten another task's update

lwipVars   == <<acceptmbox, netconns, conn>>
serverVars == <<spc, client_fd, sreg>>
workerVars == <<wpc, wreg>>
vars == <<lwipVars, serverVars, workerVars, active_clients, lost>>

(***************************************************************************)
(* lwIP: a handshake completes (accept_function in the tcpip thread), and  *)
(* closesocket gives the netconn back.                                     *)
(***************************************************************************)

Post(m) == acceptmbox' = IF Len(acceptmbox) < MboxSize
                         THEN Append(acceptmbox, m) ELSE acceptmbox

\* The connection is queued; it is dropped if the mailbox is full; or the stack is
\* out of netconns or of pcbs, and posts an error instead.
Connect(c) ==
  /\ conn[c] = "none"
  /\ \/ /\ netconns < NetconnPool
        /\ Len(acceptmbox) < MboxSize
        /\ Post(c)
        /\ netconns' = netconns + 1
        /\ conn' = [conn EXCEPT ![c] = "queued"]
     \/ /\ netconns < NetconnPool
        /\ Len(acceptmbox) >= MboxSize
        /\ conn' = [conn EXCEPT ![c] = "closed"]
        /\ UNCHANGED <<acceptmbox, netconns>>
     \/ /\ Post(NoConn)
        /\ conn' = [conn EXCEPT ![c] = "closed"]
        /\ UNCHANGED netconns
  /\ UNCHANGED <<serverVars, workerVars, active_clients, lost>>

CloseSocket(c) ==
  /\ conn' = [conn EXCEPT ![c] = "closed"]
  /\ netconns' = netconns - 1
  /\ UNCHANGED acceptmbox

\* Variant: the counter is a signed int.
StoreSigned(loaded, d) ==
  /\ active_clients' = loaded + d
  /\ lost' = (lost \/ loaded # active_clients)
\* The store of a ++ or -- whose load found `loaded'.
StoreCounter(loaded, d) ==
  /\ active_clients' = (loaded + d) % Word
  /\ lost' = (lost \/ loaded # active_clients)

(***************************************************************************)
(* lan8742a_modbus_tcp_server_task                                         *)
(***************************************************************************)

ServerGoes(from, to) == spc = from /\ spc' = to

Accept ==
  /\ acceptmbox # <<>>
  /\ Head(acceptmbox) # NoConn
  /\ ServerGoes("accept", "check")
  /\ client_fd' = Head(acceptmbox)
  /\ acceptmbox' = Tail(acceptmbox)
  /\ conn' = [conn EXCEPT ![Head(acceptmbox)] = "open"]
  /\ UNCHANGED <<netconns, sreg, workerVars, active_clients, lost>>

AcceptError ==
  /\ acceptmbox # <<>>
  /\ Head(acceptmbox) = NoConn
  /\ ServerGoes("accept", "delay")
  /\ acceptmbox' = Tail(acceptmbox)
  /\ UNCHANGED <<netconns, conn, client_fd, sreg, workerVars, active_clients, lost>>

\* The client has reset the connection while it was queued: netconn_peer fails.
AcceptAborted ==
  /\ acceptmbox # <<>>
  /\ Head(acceptmbox) # NoConn
  /\ ServerGoes("accept", "delay")
  /\ acceptmbox' = Tail(acceptmbox)
  /\ conn' = [conn EXCEPT ![Head(acceptmbox)] = "closed"]
  /\ netconns' = netconns - 1
  /\ UNCHANGED <<client_fd, sreg, workerVars, active_clients, lost>>

\* Variant: the server task ends at the first failing accept.
DelayForever ==
  /\ ServerGoes("delay", "delay")
  /\ UNCHANGED <<lwipVars, client_fd, sreg, workerVars, active_clients, lost>>
Delay ==
  /\ ServerGoes("delay", "accept")
  /\ UNCHANGED <<lwipVars, client_fd, sreg, workerVars, active_clients, lost>>

\* Variant: the refused client's socket is not closed.
RefuseWithoutClose ==
  /\ active_clients >= MaxClients
  /\ ServerGoes("check", "accept")
  /\ UNCHANGED <<lwipVars, client_fd, sreg, workerVars, active_clients, lost>>
Refuse ==
  /\ active_clients >= MaxClients
  /\ ServerGoes("check", "accept")
  /\ CloseSocket(client_fd)
  /\ UNCHANGED <<client_fd, sreg, workerVars, active_clients, lost>>

Admit ==
  /\ active_clients < MaxClients
  /\ ServerGoes("check", "inc_load")
  /\ UNCHANGED <<lwipVars, client_fd, sreg, workerVars, active_clients, lost>>

IncLoad ==
  /\ ServerGoes("inc_load", "inc_store")
  /\ sreg' = active_clients
  /\ UNCHANGED <<lwipVars, client_fd, workerVars, active_clients, lost>>

IncStore ==
  /\ ServerGoes("inc_store", "spawn")
  /\ StoreCounter(sreg, 1)
  /\ UNCHANGED <<lwipVars, client_fd, sreg, workerVars>>

\* Variant: the server closes its copy of the descriptor after the hand-over.
SpawnThenClose ==
  /\ ServerGoes("spawn", "accept")
  /\ wpc' = [wpc EXCEPT ![client_fd] = "recv"]
  /\ CloseSocket(client_fd)
  /\ UNCHANGED <<client_fd, sreg, wreg, active_clients, lost>>
Spawn ==
  /\ ServerGoes("spawn", "accept")
  /\ wpc' = [wpc EXCEPT ![client_fd] = "recv"]
  /\ UNCHANGED <<lwipVars, client_fd, sreg, wreg, active_clients, lost>>

\* Variant: the counter is not taken back when the worker cannot be created.
SpawnFailsUncounted ==
  /\ ServerGoes("spawn", "undo_close")
  /\ UNCHANGED <<lwipVars, client_fd, sreg, workerVars, active_clients, lost>>
\* osThreadNew returns NULL: no memory for another worker's stack.
SpawnFails ==
  /\ ServerGoes("spawn", "undo_load")
  /\ UNCHANGED <<lwipVars, client_fd, sreg, workerVars, active_clients, lost>>

UndoLoad ==
  /\ ServerGoes("undo_load", "undo_store")
  /\ sreg' = active_clients
  /\ UNCHANGED <<lwipVars, client_fd, workerVars, active_clients, lost>>

UndoStore ==
  /\ ServerGoes("undo_store", "undo_close")
  /\ StoreCounter(sreg, -1)
  /\ UNCHANGED <<lwipVars, client_fd, sreg, workerVars>>

UndoClose ==
  /\ ServerGoes("undo_close", "accept")
  /\ CloseSocket(client_fd)
  /\ UNCHANGED <<client_fd, sreg, workerVars, active_clients, lost>>

Server == \/ Accept \/ AcceptError \/ AcceptAborted \/ Delay \/ Refuse \/ Admit
          \/ IncLoad \/ IncStore \/ Spawn \/ SpawnFails
          \/ UndoLoad \/ UndoStore \/ UndoClose

(***************************************************************************)
(* modbus_tcp_server_worker_task                                           *)
(***************************************************************************)

WorkerGoes(c, from, to) == wpc[c] = from /\ wpc' = [wpc EXCEPT ![c] = to]

\* The peer closes or resets, a frame is malformed, or the accumulator is full.
Stop(c) ==
  /\ WorkerGoes(c, "recv", "close")
  /\ UNCHANGED <<lwipVars, serverVars, wreg, active_clients, lost>>

WorkerClose(c) ==
  /\ WorkerGoes(c, "close", "test")
  /\ CloseSocket(c)
  /\ UNCHANGED <<serverVars, wreg, active_clients, lost>>

TestCounter(c) ==
  /\ WorkerGoes(c, "test", IF active_clients > 0 THEN "dec_load" ELSE "deleted")
  /\ UNCHANGED <<lwipVars, serverVars, wreg, active_clients, lost>>

DecLoad(c) ==
  /\ WorkerGoes(c, "dec_load", "dec_store")
  /\ wreg' = [wreg EXCEPT ![c] = active_clients]
  /\ UNCHANGED <<lwipVars, serverVars, active_clients, lost>>

\* Variant: the worker's end is forgotten: it waits where its loop ended.
DecStoreStays(c) ==
  /\ WorkerGoes(c, "dec_store", "dec_load")
  /\ StoreCounter(wreg[c], 0)
  /\ UNCHANGED <<lwipVars, serverVars, wreg>>
DecStore(c) ==
  /\ WorkerGoes(c, "dec_store", "deleted")
  /\ StoreCounter(wreg[c], -1)
  /\ UNCHANGED <<lwipVars, serverVars, wreg>>

WorkerEnd(c) == WorkerClose(c) \/ TestCounter(c) \/ DecLoad(c) \/ DecStore(c)

Init ==
  /\ acceptmbox = <<>>
  /\ netconns = 1
  /\ conn = [c \in Conns |-> "none"]
  /\ spc = "accept"
  /\ client_fd = NoConn
  /\ sreg = 0
  /\ wpc = [c \in Conns |-> "none"]
  /\ wreg = [c \in Conns |-> 0]
  /\ active_clients = 0
  /\ lost = FALSE

\* Every connection has come and gone, or a client stays connected and silent.
Quiet ==
  /\ spc = "accept" /\ acceptmbox = <<>>
  /\ \A c \in Conns : conn[c] # "none" /\ wpc[c] \in {"none", "recv", "deleted"}
  /\ UNCHANGED vars

Next ==
  \/ \E c \in Conns : Connect(c)
  \/ Server
  \/ \E c \in Conns : Stop(c) \/ WorkerEnd(c)
  \/ Quiet

\* The scheduler runs the server and every worker again and again (equal
\* priorities, time slicing); clients promise nothing.
Fairness == WF_vars(Server) /\ \A c \in Conns : WF_vars(WorkerEnd(c))

Spec == Init /\ [][Next]_vars /\ Fairness

-----------------------------------------------------------------------------

InServer == {"check", "inc_load", "inc_store", "spawn", "undo_load",
             "undo_store", "undo_close"}

\* Every variable has its type.
TypeOK ==
  /\ acceptmbox \in Seq(Conns \cup {NoConn})
  /\ netconns \in Int
  /\ conn \in [Conns -> {"none", "queued", "open", "closed"}]
  /\ spc \in {"accept", "delay"} \cup InServer
  /\ client_fd \in Conns \cup {NoConn}
  /\ spc \in InServer => client_fd \in Conns
  /\ sreg \in 0 .. Word - 1
  /\ wpc \in [Conns -> {"none", "recv", "close", "test", "dec_load", "dec_store",
                        "deleted"}]
  /\ wreg \in [Conns -> 0 .. Word - 1]
  /\ active_clients \in 0 .. Word - 1
  /\ lost \in BOOLEAN

\* The netconns in use are the listener's, the queued and the open ones: no path of
\* the server or of a worker gives a netconn back twice, or a dead connection's
\* never.  OneOwner adds that an open one has a task that will.
PoolExact ==
  netconns = 1 + Cardinality({c \in Conns : conn[c] \in {"queued", "open"}})

\* A socket is open exactly while one task is in charge of it: the server from
\* the accept until it closes it or a worker exists, then the worker until it
\* closes it.  None is used after it was closed or closed twice.
OneOwner ==
  \A c \in Conns :
    LET server == spc \in InServer /\ client_fd = c
        worker == wpc[c] \in {"recv", "close"}
    IN  /\ conn[c] = "open" <=> server \/ worker
        /\ ~(server /\ worker)

\* The connections the counter stands for: from the increment to the decrement.
Counted ==
  {c \in Conns : wpc[c] \in {"recv", "close", "test", "dec_load", "dec_store"}}
  \cup (IF spc \in {"spawn", "undo_load", "undo_store"} THEN {client_fd} ELSE {})

\* As long as no store has overwritten another task's update, active_clients is
\* the number of connections between their increment and their decrement.
CounterExact == ~lost => active_clients = Cardinality(Counted)

\* A connection the stack has queued is accepted or refused in the end, however
\* many accepts fail before it.
QueuedIsTaken == \A c \in Conns : conn[c] = "queued" ~> conn[c] # "queued"

\* A worker whose connection has ended closes its socket and ends.
StoppedIsFreed == \A c \in Conns : wpc[c] = "close" ~> wpc[c] = "deleted"

\* The counter stays within the number of clients it is meant to limit: the
\* decrement is "atomic enough on Cortex-M single core" (a comment of
\* modbus_tcp_server_worker_task).
CounterBounded == active_clients <= MaxClients

\* "slave ready (up to %d clients)" (lan8742a_modbus_tcp_server_task): the pool
\* runs dry only when MaxClients connections use it.
RoomForMaxClients ==
  netconns = NetconnPool =>
    Cardinality({c \in Conns : conn[c] \in {"queued", "open"}}) >= MaxClients

\* "Receive timeout: close idle connections to free worker" (a comment of
\* set_client_socket_opts): a worker in recv ends in the end, by the timeout if
\* not by its client.
IdleIsFreed == \A c \in Conns : wpc[c] = "recv" ~> wpc[c] = "deleted"
=============================================================================
