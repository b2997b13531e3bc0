----------------------- MODULE ModbusTcpServerProofs -----------------------
(***************************************************************************)
(* Who owns a connection, and what the counters of the server count, for   *)
(* any number of connections, clients, netconns and mailbox places.        *)
(***************************************************************************)
EXTENDS ModbusTcpServer, FiniteSetTheorems, TLAPS

LEMMA WordIsPositive == Word \in Nat \ {0} /\ Cardinality(Conns) \in Nat
BY ServerAssumption, FS_CardinalityType

\* A stored counter is a word; storing a value that fits is exact.
LEMMA ModRange ==
  ASSUME NEW x \in Int
  PROVE  x % Word \in 0 .. Word - 1
BY WordIsPositive

LEMMA ModIdentity ==
  ASSUME NEW x \in 0 .. Word - 1
  PROVE  x % Word = x
BY WordIsPositive

\* The length of the mailbox, and what Accept and Post make of it.
LEMMA PostType ==
  ASSUME TypeOK, NEW m \in Conns \cup {NoConn}, Post(m)
  PROVE  acceptmbox' \in Seq(Conns \cup {NoConn})
BY DEF Post, TypeOK

LEMMA StoreType ==
  ASSUME NEW loaded \in 0 .. Word - 1, NEW d \in {-1, 1}, StoreCounter(loaded, d)
  PROVE  active_clients' \in 0 .. Word - 1
<1>1. loaded + d \in Int
  BY WordIsPositive
<1> QED
  BY <1>1, ModRange DEF StoreCounter

LEMMA TypeInit == Init => TypeOK
<1> SUFFICES ASSUME Init PROVE TypeOK
  OBVIOUS
<1>1. 0 \in 0 .. Word - 1
  BY WordIsPositive
<1>2. conn \in [Conns -> {"none", "queued", "open", "closed"}]
      /\ wreg \in [Conns -> 0 .. Word - 1]
      /\ wpc \in [Conns -> {"none", "recv", "close", "test", "dec_load", "dec_store",
                            "deleted"}]
  BY <1>1 DEF Init
<1>3. spc = "accept" /\ "accept" \notin InServer
  BY DEF Init, InServer
<1>4. acceptmbox \in Seq(Conns \cup {NoConn}) /\ netconns \in Int
  BY DEF Init
<1>5. sreg \in 0 .. Word - 1 /\ active_clients \in 0 .. Word - 1
  BY <1>1 DEF Init
<1>6. client_fd \in Conns \cup {NoConn} /\ lost \in BOOLEAN
  BY DEF Init
<1> QED
  BY <1>2, <1>3, <1>4, <1>5, <1>6 DEF TypeOK

LEMMA TypeNext == TypeOK /\ [Next]_vars => TypeOK'
<1> SUFFICES ASSUME TypeOK, [Next]_vars PROVE TypeOK'
  OBVIOUS
<1> USE DEF lwipVars, serverVars, workerVars
<1>1. ASSUME NEW c \in Conns, Connect(c) PROVE TypeOK'
  <2>1. acceptmbox' \in Seq(Conns \cup {NoConn})
    <3>1. UNCHANGED acceptmbox \/ Post(c) \/ Post(NoConn)
      BY <1>1 DEF Connect
    <3> QED
      BY <3>1, PostType DEF TypeOK
  <2>2. netconns' \in Int /\ conn' \in [Conns -> {"none", "queued", "open", "closed"}]
    BY <1>1 DEF Connect, TypeOK
  <2> QED
    BY <1>1, <2>1, <2>2 DEF Connect, TypeOK
<1>2. ASSUME Server PROVE TypeOK'
  <2>1. CASE Accept
    <3>1. Head(acceptmbox) \in Conns /\ acceptmbox' \in Seq(Conns \cup {NoConn})
      BY <2>1 DEF Accept, TypeOK
    <3> QED
      BY <2>1, <3>1 DEF Accept, ServerGoes, TypeOK, InServer
  <2>2. CASE AcceptError
    <3>1. acceptmbox' \in Seq(Conns \cup {NoConn})
      BY <2>2 DEF AcceptError, TypeOK
    <3> QED
      BY <2>2, <3>1 DEF AcceptError, ServerGoes, TypeOK, InServer
  <2>9. CASE AcceptAborted
    <3>1. Head(acceptmbox) \in Conns /\ acceptmbox' \in Seq(Conns \cup {NoConn})
      BY <2>9 DEF AcceptAborted, TypeOK
    <3>2. netconns' \in Int /\ conn' \in [Conns -> {"none", "queued", "open", "closed"}]
      BY <2>9, <3>1 DEF AcceptAborted, TypeOK
    <3> QED
      BY <2>9, <3>1, <3>2 DEF AcceptAborted, ServerGoes, TypeOK, InServer
  <2>3. CASE Delay
    BY <2>3 DEF Delay, ServerGoes, TypeOK, InServer
  <2>4. CASE Refuse \/ UndoClose
    <3>1. CloseSocket(client_fd)
      BY <2>4 DEF Refuse, UndoClose
    <3>2. netconns' \in Int
      BY <3>1 DEF CloseSocket, TypeOK
    <3>3. conn' \in [Conns -> {"none", "queued", "open", "closed"}]
      BY <3>1 DEF CloseSocket, TypeOK
    <3> QED
      BY <2>4, <3>2, <3>3 DEF Refuse, UndoClose, CloseSocket, ServerGoes, TypeOK, InServer
  <2>5. CASE Admit \/ SpawnFails
    BY <2>5 DEF Admit, SpawnFails, ServerGoes, TypeOK, InServer
  <2>6. CASE IncLoad \/ UndoLoad
    BY <2>6 DEF IncLoad, UndoLoad, ServerGoes, TypeOK, InServer
  <2>7. CASE IncStore \/ UndoStore
    <3>1. active_clients' \in 0 .. Word - 1 /\ lost' \in BOOLEAN
      BY <2>7, StoreType DEF IncStore, UndoStore, StoreCounter, TypeOK
    <3> QED
      BY <2>7, <3>1 DEF IncStore, UndoStore, ServerGoes, TypeOK, InServer
  <2>8. CASE Spawn
    BY <2>8 DEF Spawn, ServerGoes, TypeOK, InServer
  <2> QED
    BY <1>2, <2>1, <2>2, <2>3, <2>4, <2>5, <2>6, <2>7, <2>8, <2>9 DEF Server
<1>3. ASSUME NEW c \in Conns, Stop(c) \/ WorkerEnd(c) PROVE TypeOK'
  <2>1. CASE Stop(c)
    BY <2>1 DEF Stop, WorkerGoes, TypeOK
  <2>2. CASE WorkerClose(c)
    BY <2>2 DEF WorkerClose, CloseSocket, WorkerGoes, TypeOK
  <2>3. CASE TestCounter(c)
    BY <2>3 DEF TestCounter, WorkerGoes, TypeOK
  <2>4. CASE DecLoad(c)
    BY <2>4 DEF DecLoad, WorkerGoes, TypeOK
  <2>5. CASE DecStore(c)
    <3>1. active_clients' \in 0 .. Word - 1 /\ lost' \in BOOLEAN
      BY <2>5, StoreType DEF DecStore, StoreCounter, TypeOK
    <3> QED
      BY <2>5, <3>1 DEF DecStore, WorkerGoes, TypeOK
  <2> QED
    BY <1>3, <2>1, <2>2, <2>3, <2>4, <2>5 DEF WorkerEnd
<1>4. CASE UNCHANGED vars
  BY <1>4 DEF vars, TypeOK
<1> QED
  BY <1>1, <1>2, <1>3, <1>4 DEF Next, Quiet

\* Type correctness: the counter and the registers it passes through are words.
THEOREM TypeCorrect == Spec => []TypeOK
BY TypeInit, TypeNext, PTL DEF Spec

-----------------------------------------------------------------------------
(***************************************************************************)
(* One owner for each connection.                                          *)
(***************************************************************************)

\* The mailbox holds the queued connections, each once.
MboxInv ==
  /\ \A i \in DOMAIN acceptmbox :
       acceptmbox[i] # NoConn => conn[acceptmbox[i]] = "queued"
  /\ \A i, j \in DOMAIN acceptmbox :
       i # j /\ acceptmbox[i] # NoConn => acceptmbox[i] # acceptmbox[j]

\* The server's connection has no worker yet, and a worker's connection has left
\* the mailbox.
HandOverInv ==
  /\ spc \in InServer => wpc[client_fd] = "none"
  /\ \A c \in Conns : conn[c] \in {"none", "queued"} => wpc[c] = "none"

OwnerInv == MboxInv /\ HandOverInv /\ OneOwner

LEMMA OwnerInit == Init => OwnerInv
BY DEF Init, OwnerInv, MboxInv, HandOverInv, OneOwner, InServer

\* A connection nobody has opened is unknown to the server and the workers.
LEMMA NewConnection ==
  ASSUME OwnerInv, NEW c \in Conns, conn[c] \in {"none", "queued"}
  PROVE  wpc[c] = "none" /\ ~(spc \in InServer /\ client_fd = c)
BY DEF OwnerInv, HandOverInv, OneOwner

\* The mailbox of open connections is not disturbed when none is queued or taken.
LEMMA MboxKept ==
  ASSUME MboxInv, UNCHANGED acceptmbox,
         \A c \in Conns : conn[c] = "queued" => conn'[c] = "queued",
         TypeOK
  PROVE  MboxInv'
BY DEF MboxInv, TypeOK

LEMMA ConnectKeepsMbox ==
  ASSUME TypeOK, MboxInv, NEW c \in Conns, Connect(c)
  PROVE  MboxInv'
<1> DEFINE q == acceptmbox
<1>1. q \in Seq(Conns \cup {NoConn}) /\ conn[c] = "none"
  BY DEF Connect, TypeOK
<1>2. \A d \in Conns : conn[d] = "queued" => conn'[d] = "queued" /\ d # c
  BY <1>1 DEF Connect, TypeOK
<1>3. CASE UNCHANGED acceptmbox
  BY <1>2, <1>3, MboxKept
<1>4. CASE acceptmbox' # acceptmbox
  <2>1. PICK m \in {c, NoConn} : /\ acceptmbox' = Append(q, m)
                                 /\ m = c => conn'[c] = "queued"
    <3>1. \/ Post(c) /\ conn'[c] = "queued"
          \/ Post(NoConn)
      BY <1>4 DEF Connect, Post, TypeOK
    <3>2. c # NoConn
      BY ServerAssumption
    <3> QED
      BY <1>4, <3>1, <3>2 DEF Post
  <2>2. /\ Len(acceptmbox') = Len(q) + 1
        /\ \A i \in 1 .. Len(q) : acceptmbox'[i] = q[i]
        /\ acceptmbox'[Len(q) + 1] = m
        /\ DOMAIN acceptmbox' = 1 .. Len(q) + 1
        /\ DOMAIN q = 1 .. Len(q)
    BY <1>1, <2>1
  <2>3. \A i \in 1 .. Len(q) : q[i] # NoConn => q[i] \in Conns /\ conn[q[i]] = "queued"
    BY <1>1, <2>2 DEF MboxInv
  <2>4. \A i \in 1 .. Len(q) : q[i] # c
    BY <1>1, <2>3, ServerAssumption
  <2>5. ASSUME NEW i \in DOMAIN acceptmbox', acceptmbox'[i] # NoConn
        PROVE  conn'[acceptmbox'[i]] = "queued"
    BY <1>1, <1>2, <2>1, <2>2, <2>3, <2>5
  <2>6. ASSUME NEW i \in DOMAIN acceptmbox', NEW j \in DOMAIN acceptmbox', i # j,
               acceptmbox'[i] # NoConn
        PROVE  acceptmbox'[i] # acceptmbox'[j]
    <3>1. CASE i \in 1 .. Len(q) /\ j \in 1 .. Len(q)
      BY <2>2, <2>6, <3>1 DEF MboxInv
    <3>2. CASE i = Len(q) + 1
      BY <1>1, <2>1, <2>2, <2>4, <2>6, <3>2
    <3>3. CASE j = Len(q) + 1
      BY <1>1, <2>1, <2>2, <2>4, <2>6, <3>3
    <3> QED
      BY <1>1, <2>2, <3>1, <3>2, <3>3
  <2> QED
    BY <2>5, <2>6 DEF MboxInv
<1> QED
  BY <1>3, <1>4

\* Taking the head leaves the others queued, each once.
LEMMA TailKeepsMbox ==
  ASSUME TypeOK, MboxInv, acceptmbox # <<>>, acceptmbox' = Tail(acceptmbox),
         \A c \in Conns : c # Head(acceptmbox) => conn'[c] = conn[c],
         Head(acceptmbox) = NoConn => UNCHANGED conn
  PROVE  MboxInv'
<1> DEFINE q == acceptmbox
<1>1. q \in Seq(Conns \cup {NoConn}) /\ Len(q) \in Nat /\ Len(q) > 0
  BY DEF TypeOK
<1>2. /\ DOMAIN q = 1 .. Len(q)
      /\ DOMAIN acceptmbox' = 1 .. Len(q) - 1
      /\ \A i \in 1 .. Len(q) - 1 : acceptmbox'[i] = q[i + 1]
      /\ Head(q) = q[1]
      /\ 1 \in DOMAIN q
  BY <1>1
<1>3. \A i \in 1 .. Len(q) - 1 : i + 1 \in DOMAIN q /\ i + 1 # 1
  BY <1>1, <1>2
<1>4. ASSUME NEW i \in DOMAIN acceptmbox', acceptmbox'[i] # NoConn
      PROVE  conn'[acceptmbox'[i]] = "queued"
  <2>1. /\ acceptmbox'[i] = q[i + 1] /\ i + 1 \in DOMAIN q /\ i + 1 # 1
        /\ q[i + 1] \in Conns
    BY <1>1, <1>2, <1>3, <1>4
  <2>2. conn[q[i + 1]] = "queued" /\ q[i + 1] # q[1]
    BY <1>2, <1>4, <2>1 DEF MboxInv
  <2> QED
    BY <1>2, <2>1, <2>2
<1>5. ASSUME NEW i \in DOMAIN acceptmbox', NEW j \in DOMAIN acceptmbox', i # j,
             acceptmbox'[i] # NoConn
      PROVE  acceptmbox'[i] # acceptmbox'[j]
  <2>1. i \in Nat /\ j \in Nat /\ i + 1 # j + 1
    BY <1>2, <1>5
  <2>2. i + 1 \in DOMAIN q /\ j + 1 \in DOMAIN q
    BY <1>2, <1>3
  <2> QED
    BY <1>2, <1>5, <2>1, <2>2 DEF MboxInv
<1> QED
  BY <1>4, <1>5 DEF MboxInv

LEMMA OwnerNext == TypeOK /\ OwnerInv /\ [Next]_vars => OwnerInv'
<1> SUFFICES ASSUME TypeOK, OwnerInv, [Next]_vars PROVE OwnerInv'
  OBVIOUS
<1> USE DEF lwipVars, serverVars, workerVars
<1>0. MboxInv /\ HandOverInv /\ OneOwner
  BY DEF OwnerInv
<1>1. ASSUME NEW c \in Conns, Connect(c) PROVE OwnerInv'
  <2>1. MboxInv'
    BY <1>0, <1>1, ConnectKeepsMbox
  <2>2. /\ conn[c] = "none" /\ conn'[c] \in {"queued", "closed"}
        /\ \A d \in Conns \ {c} : conn'[d] = conn[d]
        /\ UNCHANGED <<spc, client_fd, wpc>>
    BY <1>1 DEF Connect, TypeOK
  <2>3. wpc[c] = "none" /\ ~(spc \in InServer /\ client_fd = c)
    BY <2>2, NewConnection
  <2>4. HandOverInv'
    BY <1>0, <2>2, <2>3 DEF HandOverInv
  <2>5. OneOwner'
    BY <1>0, <2>2, <2>3 DEF OneOwner
  <2> QED
    BY <2>1, <2>4, <2>5 DEF OwnerInv
<1>2. ASSUME Server PROVE OwnerInv'
  <2>1. CASE Accept
    <3> DEFINE c == Head(acceptmbox)
    <3>1. /\ c \in Conns /\ conn[c] = "queued" /\ spc = "accept" /\ spc' = "check"
          /\ client_fd' = c /\ conn'[c] = "open" /\ UNCHANGED wpc
          /\ \A d \in Conns \ {c} : conn'[d] = conn[d]
      BY <1>0, <2>1 DEF Accept, ServerGoes, MboxInv, TypeOK
    <3>2. MboxInv'
      BY <1>0, <2>1, <3>1, TailKeepsMbox DEF Accept
    <3>3. wpc[c] = "none"
      BY <3>1, NewConnection
    <3>4. HandOverInv'
      BY <1>0, <3>1, <3>3 DEF HandOverInv
    <3>5. OneOwner'
      BY <1>0, <3>1, <3>3 DEF OneOwner, InServer
    <3> QED
      BY <3>2, <3>4, <3>5 DEF OwnerInv
  <2>2. CASE AcceptError
    <3>1. MboxInv'
      BY <1>0, <2>2, TailKeepsMbox DEF AcceptError
    <3> QED
      BY <1>0, <2>2, <3>1 DEF AcceptError, ServerGoes, OwnerInv, HandOverInv, OneOwner, InServer
  <2>7. CASE AcceptAborted
    <3> DEFINE c == Head(acceptmbox)
    <3>1. /\ c \in Conns /\ conn[c] = "queued" /\ spc = "accept" /\ spc' = "delay"
          /\ conn'[c] = "closed" /\ UNCHANGED <<client_fd, wpc>>
          /\ \A d \in Conns \ {c} : conn'[d] = conn[d]
      BY <1>0, <2>7 DEF AcceptAborted, ServerGoes, MboxInv, TypeOK
    <3>2. MboxInv'
      BY <1>0, <2>7, <3>1, TailKeepsMbox DEF AcceptAborted
    <3>3. wpc[c] = "none"
      BY <3>1, NewConnection
    <3>4. HandOverInv' /\ OneOwner'
      BY <1>0, <3>1, <3>3 DEF HandOverInv, OneOwner, InServer
    <3> QED
      BY <3>2, <3>4 DEF OwnerInv
  <2>3. CASE Delay
    BY <1>0, <2>3, MboxKept
    DEF Delay, ServerGoes, OwnerInv, HandOverInv, OneOwner, InServer
  <2>4. CASE Refuse \/ UndoClose
    <3>1. /\ spc \in InServer /\ spc' = "accept" /\ client_fd \in Conns
          /\ conn'[client_fd] = "closed" /\ UNCHANGED <<acceptmbox, client_fd, wpc>>
          /\ \A d \in Conns \ {client_fd} : conn'[d] = conn[d]
      BY <2>4 DEF Refuse, UndoClose, ServerGoes, CloseSocket, InServer, TypeOK
    <3>2. conn[client_fd] = "open" /\ wpc[client_fd] = "none"
      BY <1>0, <3>1 DEF HandOverInv, OneOwner
    <3>3. MboxInv'
      BY <1>0, <3>1, <3>2, MboxKept
    <3>4. HandOverInv' /\ OneOwner'
      BY <1>0, <3>1, <3>2 DEF HandOverInv, OneOwner, InServer
    <3> QED
      BY <3>3, <3>4 DEF OwnerInv
  <2>5. CASE Admit \/ SpawnFails \/ IncLoad \/ UndoLoad \/ IncStore \/ UndoStore
    <3>1. spc \in InServer /\ spc' \in InServer /\ UNCHANGED <<acceptmbox, conn, client_fd, wpc>>
      BY <2>5 DEF Admit, SpawnFails, IncLoad, UndoLoad, IncStore, UndoStore, ServerGoes, InServer
    <3> QED
      BY <1>0, <3>1, MboxKept DEF OwnerInv, HandOverInv, OneOwner
  <2>6. CASE Spawn
    <3>1. /\ spc \in InServer /\ spc' = "accept" /\ client_fd \in Conns
          /\ wpc'[client_fd] = "recv" /\ UNCHANGED <<acceptmbox, conn, client_fd>>
          /\ \A d \in Conns \ {client_fd} : wpc'[d] = wpc[d]
      BY <2>6 DEF Spawn, ServerGoes, InServer, TypeOK
    <3>2. conn[client_fd] = "open"
      BY <1>0, <3>1 DEF OneOwner
    <3>3. HandOverInv' /\ OneOwner'
      BY <1>0, <3>1, <3>2 DEF HandOverInv, OneOwner, InServer
    <3> QED
      BY <1>0, <3>1, <3>3, MboxKept DEF OwnerInv
  <2> QED
    BY <1>2, <2>1, <2>2, <2>3, <2>4, <2>5, <2>6, <2>7 DEF Server
<1>3. ASSUME NEW c \in Conns, Stop(c) \/ WorkerEnd(c) PROVE OwnerInv'
  <2>1. /\ UNCHANGED <<acceptmbox, spc, client_fd>>
        /\ wpc[c] # "none" /\ wpc'[c] # "none"
        /\ \A d \in Conns \ {c} : wpc'[d] = wpc[d]
    BY <1>3 DEF Stop, WorkerEnd, WorkerClose, TestCounter, DecLoad, DecStore, WorkerGoes,
                CloseSocket, TypeOK
  <2>2. ~(spc \in InServer /\ client_fd = c)
    BY <1>0, <2>1 DEF HandOverInv
  <2> spc \in InServer => client_fd \in Conns
    BY DEF TypeOK
  <2>3. CASE WorkerClose(c)
    <3>1. /\ wpc[c] = "close" /\ wpc'[c] = "test" /\ conn'[c] = "closed"
          /\ \A d \in Conns \ {c} : conn'[d] = conn[d]
      BY <2>3 DEF WorkerClose, WorkerGoes, CloseSocket, TypeOK
    <3>2. conn[c] = "open"
      BY <1>0, <3>1 DEF OneOwner
    <3>3. MboxInv'
      BY <1>0, <2>1, <3>1, <3>2, MboxKept
    <3>4. HandOverInv' /\ OneOwner'
      BY <1>0, <2>1, <2>2, <3>1, <3>2 DEF HandOverInv, OneOwner
    <3> QED
      BY <3>3, <3>4 DEF OwnerInv
  <2>4. CASE ~WorkerClose(c)
    <3>1. UNCHANGED conn /\ (wpc'[c] \in {"recv", "close"} <=> wpc[c] \in {"recv", "close"})
      BY <1>3, <2>4 DEF Stop, WorkerEnd, TestCounter, DecLoad, DecStore, WorkerGoes, TypeOK
    <3> QED
      BY <1>0, <2>1, <2>2, <3>1, MboxKept DEF OwnerInv, HandOverInv, OneOwner
  <2> QED
    BY <2>3, <2>4
<1>4. CASE UNCHANGED vars
  BY <1>4 DEF vars, OwnerInv, MboxInv, HandOverInv, OneOwner
<1> QED
  BY <1>1, <1>2, <1>3, <1>4 DEF Next, Quiet

\* Each socket has one task in charge of it, from the accept to the close.
THEOREM OwnerIsUnique == Spec => []OneOwner
<1>1. Init => TypeOK /\ OwnerInv
  BY TypeInit, OwnerInit
<1>2. TypeOK /\ OwnerInv /\ [Next]_vars => (TypeOK /\ OwnerInv)'
  BY TypeNext, OwnerNext
<1>3. OwnerInv => OneOwner
  BY DEF OwnerInv
<1> QED
  BY <1>1, <1>2, <1>3, PTL DEF Spec

-----------------------------------------------------------------------------
(***************************************************************************)
(* The netconns in use and the clients counted.                            *)
(***************************************************************************)

InUse == {c \in Conns : conn[c] \in {"queued", "open"}}

LEMMA InUseFinite == IsFiniteSet(InUse)
BY ServerAssumption, FS_Subset DEF InUse

LEMMA PoolInit == Init => PoolExact
<1> SUFFICES ASSUME Init PROVE PoolExact
  OBVIOUS
<1>1. {c \in Conns : conn[c] \in {"queued", "open"}} = {}
  BY DEF Init
<1> QED
  BY <1>1, FS_EmptySet DEF Init, PoolExact

\* One connection enters or leaves the pool, or none does.
LEMMA PoolStep ==
  ASSUME PoolExact, TypeOK, NEW c \in Conns,
         \A d \in Conns \ {c} : conn'[d] = conn[d],
         \/ /\ conn[c] \notin {"queued", "open"} /\ conn'[c] \in {"queued", "open"}
            /\ netconns' = netconns + 1
         \/ /\ conn[c] \in {"queued", "open"} /\ conn'[c] \notin {"queued", "open"}
            /\ netconns' = netconns - 1
         \/ /\ conn[c] \in {"queued", "open"} <=> conn'[c] \in {"queued", "open"}
            /\ UNCHANGED netconns
  PROVE  PoolExact'
<1>1. netconns = 1 + Cardinality(InUse) /\ Cardinality(InUse) \in Nat
  BY InUseFinite, FS_CardinalityType DEF PoolExact, InUse
<1>2. PoolExact' <=> netconns' = 1 + Cardinality(InUse')
  BY DEF PoolExact, InUse
<1>3. CASE c \notin InUse /\ c \in InUse'
  <2>1. InUse' = InUse \cup {c} /\ netconns' = netconns + 1
    BY <1>3 DEF InUse
  <2>2. Cardinality(InUse \cup {c}) = Cardinality(InUse) + 1
    BY <1>3, InUseFinite, FS_AddElement
  <2> QED
    BY <1>1, <1>2, <2>1, <2>2
<1>4. CASE c \in InUse /\ c \notin InUse'
  <2>1. InUse' = InUse \ {c} /\ netconns' = netconns - 1
    BY <1>4 DEF InUse
  <2>2. Cardinality(InUse \ {c}) = Cardinality(InUse) - 1
    BY <1>4, InUseFinite, FS_RemoveElement
  <2> QED
    BY <1>1, <1>2, <2>1, <2>2
<1>5. CASE c \in InUse <=> c \in InUse'
  <2>1. InUse' = InUse /\ UNCHANGED netconns
    BY <1>5 DEF InUse
  <2> QED
    BY <1>1, <1>2, <2>1
<1> QED
  BY <1>3, <1>4, <1>5

LEMMA PoolNext == TypeOK /\ OwnerInv /\ PoolExact /\ [Next]_vars => PoolExact'
<1> SUFFICES ASSUME TypeOK, OwnerInv, PoolExact, [Next]_vars PROVE PoolExact'
  OBVIOUS
<1> USE DEF lwipVars, serverVars, workerVars
<1>1. CASE UNCHANGED <<netconns, conn>>
  BY <1>1 DEF PoolExact
<1>2. ASSUME NEW c \in Conns, Connect(c) PROVE PoolExact'
  BY <1>2, PoolStep DEF Connect, TypeOK
<1>3. CASE Accept
  <2> DEFINE c == Head(acceptmbox)
  <2>1. /\ c \in Conns /\ conn[c] = "queued" /\ conn'[c] = "open" /\ UNCHANGED netconns
        /\ \A d \in Conns \ {c} : conn'[d] = conn[d]
    BY <1>3 DEF Accept, OwnerInv, MboxInv, TypeOK
  <2> QED
    BY <2>1, PoolStep
<1>8. CASE AcceptAborted
  <2> DEFINE c == Head(acceptmbox)
  <2>1. /\ c \in Conns /\ conn[c] = "queued" /\ conn'[c] = "closed"
        /\ netconns' = netconns - 1
        /\ \A d \in Conns \ {c} : conn'[d] = conn[d]
    BY <1>8 DEF AcceptAborted, OwnerInv, MboxInv, TypeOK
  <2> QED
    BY <2>1, PoolStep
<1>4. CASE Refuse \/ UndoClose
  <2>1. /\ client_fd \in Conns /\ conn[client_fd] = "open" /\ CloseSocket(client_fd)
    BY <1>4 DEF Refuse, UndoClose, ServerGoes, InServer, TypeOK, OwnerInv, OneOwner
  <2> QED
    BY <2>1, PoolStep DEF CloseSocket, TypeOK
<1>5. ASSUME NEW c \in Conns, WorkerClose(c) PROVE PoolExact'
  <2>1. conn[c] = "open" /\ CloseSocket(c)
    BY <1>5 DEF WorkerClose, WorkerGoes, OwnerInv, OneOwner
  <2> QED
    BY <2>1, PoolStep DEF CloseSocket, TypeOK
<1>6. Server => Accept \/ AcceptAborted \/ Refuse \/ UndoClose \/ UNCHANGED <<netconns, conn>>
  BY DEF Server, AcceptError, Delay, Admit, IncLoad, IncStore, Spawn, SpawnFails, UndoLoad,
         UndoStore
<1>7. ASSUME NEW c \in Conns, Stop(c) \/ WorkerEnd(c)
      PROVE  WorkerClose(c) \/ UNCHANGED <<netconns, conn>>
  BY <1>7 DEF Stop, WorkerEnd, TestCounter, DecLoad, DecStore
<1> QED
  BY <1>1, <1>2, <1>3, <1>4, <1>5, <1>6, <1>7, <1>8 DEF Next, Quiet, vars

\* A set of connections is finite, and its size a word.
LEMMA SizeIsWord ==
  ASSUME NEW S \in SUBSET Conns
  PROVE  IsFiniteSet(S) /\ Cardinality(S) \in 0 .. Word - 1
<1>1. IsFiniteSet(S) /\ Cardinality(S) <= Cardinality(Conns)
  BY ServerAssumption, FS_Subset
<1> QED
  BY <1>1, ServerAssumption, FS_CardinalityType

LEMMA CountedType ==
  ASSUME TypeOK
  PROVE  Counted \subseteq Conns
BY DEF Counted, TypeOK, InServer

LEMMA CounterInit == Init => CounterExact
<1> SUFFICES ASSUME Init PROVE CounterExact
  OBVIOUS
<1>1. Counted = {}
  BY DEF Init, Counted
<1> QED
  BY <1>1, FS_EmptySet DEF Init, CounterExact

\* A ++ or -- that no other store has overtaken follows the set it counts.
LEMMA CounterStep ==
  ASSUME TypeOK, TypeOK', CounterExact, NEW c \in Conns, NEW loaded \in 0 .. Word - 1,
         \/ StoreCounter(loaded, 1) /\ c \notin Counted /\ Counted' = Counted \cup {c}
         \/ StoreCounter(loaded, -1) /\ c \in Counted /\ Counted' = Counted \ {c}
  PROVE  CounterExact'
<1> SUFFICES ASSUME ~lost' PROVE active_clients' = Cardinality(Counted')
  BY DEF CounterExact
<1>1. loaded = Cardinality(Counted) /\ IsFiniteSet(Counted)
  BY CountedType, SizeIsWord DEF StoreCounter, CounterExact, TypeOK
<1>2. Cardinality(Counted') \in 0 .. Word - 1
  <2>1. Counted' \in SUBSET Conns
    BY CountedType
  <2> QED
    BY <2>1, SizeIsWord
<1>3. CASE StoreCounter(loaded, 1) /\ c \notin Counted /\ Counted' = Counted \cup {c}
  <2>1. Cardinality(Counted') = loaded + 1
    BY <1>1, <1>3, FS_AddElement
  <2> QED
    BY <1>2, <1>3, <2>1, ModIdentity DEF StoreCounter
<1>4. CASE StoreCounter(loaded, -1) /\ c \in Counted /\ Counted' = Counted \ {c}
  <2>1. Cardinality(Counted') = loaded + (-1)
    BY <1>1, <1>4, FS_RemoveElement
  <2> QED
    BY <1>2, <1>4, <2>1, ModIdentity DEF StoreCounter
<1> QED
  BY <1>3, <1>4

LEMMA CounterNext ==
  ASSUME TypeOK, TypeOK', OwnerInv, CounterExact, [Next]_vars
  PROVE  CounterExact'
<1> USE DEF lwipVars, serverVars, workerVars
<1>0. spc \in InServer => client_fd \in Conns /\ wpc[client_fd] = "none"
  BY DEF TypeOK, OwnerInv, HandOverInv
<1>1. CASE Counted' = Counted /\ UNCHANGED <<active_clients, lost>>
  BY <1>1 DEF CounterExact
<1>2. CASE IncStore
  <2>1. client_fd \in Conns /\ client_fd \notin Counted /\ sreg \in 0 .. Word - 1
    BY <1>0, <1>2 DEF IncStore, ServerGoes, InServer, Counted, TypeOK
  <2>2. Counted' = Counted \cup {client_fd}
    BY <1>2 DEF IncStore, ServerGoes, Counted
  <2> QED
    BY <1>2, <2>1, <2>2, CounterStep DEF IncStore
<1>3. CASE UndoStore
  <2>1. client_fd \in Conns /\ client_fd \in Counted /\ sreg \in 0 .. Word - 1
    BY <1>0, <1>3 DEF UndoStore, ServerGoes, InServer, Counted, TypeOK
  <2>2. Counted' = Counted \ {client_fd}
    BY <1>0, <1>3 DEF UndoStore, ServerGoes, Counted, InServer
  <2> QED
    BY <1>3, <2>1, <2>2, CounterStep DEF UndoStore
<1>4. CASE Spawn
  <2>1. /\ client_fd \in Conns /\ spc = "spawn" /\ spc' = "accept" /\ UNCHANGED client_fd
        /\ wpc'[client_fd] = "recv" /\ \A d \in Conns \ {client_fd} : wpc'[d] = wpc[d]
    BY <1>0, <1>4 DEF Spawn, ServerGoes, InServer, TypeOK
  <2>2. Counted' = Counted
    BY <2>1 DEF Counted
  <2> QED
    BY <1>1, <1>4, <2>2 DEF Spawn
<1>5. CASE Server /\ ~IncStore /\ ~UndoStore /\ ~Spawn
  <2>1. /\ UNCHANGED <<wpc, active_clients, lost>>
        /\ \/ {spc, spc'} \cap {"spawn", "undo_load", "undo_store"} = {}
           \/ /\ {spc, spc'} \subseteq {"spawn", "undo_load", "undo_store"}
              /\ UNCHANGED client_fd
    BY <1>5 DEF Server, Accept, AcceptError, AcceptAborted, Delay, Refuse, Admit, IncLoad, SpawnFails, UndoLoad,
                UndoClose, ServerGoes
  <2>2. Counted' = Counted
    BY <2>1 DEF Counted
  <2> QED
    BY <1>1, <2>1, <2>2
<1>6. ASSUME NEW c \in Conns, DecStore(c) PROVE CounterExact'
  <2>1. /\ wpc[c] = "dec_store" /\ wpc'[c] = "deleted" /\ wreg[c] \in 0 .. Word - 1
        /\ \A d \in Conns \ {c} : wpc'[d] = wpc[d]
        /\ UNCHANGED <<spc, client_fd>>
    BY <1>6 DEF DecStore, WorkerGoes, TypeOK
  <2>2. spc \in InServer => client_fd # c
    BY <1>0, <2>1
  <2>3. c \in Counted /\ Counted' = Counted \ {c}
    BY <2>1, <2>2 DEF Counted, InServer
  <2> QED
    BY <1>6, <2>1, <2>3, CounterStep DEF DecStore
<1>7. ASSUME NEW c \in Conns, TestCounter(c) PROVE CounterExact'
  <2> SUFFICES ASSUME ~lost' PROVE active_clients' = Cardinality(Counted')
    BY DEF CounterExact
  <2>1. c \in Counted /\ active_clients = Cardinality(Counted)
    BY <1>7 DEF TestCounter, WorkerGoes, Counted, CounterExact
  <2>2. active_clients > 0
    BY <2>1, CountedType, SizeIsWord, FS_EmptySet
  <2>3. Counted' = Counted
    BY <1>7, <2>2 DEF TestCounter, WorkerGoes, Counted, TypeOK
  <2> QED
    BY <1>7, <2>1, <2>3 DEF TestCounter
<1>8. ASSUME NEW c \in Conns, Stop(c) \/ WorkerClose(c) \/ DecLoad(c) PROVE CounterExact'
  <2>1. Counted' = Counted /\ UNCHANGED <<active_clients, lost>>
    BY <1>8 DEF Stop, WorkerClose, DecLoad, WorkerGoes, Counted, TypeOK
  <2> QED
    BY <1>1, <2>1
<1>9. CASE UNCHANGED vars \/ \E c \in Conns : Connect(c)
  BY <1>1, <1>9 DEF vars, Connect, Counted
<1> QED
  BY <1>2, <1>3, <1>4, <1>5, <1>6, <1>7, <1>8, <1>9 DEF Next, Quiet, WorkerEnd

ServerInv == TypeOK /\ OwnerInv /\ PoolExact /\ CounterExact

\* ServerInv holds in every reachable state.
THEOREM ServerInvariant == Spec => []ServerInv
<1>1. Init => ServerInv
  BY TypeInit, OwnerInit, PoolInit, CounterInit DEF ServerInv
<1>2. ServerInv /\ [Next]_vars => ServerInv'
  BY TypeNext, OwnerNext, PoolNext, CounterNext DEF ServerInv
<1> QED
  BY <1>1, <1>2, PTL DEF Spec

\* No netconn leaks: the pool's count is the listener's netconn and one for each
\* connection that is queued or open.
THEOREM PoolIsExact == Spec => []PoolExact
<1>1. ServerInv => PoolExact
  BY DEF ServerInv
<1> QED
  BY <1>1, ServerInvariant, PTL

\* Losing an update is the only way the client counter can go wrong.
THEOREM CounterIsExact == Spec => []CounterExact
<1>1. ServerInv => CounterExact
  BY DEF ServerInv
<1> QED
  BY <1>1, ServerInvariant, PTL

-----------------------------------------------------------------------------
(***************************************************************************)
(* The limit on clients: what it rests on, and what its loss leads to.     *)
(***************************************************************************)

\* The connections a worker serves.
Serving == {c \in Conns : wpc[c] \in {"recv", "close"}}

\* While no update of the counter has been lost, neither the counter nor the number
\* of connections served exceeds LAN8742A_MAX_CLIENTS, although the server tests
\* the counter in one step and increments it in two later ones.
WithinLimit == ~lost => CounterBounded /\ Cardinality(Serving) <= MaxClients

\* A client that was admitted still has its place: others only leave.
PlaceInv ==
  ~lost => /\ active_clients <= MaxClients
           /\ spc \in {"inc_load", "inc_store"} => active_clients < MaxClients

LEMMA ModAtMost ==
  ASSUME NEW x \in Nat
  PROVE  x % Word <= x
BY WordIsPositive

LEMMA CountedIsPositive ==
  ASSUME TypeOK, CounterExact, ~lost, NEW c \in Counted
  PROVE  active_clients \in Nat /\ active_clients > 0
<1>1. active_clients = Cardinality(Counted) /\ Counted \in SUBSET Conns
  BY CountedType DEF CounterExact
<1> QED
  BY <1>1, SizeIsWord, FS_EmptySet, WordIsPositive

LEMMA PlaceNext == ServerInv /\ PlaceInv /\ [Next]_vars => PlaceInv'
<1> SUFFICES ASSUME TypeOK, OwnerInv, CounterExact, PlaceInv, [Next]_vars, ~lost'
             PROVE  PlaceInv'
  BY DEF ServerInv, PlaceInv
<1> USE DEF lwipVars, serverVars, workerVars
<1>0. active_clients \in Nat /\ MaxClients \in Nat
  BY WordIsPositive, ServerAssumption DEF TypeOK
<1>1. ASSUME UNCHANGED <<active_clients, lost>>,
             spc' \in {"inc_load", "inc_store"} =>
               spc \in {"inc_load", "inc_store"} \/ active_clients < MaxClients
      PROVE  PlaceInv'
  BY <1>1 DEF PlaceInv
<1>2. CASE IncStore
  <2>1. /\ ~lost /\ active_clients' = (active_clients + 1) % Word
        /\ active_clients < MaxClients /\ spc' = "spawn"
    BY <1>2 DEF IncStore, ServerGoes, StoreCounter, PlaceInv
  <2>2. active_clients + 1 \in Nat /\ active_clients + 1 <= MaxClients
    BY <1>0, <2>1
  <2>3. (active_clients + 1) % Word <= active_clients + 1 /\ (active_clients + 1) % Word \in Nat
    BY <2>2, ModAtMost, ModRange, WordIsPositive
  <2>4. active_clients' <= MaxClients
    BY <1>0, <2>1, <2>2, <2>3
  <2> QED
    BY <2>1, <2>4 DEF PlaceInv
<1>3. ASSUME NEW c \in Conns, c \in Counted, NEW loaded \in 0 .. Word - 1,
             StoreCounter(loaded, -1),
             spc' \in {"inc_load", "inc_store"} => spc \in {"inc_load", "inc_store"}
      PROVE  PlaceInv'
  <2>1. ~lost /\ loaded = active_clients /\ active_clients' = (active_clients + (-1)) % Word
    BY <1>3 DEF StoreCounter
  <2>2. active_clients > 0
    BY <1>3, <2>1, CountedIsPositive
  <2>3. active_clients + (-1) \in Nat /\ active_clients + (-1) < active_clients
    BY <1>0, <2>2
  <2>4. active_clients' <= active_clients + (-1) /\ active_clients' \in Nat
    BY <2>1, <2>3, ModAtMost, ModRange, WordIsPositive
  <2> QED
    BY <1>0, <1>3, <2>1, <2>3, <2>4 DEF PlaceInv
<1>4. CASE UndoStore
  <2>1. client_fd \in Conns /\ client_fd \in Counted /\ sreg \in 0 .. Word - 1
    BY <1>4 DEF UndoStore, ServerGoes, InServer, Counted, TypeOK
  <2> QED
    BY <1>3, <1>4, <2>1 DEF UndoStore, ServerGoes
<1>5. ASSUME NEW c \in Conns, DecStore(c)
      PROVE  PlaceInv'
  <2>1. c \in Counted /\ wreg[c] \in 0 .. Word - 1
    BY <1>5 DEF DecStore, WorkerGoes, Counted, TypeOK
  <2> QED
    BY <1>3, <1>5, <2>1 DEF DecStore
<1>6. CASE Server /\ ~IncStore /\ ~UndoStore
  BY <1>1, <1>6 DEF Server, Accept, AcceptError, AcceptAborted, Delay, Refuse, Admit, IncLoad,
     Spawn, SpawnFails, UndoLoad, UndoClose, ServerGoes
<1>7. ASSUME NEW c \in Conns,
             Connect(c) \/ Stop(c) \/ WorkerClose(c) \/ TestCounter(c) \/ DecLoad(c)
      PROVE  PlaceInv'
  BY <1>1, <1>7 DEF Connect, Stop, WorkerClose, TestCounter, DecLoad
<1>8. CASE UNCHANGED vars
  BY <1>1, <1>8 DEF vars
<1> QED
  BY <1>2, <1>4, <1>5, <1>6, <1>7, <1>8 DEF Next, Quiet, WorkerEnd

LEMMA PlaceSuffices == ServerInv /\ PlaceInv => WithinLimit
<1> SUFFICES ASSUME TypeOK, CounterExact, PlaceInv, ~lost
             PROVE  CounterBounded /\ Cardinality(Serving) <= MaxClients
  BY DEF ServerInv, WithinLimit
<1>1. active_clients = Cardinality(Counted) /\ active_clients <= MaxClients
  BY DEF CounterExact, PlaceInv
<1>2. Serving \subseteq Counted /\ Counted \in SUBSET Conns /\ Serving \in SUBSET Conns
  BY CountedType DEF Serving, Counted
<1>3. IsFiniteSet(Counted) /\ Cardinality(Counted) \in Nat /\ Cardinality(Serving) \in Nat
  BY <1>2, SizeIsWord, WordIsPositive
<1>4. Cardinality(Serving) <= Cardinality(Counted)
  BY <1>2, <1>3, FS_Subset
<1> QED
  BY <1>1, <1>3, <1>4, ServerAssumption DEF CounterBounded

\* The limit holds as long as no ++ or -- has overwritten another.
THEOREM LimitIsKept == Spec => []WithinLimit
<1>1. Init => PlaceInv
  BY ServerAssumption DEF Init, PlaceInv
<1> QED
  BY <1>1, PlaceNext, PlaceSuffices, ServerInvariant, PTL DEF Spec

\* At most one task is between the load and the store of its ++ or --: what a
\* critical section or an atomic access would give.
OneUpdateAtATime ==
  /\ \A c, d \in Conns : wpc[c] = "dec_store" /\ wpc[d] = "dec_store" => c = d
  /\ spc \in {"inc_store", "undo_store"} => \A c \in Conns : wpc[c] # "dec_store"

\* What a task has loaded is still the counter.
LoadedInv ==
  /\ ~lost
  /\ spc \in {"inc_store", "undo_store"} => sreg = active_clients
  /\ \A c \in Conns : wpc[c] = "dec_store" => wreg[c] = active_clients

LEMMA LoadedNext == TypeOK /\ LoadedInv /\ OneUpdateAtATime /\ [Next]_vars => LoadedInv'
<1> SUFFICES ASSUME TypeOK, LoadedInv, OneUpdateAtATime, [Next]_vars
             PROVE  LoadedInv'
  OBVIOUS
<1> USE DEF lwipVars, serverVars, workerVars
<1>1. CASE IncStore \/ UndoStore
  <2>1. /\ spc \in {"inc_store", "undo_store"} /\ spc' \notin {"inc_store", "undo_store"}
        /\ wpc' = wpc /\ lost' = (lost \/ sreg # active_clients)
    BY <1>1 DEF IncStore, UndoStore, ServerGoes, StoreCounter
  <2> QED
    BY <2>1 DEF LoadedInv, OneUpdateAtATime
<1>2. ASSUME NEW c \in Conns, DecStore(c)
      PROVE  LoadedInv'
  <2>1. /\ wpc[c] = "dec_store" /\ wpc'[c] = "deleted"
        /\ \A d \in Conns \ {c} : wpc'[d] = wpc[d]
        /\ spc' = spc /\ lost' = (lost \/ wreg[c] # active_clients)
    BY <1>2 DEF DecStore, WorkerGoes, StoreCounter, TypeOK
  <2> QED
    BY <2>1 DEF LoadedInv, OneUpdateAtATime
<1>3. CASE Server /\ ~IncStore /\ ~UndoStore /\ ~Spawn
  <2>1. /\ UNCHANGED <<wpc, wreg, active_clients, lost>>
        /\ spc' \in {"inc_store", "undo_store"} => sreg' = active_clients
    BY <1>3 DEF Server, Accept, AcceptError, AcceptAborted, Delay, Refuse, Admit, IncLoad,
       SpawnFails, UndoLoad, UndoClose, ServerGoes
  <2> QED
    BY <2>1 DEF LoadedInv
<1>4. CASE Spawn
  <2>1. /\ UNCHANGED <<wreg, active_clients, lost>> /\ spc' = "accept"
        /\ \A d \in Conns : wpc'[d] = "dec_store" => wpc[d] = "dec_store"
    BY <1>4 DEF Spawn, ServerGoes, TypeOK
  <2> QED
    BY <2>1 DEF LoadedInv
<1>5. ASSUME NEW c \in Conns, Stop(c) \/ WorkerClose(c) \/ TestCounter(c)
      PROVE  LoadedInv'
  <2>1. /\ UNCHANGED <<spc, sreg, wreg, active_clients, lost>>
        /\ \A d \in Conns : wpc'[d] = "dec_store" => wpc[d] = "dec_store"
    BY <1>5 DEF Stop, WorkerClose, TestCounter, WorkerGoes, TypeOK
  <2> QED
    BY <2>1 DEF LoadedInv
<1>6. ASSUME NEW c \in Conns, DecLoad(c)
      PROVE  LoadedInv'
  <2>1. /\ UNCHANGED <<spc, sreg, active_clients, lost>> /\ wreg'[c] = active_clients
        /\ \A d \in Conns \ {c} : wpc'[d] = wpc[d] /\ wreg'[d] = wreg[d]
    BY <1>6 DEF DecLoad, WorkerGoes, TypeOK
  <2> QED
    BY <2>1 DEF LoadedInv
<1>7. CASE UNCHANGED vars \/ \E c \in Conns : Connect(c)
  BY <1>7 DEF vars, Connect, LoadedInv
<1> QED
  BY <1>1, <1>2, <1>3, <1>4, <1>5, <1>6, <1>7 DEF Next, Quiet, WorkerEnd

\* The comment "atomic enough on Cortex-M single core" is wrong only for want of a
\* critical section: if no two tasks were between load and store at once, no
\* update would be lost and the counter would stay within its limit.
THEOREM SerialUpdatesKeepLimit ==
  Spec /\ []OneUpdateAtATime => [](~lost /\ CounterBounded)
<1>1. Init => LoadedInv
  BY DEF Init, LoadedInv
<1>2. WithinLimit /\ LoadedInv => ~lost /\ CounterBounded
  BY DEF WithinLimit, LoadedInv
<1> QED
  BY <1>1, <1>2, LoadedNext, TypeCorrect, LimitIsKept, PTL DEF Spec

\* The counter is at its limit although nobody is left who would decrement it.
Shut ==
  /\ active_clients >= MaxClients
  /\ spc \in {"accept", "delay", "check"}
  /\ \A c \in Conns : wpc[c] \in {"none", "deleted"}

\* What lost decrements lead to is for good: the server refuses every client from
\* then on, and gives none a worker.
THEOREM ShutForEver == Spec => [](Shut => []Shut)
<1>1. TypeOK /\ Shut /\ [Next]_vars => Shut'
  <2> SUFFICES ASSUME TypeOK, Shut, [Next]_vars
               PROVE  Shut'
    OBVIOUS
  <2>0. ~(active_clients < MaxClients)
    BY WordIsPositive, ServerAssumption DEF TypeOK, Shut
  <2> USE DEF lwipVars, serverVars, workerVars
  <2>1. CASE Server
    BY <2>0, <2>1 DEF Server, Accept, AcceptError, AcceptAborted, Delay, Refuse, Admit, IncLoad,
       IncStore, Spawn, SpawnFails, UndoLoad, UndoStore, UndoClose, ServerGoes, Shut
  <2>2. ~ \E c \in Conns : Stop(c) \/ WorkerEnd(c)
    BY DEF Stop, WorkerEnd, WorkerClose, TestCounter, DecLoad, DecStore, WorkerGoes, Shut
  <2>3. CASE UNCHANGED vars \/ \E c \in Conns : Connect(c)
    BY <2>3 DEF vars, Connect, Shut
  <2> QED
    BY <2>1, <2>2, <2>3 DEF Next, Quiet
<1> QED
  BY <1>1, TypeCorrect, PTL DEF Spec

-----------------------------------------------------------------------------
(***************************************************************************)
(* The pool of netconns, which is the limit that counts.                   *)
(***************************************************************************)

PoolBound == netconns <= NetconnPool

LEMMA PoolBoundNext == TypeOK /\ PoolBound /\ [Next]_vars => PoolBound'
<1> SUFFICES ASSUME TypeOK, PoolBound, [Next]_vars
             PROVE  PoolBound'
  OBVIOUS
<1> USE DEF lwipVars, serverVars, workerVars
<1>0. netconns \in Int /\ NetconnPool \in Int
  BY ServerAssumption DEF TypeOK
<1>1. ASSUME netconns' \in {netconns, netconns - 1}
      PROVE  PoolBound'
  BY <1>0, <1>1 DEF PoolBound
<1>2. ASSUME NEW c \in Conns, Connect(c)
      PROVE  PoolBound'
  BY <1>0, <1>2 DEF Connect, PoolBound
<1>3. CASE Server
  <2>1. netconns' \in {netconns, netconns - 1}
    BY <1>3 DEF Server, Accept, AcceptError, AcceptAborted, Delay, Refuse, Admit, IncLoad,
       IncStore, Spawn, SpawnFails, UndoLoad, UndoStore, UndoClose, CloseSocket
  <2> QED
    BY <1>1, <2>1
<1>4. ASSUME NEW c \in Conns, Stop(c) \/ WorkerEnd(c)
      PROVE  PoolBound'
  <2>1. netconns' \in {netconns, netconns - 1}
    BY <1>4 DEF Stop, WorkerEnd, WorkerClose, TestCounter, DecLoad, DecStore, CloseSocket
  <2> QED
    BY <1>1, <2>1
<1>5. CASE UNCHANGED vars
  BY <1>1, <1>5 DEF vars
<1> QED
  BY <1>2, <1>3, <1>4, <1>5 DEF Next, Quiet

\* One netconn is the listener's: never as many connections as netconns are queued
\* or open at once.
FewerThanPool == Cardinality(InUse) < NetconnPool

LEMMA PoolSuffices == TypeOK /\ PoolExact /\ PoolBound => FewerThanPool
<1> SUFFICES ASSUME TypeOK, PoolExact, PoolBound
             PROVE  FewerThanPool
  OBVIOUS
<1>1. netconns = 1 + Cardinality(InUse) /\ netconns <= NetconnPool
  BY DEF PoolExact, PoolBound, InUse
<1>2. Cardinality(InUse) \in Nat
  BY InUseFinite, FS_CardinalityType
<1> QED
  BY <1>1, <1>2, ServerAssumption DEF FewerThanPool

\* With the code's MEMP_NUM_NETCONN of 4 there are never four clients, whatever
\* LAN8742A_MAX_CLIENTS says.
THEOREM PoolIsTheLimit == Spec => []FewerThanPool
<1>1. Init => PoolBound
  BY ServerAssumption DEF Init, PoolBound
<1> QED
  BY <1>1, PoolBoundNext, PoolSuffices, TypeCorrect, PoolIsExact, PTL DEF Spec

\* With a pool no larger than the limit, as in the code, a client that the server
\* refuses is refused for connections whose sockets are already closed, or for
\* updates of the counter that were lost: with it, fewer than LAN8742A_MAX_CLIENTS
\* are connected.
THEOREM RefusedWithRoom ==
  NetconnPool <= MaxClients =>
    (Spec => [][Refuse => Cardinality(Serving \cup {client_fd}) < MaxClients]_vars)
<1> SUFFICES ASSUME NetconnPool <= MaxClients
             PROVE  Spec => [][Refuse => Cardinality(Serving \cup {client_fd}) < MaxClients]_vars
  OBVIOUS
<1>1. ASSUME TypeOK, OwnerInv, FewerThanPool, Refuse
      PROVE  Cardinality(Serving \cup {client_fd}) < MaxClients
  <2>1. client_fd \in Conns /\ conn[client_fd] = "open"
    BY <1>1 DEF Refuse, ServerGoes, TypeOK, OwnerInv, OneOwner, InServer
  <2>2. Serving \cup {client_fd} \subseteq InUse
    BY <1>1, <2>1 DEF Serving, OwnerInv, OneOwner, InUse
  <2>3. Cardinality(Serving \cup {client_fd}) <= Cardinality(InUse)
        /\ Cardinality(InUse) \in Nat /\ Cardinality(Serving \cup {client_fd}) \in Nat
    BY <2>2, InUseFinite, FS_Subset, FS_CardinalityType
  <2> QED
    BY <1>1, <2>3, ServerAssumption DEF FewerThanPool
<1>2. ServerInv => TypeOK /\ OwnerInv
  BY DEF ServerInv
<1> QED
  BY <1>1, <1>2, ServerInvariant, PoolIsTheLimit, PTL
=============================================================================
