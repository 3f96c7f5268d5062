--------------------------- MODULE EndpointProofs ---------------------------
(***************************************************************************)
(* Proofs about the local endpoint, for any number of Kernels, endpoints,  *)
(* data directories and clients.                                           *)
(***************************************************************************)
EXTENDS ClientSession, SequenceTheorems, TLAPS

\* What the proofs need of the constants.
LEMMA KernelFacts ==
    /\ NoKernel \notin Kernels /\ Absent \notin Kernels /\ Stale \notin Kernels
    /\ \A k \in Kernels : EndpointOf[k] \in Endpoints
  BY EndpointAssumption DEF Kernels, NoKernel, Absent, Stale

\* A Kernel that moves on while it keeps lock, path and ownership.
\* bind and the removal of the socket change where a process is and whether it
\* owns the socket, and nothing else.
LEMMA KernelUpdate ==
    ASSUME EndpointInv, NEW k \in Kernels, NEW pc \in KernelPcs, NEW owned \in BOOLEAN
    PROVE  [kernel EXCEPT ![k].pc = pc, ![k].owned = owned]
             \in [Kernels -> [pc : KernelPcs, owned : BOOLEAN, stop : BOOLEAN]]
<1>1. PICK row \in [pc : KernelPcs, owned : BOOLEAN, stop : BOOLEAN] : row = kernel[k]
  BY DEF EndpointInv, EndpointTypeOK
<1>2. [[row EXCEPT !.pc = pc] EXCEPT !.owned = owned]
        \in [pc : KernelPcs, owned : BOOLEAN, stop : BOOLEAN]
  OBVIOUS
<1>3. kernel \in [Kernels -> [pc : KernelPcs, owned : BOOLEAN, stop : BOOLEAN]]
  BY DEF EndpointInv, EndpointTypeOK
<1>4. [kernel EXCEPT ![k].pc = pc, ![k].owned = owned]
        = [kernel EXCEPT ![k] = [[row EXCEPT !.pc = pc] EXCEPT !.owned = owned]]
  BY <1>1, <1>3
<1> QED
  BY <1>2, <1>3, <1>4

LEMMA MovePreserves ==
    ASSUME EndpointInv, NEW k \in Kernels, NEW pc \in KernelPcs,
           Goto(k, pc), UNCHANGED <<lock, node>>,
           pc \in StartingPcs \cup RunningPcs =>
               kernel[k].pc \in StartingPcs \cup RunningPcs,
           pc \in {"bound"} \cup RunningPcs => kernel[k].pc \in {"bound"} \cup RunningPcs
    PROVE  EndpointInv'
<1>1. EndpointTypeOK'
  BY DEF EndpointInv, EndpointTypeOK, Goto
<1>2. /\ \A j \in Kernels \ {k} : kernel'[j] = kernel[j]
      /\ kernel'[k].pc = pc /\ kernel'[k].owned = kernel[k].owned
  BY DEF EndpointInv, EndpointTypeOK, Goto
<1>3. LockDiscipline'
  BY <1>2 DEF EndpointInv, LockDiscipline
<1>4. SocketBound'
  BY <1>2 DEF EndpointInv, SocketBound
<1> QED
  BY <1>1, <1>3, <1>4 DEF EndpointInv

\* The steps of the constructor, the destructor and the faults.
LEMMA LifePreserves ==
    ASSUME EndpointInv, NEW k \in Kernels,
           TakeLock(k) \/ LockHeld(k) \/ LifeStep(k) \/ FaultStep(k) \/ Signal(k)
    PROVE  EndpointInv'
<1> USE KernelFacts
<1> USE DEF KernelPcs, StartingPcs, RunningPcs, ClosingPcs, At
<1>1. CASE TakeLock(k)
  <2>1. EndpointTypeOK'
    BY <1>1 DEF TakeLock, EndpointInv, EndpointTypeOK, Goto
  <2>2. LockDiscipline'
    BY <1>1 DEF TakeLock, EndpointInv, EndpointTypeOK, LockDiscipline, Goto
  <2>3. SocketBound'
    BY <1>1 DEF TakeLock, EndpointInv, EndpointTypeOK, SocketBound, Goto
  <2> QED
    BY <2>1, <2>2, <2>3 DEF EndpointInv
<1>2. CASE LockHeld(k) \/ BindFails(k) \/ Listen(k) \/ StartFails(k)
           \/ Recovered(k) \/ RecoverFails(k) \/ LeaveLoop(k) \/ AcceptFails(k) \/ Drained(k)
  <2>1. CASE LockHeld(k) \/ BindFails(k) \/ StartFails(k) \/ RecoverFails(k) \/ Drained(k)
    <3>1. Goto(k, "close") /\ UNCHANGED <<lock, node>>
      BY <2>1 DEF LockHeld, BindFails, StartFails, RecoverFails, Drained
    <3> QED
      BY <3>1, MovePreserves
  <2>2. CASE Listen(k)
    BY <2>2, MovePreserves DEF Listen
  <2>3. CASE Recovered(k)
    BY <2>3, MovePreserves DEF Recovered
  <2>4. CASE LeaveLoop(k) \/ AcceptFails(k)
    <3>1. Goto(k, "drain") /\ At(k, "accept") /\ UNCHANGED <<lock, node>>
      BY <2>4 DEF LeaveLoop, AcceptFails
    <3> QED
      BY <3>1, MovePreserves
  <2> QED
    BY <1>2, <2>1, <2>2, <2>3, <2>4
<1>3. CASE RemoveStale(k)
  <2>1. EndpointTypeOK'
    BY <1>3 DEF RemoveStale, EndpointInv, EndpointTypeOK, Goto
  <2>2. LockDiscipline'
    BY <1>3 DEF RemoveStale, EndpointInv, EndpointTypeOK, LockDiscipline, Goto
  <2>3. SocketBound'
    <3>1. /\ \A j \in Kernels \ {k} : kernel'[j] = kernel[j]
          /\ kernel'[k].pc = "cleared"
          /\ \A e \in Endpoints : e = EndpointOf[k] \/ node'[e] = node[e]
      BY <1>3 DEF RemoveStale, EndpointInv, EndpointTypeOK, Goto
    <3>2. \A j \in Kernels \ {k} :
            kernel[j].pc \in {"bound"} \cup RunningPcs => EndpointOf[j] # EndpointOf[k]
      BY <1>3 DEF RemoveStale, EndpointInv, LockDiscipline
    <3> QED
      BY <3>1, <3>2 DEF EndpointInv, SocketBound
  <2> QED
    BY <2>1, <2>2, <2>3 DEF EndpointInv
<1>4. CASE Bind(k)
  <2>1. EndpointTypeOK'
    <3>1. kernel' \in [Kernels -> [pc : KernelPcs, owned : BOOLEAN, stop : BOOLEAN]]
      <4>1. "bound" \in KernelPcs /\ TRUE \in BOOLEAN
        BY DEF KernelPcs, StartingPcs
      <4> QED
        BY <1>4, <4>1, KernelUpdate DEF Bind
    <3>2. node' \in [Endpoints -> Kernels \cup {Absent, Stale}]
      BY <1>4 DEF Bind, EndpointInv, EndpointTypeOK
    <3> QED
      BY <1>4, <3>1, <3>2 DEF Bind, EndpointInv, EndpointTypeOK
  <2>2. LockDiscipline'
    BY <1>4 DEF Bind, EndpointInv, EndpointTypeOK, LockDiscipline
  <2>3. SocketBound'
    BY <1>4 DEF Bind, EndpointInv, EndpointTypeOK, SocketBound
  <2> QED
    BY <2>1, <2>2, <2>3 DEF EndpointInv
<1>5. CASE CloseSocket(k)
  <2>1. EndpointTypeOK'
    BY <1>5 DEF CloseSocket, Orphaned, EndpointInv, EndpointTypeOK, Goto
  <2>2. LockDiscipline'
    BY <1>5 DEF CloseSocket, EndpointInv, EndpointTypeOK, LockDiscipline, Goto
  <2>3. SocketBound'
    BY <1>5 DEF CloseSocket, Orphaned, EndpointInv, EndpointTypeOK, SocketBound, Goto
  <2> QED
    BY <2>1, <2>2, <2>3 DEF EndpointInv
<1>6. CASE RemoveOwned(k)
  <2>1. EndpointTypeOK'
    <3>1. kernel' \in [Kernels -> [pc : KernelPcs, owned : BOOLEAN, stop : BOOLEAN]]
      <4>1. "unlock" \in KernelPcs /\ FALSE \in BOOLEAN
        BY DEF KernelPcs
      <4> QED
        BY <1>6, <4>1, KernelUpdate DEF RemoveOwned
    <3>2. node' \in [Endpoints -> Kernels \cup {Absent, Stale}]
      BY <1>6 DEF RemoveOwned, EndpointInv, EndpointTypeOK
    <3> QED
      BY <1>6, <3>1, <3>2 DEF RemoveOwned, EndpointInv, EndpointTypeOK
  <2>2. LockDiscipline'
    BY <1>6 DEF RemoveOwned, EndpointInv, EndpointTypeOK, LockDiscipline
  <2>3. SocketBound'
    BY <1>6 DEF RemoveOwned, EndpointInv, EndpointTypeOK, LockDiscipline, SocketBound
  <2> QED
    BY <2>1, <2>2, <2>3 DEF EndpointInv
<1>7. CASE Unlock(k) \/ Crash(k)
  <2>0. /\ kernel' = [kernel EXCEPT ![k] = Down]
        /\ lock' = Released(k)
        /\ node' = node \/ node' = Orphaned(k)
    BY <1>7 DEF Unlock, Crash
  <2>1. EndpointTypeOK'
    <3>1. Down \in [pc : KernelPcs, owned : BOOLEAN, stop : BOOLEAN]
      BY DEF Down, New
    <3>2. Released(k) \in [Endpoints -> Kernels \cup {NoKernel}]
      BY DEF Released, EndpointInv, EndpointTypeOK
    <3>3. Orphaned(k) \in [Endpoints -> Kernels \cup {Absent, Stale}]
      BY DEF Orphaned, EndpointInv, EndpointTypeOK
    <3> QED
      BY <2>0, <3>1, <3>2, <3>3 DEF EndpointInv, EndpointTypeOK
  <2>2. /\ \A j \in Kernels \ {k} : kernel'[j] = kernel[j]
        /\ kernel'[k].pc = "down" /\ ~kernel'[k].owned
    BY <2>0 DEF Down, New, EndpointInv, EndpointTypeOK
  <2>3. \A e \in Endpoints : /\ lock[e] # k => lock'[e] = lock[e]
                             /\ node[e] # k => node'[e] = node[e]
    BY <2>0 DEF Released, Orphaned, EndpointInv, EndpointTypeOK
  <2>4. LockDiscipline'
    <3> SUFFICES ASSUME NEW j \in Kernels,
                        kernel'[j].pc \in StartingPcs \cup RunningPcs \/ kernel'[j].owned
                 PROVE  lock'[EndpointOf[j]] = j
      BY DEF LockDiscipline
    <3>1. j # k /\ kernel'[j] = kernel[j]
      BY <2>2
    <3>2. lock[EndpointOf[j]] = j /\ EndpointOf[j] \in Endpoints
      BY <3>1 DEF EndpointInv, LockDiscipline
    <3> QED
      BY <2>3, <3>1, <3>2
  <2>5. SocketBound'
    <3> SUFFICES ASSUME NEW j \in Kernels, kernel'[j].pc \in {"bound"} \cup RunningPcs
                 PROVE  node'[EndpointOf[j]] = j
      BY DEF SocketBound
    <3>1. j # k /\ kernel'[j] = kernel[j]
      BY <2>2
    <3>2. node[EndpointOf[j]] = j /\ EndpointOf[j] \in Endpoints
      BY <3>1 DEF EndpointInv, SocketBound
    <3> QED
      BY <2>3, <3>1, <3>2
  <2> QED
    BY <2>1, <2>4, <2>5 DEF EndpointInv
<1>8. CASE Signal(k)
  <2>1. EndpointTypeOK'
    <3>1. PICK row \in [pc : KernelPcs, owned : BOOLEAN, stop : BOOLEAN] : row = kernel[k]
      BY DEF EndpointInv, EndpointTypeOK
    <3>2. [row EXCEPT !.stop = TRUE] \in [pc : KernelPcs, owned : BOOLEAN, stop : BOOLEAN]
      OBVIOUS
    <3>3. kernel' = [kernel EXCEPT ![k] = [row EXCEPT !.stop = TRUE]]
      BY <1>8, <3>1 DEF Signal
    <3>4. kernel' \in [Kernels -> [pc : KernelPcs, owned : BOOLEAN, stop : BOOLEAN]]
      <4>1. kernel \in [Kernels -> [pc : KernelPcs, owned : BOOLEAN, stop : BOOLEAN]]
        BY DEF EndpointInv, EndpointTypeOK
      <4> QED
        BY <3>2, <3>3, <4>1
    <3>5. lock' = lock /\ node' = node
      BY <1>8 DEF Signal
    <3> QED
      BY <3>4, <3>5 DEF EndpointInv, EndpointTypeOK
  <2>2. \A j \in Kernels : kernel'[j].pc = kernel[j].pc /\ kernel'[j].owned = kernel[j].owned
    BY <1>8 DEF Signal, EndpointInv, EndpointTypeOK
  <2> QED
    BY <1>8, <2>1, <2>2 DEF Signal, EndpointInv, LockDiscipline, SocketBound
<1> QED
  BY <1>1, <1>2, <1>3, <1>4, <1>5, <1>6, <1>7, <1>8 DEF LifeStep, FaultStep

\* Serving connections moves a Kernel only within its accept loop.
LEMMA ServePreserves ==
    ASSUME EndpointInv, NEW k \in Kernels, ServeStep(k)
    PROVE  EndpointInv'
<1> USE DEF KernelPcs, StartingPcs, RunningPcs, ClosingPcs, At
<1>1. /\ \E pc \in RunningPcs : Goto(k, pc)
      /\ kernel[k].pc \in RunningPcs /\ UNCHANGED <<lock, node>>
  BY DEF ServeStep, Accept, ServeHello, RefuseHello, ServeGone, WriteAnswer, HandleSubmit,
         HandleResult, HandleAcknowledge, HandleFails, Commanded, Handled, Finish
<1> QED
  BY <1>1, MovePreserves

\* EndpointInv is an invariant of the composed system.
THEOREM EndpointInductive == Spec => []EndpointInv
<1>1. Init => EndpointInv
  BY KernelFacts
     DEF Init, EndpointInit, New, EndpointInv, EndpointTypeOK, LockDiscipline, SocketBound,
         KernelPcs, StartingPcs, RunningPcs, ClosingPcs
<1>2. EndpointInv /\ [Next]_vars => EndpointInv'
  <2> SUFFICES ASSUME EndpointInv, [Next]_vars PROVE EndpointInv'
    OBVIOUS
  <2>1. CASE UNCHANGED endpointVars
    BY <2>1 DEF endpointVars, EndpointInv, EndpointTypeOK, LockDiscipline, SocketBound
  <2>2. CASE \E k \in Kernels : Started(k) \/ Living(k) \/ Faulty(k) \/ Signal(k)
    BY <2>2, LifePreserves DEF Started, Living, Faulty
  <2>3. CASE \E k \in Kernels : ServeStep(k)
    BY <2>3, ServePreserves
  <2>4. ASSUME NEW c \in Clients, Call(c) \/ ClientStep(c) \/ SendStrange(c) \/ Vanish(c)
        PROVE  UNCHANGED endpointVars
    BY <2>4 DEF Call, ClientStep, SendStrange, Vanish, Connect, ConnectFails, SendHello,
                SendCommand, Send, ReadError, ReadAnswer, Broken, Hangup
  <2>5. ASSUME NEW k \in Kernels, NEW w \in Works, Complete(k, w)
        PROVE  UNCHANGED endpointVars
    BY <2>5 DEF Complete
  <2> QED
    BY <2>1, <2>2, <2>3, <2>4, <2>5 DEF Next, vars
<1> QED
  BY <1>1, <1>2, PTL DEF Spec

(***************************************************************************)
(* However many Kernels are started, stopped and killed, in whatever order *)
(* of their steps, at most one of those given one data directory and one   *)
(* endpoint has the store open.  Nothing is said of Kernels that share the *)
(* directory and not the endpoint.                                         *)
(***************************************************************************)
THEOREM StoreExclusiveAlways == Spec => []StoreExclusive
<1>1. EndpointInv => StoreExclusive
  BY KernelFacts
     DEF EndpointInv, LockDiscipline, StoreExclusive, SameStart, Listening
<1> QED
  BY <1>1, EndpointInductive, PTL

(***************************************************************************)
(* A Kernel that listens stays reachable under its path, whatever other    *)
(* Kernels on the endpoint do.                                             *)
(***************************************************************************)
THEOREM EndpointReachableAlways == Spec => []EndpointReachable
<1>1. EndpointInv => EndpointReachable
  BY DEF EndpointInv, SocketBound, EndpointReachable, Listening
<1> QED
  BY <1>1, EndpointInductive, PTL
-----------------------------------------------------------------------------
(***************************************************************************)
(* The calls.  Fields of the rows, as the type invariant has them.         *)
(***************************************************************************)
LEMMA SessionRows ==
    ASSUME SessionTypeOK
    PROVE  /\ \A c \in Clients : /\ client[c].command \in Frames
                                /\ client[c].call \in 0 .. MaxCalls
                                /\ client[c].known \subseteq Works
                                /\ client[c].held \subseteq Works
           /\ \A l \in Lines : /\ conn[l].peer \in Kernels \cup {NoKernel}
                              /\ conn[l].up \in Frames /\ conn[l].down \in Frames
           /\ \A k \in Kernels : /\ serving[k].line \in Lines \cup {<<>>}
                                /\ serving[k].answer \in Frames
BY DEF SessionTypeOK, ClientRows, ConnRows

LEMMA LineParts ==
    /\ \A l \in Lines : /\ l[1] \in Clients /\ l[2] \in 1 .. MaxCalls
                       /\ l = <<l[1], l[2]>> /\ l # <<>>
    /\ \A c \in Clients, n \in 1 .. MaxCalls : <<c, n>> \in Lines
<1>1. ASSUME NEW l \in Lines
      PROVE  l[1] \in Clients /\ l[2] \in 1 .. MaxCalls /\ l = <<l[1], l[2]>>
    BY DEF Lines
<1>2. ASSUME NEW l \in Lines
      PROVE  l # <<>>
    <2>1. PICK a, b : l = <<a, b>>
        BY DEF Lines
    <2>2. Len(l) = 2 /\ Len(<<>>) = 0
        BY <2>1
    <2>3. QED
        BY <2>2
<1>3. QED
    BY <1>1, <1>2 DEF Lines

LEMMA FrameTypes ==
    /\ NoFrame \in Frames /\ ErrorFrame \in Frames
    /\ NoFrame.type = "none" /\ ErrorFrame.type = "error"
    /\ \A w \in Works \cup {NoWork} :
         \A type \in Commands \cup {"none", "error", "hello", "strange", "submitted", "payload",
                                  "unavailable", "acknowledged"} :
            /\ Frame(type, w) \in Frames
            /\ Frame(type, w).type = type /\ Frame(type, w).work = w
BY DEF NoFrame, ErrorFrame, Frame, Frames, NoWork

(***************************************************************************)
(* What a client knows and holds, and who made a Work, is never taken      *)
(* back: frames that were in order stay so.                                *)
(***************************************************************************)
Grows ==
    /\ \A c \in Clients : /\ client[c].known \subseteq client'[c].known
                         /\ client[c].held \subseteq client'[c].held
    /\ \A w \in Works : store[w].by # <<>> => store'[w].by = store[w].by

LEMMA FramesKept ==
    ASSUME Grows, NEW c \in Clients, NEW f
    PROVE  /\ RequestOf(f, c) => RequestOf(f, c)'
           /\ ReplyOf(f, c) => ReplyOf(f, c)'
<1>1. RequestOf(f, c) => RequestOf(f, c)'
    BY DEF Grows, RequestOf
<1>2. ReplyOf(f, c) => ReplyOf(f, c)'
    BY DEF Grows, ReplyOf
<1>3. QED
    BY <1>1, <1>2

\* What a step of a client leaves alone in the Kernels.
LEMMA ServingKept ==
    ASSUME Grows, SessionTypeOK, NEW k \in Kernels, ServingWellFormed(k),
           kernel'[k].pc = kernel[k].pc, serving'[k] = serving[k], backlog'[k] = backlog[k],
           store' = store,
           \A l \in Lines : conn[l].peer = k => conn'[l].peer = k
    PROVE  ServingWellFormed(k)'
<1>1. Waiting(k)' = Waiting(k)
    BY DEF Waiting
<1>2. Waiting(k) \subseteq Lines
    <2>1. backlog[k] \in Seq(Lines)
        BY DEF SessionTypeOK
    <2>2. QED
        BY <2>1, ElementOfSeq DEF Waiting
<1>3. \A l : Unused(l)' <=> Unused(l)
    BY DEF Unused
<1>4. ASSUME serving[k].line # <<>>
      PROVE  ReplyOf(serving[k].answer, serving[k].line[1])'
    <2>1. serving[k].line \in Lines
        BY <1>4, SessionRows
    <2>2. PICK l \in Lines, f \in Frames : l = serving[k].line /\ f = serving[k].answer
        BY <2>1, SessionRows
    <2>3. ReplyOf(f, l[1]) /\ l[1] \in Clients
        BY <1>4, <2>2, LineParts DEF ServingWellFormed
    <2>4. ReplyOf(f, l[1])'
        BY <2>3, FramesKept
    <2>5. QED
        BY <2>2, <2>4 DEF ReplyOf
<1>5. serving[k].line # <<>> => serving[k].line \in Lines
    BY SessionRows
<1>6. /\ \A l \in Waiting(k) : conn'[l].peer = k /\ l # serving[k].line /\ Unused(l)
      /\ serving[k].line # <<>> => conn'[serving[k].line].peer = k
    BY <1>2, <1>5 DEF ServingWellFormed
<1>7. QED
    BY <1>1, <1>3, <1>4, <1>6 DEF ServingWellFormed

(***************************************************************************)
(* A step of client c: it becomes y, and its connection changes at most in *)
(* the frames on their way.                                                *)
(***************************************************************************)
ClientBecomes(c, y) ==
    /\ client' = [client EXCEPT ![c] = y] /\ y \in ClientRows
    /\ client[c].known \subseteq y.known /\ client[c].held \subseteq y.held
    /\ y.held \subseteq y.known
    /\ y.pc # "idle" => y.call >= 1
    /\ \A w \in y.known : store[w].by # <<>> /\ store[w].by[1] = c
    /\ y.command.type = "result" => y.command.work \in y.known
    /\ y.command.type = "acknowledge" => y.command.work \in y.held
    /\ y.call >= client[c].call
    /\ y.call = client[c].call /\ y.pc = "connect" => client[c].pc = "connect"

\* What a client becomes, in every step but Connect.
LEMMA BecomesFacts ==
    ASSUME SessionInv, NEW c \in Clients, NEW y, ClientBecomes(c, y), store' = store
    PROVE  /\ client' \in [Clients -> ClientRows] /\ Grows
           /\ client'[c] = y /\ \A b \in Clients \ {c} : client'[b] = client[b]
           /\ \A b \in Clients : ClientWellFormed(b)'
           /\ ConsumedBeforeDiscard'
<1>1. client \in [Clients -> ClientRows]
    BY DEF SessionInv, SessionTypeOK
<1>2. /\ client' \in [Clients -> ClientRows] /\ client'[c] = y
      /\ \A b \in Clients \ {c} : client'[b] = client[b]
    BY <1>1 DEF ClientBecomes
<1>3. Grows
    BY <1>2 DEF Grows, ClientBecomes
<1>4. ASSUME NEW b \in Clients PROVE ClientWellFormed(b)'
    <2>1. CASE b = c
        BY <1>2, <2>1 DEF ClientWellFormed, ClientBecomes, RequestOf
    <2>2. CASE b # c
        BY <1>2, <2>2 DEF ClientWellFormed, RequestOf, SessionInv
    <2>3. QED
        BY <2>1, <2>2
<1>5. ConsumedBeforeDiscard'
    <2> SUFFICES ASSUME NEW w \in Works, store[w].state = "acknowledged"
                 PROVE  w \in client'[store[w].by[1]].held
        BY DEF ConsumedBeforeDiscard
    <2>1. w \in client[store[w].by[1]].held
        BY DEF SessionInv, ConsumedBeforeDiscard
    <2>2. store[w].by[1] \in Clients
        <3>1. store[w].by \in Lines \cup {<<Owner, 0>>}
            BY DEF SessionInv, StoreWellFormed, SessionTypeOK
        <3>2. QED
            BY <3>1, LineParts, SessionAssumption
    <2>3. QED
        BY <1>3, <2>1, <2>2 DEF Grows
<1>6. QED
    BY <1>2, <1>3, <1>4, <1>5

LEMMA FreshKept ==
    ASSUME SessionInv, NEW c \in Clients, NEW y, ClientBecomes(c, y), store' = store,
           NEW l \in Lines, Fresh(l)'
    PROVE  Fresh(l)
<1>1. l[1] \in Clients /\ l[2] \in Int
    BY LineParts
<1>2. CASE l[1] = c
    <2>1. client'[c] = y /\ client[c].call \in Int /\ y.call \in Int
        <3>1. client'[c] = y /\ y \in ClientRows /\ client[c] \in ClientRows
            BY BecomesFacts DEF ClientBecomes, SessionInv, SessionTypeOK
        <3>2. QED
            BY <3>1 DEF ClientRows
    <2>2. l[2] > y.call \/ (l[2] = y.call /\ y.pc = "connect")
        BY <1>2, <2>1 DEF Fresh
    <2>3. y.call > client[c].call \/ y.call = client[c].call
        BY <2>1 DEF ClientBecomes
    <2>4. QED
        BY <1>1, <1>2, <2>1, <2>2, <2>3 DEF Fresh, ClientBecomes
<1>3. CASE l[1] # c
    <2>1. client'[l[1]] = client[l[1]]
        BY <1>1, <1>3, BecomesFacts
    <2>2. QED
        BY <2>1 DEF Fresh
<1>4. QED
    BY <1>2, <1>3

LEMMA ClientMove ==
    ASSUME SessionInv, NEW c \in Clients, NEW y, ClientBecomes(c, y),
           UNCHANGED <<kernel, backlog, serving, store>>,
           conn' \in [Lines -> ConnRows],
           \A l \in Lines : /\ conn'[l].peer = conn[l].peer
                           /\ RequestOf(conn[l].up, l[1])'
                           /\ ReplyOf(conn[l].down, l[1])'
    PROVE  SessionInv'
<1>1. SessionTypeOK'
    BY BecomesFacts DEF SessionInv, SessionTypeOK
<1>2. \A k \in Kernels : ServingWellFormed(k)'
    BY BecomesFacts, ServingKept DEF SessionInv
<1>3. ASSUME NEW l \in Lines PROVE LineWellFormed(l)'
    <2>1. Fresh(l)' => conn'[l].peer = NoKernel /\ Unused(l)
        BY FreshKept DEF SessionInv, LineWellFormed
    <2>2. QED
        BY <2>1 DEF LineWellFormed, Unused
<1>4. QED
    BY <1>1, <1>2, <1>3, BecomesFacts DEF SessionInv, StoreWellFormed

\* The same, when one connection changes and what is on its way is in order.
LEMMA LineChange ==
    ASSUME SessionInv, NEW c \in Clients, NEW y, ClientBecomes(c, y),
           UNCHANGED <<kernel, backlog, serving, store>>,
           NEW x \in ConnRows, NEW n, <<c, n>> \in Lines,
           conn' = [conn EXCEPT ![<<c, n>>] = x], x.peer = conn[<<c, n>>].peer,
           RequestOf(x.up, c), ReplyOf(x.down, c)
    PROVE  SessionInv'
<1>1. PICK l0 \in Lines : l0 = <<c, n>>
    OBVIOUS
<1>2. conn \in [Lines -> ConnRows] /\ Grows /\ l0[1] = c
    BY <1>1, BecomesFacts DEF SessionInv, SessionTypeOK
<1>3. /\ conn' \in [Lines -> ConnRows] /\ conn'[l0] = x
      /\ \A l \in Lines \ {l0} : conn'[l] = conn[l]
    BY <1>1, <1>2
<1>4. ASSUME NEW l \in Lines
      PROVE  /\ conn'[l].peer = conn[l].peer
             /\ RequestOf(conn[l].up, l[1])'
             /\ ReplyOf(conn[l].down, l[1])'
    <2>1. PICK up, down : /\ up = conn'[l].up /\ down = conn'[l].down
                          /\ RequestOf(up, l[1]) /\ ReplyOf(down, l[1])
        BY <1>2, <1>3 DEF SessionInv, LineWellFormed
    <2>2. RequestOf(up, l[1])' /\ ReplyOf(down, l[1])'
        BY <1>2, <2>1, LineParts, FramesKept
    <2>3. conn'[l].peer = conn[l].peer
        BY <1>1, <1>3
    <2>4. QED
        BY <2>1, <2>2, <2>3 DEF RequestOf, ReplyOf
<1>5. QED
    BY <1>3, <1>4, ClientMove

\* The same, when no connection changes.
LEMMA NoLineChange ==
    ASSUME SessionInv, NEW c \in Clients, NEW y, ClientBecomes(c, y),
           UNCHANGED <<kernel, conn, backlog, serving, store>>
    PROVE  SessionInv'
<1>1. ASSUME NEW l \in Lines
      PROVE  /\ RequestOf(conn[l].up, l[1])'
             /\ ReplyOf(conn[l].down, l[1])'
    <2>1. PICK up, down : /\ up = conn[l].up /\ down = conn[l].down
                          /\ RequestOf(up, l[1]) /\ ReplyOf(down, l[1])
        BY DEF SessionInv, LineWellFormed
    <2>2. RequestOf(up, l[1])' /\ ReplyOf(down, l[1])'
        BY <2>1, LineParts, BecomesFacts, FramesKept
    <2>3. QED
        BY <2>1, <2>2 DEF RequestOf, ReplyOf
<1>2. QED
    BY <1>1, ClientMove DEF SessionInv, SessionTypeOK

\* A client that only moves on, or returns from its call.
LEMMA MovesOn ==
    ASSUME SessionInv, NEW c \in Clients
    PROVE  /\ client[c] \in ClientRows
           /\ \A pc \in {"hello", "welcome", "answer"} :
                client[c].pc # "idle" /\ Set(c, pc) =>
                    ClientBecomes(c, [client[c] EXCEPT !.pc = pc])
           /\ client' = [client EXCEPT ![c] = Returned(c)] => ClientBecomes(c, Returned(c))
<1>1. client[c] \in ClientRows /\ ClientWellFormed(c) /\ client[c].call \in Int
    BY SessionRows DEF SessionInv, SessionTypeOK
<1>2. ASSUME NEW pc \in {"hello", "welcome", "answer"}, client[c].pc # "idle", Set(c, pc)
      PROVE  ClientBecomes(c, [client[c] EXCEPT !.pc = pc])
    <2> DEFINE y == [client[c] EXCEPT !.pc = pc]
    <2>1. /\ y \in ClientRows /\ y.pc = pc /\ y.command = client[c].command
          /\ y.call = client[c].call /\ y.known = client[c].known /\ y.held = client[c].held
        BY <1>1 DEF ClientRows
    <2>2. client' = [client EXCEPT ![c] = y]
        BY <1>2 DEF Set
    <2> HIDE DEF y
    <2>3. ClientBecomes(c, y)
        BY <1>1, <1>2, <2>1, <2>2 DEF ClientBecomes, ClientWellFormed, RequestOf
    <2>4. QED
        BY <2>3 DEF y
<1>3. ASSUME client' = [client EXCEPT ![c] = Returned(c)]
      PROVE  ClientBecomes(c, Returned(c))
    <2> DEFINE y == Returned(c)
    <2>1. /\ y \in ClientRows /\ y.pc = "idle" /\ y.command = NoFrame
          /\ y.call = client[c].call /\ y.known = client[c].known /\ y.held = client[c].held
        BY <1>1, FrameTypes DEF ClientRows, Returned
    <2>2. client' = [client EXCEPT ![c] = y]
        BY <1>3
    <2> HIDE DEF y
    <2>3. ClientBecomes(c, y)
        BY <1>1, <2>1, <2>2, FrameTypes DEF ClientBecomes, ClientWellFormed
    <2>4. QED
        BY <2>3 DEF y
<1>4. QED
    BY <1>1, <1>2, <1>3

LEMMA CallKeeps ==
    ASSUME SessionInv, NEW c \in Clients, Call(c)
    PROVE  SessionInv'
<1>1. PICK n \in 1 .. MaxCalls, command \in {Frame("submit", NoWork)}
                        \cup {Frame("result", w) : w \in client[c].known}
                        \cup {Frame("acknowledge", w) : w \in client[c].held} :
        /\ NextCall(n)
        /\ client' = [client EXCEPT ![c].pc = "connect", ![c].command = command,
                                    ![c].call = n]
    BY DEF Call
<1>2. client[c] \in ClientRows /\ ClientWellFormed(c) /\ client[c].call \in Int
    BY SessionRows DEF SessionInv, SessionTypeOK
<1>3. client[c].known \subseteq Works /\ client[c].held \subseteq Works
    BY SessionRows DEF SessionInv
<1>4. /\ command \in Frames
      /\ command.type = "result" => command.work \in client[c].known
      /\ command.type = "acknowledge" => command.work \in client[c].held
    <2>1. CASE command = Frame("submit", NoWork)
        BY <2>1, FrameTypes DEF Commands
    <2>2. CASE \E w \in client[c].known : command = Frame("result", w)
        BY <1>3, <2>2, FrameTypes DEF Commands
    <2>3. CASE \E w \in client[c].held : command = Frame("acknowledge", w)
        BY <1>3, <2>3, FrameTypes DEF Commands
    <2>4. QED
        BY <2>1, <2>2, <2>3
<1>5. n > client[c].call
    <2>1. \A b \in Clients : client[b].call < n
        BY <1>1 DEF NextCall
    <2>2. QED
        BY <1>2, <2>1
<1> DEFINE y == [client[c] EXCEPT !.pc = "connect", !.command = command, !.call = n]
<1>6. /\ y \in ClientRows /\ y.pc = "connect" /\ y.command = command
      /\ y.call = n /\ y.known = client[c].known /\ y.held = client[c].held
    <2>1. n \in 0 .. MaxCalls
        OBVIOUS
    <2>2. QED
        BY <1>2, <1>4, <2>1 DEF ClientRows
<1>7. client' = [client EXCEPT ![c] = y]
    BY <1>1
<1> HIDE DEF y
<1>8. ClientBecomes(c, y)
    BY <1>2, <1>4, <1>5, <1>6, <1>7 DEF ClientBecomes, ClientWellFormed
<1>9. QED
    BY <1>8, NoLineChange DEF Call, endpointVars

\* The connection of a client in a call.
LEMMA LineOfCall ==
    ASSUME SessionInv, NEW c \in Clients, client[c].pc # "idle"
    PROVE  /\ LineOf(c) \in Lines /\ LineOf(c) = <<c, client[c].call>>
           /\ LineOf(c)[1] = c /\ conn[LineOf(c)] \in ConnRows
<1>1. client[c].call \in 0 .. MaxCalls /\ client[c].call >= 1
    BY SessionRows DEF SessionInv, ClientWellFormed
<1>2. client[c].call \in 1 .. MaxCalls
    BY <1>1
<1>3. LineOf(c) \in Lines
    BY <1>2, LineParts DEF LineOf
<1>4. QED
    BY <1>3 DEF LineOf, SessionInv, SessionTypeOK

LEMMA SendKeeps ==
    ASSUME SessionInv, NEW c \in Clients, NEW pc \in {"hello", "welcome"},
           NEW frame \in Frames, RequestOf(frame, c), NEW next \in {"welcome", "answer"},
           Send(c, pc, frame, next)
    PROVE  SessionInv'
<1>1. client[c].pc # "idle"
    BY DEF Send
<1>2. PICK n, x0 : n = client[c].call /\ LineOf(c) = <<c, n>> /\ x0 = conn[<<c, n>>]
                  /\ x0 \in ConnRows /\ <<c, n>> \in Lines
    BY <1>1, LineOfCall
<1> DEFINE x == [x0 EXCEPT !.up = frame, !.down = NoFrame]
<1>3. conn' = [conn EXCEPT ![<<c, n>>] = x]
    BY <1>2 DEF Send
<1>4. x \in ConnRows /\ x.peer = x0.peer /\ x.up = frame /\ x.down = NoFrame
    BY <1>2, FrameTypes DEF ConnRows
<1> HIDE DEF x
<1>5. ReplyOf(x.down, c)
    BY <1>4, FrameTypes DEF ReplyOf
<1>6. PICK y : ClientBecomes(c, y)
    BY <1>1, MovesOn DEF Send
<1>7. QED
    BY <1>2, <1>3, <1>4, <1>5, <1>6, LineChange DEF Send, endpointVars

LEMMA HangupKeeps ==
    ASSUME SessionInv, NEW c \in Clients, client[c].pc # "idle", NEW y,
           ClientBecomes(c, y), Hangup(c, y)
    PROVE  SessionInv'
<1>1. PICK n, x0 : n = client[c].call /\ LineOf(c) = <<c, n>> /\ x0 = conn[<<c, n>>]
                  /\ x0 \in ConnRows /\ <<c, n>> \in Lines
    BY LineOfCall
<1> DEFINE x == ClientEndClosed(x0)
<1>2. conn' = [conn EXCEPT ![<<c, n>>] = x]
    BY <1>1 DEF Hangup
<1>3. LineWellFormed(<<c, n>>)
    BY <1>1 DEF SessionInv
<1>4. RequestOf(x0.up, c)
    BY <1>1, <1>3 DEF LineWellFormed
<1>5. NoConn \in ConnRows /\ NoConn.peer = NoKernel /\ NoConn.up = NoFrame /\ NoConn.down = NoFrame
    BY FrameTypes DEF NoConn, ConnRows
<1>6. /\ x \in ConnRows /\ x.peer = x0.peer /\ x.down = NoFrame
      /\ x.up = x0.up \/ x.up = NoFrame
    <2>1. CASE x0.peer # NoKernel
        <3>1. x = [x0 EXCEPT !.open = FALSE, !.down = NoFrame]
            BY <2>1 DEF ClientEndClosed
        <3> HIDE DEF x
        <3>2. QED
            BY <1>1, <3>1, FrameTypes DEF ConnRows
    <2>2. CASE x0.peer = NoKernel
        BY <1>5, <2>2 DEF ClientEndClosed
    <2>3. QED
        BY <2>1, <2>2
<1> HIDE DEF x
<1>7. RequestOf(x.up, c) /\ ReplyOf(x.down, c)
    BY <1>4, <1>6, FrameTypes DEF RequestOf, ReplyOf
<1>8. QED
    BY <1>1, <1>2, <1>6, <1>7, LineChange DEF Hangup, endpointVars

LEMMA ReadAnswerKeeps ==
    ASSUME SessionInv, NEW c \in Clients, ReadAnswer(c)
    PROVE  SessionInv'
<1> DEFINE answer == conn[LineOf(c)].down
           y == CASE answer.type = "submitted" ->
                       [Returned(c) EXCEPT !.known = Returned(c).known \cup {answer.work}]
                  [] answer.type = "payload" ->
                       [Returned(c) EXCEPT !.held = Returned(c).held \cup {answer.work}]
                  [] OTHER -> Returned(c)
<1>1. client[c].pc = "answer" /\ Hangup(c, y)
    BY DEF ReadAnswer
<1>2. client' = [client EXCEPT ![c] = y]
    BY <1>1 DEF Hangup
<1>3. client[c] \in ClientRows /\ ClientWellFormed(c) /\ client[c].call \in Int
    BY SessionRows DEF SessionInv, SessionTypeOK
<1>4. ReplyOf(answer, c)
    <2>1. LineOf(c) \in Lines /\ LineOf(c)[1] = c
        BY <1>1, LineOfCall
    <2>2. QED
        BY <2>1 DEF SessionInv, LineWellFormed
<1>5. LET r == Returned(c)
      IN  /\ r \in ClientRows /\ r.pc = "idle" /\ r.command = NoFrame
          /\ r.call = client[c].call /\ r.known = client[c].known /\ r.held = client[c].held
    BY <1>3, FrameTypes DEF ClientRows, Returned
<1> DEFINE r == Returned(c)
<1>6. CASE answer.type = "submitted"
    <2>1. y = [r EXCEPT !.known = r.known \cup {answer.work}]
        BY <1>6
    <2>2. /\ answer.work \in Works /\ store[answer.work].by # <<>>
          /\ store[answer.work].by[1] = c
        BY <1>4, <1>6 DEF ReplyOf
    <2> HIDE DEF y, answer, r
    <2>3. /\ y \in ClientRows /\ y.pc = "idle" /\ y.command = NoFrame
          /\ y.call = client[c].call /\ y.known = client[c].known \cup {answer.work}
          /\ y.held = client[c].held
        BY <1>5, <2>1, <2>2 DEF ClientRows, r
    <2>4. ClientBecomes(c, y)
        BY <1>2, <1>3, <2>2, <2>3, FrameTypes DEF ClientBecomes, ClientWellFormed
    <2>5. QED
        BY <1>1, <2>4, HangupKeeps
<1>7. CASE answer.type = "payload"
    <2>1. y = [r EXCEPT !.held = r.held \cup {answer.work}]
        BY <1>7
    <2>2. answer.work \in client[c].known /\ client[c].known \subseteq Works
        BY <1>3, <1>4, <1>7 DEF ReplyOf, ClientRows
    <2> HIDE DEF y, answer, r
    <2>3. /\ y \in ClientRows /\ y.pc = "idle" /\ y.command = NoFrame
          /\ y.call = client[c].call /\ y.held = client[c].held \cup {answer.work}
          /\ y.known = client[c].known
        BY <1>5, <2>1, <2>2 DEF ClientRows, r
    <2>4. ClientBecomes(c, y)
        BY <1>2, <1>3, <2>2, <2>3, FrameTypes DEF ClientBecomes, ClientWellFormed
    <2>5. QED
        BY <1>1, <2>4, HangupKeeps
<1>8. CASE answer.type \notin {"submitted", "payload"}
    <2>1. y = Returned(c)
        BY <1>8
    <2>2. ClientBecomes(c, y)
        BY <1>2, <2>1, MovesOn
    <2>3. QED
        BY <1>1, <2>2, HangupKeeps
<1>9. QED
    BY <1>6, <1>7, <1>8

LEMMA ConnectKeeps ==
    ASSUME SessionInv, NEW c \in Clients, Connect(c)
    PROVE  SessionInv'
<1>1. /\ client[c].pc = "connect" /\ Set(c, "hello")
      /\ UNCHANGED <<kernel, serving, store>>
    BY DEF Connect, endpointVars
<1>2. PICK l \in Lines : l = LineOf(c) /\ l[1] = c /\ l = <<c, client[c].call>>
    BY <1>1, LineOfCall
<1>3. PICK k \in Kernels :
        /\ conn' = [conn EXCEPT ![l] = [NoConn EXCEPT !.peer = k, !.open = TRUE]]
        /\ backlog' = [backlog EXCEPT ![k] = Append(backlog[k], l)]
    BY <1>2 DEF Connect
<1> DEFINE x == [NoConn EXCEPT !.peer = k, !.open = TRUE]
           y == [client[c] EXCEPT !.pc = "hello"]
<1>4. x \in ConnRows /\ x.peer = k /\ x.up = NoFrame /\ x.down = NoFrame
    BY FrameTypes DEF NoConn, ConnRows
<1>5. ClientBecomes(c, y) /\ y.pc = "hello" /\ y.call = client[c].call
    BY <1>1, MovesOn DEF ClientRows
<1> HIDE DEF x, y
<1>6. conn \in [Lines -> ConnRows] /\ backlog \in [Kernels -> Seq(Lines)]
    BY DEF SessionInv, SessionTypeOK
<1>7. /\ conn' \in [Lines -> ConnRows] /\ conn'[l] = x
      /\ \A m \in Lines \ {l} : conn'[m] = conn[m]
    BY <1>3, <1>4, <1>6 DEF x
<1>8. conn[l].peer = NoKernel /\ Unused(l)
    <2>1. Fresh(l)
        BY <1>1, <1>2 DEF Fresh
    <2>2. QED
        BY <2>1 DEF SessionInv, LineWellFormed
<1>9. /\ backlog' \in [Kernels -> Seq(Lines)]
      /\ backlog'[k] = Append(backlog[k], l)
      /\ \A j \in Kernels \ {k} : backlog'[j] = backlog[j]
    BY <1>3, <1>6, AppendProperties
<1>10. SessionTypeOK'
    BY <1>1, <1>5, <1>7, <1>9, BecomesFacts DEF SessionInv, SessionTypeOK
<1>11. Grows
    BY <1>1, <1>5, BecomesFacts
<1>12. ASSUME NEW j \in Kernels PROVE ServingWellFormed(j)'
    <2>1. \A m \in Lines : conn[m].peer = j => conn'[m].peer = j
        BY <1>7, <1>8, KernelFacts
    <2>2. SessionTypeOK /\ ServingWellFormed(j)
        BY DEF SessionInv
    <2>3. CASE j # k
        BY <1>1, <1>9, <1>11, <2>1, <2>2, <2>3, ServingKept
    <2>4. CASE j = k
        <3>1. backlog[k] \in Seq(Lines) /\ Len(backlog[k]) \in Nat
            BY <1>6, LenProperties
        <3>2. /\ Len(backlog'[k]) = Len(backlog[k]) + 1
              /\ \A i \in 1 .. Len(backlog[k]) : backlog'[k][i] = backlog[k][i]
              /\ backlog'[k][Len(backlog[k]) + 1] = l
            BY <1>9, <3>1, AppendProperties
        <3>3. DOMAIN backlog[k] = 1 .. Len(backlog[k])
              /\ DOMAIN backlog'[k] = 1 .. Len(backlog[k]) + 1
            BY <1>9, <3>1, <3>2, LenProperties
        <3>4. ASSUME NEW i \in DOMAIN backlog'[k]
              PROVE  \/ i \in DOMAIN backlog[k] /\ backlog'[k][i] = backlog[k][i]
                     \/ i = Len(backlog[k]) + 1 /\ backlog'[k][i] = l
            <4>1. i \in 1 .. Len(backlog[k]) \/ i = Len(backlog[k]) + 1
                BY <3>1, <3>3
            <4>2. QED
                BY <3>2, <3>3, <4>1
        <3>5. l \notin Waiting(k) /\ l # serving[k].line
            BY <1>8, <2>2, <2>4, KernelFacts, LineParts DEF ServingWellFormed
        <3>6. Waiting(k)' \subseteq Waiting(k) \cup {l}
            BY <3>4 DEF Waiting
        <3>7. ASSUME NEW m \in DOMAIN backlog'[k], NEW n \in DOMAIN backlog'[k],
                     backlog'[k][m] = backlog'[k][n]
              PROVE  m = n
            <4>1. \A i \in DOMAIN backlog[k] : backlog[k][i] # l
                BY <3>5 DEF Waiting
            <4>2. QED
                BY <2>2, <2>4, <3>4, <3>7, <4>1 DEF ServingWellFormed
        <3>8. ASSUME serving[k].line # <<>>
              PROVE  ReplyOf(serving[k].answer, serving[k].line[1])'
            <4>1. PICK m \in Lines, f \in Frames : m = serving[k].line /\ f = serving[k].answer
                BY <2>2, <3>8, SessionRows
            <4>2. ReplyOf(f, m[1])'
                BY <1>11, <2>2, <2>4, <3>8, <4>1, LineParts, FramesKept DEF ServingWellFormed
            <4>3. QED
                BY <1>1, <4>1, <4>2 DEF ReplyOf
        <3>9. \A m : Unused(m)' <=> Unused(m)
            BY <1>1 DEF Unused
        <3>10. \A m \in Waiting(k)' : conn'[m].peer = k /\ m # serving[k].line /\ Unused(m)
            <4>1. Waiting(k) \subseteq Lines
                BY <3>1, ElementOfSeq DEF Waiting
            <4>2. QED
                BY <1>4, <1>7, <1>8, <2>1, <2>2, <2>4, <3>5, <3>6, <4>1 DEF ServingWellFormed
        <3>11. serving[k].line # <<>> => conn'[serving[k].line].peer = k
            BY <2>1, <2>2, <2>4, SessionRows DEF ServingWellFormed
        <3>12. QED
            BY <1>1, <2>2, <2>4, <3>7, <3>8, <3>9, <3>10, <3>11 DEF ServingWellFormed
    <2>5. QED
        BY <2>3, <2>4
<1>13. ASSUME NEW m \in Lines PROVE LineWellFormed(m)'
    <2>1. CASE m = l
        <3>1. ~Fresh(l)'
            <4>1. client'[c] = y
                BY <1>1, <1>5, BecomesFacts
            <4>2. l[2] = client[c].call /\ l[2] \in Int
                BY <1>2, LineParts
            <4>3. QED
                BY <1>2, <1>5, <4>1, <4>2 DEF Fresh
        <3>2. QED
            BY <1>4, <1>7, <2>1, <3>1, FrameTypes DEF LineWellFormed, RequestOf, ReplyOf
    <2>2. CASE m # l
        <3>1. conn'[m] = conn[m]
            BY <1>7, <2>2
        <3>2. PICK up, down : /\ up = conn[m].up /\ down = conn[m].down
                              /\ RequestOf(up, m[1]) /\ ReplyOf(down, m[1])
            BY DEF SessionInv, LineWellFormed
        <3>3. RequestOf(up, m[1])' /\ ReplyOf(down, m[1])'
            BY <1>11, <3>2, LineParts, FramesKept
        <3>4. Fresh(m)' => conn[m].peer = NoKernel /\ Unused(m)
            BY <1>1, <1>5, FreshKept DEF SessionInv, LineWellFormed
        <3>5. QED
            BY <1>1, <3>1, <3>2, <3>3, <3>4 DEF LineWellFormed, RequestOf, ReplyOf, Unused
    <2>3. QED
        BY <2>1, <2>2
<1>14. QED
    BY <1>1, <1>5, <1>10, <1>12, <1>13, BecomesFacts DEF SessionInv, StoreWellFormed

LEMMA ClientKeeps ==
    ASSUME SessionInv, NEW c \in Clients,
           Call(c) \/ ClientStep(c) \/ SendStrange(c) \/ Vanish(c)
    PROVE  SessionInv'
<1>1. CASE Call(c)
    BY <1>1, CallKeeps
<1>2. CASE Connect(c)
    BY <1>2, ConnectKeeps
<1>3. CASE ConnectFails(c)
    <2>1. ClientBecomes(c, Returned(c))
        BY <1>3, MovesOn DEF ConnectFails
    <2>2. QED
        BY <1>3, <2>1, NoLineChange DEF ConnectFails, endpointVars
<1>4. \A type \in {"hello", "strange"} :
        Frame(type, NoWork) \in Frames /\ RequestOf(Frame(type, NoWork), c)
    BY FrameTypes DEF RequestOf
<1>5. CASE SendHello(c)
    BY <1>4, <1>5, SendKeeps DEF SendHello
<1>6. CASE SendStrange(c)
    BY <1>4, <1>6, SendKeeps DEF SendStrange
<1>7. CASE SendCommand(c)
    <2>1. PICK f \in Frames : f = client[c].command
        BY SessionRows DEF SessionInv
    <2>2. RequestOf(f, c)
        BY <2>1 DEF SessionInv, ClientWellFormed
    <2>3. Send(c, "welcome", f, "answer")
        BY <1>7, <2>1 DEF SendCommand
    <2>4. QED
        BY <2>2, <2>3, SendKeeps
<1>8. ASSUME client[c].pc # "idle", Hangup(c, Returned(c))
      PROVE  SessionInv'
    <2>1. ClientBecomes(c, Returned(c))
        BY <1>8, MovesOn DEF Hangup
    <2>2. QED
        BY <1>8, <2>1, HangupKeeps
<1>9. CASE ReadError(c)
    BY <1>8, <1>9 DEF ReadError
<1>10. CASE ReadAnswer(c)
    BY <1>10, ReadAnswerKeeps
<1>11. CASE Broken(c)
    BY <1>8, <1>11 DEF Broken, Cutoff
<1>12. CASE Vanish(c)
    BY <1>8, <1>12 DEF Vanish
<1>13. QED
    BY <1>1, <1>2, <1>3, <1>5, <1>6, <1>7, <1>9, <1>10, <1>11, <1>12 DEF ClientStep

(***************************************************************************)
(* A step of Kernel k: it changes connections whose peer it is, and a Work *)
(* it makes is that of such a connection.                                  *)
(***************************************************************************)
KernelMoves(k) ==
    /\ client' = client
    /\ \A j \in Kernels \ {k} : /\ kernel'[j].pc = kernel[j].pc
                                /\ serving'[j] = serving[j] /\ backlog'[j] = backlog[j]
    /\ \A l \in Lines : \/ conn'[l] = conn[l]
                        \/ /\ conn[l].peer = k /\ conn'[l].peer \in {k, NoKernel}
                           /\ RequestOf(conn'[l].up, l[1]) /\ ReplyOf(conn'[l].down, l[1])
    /\ \A w \in Works : \/ store'[w].by = store[w].by
                        \/ /\ store[w].by = <<>>
                           /\ store'[w].by \in Lines /\ conn[store'[w].by].peer = k

LEMMA KernelMove ==
    ASSUME SessionInv, NEW k \in Kernels, KernelMoves(k),
           SessionTypeOK', StoreWellFormed', ConsumedBeforeDiscard', ServingWellFormed(k)'
    PROVE  SessionInv'
<1>1. Grows
    BY DEF Grows, KernelMoves
<1>2. ASSUME NEW l \in Lines, conn[l].peer # k, Unused(l)
      PROVE  Unused(l)'
    BY <1>2 DEF Unused, KernelMoves
<1>3. ASSUME NEW c \in Clients PROVE ClientWellFormed(c)'
    <2>1. client' = client /\ ClientWellFormed(c) /\ client[c].known \subseteq Works
        BY SessionRows DEF KernelMoves, SessionInv
    <2>2. \A w \in client[c].known : store'[w].by = store[w].by
        BY <1>1, <2>1 DEF Grows, ClientWellFormed
    <2>3. QED
        BY <2>1, <2>2 DEF ClientWellFormed, RequestOf
<1>4. ASSUME NEW l \in Lines PROVE LineWellFormed(l)'
    <2>1. PICK up, down : /\ up = conn'[l].up /\ down = conn'[l].down
                          /\ RequestOf(up, l[1]) /\ ReplyOf(down, l[1])
        BY DEF SessionInv, LineWellFormed, KernelMoves
    <2>2. RequestOf(up, l[1])' /\ ReplyOf(down, l[1])'
        BY <1>1, <2>1, LineParts, FramesKept
    <2>3. ASSUME Fresh(l)' PROVE conn'[l].peer = NoKernel /\ Unused(l)'
        <3>1. Fresh(l)
            BY <2>3 DEF Fresh, KernelMoves
        <3>2. conn[l].peer = NoKernel /\ Unused(l)
            BY <3>1 DEF SessionInv, LineWellFormed
        <3>3. QED
            BY <1>2, <3>2, KernelFacts DEF KernelMoves
    <2>4. QED
        BY <2>1, <2>2, <2>3 DEF LineWellFormed, RequestOf, ReplyOf
<1>5. ASSUME NEW j \in Kernels \ {k} PROVE ServingWellFormed(j)'
    <2>1. /\ kernel'[j].pc = kernel[j].pc /\ serving'[j] = serving[j]
          /\ backlog'[j] = backlog[j] /\ ServingWellFormed(j) /\ backlog[j] \in Seq(Lines)
        BY DEF KernelMoves, SessionInv, SessionTypeOK
    <2>2. Waiting(j)' = Waiting(j) /\ Waiting(j) \subseteq Lines
        BY <2>1, ElementOfSeq DEF Waiting
    <2>3. \A l \in Lines : conn[l].peer = j => conn'[l].peer = j
        BY <1>5 DEF KernelMoves
    <2>4. ASSUME NEW l \in Waiting(j)
          PROVE  conn'[l].peer = j /\ l # serving[j].line /\ Unused(l)'
        BY <1>2, <2>1, <2>2, <2>3 DEF ServingWellFormed
    <2>5. ASSUME serving[j].line # <<>>
          PROVE  /\ conn'[serving[j].line].peer = j
                 /\ kernel[j].pc # "answer" => Unused(serving[j].line)'
                 /\ ReplyOf(serving[j].answer, serving[j].line[1])'
        <3>1. PICK m \in Lines, f \in Frames : m = serving[j].line /\ f = serving[j].answer
            BY <2>5, SessionRows DEF SessionInv
        <3>2. conn[m].peer = j /\ (kernel[j].pc # "answer" => Unused(m)) /\ ReplyOf(f, m[1])
            BY <2>1, <2>5, <3>1 DEF ServingWellFormed
        <3>3. ReplyOf(f, m[1])'
            BY <1>1, <3>2, LineParts, FramesKept
        <3>4. conn'[m].peer = j /\ (kernel[j].pc # "answer" => Unused(m)')
            BY <1>2, <2>3, <3>2
        <3>5. QED
            BY <2>1, <3>1, <3>3, <3>4 DEF ReplyOf, Unused
    <2>6. QED
        BY <2>1, <2>2, <2>4, <2>5 DEF ServingWellFormed
<1>6. QED
    BY <1>3, <1>4, <1>5 DEF SessionInv

LEMMA GotoFacts ==
    ASSUME EndpointInv, NEW k \in Kernels, NEW pc, Goto(k, pc)
    PROVE  kernel'[k].pc = pc /\ \A j \in Kernels \ {k} : kernel'[j] = kernel[j]
BY DEF EndpointInv, EndpointTypeOK, Goto

\* The connection a Kernel serves, and the ones that wait.
LEMMA ServedLine ==
    ASSUME SessionInv, NEW k \in Kernels
    PROVE  /\ kernel[k].pc \in {"hello", "command", "answer"} =>
                /\ serving[k].line \in Lines /\ conn[serving[k].line] \in ConnRows
                /\ conn[serving[k].line].peer = k
                /\ kernel[k].pc # "answer" => Unused(serving[k].line)
                /\ serving[k].line[1] \in Clients
                /\ ReplyOf(serving[k].answer, serving[k].line[1])
                /\ RequestOf(conn[serving[k].line].up, serving[k].line[1])
           /\ Waiting(k) \subseteq Lines
           /\ \A l \in Waiting(k) : conn[l].peer = k /\ l # serving[k].line /\ Unused(l)
<1>1. ServingWellFormed(k) /\ backlog[k] \in Seq(Lines) /\ conn \in [Lines -> ConnRows]
    BY DEF SessionInv, SessionTypeOK
<1>2. Waiting(k) \subseteq Lines
    BY <1>1, ElementOfSeq DEF Waiting
<1>3. ASSUME kernel[k].pc \in {"hello", "command", "answer"}
      PROVE  serving[k].line \in Lines /\ serving[k].line # <<>>
    BY <1>1, <1>3, SessionRows DEF ServingWellFormed, SessionInv
<1>4. QED
    BY <1>1, <1>2, <1>3, LineParts DEF ServingWellFormed, SessionInv, LineWellFormed

LEMMA AcceptKeeps ==
    ASSUME SessionInv, EndpointInv, NEW k \in Kernels, Accept(k)
    PROVE  SessionInv'
<1>1. /\ kernel[k].pc = "accept" /\ backlog[k] # <<>>
      /\ serving' = [serving EXCEPT ![k].line = Head(backlog[k])]
      /\ backlog' = [backlog EXCEPT ![k] = Tail(backlog[k])]
      /\ Goto(k, "hello") /\ UNCHANGED <<client, conn, store>>
    BY DEF Accept, At
<1>2. /\ backlog \in [Kernels -> Seq(Lines)] /\ ServingWellFormed(k)
      /\ serving \in [Kernels -> [line : Lines \cup {<<>>}, answer : Frames]]
    BY DEF SessionInv, SessionTypeOK
<1>3. PICK s \in Seq(Lines) : s = backlog[k] /\ s # <<>>
    BY <1>1, <1>2
<1>4. /\ Head(s) \in Lines /\ Tail(s) \in Seq(Lines) /\ Len(Tail(s)) = Len(s) - 1
      /\ \A i \in 1 .. Len(Tail(s)) : Tail(s)[i] = s[i + 1]
    BY <1>3, HeadTailProperties
<1>5. /\ Len(s) \in Nat \ {0} /\ DOMAIN s = 1 .. Len(s) /\ Head(s) = s[1]
      /\ DOMAIN Tail(s) = 1 .. Len(Tail(s))
    BY <1>3, <1>4, EmptySeq, LenProperties
<1>6. \A i \in DOMAIN Tail(s) : i + 1 \in DOMAIN s /\ i + 1 # 1 /\ i \in Nat
                                /\ Tail(s)[i] = s[i + 1]
    BY <1>4, <1>5
<1>7. /\ backlog' \in [Kernels -> Seq(Lines)] /\ backlog'[k] = Tail(s)
      /\ \A j \in Kernels \ {k} : backlog'[j] = backlog[j] /\ serving'[j] = serving[j]
      /\ serving' \in [Kernels -> [line : Lines \cup {<<>>}, answer : Frames]]
      /\ serving'[k].line = Head(s) /\ serving'[k].answer = serving[k].answer
    BY <1>1, <1>2, <1>3, <1>4
<1>8. SessionTypeOK'
    BY <1>1, <1>7 DEF SessionInv, SessionTypeOK
<1>9. KernelMoves(k)
    BY <1>1, <1>7, GotoFacts DEF KernelMoves
<1>10. serving[k].answer = NoFrame /\ \A i, j \in DOMAIN s : s[i] = s[j] => i = j
    BY <1>1, <1>2, <1>3 DEF ServingWellFormed
<1>11. Waiting(k)' \subseteq Waiting(k) /\ Head(s) \notin Waiting(k)' /\ Head(s) \in Waiting(k)
    <2>1. Waiting(k) = {s[i] : i \in DOMAIN s}
        BY <1>3 DEF Waiting
    <2>2. Waiting(k)' = {Tail(s)[i] : i \in DOMAIN Tail(s)}
        BY <1>7 DEF Waiting
    <2>3. 1 \in DOMAIN s
        BY <1>5
    <2>4. QED
        BY <1>5, <1>6, <1>10, <2>1, <2>2, <2>3
<1>12. ServingWellFormed(k)'
    <2>1. \A l : Unused(l)' <=> Unused(l)
        BY <1>1 DEF Unused
    <2>2. kernel'[k].pc = "hello" /\ Head(s) # <<>>
        BY <1>1, <1>4, GotoFacts, LineParts
    <2>3. \A i, j \in DOMAIN backlog'[k] : backlog'[k][i] = backlog'[k][j] => i = j
        <3>1. ASSUME NEW i \in DOMAIN Tail(s), NEW j \in DOMAIN Tail(s), Tail(s)[i] = Tail(s)[j]
              PROVE  i = j
            <4>1. i + 1 = j + 1 /\ i \in Nat /\ j \in Nat
                BY <1>6, <1>10, <3>1
            <4>2. QED
                BY <4>1
        <3>2. QED
            BY <1>7, <3>1
    <2>4. ReplyOf(serving[k].answer, Head(s)[1])'
        BY <1>1, <1>10, FrameTypes, <1>7 DEF ReplyOf
    <2>5. \A l \in Waiting(k) : conn[l].peer = k /\ Unused(l)
        BY ServedLine
    <2>6. QED
        BY <1>1, <1>7, <1>11, <2>1, <2>2, <2>3, <2>4, <2>5 DEF ServingWellFormed
<1>13. QED
    BY <1>1, <1>8, <1>9, <1>12, KernelMove
       DEF SessionInv, StoreWellFormed, ConsumedBeforeDiscard

LEMMA ServeHelloKeeps ==
    ASSUME SessionInv, EndpointInv, NEW k \in Kernels, ServeHello(k)
    PROVE  SessionInv'
<1>1. /\ kernel[k].pc = "hello" /\ Goto(k, "command")
      /\ UNCHANGED <<client, backlog, serving, store>>
    BY DEF ServeHello, At
<1>2. PICK l \in Lines : l = serving[k].line
    BY <1>1, ServedLine
<1>3. PICK x0 \in ConnRows : x0 = conn[l] /\ x0.peer = k
    BY <1>1, <1>2, ServedLine
<1> DEFINE x == [x0 EXCEPT !.up = NoFrame, !.down = Frame("hello", NoWork)]
<1>4. conn' = [conn EXCEPT ![l] = x] /\ conn \in [Lines -> ConnRows]
    BY <1>2, <1>3 DEF ServeHello, SessionInv, SessionTypeOK
<1>5. x \in ConnRows /\ x.peer = k /\ x.up = NoFrame /\ x.down = Frame("hello", NoWork)
    BY <1>3, FrameTypes DEF ConnRows
<1> HIDE DEF x
<1>6. /\ conn' \in [Lines -> ConnRows] /\ conn'[l] = x
      /\ \A m \in Lines \ {l} : conn'[m] = conn[m]
    BY <1>4, <1>5
<1>7. RequestOf(x.up, l[1]) /\ ReplyOf(x.down, l[1])
    <2>1. Frame("hello", NoWork).type = "hello" /\ NoFrame.type = "none"
        BY FrameTypes
    <2>2. QED
        BY <1>5, <2>1 DEF RequestOf, ReplyOf
<1>8. SessionTypeOK'
    BY <1>1, <1>6 DEF SessionInv, SessionTypeOK
<1>9. KernelMoves(k)
    BY <1>1, <1>3, <1>5, <1>6, <1>7, GotoFacts DEF KernelMoves
<1>10. ServingWellFormed(k)'
    <2>1. Waiting(k)' = Waiting(k) /\ (\A m : Unused(m)' <=> Unused(m)) /\ ServingWellFormed(k)
        BY <1>1 DEF Waiting, Unused, SessionInv
    <2>2. kernel'[k].pc = "command"
        BY <1>1, GotoFacts
    <2>3. \A m \in Lines : conn[m].peer = k => conn'[m].peer = k
        BY <1>5, <1>6
    <2>4. /\ \A m \in Waiting(k) : conn'[m].peer = k /\ m # serving[k].line /\ Unused(m)
          /\ conn'[serving[k].line].peer = k
        BY <1>1, <2>3, ServedLine
    <2>5. ReplyOf(serving[k].answer, serving[k].line[1])'
        BY <1>1, ServedLine DEF ReplyOf
    <2>6. QED
        BY <1>1, <2>1, <2>2, <2>4, <2>5 DEF ServingWellFormed
<1>11. QED
    BY <1>1, <1>8, <1>9, <1>10, KernelMove
       DEF SessionInv, StoreWellFormed, ConsumedBeforeDiscard

\* A connection whose Kernel end is closed.
LEMMA ClosedRow ==
    ASSUME NEW x \in ConnRows, NEW c, RequestOf(x.up, c), ReplyOf(x.down, c)
    PROVE  LET y == KernelEndClosed(x)
           IN  /\ y \in ConnRows /\ y.peer = NoKernel
               /\ RequestOf(y.up, c) /\ ReplyOf(y.down, c)
<1> DEFINE y == KernelEndClosed(x)
<1>1. /\ NoConn \in ConnRows /\ NoConn.peer = NoKernel
      /\ NoConn.up = NoFrame /\ NoConn.down = NoFrame
    BY FrameTypes DEF NoConn, ConnRows
<1>2. /\ y \in ConnRows /\ y.peer = NoKernel /\ y.up = NoFrame
      /\ y.down = x.down \/ y.down = NoFrame
    <2>1. CASE x.open
        <3>1. y = [x EXCEPT !.peer = NoKernel, !.up = NoFrame]
            BY <2>1 DEF KernelEndClosed
        <3> HIDE DEF y
        <3>2. QED
            BY <3>1, FrameTypes DEF ConnRows
    <2>2. CASE ~x.open
        BY <1>1, <2>2 DEF KernelEndClosed
    <2>3. QED
        BY <2>1, <2>2
<1> HIDE DEF y
<1>3. RequestOf(y.up, c) /\ ReplyOf(y.down, c)
    BY <1>2, FrameTypes DEF RequestOf, ReplyOf
<1>4. QED
    BY <1>2, <1>3 DEF y

LEMMA FinishKeeps ==
    ASSUME SessionInv, EndpointInv, NEW k \in Kernels,
           kernel[k].pc \in {"hello", "command", "answer"},
           NEW answer \in Frames, ReplyOf(answer, serving[k].line[1]),
           Finish(k, answer), store' = store
    PROVE  SessionInv'
<1>1. PICK l \in Lines : l = serving[k].line
    BY ServedLine
<1>2. PICK x0 \in ConnRows : x0 = conn[l] /\ x0.peer = k /\ RequestOf(x0.up, l[1])
                            /\ ReplyOf(x0.down, l[1])
    BY <1>1, ServedLine DEF SessionInv, LineWellFormed
<1> DEFINE x1 == IF x0.open THEN [x0 EXCEPT !.down = answer] ELSE x0
           x == KernelEndClosed(x1)
<1>3. conn' = [conn EXCEPT ![l] = x] /\ conn \in [Lines -> ConnRows]
    BY <1>1, <1>2 DEF Finish, SessionInv, SessionTypeOK
<1>4. x1 \in ConnRows /\ x1.up = x0.up /\ x1.down \in {answer, x0.down}
    <2>1. [x0 EXCEPT !.down = answer] \in ConnRows
        BY DEF ConnRows
    <2>2. /\ [x0 EXCEPT !.down = answer].up = x0.up
          /\ [x0 EXCEPT !.down = answer].down = answer
        BY DEF ConnRows
    <2>3. QED
        BY <2>1, <2>2
<1> HIDE DEF x1
<1>5. RequestOf(x1.up, l[1]) /\ ReplyOf(x1.down, l[1])
    BY <1>1, <1>2, <1>4
<1>6. x \in ConnRows /\ x.peer = NoKernel /\ RequestOf(x.up, l[1]) /\ ReplyOf(x.down, l[1])
    BY <1>4, <1>5, ClosedRow
<1> HIDE DEF x
<1>7. /\ conn' \in [Lines -> ConnRows] /\ conn'[l] = x
      /\ \A m \in Lines \ {l} : conn'[m] = conn[m]
    BY <1>3, <1>6
<1>8. /\ client' = client /\ backlog' = backlog /\ Goto(k, "accept")
      /\ serving' = [serving EXCEPT ![k] = NotServing]
      /\ serving \in [Kernels -> [line : Lines \cup {<<>>}, answer : Frames]]
    BY DEF Finish, SessionInv, SessionTypeOK
<1>9. /\ serving' \in [Kernels -> [line : Lines \cup {<<>>}, answer : Frames]]
      /\ serving'[k].line = <<>> /\ serving'[k].answer = NoFrame
      /\ \A j \in Kernels \ {k} : serving'[j] = serving[j]
    BY <1>8, FrameTypes DEF NotServing
<1>10. SessionTypeOK'
    BY <1>7, <1>8, <1>9 DEF SessionInv, SessionTypeOK
<1>11. KernelMoves(k)
    BY <1>2, <1>6, <1>7, <1>8, <1>9, GotoFacts DEF KernelMoves
<1>12. ServingWellFormed(k)'
    <2>1. Waiting(k)' = Waiting(k) /\ (\A m : Unused(m)' <=> Unused(m)) /\ ServingWellFormed(k)
        BY <1>8 DEF Waiting, Unused, SessionInv
    <2>2. kernel'[k].pc = "accept"
        BY <1>8, GotoFacts
    <2>3. \A m \in Waiting(k) : conn'[m].peer = k /\ m # <<>> /\ Unused(m)
        BY <1>1, <1>7, ServedLine, LineParts
    <2>4. QED
        BY <1>8, <1>9, <2>1, <2>2, <2>3 DEF ServingWellFormed
<1>13. QED
    BY <1>8, <1>10, <1>11, <1>12, KernelMove DEF SessionInv, StoreWellFormed, ConsumedBeforeDiscard

\* A command is handled: what it does to the store is in order, and so is its
\* answer.
LEMMA HandledKeeps ==
    ASSUME SessionInv, EndpointInv, NEW k \in Kernels, kernel[k].pc = "command",
           NEW answer \in Frames, Handled(k, answer),
           SessionTypeOK', StoreWellFormed', ConsumedBeforeDiscard',
           \A w \in Works : \/ store'[w].by = store[w].by
                            \/ store[w].by = <<>> /\ store'[w].by = serving[k].line,
           ReplyOf(answer, serving[k].line[1])'
    PROVE  SessionInv'
<1>1. PICK l \in Lines : l = serving[k].line /\ conn[l].peer = k /\ l # <<>>
    BY ServedLine, LineParts
<1>2. /\ UNCHANGED <<client, conn, backlog>> /\ Goto(k, "answer")
      /\ serving' = [serving EXCEPT ![k].answer = answer]
      /\ serving \in [Kernels -> [line : Lines \cup {<<>>}, answer : Frames]]
    BY DEF Handled, SessionInv, SessionTypeOK
<1>3. /\ serving'[k].line = l /\ serving'[k].answer = answer
      /\ \A j \in Kernels \ {k} : serving'[j] = serving[j]
    BY <1>1, <1>2
<1>4. KernelMoves(k)
    BY <1>1, <1>2, <1>3, GotoFacts DEF KernelMoves
<1>5. ServingWellFormed(k)'
    <2>1. Waiting(k)' = Waiting(k) /\ ServingWellFormed(k)
        BY <1>2 DEF Waiting, SessionInv
    <2>2. kernel'[k].pc = "answer"
        BY <1>2, GotoFacts
    <2>3. \A m \in Waiting(k) : conn[m].peer = k /\ m # l /\ Unused(m)'
        BY <1>1, ServedLine DEF Unused
    <2>4. ReplyOf(answer, l[1])'
        BY <1>1, <1>3 DEF ReplyOf
    <2>5. ReplyOf(serving[k].answer, serving[k].line[1])'
        BY <1>3, <2>4 DEF ReplyOf
    <2>6. QED
        BY <1>1, <1>2, <1>3, <2>1, <2>2, <2>3, <2>5 DEF ServingWellFormed
<1>6. QED
    BY <1>4, <1>5, KernelMove

LEMMA SubmitKeeps ==
    ASSUME SessionInv, EndpointInv, NEW k \in Kernels, HandleSubmit(k)
    PROVE  SessionInv'
<1>1. kernel[k].pc = "command"
    BY DEF HandleSubmit, Commanded, At
<1>2. PICK w \in Works :
        /\ \A v \in Works : store[v].state = "absent" <=> v >= w
        /\ store' = [store EXCEPT ![w] = [state |-> "queued", by |-> serving[k].line]]
        /\ Handled(k, Frame("submitted", w))
    BY DEF HandleSubmit
<1>3. PICK l \in Lines : l = serving[k].line /\ l # <<>> /\ Unused(l)
    BY <1>1, ServedLine, LineParts
<1>4. store[w].state = "absent" /\ store[w].by = <<>>
    <2>1. w \in Int /\ w >= w
        BY DEF Works
    <2>2. store[w].state = "absent"
        BY <1>2, <2>1
    <2>3. QED
        BY <2>2 DEF SessionInv, StoreWellFormed
<1>5. /\ UNCHANGED <<client, conn, backlog>>
      /\ serving' = [serving EXCEPT ![k].answer = Frame("submitted", w)]
    BY <1>2 DEF Handled
<1>6. Frame("submitted", w) \in Frames /\ Frame("submitted", w).type = "submitted"
      /\ Frame("submitted", w).work = w
    BY FrameTypes
<1>7. SessionTypeOK /\ StoreWellFormed /\ ConsumedBeforeDiscard
    BY DEF SessionInv
<1>8. /\ store' \in [Works -> [state : {"absent", "queued", "ready", "acknowledged"},
                               by : Lines \cup {<<>>, <<Owner, 0>>}]]
      /\ store'[w].state = "queued" /\ store'[w].by = l
      /\ \A v \in Works \ {w} : store'[v] = store[v]
    BY <1>2, <1>3, <1>7 DEF SessionTypeOK
<1>9. SessionTypeOK'
    BY <1>5, <1>6, <1>7, <1>8 DEF SessionTypeOK
<1>10. StoreWellFormed'
    <2>1. \A v \in Works \ {w} : store'[v].by # l
        BY <1>3, <1>8 DEF Unused
    <2>2. \A v \in Works : store'[v].state = "absent" <=> store'[v].by = <<>>
        BY <1>3, <1>7, <1>8 DEF StoreWellFormed
    <2>3. ASSUME NEW u \in Works, NEW v \in Works,
                 store'[u].by # <<>>, store'[u].by = store'[v].by
          PROVE  u = v
        BY <1>7, <1>8, <2>1, <2>3 DEF StoreWellFormed
    <2>4. QED
        BY <2>2, <2>3 DEF StoreWellFormed
<1>11. ConsumedBeforeDiscard'
    BY <1>5, <1>7, <1>8 DEF ConsumedBeforeDiscard
<1>12. ReplyOf(Frame("submitted", w), serving[k].line[1])'
    <2>1. serving'[k].line = l
        BY <1>3, <1>5, <1>7 DEF SessionTypeOK
    <2>2. l # <<>> /\ store'[w].by = l
        BY <1>3, <1>8
    <2>3. ReplyOf(Frame("submitted", w), l[1])'
        BY <1>6, <2>2 DEF ReplyOf
    <2>4. QED
        BY <2>1, <2>3 DEF ReplyOf
<1>13. \A v \in Works : \/ store'[v].by = store[v].by
                        \/ store[v].by = <<>> /\ store'[v].by = serving[k].line
    BY <1>3, <1>4, <1>8
<1>14. PICK a \in Frames : a = Frame("submitted", w)
    BY <1>6
<1>15. Handled(k, a) /\ ReplyOf(a, serving[k].line[1])'
    BY <1>2, <1>12, <1>14
<1>16. QED
    BY <1>1, <1>9, <1>10, <1>11, <1>13, <1>15, HandledKeeps

\* The handlers that make no Work: a Work they touch was ready, is acknowledged
\* and is held by its client.
LEMMA AnswerKeeps ==
    ASSUME SessionInv, EndpointInv, NEW k \in Kernels, kernel[k].pc = "command",
           NEW answer \in Frames, ReplyOf(answer, serving[k].line[1]), Handled(k, answer),
           \/ store' = store
           \/ \E w \in Works :
                /\ store[w].state = "ready"
                /\ w \in client[serving[k].line[1]].held
                /\ store' = [store EXCEPT ![w].state = "acknowledged"]
    PROVE  SessionInv'
<1>1. SessionTypeOK /\ StoreWellFormed /\ ConsumedBeforeDiscard
    BY DEF SessionInv
<1>2. PICK l \in Lines : l = serving[k].line /\ l[1] \in Clients
    BY ServedLine
<1>3. /\ UNCHANGED <<client, conn, backlog>>
      /\ serving' = [serving EXCEPT ![k].answer = answer]
    BY DEF Handled
<1>4. store' \in [Works -> [state : {"absent", "queued", "ready", "acknowledged"},
                            by : Lines \cup {<<>>, <<Owner, 0>>}]]
    <2>1. store \in [Works -> [state : {"absent", "queued", "ready", "acknowledged"},
                               by : Lines \cup {<<>>, <<Owner, 0>>}]]
        BY <1>1 DEF SessionTypeOK
    <2>2. CASE store' = store
        BY <2>1, <2>2
    <2>3. ASSUME NEW w \in Works, store' = [store EXCEPT ![w].state = "acknowledged"]
          PROVE  store' \in [Works -> [state : {"absent", "queued", "ready", "acknowledged"},
                                       by : Lines \cup {<<>>, <<Owner, 0>>}]]
        <3>1. [store[w] EXCEPT !.state = "acknowledged"]
                \in [state : {"absent", "queued", "ready", "acknowledged"},
                     by : Lines \cup {<<>>, <<Owner, 0>>}]
            BY <2>1
        <3>2. QED
            BY <2>1, <2>3, <3>1
    <2>4. QED
        BY <2>2, <2>3
<1>5. SessionTypeOK'
    <2>1. serving' \in [Kernels -> [line : Lines \cup {<<>>}, answer : Frames]]
        BY <1>1, <1>3 DEF SessionTypeOK
    <2>2. QED
        BY <1>1, <1>3, <1>4, <2>1 DEF SessionTypeOK
<1>6. ASSUME NEW v \in Works
      PROVE  /\ store'[v].by = store[v].by
             /\ \/ store'[v].state = store[v].state
                \/ /\ store[v].state = "ready" /\ store'[v].state = "acknowledged"
                   /\ v \in client[l[1]].held
    <2>1. CASE store' = store
        BY <2>1
    <2>2. ASSUME NEW w \in Works, store[w].state = "ready",
                 w \in client[serving[k].line[1]].held,
                 store' = [store EXCEPT ![w].state = "acknowledged"]
          PROVE  /\ store'[v].by = store[v].by
                 /\ \/ store'[v].state = store[v].state
                    \/ /\ store[v].state = "ready" /\ store'[v].state = "acknowledged"
                       /\ v \in client[l[1]].held
        <3>1. /\ store'[w].state = "acknowledged" /\ store'[w].by = store[w].by
              /\ v # w => store'[v] = store[v]
            BY <1>1, <2>2 DEF SessionTypeOK
        <3>2. QED
            BY <1>2, <2>2, <3>1
    <2>3. QED
        BY <2>1, <2>2
<1>7. StoreWellFormed'
    BY <1>1, <1>6 DEF StoreWellFormed
<1>8. ConsumedBeforeDiscard'
    <2> SUFFICES ASSUME NEW v \in Works, store'[v].state = "acknowledged"
                 PROVE  v \in client[store[v].by[1]].held
        BY <1>3, <1>6 DEF ConsumedBeforeDiscard
    <2>1. CASE store[v].state = "acknowledged"
        BY <1>1, <2>1 DEF ConsumedBeforeDiscard
    <2>2. CASE v \in client[l[1]].held
        <3>1. ClientWellFormed(l[1])
            BY <1>2 DEF SessionInv
        <3>2. store[v].by[1] = l[1]
            BY <2>2, <3>1 DEF ClientWellFormed
        <3>3. QED
            BY <2>2, <3>2
    <2>3. QED
        BY <1>6, <2>1, <2>2
<1>9. ReplyOf(answer, serving[k].line[1])'
    <2>1. serving'[k].line = l /\ ReplyOf(answer, l[1])
        BY <1>1, <1>2, <1>3 DEF SessionTypeOK
    <2>2. Grows
        BY <1>3, <1>6 DEF Grows
    <2>3. ReplyOf(answer, l[1])'
        BY <1>2, <2>1, <2>2, FramesKept
    <2>4. QED
        BY <2>1, <2>3 DEF ReplyOf
<1>10. QED
    BY <1>5, <1>6, <1>7, <1>8, <1>9, HandledKeeps

LEMMA HandlersKeep ==
    ASSUME SessionInv, EndpointInv, NEW k \in Kernels,
           HandleSubmit(k) \/ HandleResult(k) \/ HandleAcknowledge(k) \/ HandleFails(k)
    PROVE  SessionInv'
<1>1. kernel[k].pc = "command"
    BY DEF HandleSubmit, HandleResult, HandleAcknowledge, HandleFails, Commanded, At
<1>2. PICK l \in Lines : l = serving[k].line
    BY <1>1, ServedLine
<1>3. PICK f, w : f = Line(k).up /\ w = f.work /\ RequestOf(f, l[1])
    BY <1>1, <1>2, ServedLine DEF Line
<1>4. client[l[1]].known \subseteq Works /\ client[l[1]].held \subseteq Works
    BY <1>2, LineParts, SessionRows DEF SessionInv
<1>5. ErrorFrame \in Frames /\ ReplyOf(ErrorFrame, l[1])
    BY FrameTypes DEF ReplyOf
<1>6. CASE HandleSubmit(k)
    BY <1>6, SubmitKeeps
<1>7. CASE HandleFails(k)
    BY <1>1, <1>2, <1>5, <1>7, AnswerKeeps DEF HandleFails
<1>8. CASE HandleResult(k)
    <2>1. w \in client[l[1]].known /\ w \in Works
        BY <1>3, <1>4, <1>8 DEF HandleResult, Commanded, RequestOf
    <2>2. PICK a : /\ a = Frame(IF Ready(w) THEN "payload" ELSE "unavailable", w)
                   /\ Handled(k, a) /\ store' = store
        BY <1>3, <1>8 DEF HandleResult
    <2>3. a \in Frames /\ a.type \in {"payload", "unavailable"} /\ a.work = w
        BY <2>1, <2>2, FrameTypes
    <2>4. ReplyOf(a, l[1])
        BY <2>1, <2>3 DEF ReplyOf
    <2>5. QED
        BY <1>1, <1>2, <2>2, <2>3, <2>4, AnswerKeeps
<1>9. CASE HandleAcknowledge(k)
    <2>1. w \in client[l[1]].held /\ w \in Works
        BY <1>3, <1>4, <1>9 DEF HandleAcknowledge, Commanded, RequestOf
    <2>2. PICK a : /\ a = (IF Ready(w) THEN Frame("acknowledged", w) ELSE ErrorFrame)
                   /\ Handled(k, a) /\ store' = Acknowledged(w)
        BY <1>3, <1>9 DEF HandleAcknowledge
    <2>3. a \in Frames /\ a.type \in {"acknowledged", "error"}
        BY <2>1, <2>2, FrameTypes
    <2>4. ReplyOf(a, l[1])
        BY <2>3 DEF ReplyOf
    <2>5. CASE Ready(w)
        <3>1. store' = [store EXCEPT ![w].state = "acknowledged"] /\ store[w].state = "ready"
            BY <2>2, <2>5 DEF Acknowledged, Ready
        <3>2. QED
            BY <1>1, <1>2, <2>1, <2>2, <2>3, <2>4, <3>1, AnswerKeeps
    <2>6. CASE ~Ready(w)
        <3>1. store' = store
            BY <2>1, <2>2, <2>6 DEF Acknowledged, SessionInv, SessionTypeOK
        <3>2. QED
            BY <1>1, <1>2, <2>2, <2>3, <2>4, <3>1, AnswerKeeps
    <2>7. QED
        BY <2>5, <2>6
<1>10. QED
    BY <1>6, <1>7, <1>8, <1>9

LEMMA ServeKeeps ==
    ASSUME SessionInv, EndpointInv, NEW k \in Kernels, ServeStep(k)
    PROVE  SessionInv'
<1>1. /\ NoFrame \in Frames /\ ErrorFrame \in Frames
      /\ \A c : ReplyOf(NoFrame, c) /\ ReplyOf(ErrorFrame, c)
    BY FrameTypes DEF ReplyOf
<1>2. CASE RefuseHello(k)
    BY <1>1, <1>2, FinishKeeps DEF RefuseHello, At
<1>3. CASE ServeGone(k)
    BY <1>1, <1>3, FinishKeeps DEF ServeGone, At
<1>4. CASE WriteAnswer(k)
    <2>1. PICK a \in Frames : a = serving[k].answer
        BY SessionRows DEF SessionInv
    <2>2. kernel[k].pc = "answer" /\ Finish(k, a) /\ store' = store
        BY <1>4, <2>1 DEF WriteAnswer, At
    <2>3. ReplyOf(a, serving[k].line[1])
        BY <2>1, <2>2, ServedLine
    <2>4. QED
        BY <2>2, <2>3, FinishKeeps
<1>5. QED
    BY <1>2, <1>3, <1>4, AcceptKeeps, ServeHelloKeeps, HandlersKeep DEF ServeStep

\* A Kernel that closes its sockets or dies.
LEMMA CutKeeps ==
    ASSUME SessionInv, NEW k \in Kernels, Cut(k),
           kernel'[k].pc \notin {"hello", "command", "answer"},
           \A j \in Kernels \ {k} : kernel'[j] = kernel[j]
    PROVE  SessionInv'
<1>1. /\ conn' = [l \in Lines |-> IF conn[l].peer = k THEN KernelEndClosed(conn[l]) ELSE conn[l]]
      /\ backlog' = [backlog EXCEPT ![k] = <<>>]
      /\ serving' = [serving EXCEPT ![k] = NotServing]
      /\ UNCHANGED <<client, store>>
    BY DEF Cut
<1>2. SessionTypeOK
    BY DEF SessionInv
<1>3. ASSUME NEW l \in Lines
      PROVE  /\ conn'[l] \in ConnRows
             /\ \/ conn'[l] = conn[l]
                \/ /\ conn[l].peer = k /\ conn'[l].peer = NoKernel
                   /\ RequestOf(conn'[l].up, l[1]) /\ ReplyOf(conn'[l].down, l[1])
    <2>1. PICK x \in ConnRows : x = conn[l] /\ RequestOf(x.up, l[1]) /\ ReplyOf(x.down, l[1])
        BY <1>2 DEF SessionTypeOK, SessionInv, LineWellFormed
    <2>2. PICK y : y = KernelEndClosed(x)
        OBVIOUS
    <2>3. y \in ConnRows /\ y.peer = NoKernel /\ RequestOf(y.up, l[1]) /\ ReplyOf(y.down, l[1])
        BY <2>1, <2>2, ClosedRow
    <2>4. conn'[l] = IF conn[l].peer = k THEN y ELSE conn[l]
        BY <1>1, <2>1, <2>2
    <2>5. QED
        BY <2>1, <2>3, <2>4
<1>4. conn' \in [Lines -> ConnRows]
    <2>1. DOMAIN conn' = Lines /\ conn' = [l \in Lines |-> conn'[l]]
        BY <1>1
    <2>2. QED
        BY <1>3, <2>1
<1>5. /\ backlog' \in [Kernels -> Seq(Lines)] /\ backlog'[k] = <<>>
      /\ serving' \in [Kernels -> [line : Lines \cup {<<>>}, answer : Frames]]
      /\ serving'[k].line = <<>> /\ serving'[k].answer = NoFrame
      /\ \A j \in Kernels \ {k} : backlog'[j] = backlog[j] /\ serving'[j] = serving[j]
    BY <1>1, <1>2, FrameTypes, EmptySeq DEF SessionTypeOK, NotServing
<1>6. SessionTypeOK'
    BY <1>1, <1>2, <1>4, <1>5 DEF SessionTypeOK
<1>7. KernelMoves(k)
    BY <1>1, <1>3, <1>5 DEF KernelMoves
<1>8. ServingWellFormed(k)'
    <2>1. DOMAIN backlog'[k] = {}
        BY <1>5
    <2>2. QED
        BY <1>5, <2>1 DEF ServingWellFormed, Waiting
<1>9. QED
    BY <1>1, <1>6, <1>7, <1>8, KernelMove DEF SessionInv, StoreWellFormed, ConsumedBeforeDiscard

\* A Kernel that moves while no connection is touched.
LEMMA PcKeeps ==
    ASSUME SessionInv, UNCHANGED sessionVars,
           \A j \in Kernels : \/ kernel'[j].pc = kernel[j].pc
                              \/ /\ kernel[j].pc \notin {"hello", "command", "answer"}
                                 /\ kernel'[j].pc \notin {"hello", "command", "answer"}
    PROVE  SessionInv'
<1> USE DEF sessionVars
<1>1. ASSUME NEW k \in Kernels PROVE ServingWellFormed(k)'
    <2>1. Waiting(k)' = Waiting(k) /\ (\A m : Unused(m)' <=> Unused(m)) /\ ServingWellFormed(k)
        BY DEF Waiting, Unused, SessionInv
    <2>2. ReplyOf(serving[k].answer, serving[k].line[1])' <=>
              ReplyOf(serving[k].answer, serving[k].line[1])
        BY DEF ReplyOf
    <2>3. QED
        BY <2>1, <2>2 DEF ServingWellFormed
<1>2. QED
    BY <1>1 DEF SessionInv, SessionTypeOK, LineWellFormed, RequestOf, ReplyOf, Fresh, Unused,
                ClientWellFormed, StoreWellFormed, ConsumedBeforeDiscard

LEMMA LifeKeeps ==
    ASSUME SessionInv, EndpointInv, NEW k \in Kernels,
           Started(k) \/ Living(k) \/ Faulty(k) \/ (Signal(k) /\ UNCHANGED sessionVars)
    PROVE  SessionInv'
<1> DEFINE S == {"hello", "command", "answer"}
<1>1. ASSUME TakeLock(k) \/ LockHeld(k) \/ LifeStep(k) \/ FaultStep(k) \/ Signal(k)
      PROVE  /\ \A j \in Kernels \ {k} : kernel'[j] = kernel[j]
             /\ kernel'[k].pc \in {"remove", "down"} \/ kernel'[k].pc = kernel[k].pc
                \/ (kernel[k].pc \notin S /\ kernel'[k].pc \notin S)
    <2>1. kernel \in [Kernels -> [pc : KernelPcs, owned : BOOLEAN, stop : BOOLEAN]]
        BY DEF EndpointInv, EndpointTypeOK
    <2>2. ASSUME NEW pc, Goto(k, pc)
          PROVE  kernel'[k].pc = pc /\ \A j \in Kernels \ {k} : kernel'[j] = kernel[j]
        BY <2>2, GotoFacts
    <2>3. CASE TakeLock(k) \/ LockHeld(k)
        <3>1. kernel[k].pc = "new"
            <4>1. k \in Int /\ k >= k
                BY DEF Kernels
            <4>2. QED
                BY <2>3, <4>1 DEF TakeLock, LockHeld, Starts, At
        <3>2. Goto(k, "locked") \/ Goto(k, "close")
            BY <2>3 DEF TakeLock, LockHeld
        <3>3. QED
            BY <2>2, <3>1, <3>2
    <2>4. CASE \/ RemoveStale(k) \/ BindFails(k) \/ Listen(k) \/ Recovered(k) \/ LeaveLoop(k)
               \/ Drained(k) \/ CloseSocket(k) \/ StartFails(k) \/ RecoverFails(k)
               \/ AcceptFails(k)
        <3>1. /\ \E pc \in {"cleared", "close", "recover", "accept", "drain", "remove"} :
                    Goto(k, pc)
              /\ kernel[k].pc \notin S
            BY <2>4 DEF RemoveStale, BindFails, Listen, Recovered, LeaveLoop, Drained,
                        CloseSocket, StartFails, RecoverFails, AcceptFails, At, StartingPcs
        <3>2. QED
            BY <2>2, <3>1
    <2>5. CASE Bind(k) \/ RemoveOwned(k)
        BY <2>1, <2>5 DEF Bind, RemoveOwned, At
    <2>6. CASE Unlock(k) \/ Crash(k)
        BY <2>1, <2>6 DEF Unlock, Crash, Down, New
    <2>7. CASE Signal(k)
        BY <2>1, <2>7 DEF Signal
    <2>8. QED
        BY <1>1, <2>3, <2>4, <2>5, <2>6, <2>7 DEF LifeStep, FaultStep
<1>2. CASE Started(k)
    <2>1. TakeLock(k) \/ LockHeld(k)
        BY <1>2 DEF Started
    <2>2. kernel'[k].pc \notin {"remove", "down"}
        BY <2>1, GotoFacts DEF TakeLock, LockHeld
    <2>3. QED
        BY <1>1, <1>2, <2>1, <2>2, PcKeeps DEF Started
<1>3. CASE Signal(k) /\ UNCHANGED sessionVars
    <2>1. kernel'[k].pc = kernel[k].pc
        BY <1>3 DEF Signal, EndpointInv, EndpointTypeOK
    <2>2. QED
        BY <1>1, <1>3, <2>1, PcKeeps
<1>4. CASE Living(k)
    <2>1. LifeStep(k)
        BY <1>4 DEF Living
    <2>2. CASE kernel'[k].pc = "remove"
        BY <1>1, <1>4, <2>1, <2>2, CutKeeps DEF Living
    <2>3. CASE kernel'[k].pc # "remove"
        <3>1. UNCHANGED sessionVars
            BY <1>4, <2>3 DEF Living
        <3>2. ASSUME kernel'[k].pc = "down" PROVE kernel[k].pc \notin S
            <4>1. CASE Unlock(k)
                BY <4>1 DEF Unlock, At
            <4>2. CASE ~Unlock(k)
                BY <2>1, <4>2 DEF LifeStep, RemoveStale, Bind, BindFails, Listen, Recovered,
                                  LeaveLoop, Drained, CloseSocket, RemoveOwned, At
            <4>3. QED
                BY <4>1, <4>2
        <3>3. QED
            BY <1>1, <2>1, <2>3, <3>1, <3>2, PcKeeps
    <2>4. QED
        BY <2>2, <2>3
<1>5. CASE Faulty(k)
    <2>1. FaultStep(k)
        BY <1>5 DEF Faulty
    <2>2. CASE kernel'[k].pc = "down"
        BY <1>1, <1>5, <2>1, <2>2, CutKeeps DEF Faulty
    <2>3. CASE kernel'[k].pc # "down"
        <3>1. UNCHANGED sessionVars
            BY <1>5, <2>3 DEF Faulty
        <3>2. CASE Crash(k)
            <4>1. kernel'[k].pc = "down"
                BY <3>2 DEF Crash, Down, New, EndpointInv, EndpointTypeOK
            <4>2. QED
                BY <2>3, <4>1
        <3>3. CASE StartFails(k) \/ RecoverFails(k) \/ AcceptFails(k)
            <4>1. kernel[k].pc \notin S /\ kernel'[k].pc \notin S
                BY <3>3, GotoFacts DEF StartFails, RecoverFails, AcceptFails, At, StartingPcs
            <4>2. QED
                BY <1>1, <2>1, <3>1, <4>1, PcKeeps
        <3>4. QED
            BY <2>1, <3>2, <3>3 DEF FaultStep
    <2>4. QED
        BY <2>2, <2>3
<1>6. QED
    BY <1>2, <1>3, <1>4, <1>5

LEMMA CompleteKeeps ==
    ASSUME SessionInv, NEW k \in Kernels, NEW w \in Works, Complete(k, w)
    PROVE  SessionInv'
<1>1. /\ store[w].state = "queued" /\ store' = [store EXCEPT ![w].state = "ready"]
      /\ UNCHANGED <<kernel, client, conn, backlog, serving>>
    BY DEF Complete, endpointVars
<1>2. SessionTypeOK /\ StoreWellFormed /\ ConsumedBeforeDiscard
    BY DEF SessionInv
<1>3. /\ store' \in [Works -> [state : {"absent", "queued", "ready", "acknowledged"},
                               by : Lines \cup {<<>>, <<Owner, 0>>}]]
      /\ store'[w].state = "ready" /\ store'[w].by = store[w].by
      /\ \A v \in Works \ {w} : store'[v] = store[v]
    BY <1>1, <1>2 DEF SessionTypeOK
<1>4. SessionTypeOK'
    BY <1>1, <1>2, <1>3 DEF SessionTypeOK
<1>5. StoreWellFormed'
    BY <1>1, <1>2, <1>3 DEF StoreWellFormed
<1>6. ConsumedBeforeDiscard'
    BY <1>1, <1>2, <1>3 DEF ConsumedBeforeDiscard
<1>7. KernelMoves(k)
    BY <1>1, <1>3 DEF KernelMoves
<1>8. ServingWellFormed(k)'
    <2>1. Waiting(k)' = Waiting(k) /\ ServingWellFormed(k)
        BY <1>1 DEF Waiting, SessionInv
    <2>2. \A m : Unused(m)' <=> Unused(m)
        BY <1>3 DEF Unused
    <2>3. ASSUME serving[k].line # <<>>
          PROVE  ReplyOf(serving[k].answer, serving[k].line[1])'
        <3>1. PICK f, c : /\ f = serving[k].answer /\ c = serving[k].line[1]
                          /\ c \in Clients /\ ReplyOf(f, c)
            BY <2>1, <2>3, SessionRows, LineParts DEF ServingWellFormed, SessionInv
        <3>2. Grows
            BY <1>1, <1>3 DEF Grows
        <3>3. ReplyOf(f, c)'
            BY <3>1, <3>2, FramesKept
        <3>4. QED
            BY <1>1, <3>1, <3>3 DEF ReplyOf
    <2>4. QED
        BY <1>1, <2>1, <2>2, <2>3 DEF ServingWellFormed
<1>9. QED
    BY <1>4, <1>5, <1>6, <1>7, <1>8, KernelMove

LEMMA InitSession == Init => SessionInv
<1> SUFFICES ASSUME Init PROVE SessionInv
    OBVIOUS
<1>1. /\ client = [c \in Clients |-> [NewClient EXCEPT !.known = IF c = Owner THEN {1} ELSE {}]]
      /\ conn = [l \in Lines |-> NoConn]
      /\ backlog = [k \in Kernels |-> <<>>]
      /\ serving = [k \in Kernels |-> NotServing]
      /\ store = [w \in Works |-> IF w = 1 THEN [state |-> "queued", by |-> <<Owner, 0>>]
                                 ELSE [state |-> "absent", by |-> <<>>]]
      /\ kernel = [k \in Kernels |-> New]
    BY DEF Init, EndpointInit
<1>2. 1 \in Works /\ 0 \in 0 .. MaxCalls
    BY SessionAssumption DEF Works
<1>3. \A c \in Clients : /\ client[c].pc = "idle" /\ client[c].command = NoFrame
                         /\ client[c].call = 0 /\ client[c].held = {}
                         /\ client[c].known = IF c = Owner THEN {1} ELSE {}
                         /\ client[c] \in ClientRows
    BY <1>1, <1>2, FrameTypes DEF NewClient, ClientRows
<1>4. /\ NoConn \in ConnRows /\ NoConn.peer = NoKernel
      /\ NoConn.up = NoFrame /\ NoConn.down = NoFrame
    BY FrameTypes DEF NoConn, ConnRows
<1>5. /\ NotServing \in [line : Lines \cup {<<>>}, answer : Frames]
      /\ NotServing.line = <<>> /\ NotServing.answer = NoFrame
    BY FrameTypes DEF NotServing
<1>6. /\ store[1].state = "queued" /\ store[1].by = <<Owner, 0>>
      /\ \A w \in Works \ {1} : store[w].state = "absent" /\ store[w].by = <<>>
      /\ <<Owner, 0>> # <<>> /\ <<Owner, 0>>[1] = Owner
    BY <1>1, <1>2
<1>7. SessionTypeOK
    <2>1. client \in [Clients -> ClientRows]
        <3>1. client = [c \in Clients |-> client[c]]
            BY <1>1
        <3>2. QED
            BY <1>3, <3>1
    <2>2. backlog \in [Kernels -> Seq(Lines)]
        BY <1>1, EmptySeq
    <2>3. store \in [Works -> [state : {"absent", "queued", "ready", "acknowledged"},
                               by : Lines \cup {<<>>, <<Owner, 0>>}]]
        BY <1>1
    <2>4. QED
        BY <1>1, <1>4, <1>5, <2>1, <2>2, <2>3 DEF SessionTypeOK
<1>8. \A k \in Kernels : ServingWellFormed(k)
    <2> SUFFICES ASSUME NEW k \in Kernels PROVE ServingWellFormed(k)
        OBVIOUS
    <2>1. backlog[k] = <<>> /\ DOMAIN backlog[k] = {} /\ serving[k] = NotServing
        BY <1>1
    <2>2. kernel[k].pc = "new"
        BY <1>1 DEF New
    <2>3. QED
        BY <1>5, <2>1, <2>2 DEF ServingWellFormed, Waiting
<1>9. \A l \in Lines : LineWellFormed(l)
    <2> SUFFICES ASSUME NEW l \in Lines PROVE LineWellFormed(l)
        OBVIOUS
    <2>1. conn[l] = NoConn
        BY <1>1
    <2>2. Unused(l)
        <3>1. l # <<>> /\ l[2] \in 1 .. MaxCalls /\ <<Owner, 0>>[2] = 0
            BY LineParts
        <3>2. l # <<Owner, 0>>
            BY <3>1
        <3>3. QED
            BY <1>6, <3>1, <3>2 DEF Unused
    <2>3. QED
        BY <1>4, <2>1, <2>2, FrameTypes DEF LineWellFormed, RequestOf, ReplyOf
<1>10. \A c \in Clients : ClientWellFormed(c)
    BY <1>2, <1>3, <1>6, FrameTypes DEF ClientWellFormed, RequestOf
<1>11. StoreWellFormed /\ ConsumedBeforeDiscard
    BY <1>6 DEF StoreWellFormed, ConsumedBeforeDiscard
<1>12. QED
    BY <1>7, <1>8, <1>9, <1>10, <1>11 DEF SessionInv

(***************************************************************************)
(* SessionInv is an invariant of the Kernels and the clients together:     *)
(* every connection is in one place, and what travels over it is about     *)
(* Works of its client.  (LocalKernelClient.java: exchange; main.cpp: run, *)
(* serve_connection)                                                       *)
(***************************************************************************)
THEOREM SessionSafety == Spec => []SessionInv
<1>1. SessionInv /\ EndpointInv /\ [Next]_vars => SessionInv'
    <2> SUFFICES ASSUME SessionInv, EndpointInv, [Next]_vars PROVE SessionInv'
        OBVIOUS
    <2>1. CASE UNCHANGED vars
        BY <2>1, PcKeeps DEF vars, endpointVars
    <2>2. ASSUME NEW k \in Kernels,
                 \/ Started(k) \/ Living(k) \/ Faulty(k) \/ ServeStep(k)
                 \/ Signal(k) /\ UNCHANGED sessionVars
                 \/ \E w \in Works : Complete(k, w)
          PROVE  SessionInv'
        BY <2>2, LifeKeeps, ServeKeeps, CompleteKeeps
    <2>3. ASSUME NEW c \in Clients, Call(c) \/ ClientStep(c) \/ SendStrange(c) \/ Vanish(c)
          PROVE  SessionInv'
        BY <2>3, ClientKeeps
    <2>4. QED
        BY <2>1, <2>2, <2>3 DEF Next
<1>2. QED
    BY <1>1, InitSession, EndpointInductive, PTL DEF Spec

(***************************************************************************)
(* A submit that is answered, lost, or cut off by the death of its Kernel  *)
(* makes at most one Work, and the identities a client has are those of    *)
(* the Works its own calls made.                                           *)
(***************************************************************************)
THEOREM CallsExactAlways == Spec => []CallsExact
<1>1. SessionInv => CallsExact
    <2> SUFFICES ASSUME SessionInv PROVE CallsExact
        OBVIOUS
    <2>1. \A c \in Clients : client[c].known \subseteq Works
        BY SessionRows DEF SessionInv
    <2>2. QED
        BY <2>1 DEF SessionInv, StoreWellFormed, ClientWellFormed, CallsExact
<1>2. QED
    BY <1>1, SessionSafety, PTL

(***************************************************************************)
(* A result is discarded only when the client that submitted the Work has  *)
(* it, whichever answers were lost on the way.                             *)
(***************************************************************************)
THEOREM ConsumedBeforeDiscardAlways == Spec => []ConsumedBeforeDiscard
<1>1. SessionInv => ConsumedBeforeDiscard
    BY DEF SessionInv
<1>2. QED
    BY <1>1, SessionSafety, PTL
=============================================================================
