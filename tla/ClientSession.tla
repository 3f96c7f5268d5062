--------------------------- MODULE ClientSession ----------------------------
(***************************************************************************)
(* Client calls over the local endpoint: exchange of LocalKernelClient on  *)
(* one side, run and serve_connection of the Kernel on the other.  A call  *)
(* is one connection: HELLO and its answer, the command and its answer.    *)
(* Either side may disappear at any point of it; what it has sent before   *)
(* is still read by the other.                                             *)
(*                                                                         *)
(* The store is what the calls tell apart of it: Works that are submitted, *)
(* become ready and are acknowledged (module Kernel has the rest).         *)
(***************************************************************************)
EXTENDS LocalEndpoint

CONSTANTS
    Clients,
    ClientEndpoint,  \* the endpoint the clients are configured with
    MaxWorks,        \* bound on Works
    MaxCalls,        \* bound on calls
    Owner,           \* the client whose Work 1 an earlier Kernel has left in the store
    Strangers        \* whether a client may send something else than HELLO

ASSUME SessionAssumption ==
    /\ ClientEndpoint \in Endpoints
    /\ Owner \in Clients
    /\ MaxWorks \in Nat \ {0}
    /\ MaxCalls \in Nat
    /\ Strangers \in BOOLEAN

VARIABLES
    client,   \* client[c]: the call in progress and what earlier calls returned
    conn,     \* conn[l]: the connection of a call
    backlog,  \* backlog[k]: connections k has not accepted yet, in order
    serving,  \* serving[k]: the connection k has accepted, and the answer handle() returned
    store     \* store[w]: state of the Work, and the call that submitted it

sessionVars == <<client, conn, backlog, serving, store>>
vars == <<endpointVars, sessionVars>>

\* Work identities, numbered in the order they are made.
Works == 1 .. MaxWorks
NoWork == 0

\* A call is its client and its number, in the order calls are made; so is its
\* connection.
Lines == Clients \X (1 .. MaxCalls)

Frame(type, w) == [type |-> type, work |-> w]
NoFrame == Frame("none", NoWork)
ErrorFrame == Frame("error", NoWork)
Commands == {"submit", "result", "acknowledge"}

\* known: the WorkIds submit returned; held: the Works whose result was returned.
NewClient == [pc |-> "idle", command |-> NoFrame, call |-> 0, known |-> {}, held |-> {}]

\* peer: the Kernel whose end is open; open: the end of the client; up and down:
\* the frame on its way to the Kernel and to the client.
NoConn == [peer |-> NoKernel, open |-> FALSE, up |-> NoFrame, down |-> NoFrame]
NotServing == [line |-> <<>>, answer |-> NoFrame]

Init ==
    /\ EndpointInit
    /\ client = [c \in Clients |-> [NewClient EXCEPT !.known = IF c = Owner THEN {1} ELSE {}]]
    /\ conn = [l \in Lines |-> NoConn]
    /\ backlog = [k \in Kernels |-> <<>>]
    /\ serving = [k \in Kernels |-> NotServing]
    /\ store = [w \in Works |-> IF w = 1 THEN [state |-> "queued", by |-> <<Owner, 0>>]
                               ELSE [state |-> "absent", by |-> <<>>]]

\* An end that is closed: the other end reads what was sent, then end of file.
KernelEndClosed(x) == IF x.open THEN [x EXCEPT !.peer = NoKernel, !.up = NoFrame] ELSE NoConn
ClientEndClosed(x) ==
    IF x.peer # NoKernel THEN [x EXCEPT !.open = FALSE, !.down = NoFrame] ELSE NoConn
-----------------------------------------------------------------------------
(* The client. *)

LineOf(c) == <<c, client[c].call>>
NextCall(n) == \A i \in 1 .. MaxCalls : i >= n <=> \A c \in Clients : client[c].call < i
Set(c, pc) == client' = [client EXCEPT ![c].pc = pc]
Returned(c) == [client[c] EXCEPT !.pc = "idle", !.command = NoFrame]

\* A program calls submit, result of a Work it knows, or acknowledge of one
\* whose result it has.
Call(c) ==
    /\ client[c].pc = "idle"
    /\ \E n \in 1 .. MaxCalls, command \in {Frame("submit", NoWork)}
                        \cup {Frame("result", w) : w \in client[c].known}
                        \cup {Frame("acknowledge", w) : w \in client[c].held} :
        /\ NextCall(n)
        /\ client' = [client EXCEPT ![c].pc = "connect", ![c].command = command,
                                    ![c].call = n]
    /\ UNCHANGED <<endpointVars, conn, backlog, serving, store>>

\* openChannel
Connect(c) ==
    /\ client[c].pc = "connect"
    /\ \E k \in Kernels :
        /\ node[ClientEndpoint] = k /\ Listening(k)
        /\ conn' = [conn EXCEPT ![LineOf(c)] = [NoConn EXCEPT !.peer = k, !.open = TRUE]]
        /\ backlog' = [backlog EXCEPT ![k] = Append(@, LineOf(c))]
    /\ Set(c, "hello")
    /\ UNCHANGED <<endpointVars, serving, store>>

\* The path is absent or stale, or the socket does not listen: IPC_FAILURE.
ConnectFails(c) ==
    /\ client[c].pc = "connect"
    /\ \A k \in Kernels : ~(node[ClientEndpoint] = k /\ Listening(k))
    /\ client' = [client EXCEPT ![c] = Returned(c)]
    /\ UNCHANGED <<endpointVars, conn, backlog, serving, store>>

Send(c, pc, frame, next) ==
    /\ client[c].pc = pc /\ conn[LineOf(c)].peer # NoKernel
    /\ conn' = [conn EXCEPT ![LineOf(c)] = [@ EXCEPT !.up = frame, !.down = NoFrame]]
    /\ Set(c, next)
    /\ UNCHANGED <<endpointVars, backlog, serving, store>>

SendHello(c) == Send(c, "hello", Frame("hello", NoWork), "welcome")
SendStrange(c) == Strangers /\ Send(c, "hello", Frame("strange", NoWork), "welcome")

\* The HELLO response is read and the command written; nothing the Kernel does
\* in between makes a difference.
SendCommand(c) ==
    /\ client[c].pc = "welcome" /\ conn[LineOf(c)].down.type = "hello"
    /\ Send(c, "welcome", client[c].command, "answer")

\* The call is over and its channel closed.
Hangup(c, caller) ==
    /\ conn' = [conn EXCEPT ![LineOf(c)] = ClientEndClosed(@)]
    /\ client' = [client EXCEPT ![c] = caller]
    /\ UNCHANGED <<endpointVars, backlog, serving, store>>

\* checkError: an ERROR frame becomes an exception.
ReadError(c) ==
    /\ client[c].pc \in {"welcome", "answer"} /\ conn[LineOf(c)].down.type = "error"
    /\ Hangup(c, Returned(c))

\* A response: the WorkId, the payload if there is one, or the acknowledgement.
ReadAnswer(c) ==
    LET answer == conn[LineOf(c)].down
    IN  /\ client[c].pc = "answer" /\ answer.type \notin {"none", "error"}
        /\ Hangup(c, CASE answer.type = "submitted" ->
                            [Returned(c) EXCEPT !.known = @ \cup {answer.work}]
                       [] answer.type = "payload" ->
                            [Returned(c) EXCEPT !.held = @ \cup {answer.work}]
                       [] OTHER -> Returned(c))

Cutoff(c) ==
    /\ client[c].pc \in {"hello", "welcome", "answer"}
    /\ conn[LineOf(c)].peer = NoKernel /\ conn[LineOf(c)].down.type \in {"none", "hello"}

\* Mutant of Broken: the client connects again and repeats the command.
BrokenRetries(c) == Cutoff(c) /\ Hangup(c, [client[c] EXCEPT !.pc = "connect"])

\* End of file or a reset: IPC_FAILURE, and the caller cannot tell whether the
\* command was carried out.
Broken(c) == Cutoff(c) /\ Hangup(c, Returned(c))

\* The client process ends in the middle of a call, or of reading its answer.
Vanish(c) == client[c].pc \notin {"idle", "connect"} /\ Hangup(c, Returned(c))

ClientStep(c) ==
    \/ Connect(c) \/ ConnectFails(c) \/ SendHello(c) \/ SendCommand(c)
    \/ ReadError(c) \/ ReadAnswer(c) \/ Broken(c)
-----------------------------------------------------------------------------
(* The Kernel: run and serve_connection. *)

\* accept_for: connections are served in order.
Accept(k) ==
    /\ At(k, "accept") /\ ~kernel[k].stop /\ backlog[k] # <<>>
    /\ serving' = [serving EXCEPT ![k].line = Head(backlog[k])]
    /\ backlog' = [backlog EXCEPT ![k] = Tail(@)]
    /\ Goto(k, "hello")
    /\ UNCHANGED <<lock, node, client, conn, store>>

Line(k) == conn[serving[k].line]

\* serve_connection returns after it has written answer, if any, and
\* close_local_ipc closes the end of the Kernel.
Finish(k, answer) ==
    /\ conn' = [conn EXCEPT ![serving[k].line] =
                    KernelEndClosed(IF @.open THEN [@ EXCEPT !.down = answer] ELSE @)]
    /\ serving' = [serving EXCEPT ![k] = NotServing]
    /\ Goto(k, "accept")
    /\ UNCHANGED <<lock, node, client, backlog>>

ServeHello(k) ==
    /\ At(k, "hello") /\ Line(k).up.type = "hello" /\ Line(k).open
    /\ conn' = [conn EXCEPT ![serving[k].line] =
                    [@ EXCEPT !.up = NoFrame, !.down = Frame("hello", NoWork)]]
    /\ Goto(k, "command")
    /\ UNCHANGED <<lock, node, client, backlog, serving, store>>

\* Mutant of RefuseHello: the early return leaves the connection open, unanswered.
RefuseHelloLeaks(k) ==
    /\ At(k, "hello") /\ Line(k).up.type \notin {"none", "hello"}
    /\ serving' = [serving EXCEPT ![k] = NotServing]
    /\ Goto(k, "accept")
    /\ UNCHANGED <<lock, node, client, conn, backlog, store>>

\* HELLO_REQUIRED, VERSION_MISMATCH or FRAMING_ERROR
RefuseHello(k) ==
    /\ At(k, "hello") /\ Line(k).up.type \notin {"none", "hello"}
    /\ Finish(k, ErrorFrame)
    /\ UNCHANGED store


\* The client is gone: read_frame finds the end of the stream, or the write of
\* the HELLO response fails.  Nobody reads the error frame.
ServeGone(k) ==
    /\ \/ At(k, "hello") /\ Line(k).up.type \in {"none", "hello"}
       \/ At(k, "command") /\ Line(k).up.type \notin Commands
    /\ ~Line(k).open
    /\ Finish(k, NoFrame)
    /\ UNCHANGED store

\* read_frame has a command; handle returns its answer.
Commanded(k, command) == At(k, "command") /\ Line(k).up.type = command

Handled(k, answer) ==
    /\ serving' = [serving EXCEPT ![k].answer = answer]
    /\ Goto(k, "answer")
    /\ UNCHANGED <<lock, node, client, conn, backlog>>

\* submit: a fresh identity, durable before it is answered.
HandleSubmit(k) ==
    /\ Commanded(k, "submit")
    /\ \E w \in Works :
        /\ \A v \in Works : store[v].state = "absent" <=> v >= w
        /\ store' = [store EXCEPT ![w] = [state |-> "queued", by |-> serving[k].line]]
        /\ Handled(k, Frame("submitted", w))

\* A handler that throws or refuses the request.
HandleFails(k) ==
    /\ \E command \in Commands : Commanded(k, command)
    /\ Handled(k, ErrorFrame)
    /\ UNCHANGED store

Ready(w) == store[w].state = "ready"
Acknowledged(w) == [store EXCEPT ![w].state = IF Ready(w) THEN "acknowledged" ELSE @]

\* Mutant of HandleResult: a result is discarded once it is collected.
HandleResultDiscards(k) ==
    /\ Commanded(k, "result")
    /\ LET w == Line(k).up.work
       IN  /\ store' = Acknowledged(w)
           /\ Handled(k, Frame(IF Ready(w) THEN "payload" ELSE "unavailable", w))

HandleResult(k) ==
    /\ Commanded(k, "result")
    /\ LET w == Line(k).up.work
       IN  Handled(k, Frame(IF Ready(w) THEN "payload" ELSE "unavailable", w))
    /\ UNCHANGED store

\* acknowledge of a Work that is acknowledged already is an error.
HandleAcknowledge(k) ==
    /\ Commanded(k, "acknowledge")
    /\ LET w == Line(k).up.work
       IN  /\ store' = Acknowledged(w)
           /\ Handled(k, IF Ready(w) THEN Frame("acknowledged", w) ELSE ErrorFrame)

WriteAnswer(k) ==
    /\ At(k, "answer")
    /\ Finish(k, serving[k].answer)
    /\ UNCHANGED store

ServeStep(k) ==
    \/ Accept(k) \/ ServeHello(k) \/ RefuseHello(k) \/ ServeGone(k) \/ WriteAnswer(k)
    \/ HandleSubmit(k) \/ HandleResult(k) \/ HandleAcknowledge(k) \/ HandleFails(k)

\* A Work succeeds while a Kernel runs on the store.
Complete(k, w) ==
    /\ kernel[k].pc \in RunningPcs \ {"recover"} /\ store[w].state = "queued"
    /\ store' = [store EXCEPT ![w].state = "ready"]
    /\ UNCHANGED <<endpointVars, client, conn, backlog, serving>>
-----------------------------------------------------------------------------
\* A process that closes its sockets, or dies, breaks its connections.
Cut(k) ==
    /\ conn' = [l \in Lines |-> IF conn[l].peer = k THEN KernelEndClosed(conn[l]) ELSE conn[l]]
    /\ backlog' = [backlog EXCEPT ![k] = <<>>]
    /\ serving' = [serving EXCEPT ![k] = NotServing]
    /\ UNCHANGED <<client, store>>

Started(k) == (TakeLock(k) \/ LockHeld(k)) /\ UNCHANGED sessionVars

Living(k) ==
    LifeStep(k) /\ (IF kernel'[k].pc = "remove" THEN Cut(k) ELSE UNCHANGED sessionVars)

Faulty(k) ==
    FaultStep(k) /\ (IF kernel'[k].pc = "down" THEN Cut(k) ELSE UNCHANGED sessionVars)

Next ==
    \/ \E k \in Kernels :
        \/ Started(k) \/ Living(k) \/ Faulty(k) \/ ServeStep(k)
        \/ Signal(k) /\ UNCHANGED sessionVars
        \/ \E w \in Works : Complete(k, w)
    \/ \E c \in Clients : Call(c) \/ ClientStep(c) \/ SendStrange(c) \/ Vanish(c)

Spec == Init /\ [][Next]_vars

\* The threads of a Kernel run, but for the wait of ~Kernel for its attempts.
\* Nothing is assumed of clients.
Fairness ==
    \A k \in Kernels : WF_vars(Living(k) /\ ~At(k, "drain")) /\ WF_vars(ServeStep(k))

FairSpec == Spec /\ Fairness
-----------------------------------------------------------------------------
(***************************************************************************)
(* A call of submit makes at most one Work, and the identity it returns is *)
(* that of the Work it made, through lost answers, Kernels that die before *)
(* or after they handle it, and Kernels started again.                     *)
(* (LocalKernelClient.java: exchange does not repeat a command)            *)
(***************************************************************************)
CallsExact ==
    /\ \A v, w \in Works : store[v].by # <<>> /\ store[v].by = store[w].by => v = w
    /\ \A c \in Clients : \A w \in client[c].known :
        store[w].state # "absent" /\ store[w].by[1] = c

(***************************************************************************)
(* A result is discarded only after the caller that submitted the Work has *)
(* it: collecting it again after a lost answer still works.                *)
(* (main.cpp: result, acknowledge)                                         *)
(***************************************************************************)
ConsumedBeforeDiscard ==
    \A w \in Works :
        store[w].state = "acknowledged" => w \in client[store[w].by[1]].held

(***************************************************************************)
(* The strengthening that makes both inductive: a connection is in at most *)
(* one place, it is not handled any more once it has made a Work, and what *)
(* is on its way over it is about Works of its client.                     *)
(***************************************************************************)
Frames ==
    [type : Commands \cup {"none", "error", "hello", "strange", "submitted", "payload",
                           "unavailable", "acknowledged"},
     work : Works \cup {NoWork}]

ClientRows ==
    [pc : {"idle", "connect", "hello", "welcome", "answer"}, command : Frames,
     call : 0 .. MaxCalls, known : SUBSET Works, held : SUBSET Works]

ConnRows ==
    [peer : Kernels \cup {NoKernel}, open : BOOLEAN, up : Frames, down : Frames]

SessionTypeOK ==
    /\ client \in [Clients -> ClientRows]
    /\ conn \in [Lines -> ConnRows]
    /\ backlog \in [Kernels -> Seq(Lines)]
    /\ serving \in [Kernels -> [line : Lines \cup {<<>>}, answer : Frames]]
    /\ store \in [Works -> [state : {"absent", "queued", "ready", "acknowledged"},
                            by : Lines \cup {<<>>, <<Owner, 0>>}]]

Waiting(k) == {backlog[k][i] : i \in DOMAIN backlog[k]}

\* No Work was made by a call.
Unused(l) == \A w \in Works : store[w].by # l

RequestOf(frame, c) ==
    /\ frame.type = "result" => frame.work \in client[c].known
    /\ frame.type = "acknowledge" => frame.work \in client[c].held

ReplyOf(frame, c) ==
    /\ frame.type = "submitted" =>
         frame.work \in Works /\ store[frame.work].by # <<>> /\ store[frame.work].by[1] = c
    /\ frame.type = "payload" => frame.work \in client[c].known

ServingWellFormed(k) ==
    /\ kernel[k].pc \in {"hello", "command", "answer"} <=> serving[k].line # <<>>
    /\ serving[k].line = <<>> => serving[k].answer = NoFrame
    /\ \A i, j \in DOMAIN backlog[k] : backlog[k][i] = backlog[k][j] => i = j
    /\ \A l \in Waiting(k) : conn[l].peer = k /\ l # serving[k].line /\ Unused(l)
    /\ serving[k].line # <<>> =>
         /\ conn[serving[k].line].peer = k
         /\ kernel[k].pc # "answer" => Unused(serving[k].line)
         /\ ReplyOf(serving[k].answer, serving[k].line[1])

\* The call of the line is yet to be made, or to be connected.
Fresh(l) ==
    \/ l[2] > client[l[1]].call
    \/ l[2] = client[l[1]].call /\ client[l[1]].pc = "connect"

LineWellFormed(l) ==
    /\ RequestOf(conn[l].up, l[1]) /\ ReplyOf(conn[l].down, l[1])
    /\ Fresh(l) => conn[l].peer = NoKernel /\ Unused(l)

ClientWellFormed(c) ==
    /\ client[c].held \subseteq client[c].known
    /\ RequestOf(client[c].command, c)
    /\ client[c].pc # "idle" => client[c].call >= 1
    /\ \A w \in client[c].known : store[w].by # <<>> /\ store[w].by[1] = c

StoreWellFormed ==
    /\ \A w \in Works : store[w].state = "absent" <=> store[w].by = <<>>
    /\ \A v, w \in Works : store[v].by # <<>> /\ store[v].by = store[w].by => v = w

SessionInv ==
    /\ SessionTypeOK
    /\ \A k \in Kernels : ServingWellFormed(k)
    /\ \A l \in Lines : LineWellFormed(l)
    /\ \A c \in Clients : ClientWellFormed(c)
    /\ StoreWellFormed
    /\ ConsumedBeforeDiscard

\* Clients run as LocalKernelClient does, which never waits before it sends; a
\* Kernel that drains ends its attempts (StopCompletes of KernelProperties).
ClientsRun == \A c \in Clients : WF_vars(ClientStep(c))
DrainsEnd == \A k \in Kernels : WF_vars(Living(k) /\ At(k, "drain"))

(***************************************************************************)
(* If no client stays connected in silence and a Kernel that stops gets to *)
(* close its socket, every call returns, with an answer or an error,       *)
(* whatever the other clients do and whether the Kernel serves, refuses,   *)
(* stops or dies.                                                          *)
(***************************************************************************)
CallEnds ==
    ClientsRun /\ DrainsEnd =>
        \A c \in Clients : client[c].pc # "idle" ~> client[c].pc = "idle"

\* serve_connection is in read_frame, and the client it reads from is connected
\* and has sent nothing for it.
AwaitsClient(k) ==
    \/ At(k, "hello") /\ Line(k).open /\ Line(k).up.type = "none"
    \/ At(k, "command") /\ Line(k).open /\ Line(k).up.type \notin Commands

=============================================================================
