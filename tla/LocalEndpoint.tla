--------------------------- MODULE LocalEndpoint ----------------------------
(***************************************************************************)
(* The local endpoint of kernel/src/local_ipc.cpp and the life of a Kernel *)
(* process around it: the constructor takes the lock file of the endpoint, *)
(* removes a stale socket, binds, listens, opens the store and recovers    *)
(* it; the destructor gives everything back in the opposite order.         *)
(* Several Kernels may be started at any time, and die at any step.  A     *)
(* process runs once; processes are numbered in the order they are         *)
(* started.                                                                *)
(*                                                                         *)
(* POSIX build: the lock is a flock on <endpoint>.lock, which the system   *)
(* drops when the process ends; the lock file itself stays.                *)
(***************************************************************************)
EXTENDS Integers, Sequences

CONSTANTS
    MaxKernels,   \* bound on Kernel processes
    Endpoints,
    DataDirs,
    EndpointOf,   \* EndpointOf[k]: --endpoint of k
    DataDirOf     \* DataDirOf[k]: --data-dir of k

Kernels == 1 .. MaxKernels
NoKernel == 0

\* A path that names no socket, or one whose process has closed it.
Absent == 0
Stale == -1

ASSUME EndpointAssumption ==
    /\ MaxKernels \in Nat
    /\ EndpointOf \in [Kernels -> Endpoints]
    /\ DataDirOf \in [Kernels -> DataDirs]

VARIABLES
    kernel,  \* kernel[k]: program counter; owned: endpoint_owned; stop: g_stop
    lock,    \* lock[e]: the process that holds the flock
    node     \* node[e]: the process whose socket the path names, Absent or Stale

endpointVars == <<kernel, lock, node>>

StartingPcs == {"locked", "cleared", "bound"}
RunningPcs == {"recover", "accept", "hello", "command", "answer", "drain"}
ClosingPcs == {"close", "remove", "unlock"}
KernelPcs == {"new", "down"} \cup StartingPcs \cup RunningPcs \cup ClosingPcs

New == [pc |-> "new", owned |-> FALSE, stop |-> FALSE]
Down == [New EXCEPT !.pc = "down"]

EndpointTypeOK ==
    /\ kernel \in [Kernels -> [pc : KernelPcs, owned : BOOLEAN, stop : BOOLEAN]]
    /\ lock \in [Endpoints -> Kernels \cup {NoKernel}]
    /\ node \in [Endpoints -> Kernels \cup {Absent, Stale}]

EndpointInit ==
    /\ kernel = [k \in Kernels |-> New]
    /\ lock = [e \in Endpoints |-> NoKernel]
    /\ node \in [Endpoints -> {Absent, Stale}]

At(k, pc) == kernel[k].pc = pc
Goto(k, pc) == kernel' = [kernel EXCEPT ![k].pc = pc]

\* The socket of k listens; its store is open, or about to be opened.
Listening(k) == kernel[k].pc \in RunningPcs

\* The path still names a socket its process has closed.
Orphaned(k) == [node EXCEPT ![EndpointOf[k]] = IF @ = k THEN Stale ELSE @]

\* Closing the lock file gives up the flock, if this process has it.
Released(k) == [lock EXCEPT ![EndpointOf[k]] = IF @ = k THEN NoKernel ELSE @]
-----------------------------------------------------------------------------
(* The constructor.  Each step may fail; what follows is cleanup. *)

Starts(k) == \A j \in Kernels : At(j, "new") <=> j >= k

TakeLock(k) ==
    /\ Starts(k) /\ lock[EndpointOf[k]] = NoKernel
    /\ lock' = [lock EXCEPT ![EndpointOf[k]] = k]
    /\ Goto(k, "locked")
    /\ UNCHANGED node

\* "Kernel endpoint lock is already held".  A Kernel that cannot open the lock
\* file touches nothing and is not a start.
LockHeld(k) ==
    /\ Starts(k) /\ lock[EndpointOf[k]] # NoKernel
    /\ Goto(k, "close")
    /\ UNCHANGED <<lock, node>>

\* fs::remove(endpoint, error) ignores its error, and bind fails then.
RemoveStale(k) ==
    /\ At(k, "locked")
    /\ node' \in {node, [node EXCEPT ![EndpointOf[k]] = Absent]}
    /\ Goto(k, "cleared")
    /\ UNCHANGED lock

Bind(k) ==
    /\ At(k, "cleared") /\ node[EndpointOf[k]] = Absent
    /\ node' = [node EXCEPT ![EndpointOf[k]] = k]
    /\ kernel' = [kernel EXCEPT ![k].pc = "bound", ![k].owned = TRUE]
    /\ UNCHANGED lock

BindFails(k) ==
    /\ At(k, "cleared") /\ node[EndpointOf[k]] # Absent
    /\ Goto(k, "close")
    /\ UNCHANGED <<lock, node>>

Listen(k) ==
    /\ At(k, "bound")
    /\ Goto(k, "recover")
    /\ UNCHANGED <<lock, node>>

\* The path is too long, or another system call fails.
StartFails(k) ==
    /\ kernel[k].pc \in StartingPcs
    /\ Goto(k, "close")
    /\ UNCHANGED <<lock, node>>

\* The store is opened and recover_interrupted has run.
Recovered(k) ==
    /\ At(k, "recover")
    /\ Goto(k, "accept")
    /\ UNCHANGED <<lock, node>>

RecoverFails(k) ==
    /\ At(k, "recover")
    /\ Goto(k, "close")
    /\ UNCHANGED <<lock, node>>
-----------------------------------------------------------------------------
(* The end: ~Kernel, then cleanup of the endpoint. *)

\* on_signal: SIGTERM or SIGINT; run() looks at g_stop between connections.  A
\* signal during start has the effect of one that comes when the start is over.
Signal(k) ==
    /\ Listening(k) /\ ~kernel[k].stop
    /\ kernel' = [kernel EXCEPT ![k].stop = TRUE]
    /\ UNCHANGED <<lock, node>>

\* Mutant of LeaveLoop: the lock is given up before the attempts have ended and
\* the store is closed.
LeaveLoopUnlocks(k) ==
    /\ At(k, "accept") /\ kernel[k].stop
    /\ lock' = Released(k)
    /\ Goto(k, "drain")
    /\ UNCHANGED node

LeaveLoop(k) ==
    /\ At(k, "accept") /\ kernel[k].stop
    /\ Goto(k, "drain")
    /\ UNCHANGED <<lock, node>>

\* accept_for throws: poll or accept4 failed.
AcceptFails(k) ==
    /\ At(k, "accept") /\ ~kernel[k].stop
    /\ Goto(k, "drain")
    /\ UNCHANGED <<lock, node>>

\* Scheduler, tasks, pool and store are gone; that the tasks end is the subject
\* of modules Kernel and WorkerPool.
Drained(k) ==
    /\ At(k, "drain")
    /\ Goto(k, "close")
    /\ UNCHANGED <<lock, node>>

CloseSocket(k) ==
    /\ At(k, "close")
    /\ node' = Orphaned(k)
    /\ Goto(k, "remove")
    /\ UNCHANGED lock

\* Mutant of RemoveOwned: whoever cleans up removes the socket.
RemoveAlways(k) ==
    /\ At(k, "remove")
    /\ node' = [node EXCEPT ![EndpointOf[k]] = Absent]
    /\ kernel' = [kernel EXCEPT ![k].pc = "unlock", ![k].owned = FALSE]
    /\ UNCHANGED lock

RemoveOwned(k) ==
    /\ At(k, "remove")
    /\ IF kernel[k].owned
       THEN node' \in {node, [node EXCEPT ![EndpointOf[k]] = Absent]}
       ELSE UNCHANGED node
    /\ kernel' = [kernel EXCEPT ![k].pc = "unlock", ![k].owned = FALSE]
    /\ UNCHANGED lock

Unlock(k) ==
    /\ At(k, "unlock")
    /\ lock' = Released(k)
    /\ kernel' = [kernel EXCEPT ![k] = Down]
    /\ UNCHANGED node

Crash(k) ==
    /\ kernel[k].pc \notin {"new", "down"}
    /\ lock' = Released(k)
    /\ node' = Orphaned(k)
    /\ kernel' = [kernel EXCEPT ![k] = Down]

\* What a process does once it was started, and what may happen to it.
LifeStep(k) ==
    \/ RemoveStale(k) \/ Bind(k) \/ BindFails(k) \/ Listen(k) \/ Recovered(k)
    \/ LeaveLoop(k) \/ Drained(k) \/ CloseSocket(k) \/ RemoveOwned(k) \/ Unlock(k)

FaultStep(k) == StartFails(k) \/ RecoverFails(k) \/ AcceptFails(k) \/ Crash(k)
-----------------------------------------------------------------------------
(***************************************************************************)
(* Of the Kernels given one data directory and one endpoint, at most one   *)
(* has the store open: a second one fails on the endpoint lock before it   *)
(* opens and recovers the store, and a Kernel that ends keeps the lock     *)
(* until its store is closed.  (local_ipc.cpp: Impl and cleanup; main.cpp: *)
(* the order of the members)  The lock is all that keeps Kernels apart: on *)
(* POSIX the endpoint is not derived from the directory, and two Kernels   *)
(* with one directory and two endpoints do open one store.                 *)
(***************************************************************************)
SameStart(j, k) == DataDirOf[j] = DataDirOf[k] /\ EndpointOf[j] = EndpointOf[k]

StoreExclusive ==
    \A j, k \in Kernels : j # k /\ SameStart(j, k) => ~(Listening(j) /\ Listening(k))

(***************************************************************************)
(* A Kernel that listens is the one the endpoint path leads to: no start   *)
(* or cleanup of another Kernel removes or replaces its socket.            *)
(***************************************************************************)
EndpointReachable ==
    \A k \in Kernels : Listening(k) => node[EndpointOf[k]] = k

(***************************************************************************)
(* The strengthening that makes both inductive: a Kernel has the lock from *)
(* before it touches the path until it no longer owns what the path names. *)
(***************************************************************************)
LockDiscipline ==
    \A k \in Kernels :
        kernel[k].pc \in StartingPcs \cup RunningPcs \/ kernel[k].owned =>
            lock[EndpointOf[k]] = k

SocketBound ==
    \A k \in Kernels :
        kernel[k].pc \in {"bound"} \cup RunningPcs => node[EndpointOf[k]] = k

EndpointInv == EndpointTypeOK /\ LockDiscipline /\ SocketBound
=============================================================================
