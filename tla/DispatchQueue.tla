---------------------------- MODULE DispatchQueue ----------------------------
(***************************************************************************)
(* The thread pool of the timing engine (util/DispatchQueue.cc) together   *)
(* with its one client, the thread that runs the Tcl commands: it either   *)
(* dispatches a batch of closures and waits for them (BfsIterator::        *)
(* visitParallel, PathGroups::makeGroupPathEnds), or changes the number of *)
(* threads (Sta::setThreadCount1), or destroys the pool (Sta::~Sta).       *)
(*                                                                         *)
(* q_ and quit_ are only read and written with lock_ held, so a critical   *)
(* section is one action and lock_ itself is not a variable.  notify_all   *)
(* is called after the unlock and is an action of its own.                 *)
(***************************************************************************)
EXTENDS Naturals, Sequences, FiniteSets

CONSTANTS
  Tasks,                (* the closures the client may dispatch            *)
  MaxThreads,           (* bound: the most threads a pool is given         *)
  MaxResizes            (* bound: calls of setThreadCount on this pool     *)

ASSUME ConstantsAssumption ==
  /\ IsFiniteSet(Tasks)
  /\ MaxThreads \in Nat \ {0}
  /\ MaxResizes \in Nat

(* Indices of threads_: thread i runs dispatch_thread_handler(i).          *)
Workers == 0 .. MaxThreads - 1

VARIABLES
  q,                    (* q_, the closures waiting for a thread           *)
  pending,              (* pending_task_count_                             *)
  quit,                 (* quit_                                           *)
  threadCount,          (* threads_.size()                                 *)
  wpc,                  (* where each thread stands in the handler loop    *)
  wtask,                (* "op", the closure a thread popped               *)
  mpc,                  (* where the client stands                         *)
  newCount,             (* argument of setThreadCount, 0 in the destructor *)
  resizes,              (* setThreadCount calls so far                     *)
  dispatched,           (* history: the closures dispatched                *)
  executed              (* history: the closures whose body has returned   *)

poolVars   == <<q, pending, quit, threadCount>>
workerVars == <<wpc, wtask>>
clientVars == <<mpc, newCount, resizes>>
history    == <<dispatched, executed>>
vars == <<poolVars, workerVars, clientVars, history>>

(***************************************************************************)
(* A thread is "none" (no such thread), at the top of the loop and about   *)
(* to take lock_ ("acquire"), asleep on cv_ ("waiting"), running a closure *)
(* with the lock released ("run"), past the closure and about to decrement *)
(* the counter ("ran"), or has returned ("exited").                        *)
(***************************************************************************)
WorkerPc == {"none", "acquire", "waiting", "run", "ran", "exited"}
ClientPc == {"idle", "notify", "batch", "quitNotify", "join", "destroyed"}
Busy == {"run", "ran"}

------------------------------------------------------------------------------
(* DispatchQueue::DispatchQueue: every thread starts in the handler.       *)
StartThreads(n) ==
  [w \in Workers |-> IF w < n THEN "acquire" ELSE "none"]

Init ==
  /\ q = <<>>
  /\ pending = 0
  /\ quit = FALSE
  /\ threadCount \in 1 .. MaxThreads
  /\ wpc = StartThreads(threadCount)
  /\ wtask = [w \in Workers |-> {}]
  /\ mpc = "idle"
  /\ newCount = 0
  /\ resizes = 0
  /\ dispatched = {}
  /\ executed = {}

------------------------------------------------------------------------------
(* Mistakes this code could contain; a run must notice each of them.       *)

(* dispatch() forgets to count the closure.                                *)
DispatchUncounted(t) ==
  /\ mpc \in {"idle", "batch"}
  /\ threadCount # 1
  /\ t \in Tasks \ dispatched
  /\ q' = Append(q, t)
  /\ dispatched' = dispatched \cup {t}
  /\ mpc' = "notify"
  /\ UNCHANGED <<pending, quit, threadCount, workerVars, newCount, resizes,
                 executed>>

(* dispatch() forgets cv_.notify_all().                                    *)
DispatchSilently ==
  /\ mpc = "notify"
  /\ mpc' = "batch"
  /\ UNCHANGED <<poolVars, workerVars, newCount, resizes, history>>

(* terminateThreads() forgets cv_.notify_all().                            *)
TerminateSilently ==
  /\ mpc = "quitNotify"
  /\ mpc' = "join"
  /\ UNCHANGED <<poolVars, workerVars, newCount, resizes, history>>

(* The handler counts a closure as done when it pops it.                   *)
PopDecrements(w) ==
  /\ wpc[w] = "acquire"
  /\ q # <<>>
  /\ ~quit
  /\ q' = Tail(q)
  /\ pending' = pending - 1
  /\ wtask' = [wtask EXCEPT ![w] = {Head(q)}]
  /\ wpc' = [wpc EXCEPT ![w] = "run"]
  /\ UNCHANGED <<quit, threadCount, clientVars, history>>

------------------------------------------------------------------------------
(* The client.                                                             *)

(* dispatch(op): push and count under the lock.  Neither caller dispatches *)
(* when it has a single thread: it does the work itself.                   *)
Dispatch(t) ==
  /\ mpc \in {"idle", "batch"}
  /\ threadCount # 1
  /\ t \in Tasks \ dispatched
  /\ q' = Append(q, t)
  /\ pending' = pending + 1
  /\ dispatched' = dispatched \cup {t}
  /\ mpc' = "notify"
  /\ UNCHANGED <<quit, threadCount, workerVars, newCount, resizes, executed>>

WakeAll ==
  [w \in Workers |-> IF wpc[w] = "waiting" THEN "acquire" ELSE wpc[w]]

(* dispatch(op): cv_.notify_all() after the unlock.                        *)
DispatchNotify ==
  /\ mpc = "notify"
  /\ wpc' = WakeAll
  /\ mpc' = "batch"
  /\ UNCHANGED <<poolVars, wtask, newCount, resizes, history>>

(* finishTasks(): the acquire load that reads zero ends the wait ...       *)
FinishTasks ==
  /\ mpc = "batch"
  /\ pending = 0
  /\ mpc' = "idle"
  /\ UNCHANGED <<poolVars, workerVars, newCount, resizes, history>>

(* ... and any other value makes it yield and load again.                  *)
Yield ==
  /\ mpc = "batch"
  /\ pending # 0
  /\ UNCHANGED vars

(* terminateThreads(): quit_ is set under the lock.  n is the argument of  *)
(* setThreadCount, or 0 for the destructor.                                *)
TerminateThreads(n) ==
  /\ mpc = "idle"
  /\ quit' = TRUE
  /\ newCount' = n
  /\ mpc' = "quitNotify"
  /\ UNCHANGED <<q, pending, threadCount, workerVars, history>>

SetThreadCount(n) ==
  /\ resizes < MaxResizes
  /\ resizes' = resizes + 1
  /\ TerminateThreads(n)

Destroy ==
  /\ TerminateThreads(0)
  /\ UNCHANGED resizes

TerminateNotify ==
  /\ mpc = "quitNotify"
  /\ wpc' = WakeAll
  /\ mpc' = "join"
  /\ UNCHANGED <<poolVars, wtask, newCount, resizes, history>>

AllJoined == \A w \in Workers : wpc[w] \in {"none", "exited"}

(* setThreadCount after the joins: resize threads_ and start new threads.  *)
(* quit_ keeps its value.                                                  *)
Respawn ==
  /\ mpc = "join"
  /\ newCount # 0
  /\ AllJoined
  /\ threadCount' = newCount
  /\ wpc' = StartThreads(newCount)
  /\ newCount' = 0
  /\ mpc' = "idle"
  /\ UNCHANGED <<q, pending, quit, wtask, resizes, history>>

Destroyed ==
  /\ mpc = "join"
  /\ newCount = 0
  /\ AllJoined
  /\ mpc' = "destroyed"
  /\ UNCHANGED <<poolVars, workerVars, newCount, resizes, history>>

(* The program has ended: the only state with nothing left to do.          *)
Ended ==
  /\ mpc = "destroyed"
  /\ UNCHANGED vars

------------------------------------------------------------------------------
(* dispatch_thread_handler(i).                                             *)

(* With the lock: nothing to do and no quit signal, so sleep on cv_.       *)
Wait(w) ==
  /\ wpc[w] = "acquire"
  /\ q = <<>>
  /\ ~quit
  /\ wpc' = [wpc EXCEPT ![w] = "waiting"]
  /\ UNCHANGED <<poolVars, wtask, clientVars, history>>

(* The standard lets a condition variable wake up for no reason.           *)
SpuriousWakeup(w) ==
  /\ wpc[w] = "waiting"
  /\ wpc' = [wpc EXCEPT ![w] = "acquire"]
  /\ UNCHANGED <<poolVars, wtask, clientVars, history>>

(* With the lock: pop the front closure, then unlock.                      *)
Pop(w) ==
  /\ wpc[w] = "acquire"
  /\ q # <<>>
  /\ ~quit
  /\ q' = Tail(q)
  /\ wtask' = [wtask EXCEPT ![w] = {Head(q)}]
  /\ wpc' = [wpc EXCEPT ![w] = "run"]
  /\ UNCHANGED <<pending, quit, threadCount, clientVars, history>>

(* With the lock: the quit signal ends the loop, whatever is in q_.        *)
Exit(w) ==
  /\ wpc[w] = "acquire"
  /\ quit
  /\ wpc' = [wpc EXCEPT ![w] = "exited"]
  /\ UNCHANGED <<poolVars, wtask, clientVars, history>>

(* op(i) returns.                                                          *)
Execute(w) ==
  /\ wpc[w] = "run"
  /\ wpc' = [wpc EXCEPT ![w] = "ran"]
  /\ executed' = executed \cup wtask[w]
  /\ UNCHANGED <<poolVars, wtask, clientVars, dispatched>>

(* pending_task_count_--, outside the lock, then back for the lock.        *)
Decrement(w) ==
  /\ wpc[w] = "ran"
  /\ pending' = pending - 1
  /\ wtask' = [wtask EXCEPT ![w] = {}]
  /\ wpc' = [wpc EXCEPT ![w] = "acquire"]
  /\ UNCHANGED <<q, quit, threadCount, clientVars, history>>

------------------------------------------------------------------------------
Worker(w) == Wait(w) \/ Pop(w) \/ Exit(w) \/ Execute(w) \/ Decrement(w)

Client ==
  \/ \E t \in Tasks : Dispatch(t)
  \/ DispatchNotify
  \/ FinishTasks
  \/ Yield
  \/ \E n \in 1 .. MaxThreads : SetThreadCount(n)
  \/ Destroy
  \/ TerminateNotify
  \/ Respawn
  \/ Destroyed
  \/ Ended

Next ==
  \/ Client
  \/ \E w \in Workers : Worker(w) \/ SpuriousWakeup(w)

Spec == Init /\ [][Next]_vars

(* The operating system runs every runnable thread, and the client goes on *)
(* once it is inside a call of the pool.  Nothing makes it start one.      *)
Fairness ==
  /\ \A w \in Workers : WF_vars(Worker(w))
  /\ WF_vars(DispatchNotify)
  /\ WF_vars(FinishTasks)
  /\ WF_vars(TerminateNotify)
  /\ WF_vars(Respawn)
  /\ WF_vars(Destroyed)

FairSpec == Spec /\ Fairness
------------------------------------------------------------------------------
(* Properties.                                                             *)

(* The state has its types; the counter is a natural number, it never      *)
(* wraps below zero as the size_t in the code would.                       *)
TypeOK ==
  /\ q \in Seq(Tasks)
  /\ pending \in Nat
  /\ quit \in BOOLEAN
  /\ threadCount \in 1 .. MaxThreads
  /\ wpc \in [Workers -> WorkerPc]
  /\ wtask \in [Workers -> SUBSET Tasks]
  /\ mpc \in ClientPc
  /\ newCount \in 0 .. MaxThreads
  /\ resizes \in 0 .. MaxResizes
  /\ dispatched \subseteq Tasks
  /\ executed \subseteq Tasks

Queued == {q[i] : i \in DOMAIN q}
BusyWorkers == {w \in Workers : wpc[w] \in Busy}
InHand == UNION {wtask[w] : w \in Workers}

(* pending_task_count_, which finishTasks polls without the lock, is the   *)
(* number of closures in q_ plus the number of threads between the pop and *)
(* the decrement.  If it could be zero earlier the wait would end early.   *)
PendingCounts == pending = Len(q) + Cardinality(BusyWorkers)

(* The barrier the engine relies on between two levels of a search and at  *)
(* the end of makeGroupPathEnds: once finishTasks has returned, and for as *)
(* long as the client does anything but wait, no closure is unfinished.    *)
BatchDone ==
  mpc \notin {"notify", "batch"} => executed = dispatched /\ BusyWorkers = {}

(* A batch that was dispatched is waited for and the wait ends: each pass  *)
(* of visitParallel and makeGroupPathEnds gets past finishTasks.           *)
BatchReturns == mpc = "batch" ~> mpc = "idle"

(* The same on a pool whose thread count was never changed.                *)
FirstBatchesReturn == mpc = "batch" /\ resizes = 0 ~> mpc = "idle"

(* terminateThreads joins every thread.                                    *)
TerminationEnds == mpc = "quitNotify" ~> mpc \in {"idle", "destroyed"}

(* The pool implements the abstract task pool.                             *)
Pool == INSTANCE TaskPool WITH
  submitted <- dispatched,
  open <- mpc \in {"notify", "batch"}

PoolSpec == Pool!Spec

------------------------------------------------------------------------------
(* The inductive invariant behind BatchDone and PoolSpec.                  *)

(* A thread holds a closure exactly from the pop to the decrement.         *)
HandsMatchPc ==
  \A w \in Workers :
    /\ wpc[w] \notin Busy => wtask[w] = {}
    /\ wpc[w] = "run" => \E t \in Tasks : wtask[w] = {t}
    /\ wpc[w] = "ran" => wtask[w] \subseteq executed

(* Every dispatched closure is executed, queued or in hand.                *)
Accounted == dispatched = executed \cup Queued \cup InHand

(* Outside a batch the counter is zero.                                    *)
Settled == mpc \notin {"notify", "batch"} => pending = 0

(* The pool's bookkeeping agrees with itself in every reachable state.     *)
PoolInv == TypeOK /\ PendingCounts /\ HandsMatchPc /\ Accounted /\ Settled
=============================================================================
