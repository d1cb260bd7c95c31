------------------------------- MODULE WebRunner -------------------------------
(***************************************************************************)
(* GstWebRunner (gst-libs/gst/web/gstwebrunner.c): the object that owns a  *)
(* thread with a GMainContext and runs other threads' callbacks on it.     *)
(* Browser objects (VideoDecoder, VideoFrame, OffscreenCanvas, WebGL       *)
(* contexts) can be touched only on the thread that created them, so every *)
(* element of the plugin reaches them through a runner.                    *)
(*                                                                         *)
(* The clients are the threads that hold a reference: each calls run(),    *)
(* sends messages, and drops its reference; the last one finalizes the     *)
(* runner. The thread that the run() of client c created, if it created    *)
(* one, is "worker c".                                                     *)
(*                                                                         *)
(* g_main_context_invoke (GLib) appends a source to the context unless the *)
(* caller owns it, in which case the callback runs in place. Clients never *)
(* own the context; a callback that sends to its own runner runs inline    *)
(* and changes nothing below.                                              *)
(***************************************************************************)
EXTENDS Naturals, Sequences

CONSTANTS Clients,          \* threads that hold a reference to the runner
          None,             \* no thread
          MaxSends          \* bound: messages each client sends

ASSUME RunnerAssumption ==
    /\ None \notin Clients
    /\ MaxSends \in Nat

VARIABLES createLock,   \* the worker that holds create_lock, or None
          created,      \* priv->created
          alive,        \* priv->alive
          loopRunning,  \* the is_running flag of the GMainLoop
          owner,        \* the worker that owns the GMainContext, or None
          queue,        \* sources attached to the context
          batch,        \* sources the current iteration still has to dispatch
          worker,       \* where each worker thread is in run_thread
          client,       \* where each client is in the calls it makes
          refs,         \* clients that hold a reference
          sent,         \* how many messages each client sent
          fired,        \* sync messages whose "fired" flag is set
          posted,       \* history: the messages in the order of their posting
          executed,     \* history: the messages whose callback has run
          overlapped    \* history: did a run() start during another one?

lockVars   == <<createLock, created, alive>>
loopVars   == <<loopRunning, owner>>
msgVars    == <<queue, batch, fired, posted, executed>>
clientVars == <<client, refs, sent, overlapped>>
vars == <<createLock, created, alive, loopRunning, owner, queue, batch, worker,
          client, refs, sent, overlapped, fired, posted, executed>>

\* The three callbacks a source may carry: _unlock_create_thread, an
\* asynchronous message, a synchronous one.
Message == [from : Clients, kind : {"unlock", "async", "sync"}, n : 0..MaxSends]

\* Mutant: the message is posted without the runner it is for.
UnlockNobody(w) == [from |-> None, kind |-> "unlock", n |-> 0]

Unlock(w) == [from |-> w, kind |-> "unlock", n |-> 0]

\* Clients asleep in a condition variable, by the state they sleep in.
Asleep(state) == {c \in Clients : client[c] = state}

\* g_cond_signal: one sleeper, if there is one, moves on to re-check.
Signal(sleeping, woken) ==
    IF Asleep(sleeping) = {}
    THEN UNCHANGED client
    ELSE \E c \in Asleep(sleeping) : client' = [client EXCEPT ![c] = woken]

\* g_cond_broadcast: every sleeper moves on to re-check.
Broadcast(sleeping, woken) ==
    client' = [c \in Clients |->
                  IF client[c] = sleeping THEN woken ELSE client[c]]

Init ==
    /\ createLock = None
    /\ created = FALSE
    /\ alive = FALSE
    /\ loopRunning = FALSE
    /\ owner = None
    /\ queue = <<>>
    /\ batch = <<>>
    /\ worker = [w \in Clients |-> "none"]
    /\ client = [c \in Clients |-> "attached"]
    /\ refs = Clients
    /\ sent = [c \in Clients |-> 0]
    /\ fired = {}
    /\ posted = <<>>
    /\ executed = <<>>
    /\ overlapped = FALSE

--------------------------------------------------------------------------------
(* run(): called by every element that shares the runner, from its start *)

\* gst_web_runner_run up to its return or its wait. create_lock is held only
\* inside the step: both ends release it. The documentation of run() says it
\* "should only be called once"; every element that shares the runner calls
\* it, and nothing but the order of their state changes keeps the calls apart.
Run(c) ==
    /\ client[c] = "attached"
    /\ createLock = None
    /\ IF created
       THEN /\ client' = [client EXCEPT ![c] = "ready"]
            /\ UNCHANGED worker
       ELSE /\ worker' = [worker EXCEPT ![c] = "start"]
            /\ client' = [client EXCEPT ![c] = "run_wait"]
    /\ overlapped' = (overlapped \/ Asleep("run_wait") \cup Asleep("run_woken") # {})
    /\ UNCHANGED <<lockVars, loopVars, msgVars, refs, sent>>

\* The wait on create_cond returned: the loop re-checks priv->created.
RunRecheck(c) ==
    /\ client[c] = "run_woken"
    /\ createLock = None
    /\ client' = [client EXCEPT ![c] = IF created THEN "ready" ELSE "run_wait"]
    /\ UNCHANGED <<lockVars, loopVars, msgVars, worker, refs, sent, overlapped>>

--------------------------------------------------------------------------------
(* The worker thread *)

\* run_thread takes create_lock and keeps it: the lock is released by the
\* message posted here, from inside the running loop.
WorkerStart(w) ==
    /\ worker[w] = "start"
    /\ createLock = None
    /\ createLock' = w
    /\ alive' = TRUE
    /\ queue' = Append(queue, Unlock(w))
    /\ posted' = Append(posted, Unlock(w))
    /\ worker' = [worker EXCEPT ![w] = "enter"]
    /\ UNCHANGED <<created, loopVars, batch, fired, executed, clientVars>>

\* g_main_loop_run raises is_running; it gets the context, or waits for it.
EnterLoop(w) ==
    /\ worker[w] = "enter"
    /\ loopRunning' = TRUE
    /\ IF owner = None
       THEN /\ owner' = w
            /\ worker' = [worker EXCEPT ![w] = "loop"]
       ELSE /\ worker' = [worker EXCEPT ![w] = "context_wait"]
            /\ UNCHANGED owner
    /\ UNCHANGED <<lockVars, msgVars, clientVars>>

\* A second worker gets the context, or finds that the loop was told to quit.
AwaitContext(w) ==
    /\ worker[w] = "context_wait"
    /\ \/ /\ ~loopRunning
          /\ worker' = [worker EXCEPT ![w] = "exited"]
          /\ UNCHANGED owner
       \/ /\ loopRunning
          /\ owner = None
          /\ owner' = w
          /\ worker' = [worker EXCEPT ![w] = "loop"]
    /\ UNCHANGED <<lockVars, loopRunning, msgVars, clientVars>>

\* One iteration collects every source that is ready.
Iterate(w) ==
    /\ worker[w] = "loop"
    /\ loopRunning
    /\ batch = <<>>
    /\ queue # <<>>
    /\ batch' = queue
    /\ queue' = <<>>
    /\ UNCHANGED <<lockVars, loopVars, worker, clientVars, fired, posted, executed>>

\* _unlock_create_thread
RunUnlock ==
    /\ created' = TRUE
    /\ createLock' = None
    /\ Signal("run_wait", "run_woken")
    /\ UNCHANGED <<alive, fired>>

\* Mutant: g_cond_signal, although senders share sync_message_cond.
RunSyncSignal(m) ==
    /\ fired' = fired \cup {m}
    /\ Signal("sync_wait", "sync_check")
    /\ UNCHANGED lockVars

\* _run_message_sync: the callback, then fired and a broadcast
RunSync(m) ==
    /\ fired' = fired \cup {m}
    /\ Broadcast("sync_wait", "sync_check")
    /\ UNCHANGED lockVars

\* _run_message_async: the callback and destroy
RunAsync ==
    UNCHANGED <<lockVars, fired, client>>

\* The loop dispatches the next source of the iteration, quit or not.
Dispatch(w) ==
    /\ worker[w] = "loop"
    /\ batch # <<>>
    /\ LET m == Head(batch)
       IN  /\ executed' = Append(executed, m)
           /\ \/ m.kind = "unlock" /\ RunUnlock
              \/ m.kind = "sync" /\ RunSync(m)
              \/ m.kind = "async" /\ RunAsync
    /\ batch' = Tail(batch)
    /\ UNCHANGED <<loopVars, queue, worker, refs, sent, overlapped, posted>>

\* g_main_loop_run returns: is_running is read between two iterations.
LeaveLoop(w) ==
    /\ worker[w] = "loop"
    /\ ~loopRunning
    /\ batch = <<>>
    /\ owner' = None
    /\ worker' = [worker EXCEPT ![w] = "exited"]
    /\ UNCHANGED <<lockVars, loopRunning, msgVars, clientVars>>

\* The end of run_thread.
WorkerExit(w) ==
    /\ worker[w] = "exited"
    /\ createLock = None
    /\ alive' = FALSE
    /\ created' = FALSE
    /\ Signal("fin_wait", "fin_woken")
    /\ worker' = [worker EXCEPT ![w] = "done"]
    /\ UNCHANGED <<createLock, loopVars, msgVars, refs, sent, overlapped>>

--------------------------------------------------------------------------------
(* Messages *)

\* Mutant: the source goes in front of those attached before it.
InvokeFirst(m) ==
    /\ queue' = <<m>> \o queue
    /\ posted' = Append(posted, m)

\* g_main_context_invoke from a thread that does not own the context
Invoke(m) ==
    /\ queue' = Append(queue, m)
    /\ posted' = Append(posted, m)

\* gst_web_runner_default_send_message_async
SendAsync(c) ==
    /\ client[c] = "ready"
    /\ sent[c] < MaxSends
    /\ sent' = [sent EXCEPT ![c] = @ + 1]
    /\ Invoke([from |-> c, kind |-> "async", n |-> sent[c] + 1])
    /\ UNCHANGED <<lockVars, loopVars, worker, batch, fired, executed, client, refs, overlapped>>

\* gst_web_runner_default_send_message: the message is posted first, and
\* sync_message_lock is taken only then, so it may run before the check.
SendSync(c) ==
    /\ client[c] = "ready"
    /\ sent[c] < MaxSends
    /\ sent' = [sent EXCEPT ![c] = @ + 1]
    /\ client' = [client EXCEPT ![c] = "sync_check"]
    /\ Invoke([from |-> c, kind |-> "sync", n |-> sent[c] + 1])
    /\ UNCHANGED <<lockVars, loopVars, worker, batch, fired, executed, refs, overlapped>>

\* The message this client waits for.
Awaited(c) == [from |-> c, kind |-> "sync", n |-> sent[c]]

\* Mutant: one "fired" flag in the runner for the messages of everyone.
SyncCheckShared(c) ==
    /\ client[c] = "sync_check"
    /\ client' = [client EXCEPT ![c] = IF fired # {} THEN "ready" ELSE "sync_wait"]
    /\ UNCHANGED <<lockVars, loopVars, msgVars, worker, refs, sent, overlapped>>

\* "while (!message.fired) g_cond_wait": one test, under sync_message_lock
SyncCheck(c) ==
    /\ client[c] = "sync_check"
    /\ client' = [client EXCEPT ![c] =
                     IF Awaited(c) \in fired THEN "ready" ELSE "sync_wait"]
    /\ UNCHANGED <<lockVars, loopVars, msgVars, worker, refs, sent, overlapped>>

--------------------------------------------------------------------------------
(* The end of the runner *)

\* gst_object_unref: the last reference finalizes. A client that never ran
\* the runner may drop its reference too.
Unref(c) ==
    /\ client[c] \in {"attached", "ready"}
    /\ refs' = refs \ {c}
    /\ client' = [client EXCEPT ![c] = IF refs = {c} THEN "finalize" ELSE "gone"]
    /\ UNCHANGED <<lockVars, loopVars, msgVars, worker, sent, overlapped>>

\* Mutant: finalize quits the loop and does not wait.
FinalizeNoJoin(c) ==
    /\ client[c] = "finalize"
    /\ createLock = None
    /\ loopRunning' = (loopRunning /\ ~alive)
    /\ client' = [client EXCEPT ![c] = "freed"]
    /\ UNCHANGED <<lockVars, owner, msgVars, worker, refs, sent, overlapped>>

\* gst_web_runner_finalize: quit the loop and wait for the thread, if any.
Finalize(c) ==
    /\ client[c] = "finalize"
    /\ createLock = None
    /\ IF alive
       THEN /\ loopRunning' = FALSE
            /\ client' = [client EXCEPT ![c] = "fin_wait"]
       ELSE /\ client' = [client EXCEPT ![c] = "freed"]
            /\ UNCHANGED loopRunning
    /\ UNCHANGED <<lockVars, owner, msgVars, worker, refs, sent, overlapped>>

\* The wait on destroy_cond returned: the loop re-checks priv->alive.
FinalizeRecheck(c) ==
    /\ client[c] = "fin_woken"
    /\ createLock = None
    /\ client' = [client EXCEPT ![c] = IF alive THEN "fin_wait" ELSE "freed"]
    /\ UNCHANGED <<lockVars, loopVars, msgVars, worker, refs, sent, overlapped>>

--------------------------------------------------------------------------------
WorkerStep(w) ==
    \/ WorkerStart(w)
    \/ EnterLoop(w)
    \/ AwaitContext(w)
    \/ Iterate(w)
    \/ Dispatch(w)
    \/ LeaveLoop(w)
    \/ WorkerExit(w)

\* Steps that finish a call the client is in.
ClientStep(c) ==
    \/ RunRecheck(c)
    \/ SyncCheck(c)
    \/ Finalize(c)
    \/ FinalizeRecheck(c)

\* Steps that begin a call.
ClientCall(c) ==
    \/ Run(c)
    \/ SendAsync(c)
    \/ SendSync(c)
    \/ Unref(c)

Next ==
    \E c \in Clients : WorkerStep(c) \/ ClientStep(c) \/ ClientCall(c)

Spec == Init /\ [][Next]_vars

\* The OS schedules every thread; a client inside a call keeps going. Nothing
\* obliges a client to make another call.
Fairness ==
    \A c \in Clients : WF_vars(WorkerStep(c)) /\ WF_vars(ClientStep(c))

FairSpec == Spec /\ Fairness

--------------------------------------------------------------------------------
(* Correctness *)

\* Clients inside a call that waits for the worker.
Blocked(c) ==
    client[c] \in {"run_wait", "run_woken", "sync_check", "sync_wait",
                   "finalize", "fin_wait", "fin_woken"}

\* Type invariant.
TypeOK ==
    /\ createLock \in Clients \cup {None}
    /\ created \in BOOLEAN /\ alive \in BOOLEAN /\ loopRunning \in BOOLEAN
    /\ owner \in Clients \cup {None}
    /\ queue \in Seq(Message) /\ batch \in Seq(Message)
    /\ posted \in Seq(Message) /\ executed \in Seq(Message)
    /\ fired \subseteq Message
    /\ worker \in [Clients -> {"none", "start", "enter", "context_wait", "loop",
                               "exited", "done"}]
    /\ client \in [Clients -> {"attached", "run_wait", "run_woken", "ready",
                               "sync_check", "sync_wait", "finalize", "fin_wait",
                               "fin_woken", "freed", "gone"}]
    /\ refs \subseteq Clients
    /\ sent \in [Clients -> 0..MaxSends]
    /\ overlapped \in BOOLEAN

\* A thread that is back from gst_web_runner_send_message finds that every
\* message it sent that way has run (documentation at gstwebrunner.c:281).
SyncGuarantee ==
    \A c \in Clients : client[c] \notin {"sync_check", "sync_wait"} =>
        \A i \in 1..Len(posted) :
            posted[i].from = c /\ posted[i].kind = "sync" =>
                \E j \in 1..Len(executed) : executed[j] = posted[i]

\* The quit of finalize is never undone by a worker that enters its loop
\* after it: the hand-over of create_lock to the running loop is what
\* excludes it, as long as no two run() overlapped.
QuitNotLost ==
    ~overlapped /\ (\E c \in Clients : client[c] \in {"fin_wait", "fin_woken"})
        => ~loopRunning

\* A thread that is back from run() and still holds its reference can rely
\* on a loop that serves messages: nothing it posts is left behind.
RunServes ==
    ~overlapped /\ (\E c \in Clients :
                        client[c] \in {"ready", "sync_check", "sync_wait"})
        => created /\ alive /\ loopRunning /\ owner # None

\* finalize frees the locks only after the worker used them for the last time.
JoinBeforeFree ==
    (\E c \in Clients : client[c] = "freed") =>
        \A w \in Clients : worker[w] \in {"none", "done"}

SafeFree == ~overlapped => JoinBeforeFree

\* Every call that waits for the worker returns: no wake-up of create_cond,
\* sync_message_cond or destroy_cond is lost.
EveryCallReturns ==
    \A c \in Clients : Blocked(c) ~> ~Blocked(c) \/ overlapped

--------------------------------------------------------------------------------
(* The inductive invariant behind the safety properties *)

\* Messages move from the queue to the batch to the executed ones in the order
\* of their posting.
Fifo ==
    /\ Len(posted) = Len(executed) + Len(batch) + Len(queue)
    /\ \A i \in 1..Len(executed) : executed[i] = posted[i]
    /\ \A i \in 1..Len(batch) : batch[i] = posted[Len(executed) + i]
    /\ \A i \in 1..Len(queue) : queue[i] = posted[Len(executed) + Len(batch) + i]

\* A synchronous message is posted once, and numbered by its sender.
Distinct ==
    \A i \in 1..Len(posted) : posted[i].kind = "sync" =>
        /\ posted[i].n <= sent[posted[i].from]
        /\ \A j \in 1..Len(posted) : posted[j] = posted[i] => j = i

\* Only a message that has run is fired.
FiredRan ==
    \A m \in fired : m.kind = "sync" /\ \E i \in 1..Len(executed) : executed[i] = m

\* A synchronous message that has not run holds its sender in the call.
PendingHolds ==
    \A i \in 1..Len(posted) : posted[i].kind = "sync" =>
        \/ i <= Len(executed)
        \/ /\ client[posted[i].from] \in {"sync_check", "sync_wait"}
           /\ posted[i] = Awaited(posted[i].from)

MsgInv == Fifo /\ Distinct /\ FiredRan /\ PendingHolds

\* Who is in a call or may make one holds a reference; who finalizes is alone.
RefInv ==
    /\ \A c \in Clients :
           client[c] \in {"attached", "run_wait", "run_woken", "ready", "sync_check",
                         "sync_wait"} <=> c \in refs
    /\ \A c \in Clients :
           client[c] \in {"finalize", "fin_wait", "fin_woken", "freed"} => refs = {}

Active(w) == worker[w] \notin {"none", "done"}

\* What the flags, create_lock and the context are in each phase of the worker.
PhaseInv(w) ==
    /\ worker[w] = "start" =>
          /\ client[w] = "run_wait"
          /\ createLock = None /\ owner = None
          /\ ~created /\ ~alive /\ ~loopRunning
    /\ worker[w] = "enter" =>
          /\ client[w] = "run_wait"
          /\ createLock = w /\ owner = None
          /\ ~created /\ alive /\ ~loopRunning
    /\ worker[w] # "context_wait"
    /\ worker[w] = "loop" =>
          /\ owner = w /\ alive
          /\ loopRunning \/ refs = {}
          /\ created => createLock = None
          /\ ~created => createLock = w /\ loopRunning /\ client[w] = "run_wait"
    /\ worker[w] = "exited" =>
          /\ createLock = None /\ owner = None
          /\ created /\ alive /\ ~loopRunning
          /\ refs = {}

OneWorker == \A v, w \in Clients : Active(v) /\ Active(w) => v = w

\* Without a worker everything is as before the first run().
AtRest ==
    (\A w \in Clients : ~Active(w)) =>
        /\ createLock = None /\ owner = None
        /\ ~created /\ ~alive /\ ~loopRunning

InRun(c) == client[c] \in {"run_wait", "run_woken"}

OneRun == \A c, d \in Clients : InRun(c) /\ InRun(d) => c = d

\* What each client may rely on.
ClientInv(c) ==
    /\ client[c] = "run_wait" => ~created /\ worker[c] \in {"start", "enter", "loop"}
    /\ client[c] \in {"run_woken", "ready", "sync_check", "sync_wait"} =>
          created /\ loopRunning /\ \E w \in Clients : worker[w] = "loop"
    /\ client[c] \in {"fin_wait", "fin_woken"} => ~loopRunning
    /\ client[c] = "freed" => \A w \in Clients : ~Active(w)

\* All this holds as long as no two run() overlapped.
ThreadInv ==
    /\ OneWorker
    /\ \A w \in Clients : PhaseInv(w)
    /\ AtRest
    /\ OneRun
    /\ \A c \in Clients : ClientInv(c)

IInv ==
    /\ TypeOK
    /\ MsgInv
    /\ RefInv
    /\ ~overlapped => ThreadInv

--------------------------------------------------------------------------------
(* Refinement *)

\* The runner implements the executor: the callers are the clients, and the
\* hand-over of create_lock is a message like the others.
WaitsFor(c, m) == m.from = c /\ m.kind = "sync"

Promise == INSTANCE Executor WITH
    Callers <- Clients,
    Blocking <- WaitsFor,
    waiting <- Asleep("sync_check") \cup Asleep("sync_wait")

ImplementsExecutor == Promise!Spec

================================================================================
