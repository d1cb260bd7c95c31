------------------------------- MODULE WebFetchSrc ------------------------------
(***************************************************************************)
(* GstWebFetchSrc (gst/web/gstwebfetchsrc.cpp), a bin whose runner fetches *)
(* the URI and owns the ReadableStream of the response, and in it the      *)
(* GstWebStreamReaderSrc (gst/web/stream/gstwebstreamreadersrc.cpp), which *)
(* requests the stream and reads from it in a worker of its own: the       *)
(* thread of a GstWebTask in a GstWebTaskPool (gst-libs/gst/web). That     *)
(* thread must be back in its main loop, task paused, for the stream to    *)
(* reach it; the stream then resumes the task from a third thread.         *)
(***************************************************************************)
EXTENDS WebTransferable, Functions

CONSTANT MaxStarts      \* bound: changes from READY to PAUSED

\* Each start makes a runner and a thread of a task pool.
Sessions == 1..MaxStarts
RunnerThread(s) == 2 * s - 1
TaskThread(s)   == 2 * s

ASSUME FetchAssumption ==
    /\ MaxStarts \in Nat \ {0}
    /\ Worker = 1..(2 * MaxStarts)

VARIABLES
    app,        \* where the application is in its state changes
    starts,     \* the number of the current session, or of the last one
    linked,     \* the pad was linked: there is a reader element
    alive,      \* the elements are not freed
    runner,     \* the runner thread of each session
    stream,     \* self->stream, by the session that fetched it; 0 is undefined
    owner,      \* self->owner_thread
    stalled,    \* the server sends nothing any more
    registered, \* registered of the reader element
    reader,     \* its reader: of which stream, in the worker of which session
    task,       \* the state of the GstTask of each session
    thread,     \* where the thread of the task pool is
    runs,       \* calls of gst_web_task_pool_run on the way to that thread
    resumes,    \* calls of resume_streaming_thread that gst_element_call_async made
    stale,      \* history: the session began with registered set
    freedUse    \* history: on_stream was called for a freed element

binVars    == <<app, starts, linked, alive>>
ownerVars  == <<runner, stream, owner, stalled>>
readerVars == <<registered, reader>>
taskVars   == <<task, thread, runs, resumes>>
history    == <<stale, freedUse>>
vars == <<transferVars, binVars, ownerVars, readerVars, taskVars, history>>

Undefined == [stream |-> 0, home |-> 0]

Init ==
    /\ TransferInit
    /\ app = "ready" /\ starts = 0 /\ linked = FALSE /\ alive = TRUE
    /\ runner = [s \in Sessions |-> "none"]
    /\ stream = 0 /\ owner = 0 /\ stalled = FALSE
    /\ registered = FALSE /\ reader = Undefined
    /\ task = [s \in Sessions |-> "none"]
    /\ thread = [s \in Sessions |-> "none"]
    /\ runs = [s \in Sessions |-> 0]
    /\ resumes = 0
    /\ stale = FALSE /\ freedUse = FALSE

--------------------------------------------------------------------------------
(* Application: state changes, and the link of the pad *)

\* start: a runner, and a synchronous message to it
Start ==
    /\ app = "ready" /\ starts < MaxStarts
    /\ starts' = starts + 1
    /\ runner' = [runner EXCEPT ![starts + 1] = "fetching"]
    /\ app' = "starting"
    /\ stale' = registered
    /\ UNCHANGED <<transferVars, linked, alive, stream, owner, stalled, readerVars,
                   taskVars, freedUse>>

\* The reader element is activated: handle_message makes the task a GstWebTask,
\* whose pool starts a thread and waits for it.
ActivateReader ==
    /\ task' = [task EXCEPT ![starts] = "started"]
    /\ thread' = [thread EXCEPT ![starts] = "starting"]
    /\ app' = "pushing"

\* READY to PAUSED goes on once create_stream is done; the children follow.
Activate ==
    /\ app = "starting" /\ runner[starts] = "idle"
    /\ IF linked THEN ActivateReader ELSE app' = "paused" /\ UNCHANGED <<task, thread>>
    /\ UNCHANGED <<transferVars, starts, linked, alive, ownerVars, readerVars, runs,
                   resumes, history>>

\* stream_linked_cb: the reader element is added, and follows the state of the bin.
Link ==
    /\ app \in {"ready", "paused"} /\ ~linked
    /\ linked' = TRUE
    /\ IF app = "paused" THEN ActivateReader ELSE UNCHANGED <<app, task, thread>>
    /\ UNCHANGED <<transferVars, starts, alive, ownerVars, readerVars, runs, resumes,
                   history>>

\* gst_web_task_pool_push after its wait: the first call of the task function
TaskPoolPush ==
    /\ app = "pushing" /\ thread[starts] # "starting"
    /\ runs' = [runs EXCEPT ![starts] = @ + 1]
    /\ app' = "paused"
    /\ UNCHANGED <<transferVars, starts, linked, alive, ownerVars, readerVars, task,
                   thread, resumes, history>>

\* PAUSED to READY begins: the pad of the reader refuses data.
Stop ==
    /\ app = "paused"
    /\ app' = "stopping"
    /\ UNCHANGED <<transferVars, starts, linked, alive, ownerVars, readerVars, taskVars,
                   history>>

\* The pad is deactivated and its task stopped, wherever its thread is.
Deactivate ==
    /\ app = "stopping"
    /\ task' = [task EXCEPT ![starts] = IF @ = "none" THEN @ ELSE "stopped"]
    /\ app' = "joining"
    /\ UNCHANGED <<transferVars, starts, linked, alive, ownerVars, readerVars, thread,
                   runs, resumes, history>>

\* The stream lock of the pad, which the task holds while it runs. The join of
\* GstWebTaskPool does nothing: the thread stays in its main loop, and a call on
\* the way to it may come later.
Join ==
    /\ app = "joining"
    /\ thread[starts] \in {"none", "idle"}
    /\ app' = "destroying"
    /\ UNCHANGED <<transferVars, starts, linked, alive, ownerVars, readerVars, taskVars,
                   history>>

\* stop, after destroy_stream: the runner is finalized with its last reference,
\* and its thread ends with what was dispatched to it.
UnrefRunner ==
    /\ app = "destroyed"
    /\ runner' = [runner EXCEPT ![starts] = "ended"]
    /\ app' = "ready"
    /\ UNCHANGED <<transferVars, starts, linked, alive, stream, owner, stalled,
                   readerVars, taskVars, history>>

\* The application frees the pipeline; a pending call_async keeps the reader.
Finalize ==
    /\ app = "ready" /\ starts > 0 /\ resumes = 0
    /\ alive' = FALSE
    /\ app' = "gone"
    /\ UNCHANGED <<transferVars, starts, linked, ownerVars, readerVars, taskVars,
                   history>>

--------------------------------------------------------------------------------
(* Runner thread: the owner of the stream *)

\* create_stream: the response arrives, and messages are registered.
CreateStream(s) ==
    /\ runner[s] = "fetching"
    /\ stream' = s
    /\ RegisterOnMessage(RunnerThread(s))
    /\ owner' = RunnerThread(s)
    /\ runner' = [runner EXCEPT ![s] = "idle"]
    /\ UNCHANGED <<binVars, stalled, readerVars, taskVars, history>>

\* fetch() is rejected: the await in create_stream does not come back.
FetchRejected(s) ==
    /\ runner[s] = "fetching"
    /\ runner' = [runner EXCEPT ![s] = "failed"]
    /\ UNCHANGED <<transferVars, binVars, stream, owner, stalled, readerVars, taskVars,
                   history>>

\* do_transfer and transfer, when the runner yields
Transfer(s) ==
    /\ runner[s] = "idle"
    /\ TransferObject(RunnerThread(s), stream)
    /\ UNCHANGED <<binVars, ownerVars, readerVars, taskVars, history>>

\* destroy_stream, by a synchronous message
DestroyStream(s) ==
    /\ app = "destroying" /\ s = starts /\ runner[s] = "idle"
    /\ UnregisterOnMessage(RunnerThread(s), owner)
    /\ app' = "destroyed"
    /\ UNCHANGED <<starts, linked, alive, ownerVars, readerVars, taskVars, history>>

--------------------------------------------------------------------------------
(* The thread of the task pool *)

CreateStates == {"request", "requested", "await"}

At(s, from, to) == thread[s] = from /\ thread' = [thread EXCEPT ![s] = to]

\* The thread tells the pool that it is there, and runs its main loop.
ThreadReady(s) ==
    /\ At(s, "starting", "idle")
    /\ UNCHANGED <<transferVars, binVars, ownerVars, readerVars, task, runs, resumes,
                   history>>

\* gst_web_task_pool_run, up to the loop of gst_web_task_execute
TaskPoolRun(s) ==
    /\ thread[s] = "idle" /\ runs[s] > 0
    /\ runs' = [runs EXCEPT ![s] = @ - 1]
    /\ thread' = [thread EXCEPT ![s] = "execute"]
    /\ UNCHANGED <<transferVars, binVars, ownerVars, readerVars, task, resumes, history>>

\* Mutant: only a pause ends the loop.
PauseEnds(s) ==
    /\ At(s, "execute", "idle")
    /\ task[s] = "paused"
    /\ UNCHANGED <<transferVars, binVars, ownerVars, readerVars, task, runs, resumes,
                   history>>

\* The loop ends when the task is not started.
ExecuteEnds(s) ==
    /\ At(s, "execute", "idle")
    /\ task[s] # "started"
    /\ UNCHANGED <<transferVars, binVars, ownerVars, readerVars, task, runs, resumes,
                   history>>

\* create, the first time: register, and request the stream.
CreateRegister(s) ==
    /\ At(s, "execute", "request")
    /\ task[s] = "started" /\ ~registered
    /\ RegisterOnMessage(TaskThread(s))
    /\ UNCHANGED <<binVars, ownerVars, readerVars, task, runs, resumes, history>>

\* Mutant: registered is not set.
RequestAgain(s) ==
    /\ At(s, "request", "requested")
    /\ HandleRequestObject(owner, TaskThread(s))
    /\ UNCHANGED <<binVars, ownerVars, readerVars, task, runs, resumes, history>>

\* The reader has no object of its own, so its message goes to the bin, which
\* handles it in this thread and dispatches it to the owner.
CreateRequest(s) ==
    /\ At(s, "request", "requested")
    /\ HandleRequestObject(owner, TaskThread(s))
    /\ registered' = TRUE
    /\ UNCHANGED <<binVars, ownerVars, reader, task, runs, resumes, history>>

\* Mutant: create returns GST_FLOW_OK and is called again.
NoPause(s) ==
    /\ At(s, "requested", "execute")
    /\ UNCHANGED <<transferVars, binVars, ownerVars, readerVars, task, runs, resumes,
                   history>>

\* GST_FLOW_CUSTOM_SUCCESS and GST_FLOW_EOS make the base class pause the task.
PauseTask(s) == task' = [task EXCEPT ![s] = IF @ = "started" THEN "paused" ELSE @]

CreatePause(s) ==
    /\ At(s, "requested", "execute")
    /\ PauseTask(s)
    /\ UNCHANGED <<transferVars, binVars, ownerVars, readerVars, runs, resumes, history>>

\* create, from then on: read from whatever reader there is, and await.
CreateRead(s) ==
    /\ At(s, "execute", "await")
    /\ task[s] = "started" /\ registered
    /\ UNCHANGED <<transferVars, binVars, ownerVars, readerVars, task, runs, resumes,
                   history>>

\* A reader is of use only in the worker it was made in. A pad that is flushing
\* refuses the chunk, and the task pauses.
Readable(s) == thread[s] = "await" /\ reader.home = s /\ ~stalled

ReadChunk(s) ==
    /\ Readable(s)
    /\ At(s, "await", "execute")
    /\ IF app = "stopping" THEN PauseTask(s) ELSE UNCHANGED task
    /\ UNCHANGED <<transferVars, binVars, ownerVars, readerVars, runs, resumes, history>>

ReadDone(s) ==
    /\ Readable(s)
    /\ At(s, "await", "execute")
    /\ PauseTask(s)
    /\ UNCHANGED <<transferVars, binVars, ownerVars, readerVars, runs, resumes, history>>

\* Mutant: events are handled inside create as well.
YieldsInCreate(s) == thread[s] \in {"idle", "await", "requested"}

\* The thread yields to its event loop in its main loop and in an await.
Yields(s) == thread[s] \in {"idle", "await"}

\* on_stream, if the handler is registered: the reader is made here, and another
\* thread is asked to resume the task. user_data is a plain pointer.
OnStream(s) ==
    /\ Yields(s)
    /\ ObjectEvent(TaskThread(s))
    /\ IF TaskThread(s) \in listening /\ alive
       THEN /\ reader' = [stream |-> Head(toWorker[TaskThread(s)]), home |-> s]
            /\ resumes' = resumes + 1
       ELSE UNCHANGED <<reader, resumes>>
    /\ freedUse' = (freedUse \/ (TaskThread(s) \in listening /\ ~alive))
    /\ UNCHANGED <<binVars, ownerVars, registered, task, thread, runs, stale>>

--------------------------------------------------------------------------------
(* The thread pool of gst_element_call_async, the main thread, the network *)

\* Mutant: resumed whatever its state.
ResumeAlways ==
    /\ resumes > 0
    /\ resumes' = resumes - 1
    /\ IF task[starts] \in {"started", "paused"}
       THEN /\ task' = [task EXCEPT ![starts] = "started"]
            /\ runs' = [runs EXCEPT ![starts] = @ + 1]
       ELSE UNCHANGED <<task, runs>>
    /\ UNCHANGED <<transferVars, binVars, ownerVars, readerVars, thread, history>>

\* resume_streaming_thread, and gst_web_task_set_state: from paused to started,
\* the task function is called again.
Resume ==
    /\ resumes > 0
    /\ resumes' = resumes - 1
    /\ IF task[starts] = "paused"
       THEN /\ task' = [task EXCEPT ![starts] = "started"]
            /\ runs' = [runs EXCEPT ![starts] = @ + 1]
       ELSE UNCHANGED <<task, runs>>
    /\ UNCHANGED <<transferVars, binVars, ownerVars, readerVars, thread, history>>

Relay(w) ==
    /\ RelayObject(w)
    /\ UNCHANGED <<binVars, ownerVars, readerVars, taskVars, history>>

Stall ==
    /\ ~stalled
    /\ stalled' = TRUE
    /\ UNCHANGED <<transferVars, binVars, runner, stream, owner, readerVars, taskVars,
                   history>>

--------------------------------------------------------------------------------
AppStep ==
    \/ Activate
    \/ TaskPoolPush
    \/ Deactivate
    \/ Join
    \/ UnrefRunner

RunnerStep(s) ==
    \/ CreateStream(s)
    \/ FetchRejected(s)
    \/ DestroyStream(s)

ThreadStep(s) ==
    \/ ThreadReady(s)
    \/ TaskPoolRun(s)
    \/ ExecuteEnds(s)
    \/ CreateRegister(s)
    \/ CreateRequest(s)
    \/ CreatePause(s)
    \/ CreateRead(s)
    \/ ReadChunk(s)
    \/ ReadDone(s)

Next ==
    \/ Start
    \/ Link
    \/ Stop
    \/ Finalize
    \/ AppStep
    \/ \E s \in Sessions : RunnerStep(s) \/ Transfer(s) \/ ThreadStep(s) \/ OnStream(s)
    \/ Resume
    \/ \E w \in Worker : Relay(w)
    \/ Stall

Spec == Init /\ [][Next]_vars

\* Every thread goes on with a call it is in, and handles its events while it
\* yields; fetch() is settled, and a server that does not stall sends something
\* or closes. No state change, link, stall or end of the stream needs to come.
Fairness ==
    /\ WF_vars(AppStep)
    /\ WF_vars(Resume)
    /\ \A w \in Worker : WF_vars(Relay(w))
    /\ \A s \in Sessions :
        /\ WF_vars(RunnerStep(s))
        /\ WF_vars(Transfer(s))
        /\ WF_vars(ThreadStep(s))
        /\ WF_vars(OnStream(s))

FairSpec == Spec /\ Fairness

--------------------------------------------------------------------------------
(* Correctness *)

\* Type invariant; no object that is transferred is undefined.
TypeOK ==
    /\ listening \subseteq Worker /\ relayed \subseteq Worker
    /\ dispatched \in [Worker -> Seq([tid : Worker])]
    /\ toMain \in [Worker -> Seq([tid : Worker, object : Sessions])]
    /\ toWorker \in [Worker -> Seq(Sessions)]
    /\ app \in {"ready", "starting", "pushing", "paused", "stopping", "joining",
                "destroying", "destroyed", "gone"}
    /\ starts \in 0..MaxStarts /\ linked \in BOOLEAN /\ alive \in BOOLEAN
    /\ runner \in [Sessions -> {"none", "fetching", "idle", "failed", "ended"}]
    /\ stream \in 0..MaxStarts /\ owner \in Worker \cup {0} /\ stalled \in BOOLEAN
    /\ registered \in BOOLEAN
    /\ reader \in [stream : 0..MaxStarts, home : 0..MaxStarts]
    /\ task \in [Sessions -> {"none", "started", "paused", "stopped"}]
    /\ thread \in [Sessions -> {"none", "starting", "idle", "execute", "await"}
                                    \cup CreateStates]
    /\ runs \in [Sessions -> Nat] /\ resumes \in Nat
    /\ stale \in BOOLEAN /\ freedUse \in BOOLEAN

\* While create waits for data, it waits for the stream this session fetched,
\* with a reader that was made in this thread; except in a session that began
\* with an element that had requested its stream before. (And the types.)
ReaderUsable ==
    /\ TypeOK
    /\ \A s \in Sessions :
            thread[s] = "await" /\ ~stale => reader = [stream |-> s, home |-> s]

\* The task function is never called again before it returned: a call is on its
\* way only to a thread that is in its main loop, and never two of them.
OneRun ==
    \A s \in Sessions : runs[s] > 0 => runs[s] = 1 /\ thread[s] = "idle"

\* do_transfer gets the element as a plain pointer: once it is freed, no thread
\* is left that would call it.
OwnerGone ==
    ~alive => \A s \in Sessions :
                runner[s] = "idle" => dispatched[RunnerThread(s)] = <<>>

\* A reader that has requested its stream reads from it, unless it is stopped.
RequestServed ==
    \A s \in Sessions :
        thread[s] = "requested" ~> thread[s] = "await" \/ app # "paused"

\* PAUSED to READY returns, unless the server stalls, or create waits for a
\* reader of another session.
StopReturns ==
    app = "stopping" ~>
        \/ app = "ready"
        \/ stalled
        \/ thread[starts] = "await" /\ reader.home # starts

--------------------------------------------------------------------------------
(* Refinement *)

\* The streams that are on their way, each with the thread that asked for it: as a
\* request to the thread that owns it, with the main thread, or behind it.
Coming ==
    {h \in [to : Worker, object : Sessions] :
        \/ [tid |-> h.to] \in Range(dispatched[RunnerThread(h.object)])
        \/ \E w \in Worker : [tid |-> h.to, object |-> h.object] \in Range(toMain[w])
        \/ h.object \in Range(toWorker[h.to])}

Handover == INSTANCE StreamHandover WITH
    Thread <- Worker,
    Object <- Sessions,
    owned  <- {stream} \ {0},
    asked  <- registered,
    coming <- Coming,
    got    <- IF reader = Undefined THEN {}
              ELSE {[to |-> TaskThread(reader.home), object |-> reader.stream]}

\* A stream is asked for once, and comes, at most once, to the thread that asked
\* for it, which gets the stream that was owned then: whatever the order of state
\* changes, events and threads that end, and however many sessions there are.
ImplementsHandover == Handover!Spec

--------------------------------------------------------------------------------
(* What the code does not keep *)

\* on_stream is not called for a freed element.
NoUseAfterFree == ~freedUse

================================================================================
