------------------------------- MODULE WebPipeline -----------------------------
(***************************************************************************)
(* What the elements around the canvas do to each other in a pipeline: the *)
(* output side of the video decoder, webdownload, webupload, webcanvassink *)
(* and webcanvassrc, with the VideoFrames that travel between them as      *)
(* GstWebVideoFrame memory (gst-libs/gst/web/gstwebvideoframe.cpp).        *)
(*                                                                         *)
(* A VideoFrame belongs to the runner of the canvas: to size, copy, draw   *)
(* and close it every thread sends a synchronous message to the runner,    *)
(* and the runner thread itself, which the decoder pushes from, calls      *)
(* inline. While it waits for a promise the runner thread serves callbacks *)
(* of the browser and no messages.                                         *)
(*                                                                         *)
(* The threads: R, the runner; Q, that of a queue behind the decoder; S,   *)
(* that of webcanvassrc; A, the application.                               *)
(***************************************************************************)
EXTENDS Integers, Sequences, FiniteSets

CONSTANTS Layouts,    \* pipelines, a subset of DOMAIN Path
          QueueSize,  \* buffers the queue holds
          MaxFrames,  \* bound: pictures
          MaxStops    \* bound: stops

\* direct    webcodecsviddec ! webcanvassink
\* queued    webcodecsviddec ! queue ! webcanvassink
\* copied    webcodecsviddec ! webdownload ! webupload ! webcanvassink
\* buffered  webcodecsviddec ! queue ! webdownload ! webupload ! webcanvassink
\* captured  webcanvassrc ! webupload ! webcanvassink
\* raw       webcanvassrc ! webcanvassink
Path ==
    [direct   |-> <<"sink">>,
     queued   |-> <<"queue", "sink">>,
     copied   |-> <<"download", "upload", "sink">>,
     buffered |-> <<"queue", "download", "upload", "sink">>,
     captured |-> <<"upload", "sink">>,
     raw      |-> <<"sink">>]

ASSUME PipelineAssumption ==
    /\ Layouts \subseteq DOMAIN Path
    /\ QueueSize \in Nat \ {0}
    /\ MaxFrames \in Nat /\ MaxStops \in Nat

VARIABLES
    layout,     \* the pipeline
    app,        \* where the application is in the state changes
    job,        \* the buffer each thread has in its hands, and the step it is at
    awaiting,   \* the thread whose call has the runner waiting for a promise
    queue,      \* the buffers in the queue
    qlock,      \* holder of the mutex of the queue
    flushing,   \* elements that return FLUSHING
    halted,     \* streaming threads that have paused
    refs,       \* the references of each VideoFrame, closed with the last one
    lastSample, \* the VideoFrame in the sink's last sample, 0 for none
    pictures,   \* pictures that came out of the decoder or the canvas
    copied,     \* pictures whose copyTo has ended
    srcCaps,    \* webcanvassrc: self->caps is set
    padCaps,    \* its pad has caps
    stops,      \* stops so far
    crashed     \* what ended the program

vars == <<layout, app, job, awaiting, queue, qlock, flushing, halted, refs,
          lastSample, pictures, copied, srcCaps, padCaps, stops, crashed>>

srcVars   == <<srcCaps, padCaps>>
queueVars == <<queue, qlock, flushing, halted>>
appVars   == <<layout, app, stops, crashed>>

Picture == 1..MaxFrames
Memory  == 1..2 * MaxFrames     \* those of the decoder, those of webupload
System  == 0                    \* system memory

Idle == [pos |-> 0, step |-> "idle", picture |-> 0, mem |-> System]
Decoded == layout \in {"direct", "queued", "copied", "buffered"}
Queued  == layout \in {"queued", "buffered"}
Stage(t) == IF job[t].pos = 0 THEN "none" ELSE Path[layout][job[t].pos]
First == [queue |-> "enter", download |-> "copy", upload |-> "make", sink |-> "swap"]

Init ==
    /\ layout \in Layouts
    /\ app = "paused"
    /\ job = [t \in {"R", "Q", "S"} |-> Idle]
    /\ awaiting = "nobody"
    /\ queue = <<>> /\ qlock = "free"
    /\ flushing = {} /\ halted = {}
    /\ refs = [m \in Memory |-> 0]
    /\ lastSample = System
    /\ pictures = 0 /\ copied = {}
    /\ srcCaps = FALSE /\ padCaps = FALSE
    /\ stops = 0 /\ crashed = "no"

At(t, step) == crashed = "no" /\ job[t].step = step
Go(t, step) == job' = [job EXCEPT ![t].step = step]

\* The buffer goes on to the next element.
Push(t, mem) ==
    LET pos == job[t].pos + 1
    IN job' = [job EXCEPT ![t] = [@ EXCEPT !.pos = pos, !.mem = mem,
                                           !.step = First[Path[layout][pos]]]]

--------------------------------------------------------------------------------
(* The runner, and the VideoFrames that belong to it *)

\* Mutant: a message is always queued, that of the runner thread too.
ServesOthers(t) == job["R"].pos = 0 /\ awaiting = "nobody"

\* A synchronous call of thread t to the runner: inline from the runner thread,
\* otherwise a message, which its loop serves when it is in its loop.
Serves(t) == t = "R" \/ (job["R"].pos = 0 /\ awaiting = "nobody")

\* A reference is dropped; the last one closes the VideoFrame, on the runner,
\* and its thread waits for that.
Free(t, mem) ==
    IF mem = System THEN UNCHANGED refs
    ELSE /\ refs[mem] = 1 => Serves(t)
         /\ refs' = [refs EXCEPT ![mem] = @ - 1]

\* gst_web_video_frame_wrap: the size is asked on the runner.
Wrap(t, mem) == Serves(t) /\ refs' = [refs EXCEPT ![mem] = 1]

\* The decoder's on_output: a VideoFrame, wrapped and pushed, on the runner
\* thread. One that comes while the one before awaits in copyTo would await in
\* its turn, and Asyncify keeps one stack.
Output ==
    /\ crashed = "no"
    /\ Decoded /\ pictures < MaxFrames /\ app # "stopped"
    /\ \/ /\ job["R"].pos = 0
          /\ pictures' = pictures + 1
          /\ job' = [job EXCEPT !["R"] = [pos |-> 0, step |-> "wrap",
                        picture |-> pictures + 1, mem |-> pictures + 1]]
          /\ job["R"].step = "idle"
          /\ UNCHANGED crashed
       \/ /\ awaiting = "R"
          /\ crashed' = "two awaits"
          /\ UNCHANGED <<job, pictures>>
    /\ UNCHANGED <<layout, app, stops, awaiting, queueVars, refs, lastSample, copied, srcVars>>

WrapOutput ==
    /\ At("R", "wrap")
    /\ Wrap("R", job["R"].mem)
    /\ Push("R", job["R"].mem)
    /\ UNCHANGED <<appVars, awaiting, queueVars, lastSample, pictures, copied, srcVars>>

\* The promise that a call waits for is fulfilled, when the runner thread is
\* back in the event loop.
Fulfilled(t) ==
    /\ awaiting = t
    /\ t # "R" => job["R"].step = "idle"
    /\ awaiting' = "nobody"

--------------------------------------------------------------------------------
(* webcanvassrc, which captures on the main thread *)

\* create: proxied to the main thread, with S waiting.
Create ==
    /\ crashed = "no"
    /\ ~Decoded /\ pictures < MaxFrames
    /\ app # "stopped" /\ "S" \notin halted
    /\ job["S"] = Idle
    /\ Go("S", "create")
    /\ UNCHANGED <<appVars, awaiting, queueVars, refs, lastSample, pictures, copied, srcVars>>

\* create_internal: the caps are set once in the life of the element, under
\* g_assert, which a pad that has become flushing meanwhile fails; then the
\* canvas is read, or is not there.
Capture ==
    /\ At("S", "create")
    /\ IF ~srcCaps /\ "source" \in flushing
       THEN /\ crashed' = "assertion"
            /\ UNCHANGED <<job, pictures, srcVars, halted>>
       ELSE /\ srcCaps' = TRUE
            /\ padCaps' = (padCaps \/ ~srcCaps)
            /\ UNCHANGED crashed
            /\ \/ /\ pictures' = pictures + 1
                  /\ job' = [job EXCEPT !["S"].step = "created",
                                        !["S"].picture = pictures + 1]
                  /\ UNCHANGED halted
               \/ /\ job' = [job EXCEPT !["S"] = Idle]
                  /\ halted' = halted \cup {"S"}
                  /\ UNCHANGED pictures
    /\ UNCHANGED <<layout, app, stops, awaiting, queue, qlock, flushing, refs,
                   lastSample, copied>>

\* The buffer is pushed; without caps the next element refuses it.
Captured ==
    /\ At("S", "created")
    /\ IF padCaps /\ "source" \notin flushing
       THEN Push("S", System) /\ UNCHANGED halted
       ELSE job' = [job EXCEPT !["S"] = Idle] /\ halted' = halted \cup {"S"}
    /\ UNCHANGED <<appVars, awaiting, queue, qlock, flushing, refs, lastSample,
                   pictures, copied, srcVars>>

--------------------------------------------------------------------------------
(* The queue *)

\* chain: under its mutex, the buffer waits for room and is queued.
EnterQueue ==
    /\ At("R", "enter")
    /\ qlock = "free"
    /\ IF "queue" \in flushing
       THEN Go("R", "drop") /\ UNCHANGED queue
       ELSE /\ Len(queue) < QueueSize
            /\ queue' = Append(queue, job["R"])
            /\ job' = [job EXCEPT !["R"] = Idle]
    /\ UNCHANGED <<appVars, awaiting, qlock, flushing, halted, refs, lastSample,
                   pictures, copied, srcVars>>

LeaveQueue ==
    /\ At("Q", "idle")
    /\ "Q" \notin halted /\ "queue" \notin flushing
    /\ qlock = "free" /\ queue # <<>>
    /\ queue' = Tail(queue)
    /\ LET buffer == Head(queue)
           pos    == buffer.pos + 1
       IN job' = [job EXCEPT !["Q"] = [buffer EXCEPT !.pos = pos,
                                          !.step = First[Path[layout][pos]]]]
    /\ UNCHANGED <<appVars, awaiting, qlock, flushing, halted, refs, lastSample,
                   pictures, copied, srcVars>>

\* The loop pauses when the sink or the queue is flushing, and frees what is
\* queued with the mutex taken.
FlushQueue ==
    /\ \/ At("Q", "idle") /\ "Q" \notin halted /\ "queue" \in flushing /\ Queued
       \/ At("Q", "flush")
    /\ qlock = "free"
    /\ qlock' = "Q"
    /\ flushing' = flushing \cup {"queue"}
    /\ Go("Q", "flushing")
    /\ UNCHANGED <<appVars, awaiting, queue, halted, refs, lastSample, pictures,
                   copied, srcVars>>

FlushBuffer ==
    /\ At("Q", "flushing")
    /\ IF queue = <<>>
       THEN /\ qlock' = "free"
            /\ halted' = halted \cup {"Q"}
            /\ Go("Q", "idle")
            /\ UNCHANGED <<queue, refs>>
       ELSE /\ Free("Q", Head(queue).mem)
            /\ queue' = Tail(queue)
            /\ UNCHANGED <<qlock, halted, job>>
    /\ UNCHANGED <<appVars, awaiting, flushing, lastSample, pictures, copied, srcVars>>

--------------------------------------------------------------------------------
(* webdownload, webupload *)

\* Mutant: copyTo without await.
CopyToNoAwait(t) ==
    /\ Serves(t)
    /\ Go(t, "copied")
    /\ UNCHANGED awaiting

\* copyTo on the runner, which waits for its promise.
CopyTo(t) ==
    /\ Serves(t)
    /\ awaiting' = t
    /\ Go(t, "copying")

\* gst_web_download_transform: gst_web_video_frame_copy_to.
Download(t) ==
    /\ At(t, "copy")
    /\ CopyTo(t)
    /\ UNCHANGED <<appVars, queueVars, refs, lastSample, pictures, copied, srcVars>>

DownloadCopied(t) ==
    /\ At(t, "copying")
    /\ Fulfilled(t)
    /\ copied' = copied \cup {job[t].picture}
    /\ Go(t, "copied")
    /\ UNCHANGED <<appVars, queueVars, refs, lastSample, pictures, srcVars>>

\* The base class drops the input buffer and pushes the other one.
DownloadReturn(t) ==
    /\ At(t, "copied")
    /\ Free(t, job[t].mem)
    /\ Push(t, System)
    /\ UNCHANGED <<appVars, awaiting, queueVars, lastSample, pictures, copied, srcVars>>

\* gst_web_upload_transform: a new VideoFrame, made on the runner from the
\* mapped buffer.
Upload(t) ==
    /\ At(t, "make")
    /\ LET mem == MaxFrames + job[t].picture
       IN Wrap(t, mem) /\ Push(t, mem)
    /\ UNCHANGED <<appVars, awaiting, queueVars, lastSample, pictures, copied, srcVars>>

--------------------------------------------------------------------------------
(* webcanvassink *)

\* The base class keeps the buffer as the last sample, in place of the one
\* before.
KeepSample(t) ==
    /\ At(t, "swap")
    /\ IF "sink" \in flushing
       THEN Go(t, "drop") /\ UNCHANGED <<refs, lastSample>>
       ELSE /\ lastSample # System /\ refs[lastSample] = 1 => Serves(t)
            /\ lastSample' = job[t].mem
            /\ refs' = [m \in Memory |-> refs[m] + (IF m = job[t].mem THEN 1 ELSE 0)
                                                 - (IF m = lastSample THEN 1 ELSE 0)]
            /\ Go(t, IF app = "paused" THEN "predraw" ELSE "draw")
    /\ UNCHANGED <<appVars, awaiting, queueVars, pictures, copied, srcVars>>

\* Mutant: gst_memory_unref is forgotten.
DrawVideoFrameNoUnref(t) ==
    refs' = [refs EXCEPT ![job[t].mem] = @ + 1]

\* gst_web_canvas_sink_draw_video_frame: the memory is referenced, drawn and
\* unreferenced.
DrawVideoFrame(t) == UNCHANGED refs

Drawn(t) == IF job[t].step \in {"predraw", "predrawing"} THEN "preroll" ELSE "release"

\* show_frame, for the preroll too: a VideoFrame is drawn, and system memory
\* becomes an ImageBitmap, which the runner waits for.
ShowFrame(t) ==
    /\ At(t, "predraw") \/ At(t, "draw")
    /\ Serves(t)
    /\ IF job[t].mem = System
       THEN /\ awaiting' = t
            /\ Go(t, IF job[t].step = "draw" THEN "drawing" ELSE "predrawing")
            /\ UNCHANGED refs
       ELSE /\ DrawVideoFrame(t)
            /\ Go(t, Drawn(t))
            /\ UNCHANGED awaiting
    /\ UNCHANGED <<appVars, queueVars, lastSample, pictures, copied, srcVars>>

DrawRaw(t) ==
    /\ At(t, "predrawing") \/ At(t, "drawing")
    /\ Fulfilled(t)
    /\ Go(t, Drawn(t))
    /\ UNCHANGED <<appVars, queueVars, refs, lastSample, pictures, copied, srcVars>>

\* The thread waits in the sink until it plays or is stopped.
Preroll(t) ==
    /\ At(t, "preroll")
    /\ \/ app = "playing" /\ Go(t, "draw")
       \/ "sink" \in flushing /\ Go(t, "drop")
    /\ UNCHANGED <<appVars, awaiting, queueVars, refs, lastSample, pictures, copied, srcVars>>

\* The thread drops its buffer and returns; on FLUSHING a streaming thread
\* pauses, and the decoder goes on.
Return(t) ==
    /\ At(t, "release") \/ At(t, "drop")
    /\ Free(t, job[t].mem)
    /\ IF job[t].step = "release" \/ t = "R"
       THEN job' = [job EXCEPT ![t] = Idle] /\ UNCHANGED halted
       ELSE IF t = "Q"
       THEN job' = [job EXCEPT ![t] = [Idle EXCEPT !.step = "flush"]] /\ UNCHANGED halted
       ELSE job' = [job EXCEPT ![t] = Idle] /\ halted' = halted \cup {t}
    /\ UNCHANGED <<appVars, awaiting, queue, qlock, flushing, lastSample, pictures,
                   copied, srcVars>>

--------------------------------------------------------------------------------
(* The application *)

App(from, to) == crashed = "no" /\ app = from /\ app' = to

Play ==
    /\ App("paused", "playing")
    /\ UNCHANGED <<layout, stops, crashed, job, awaiting, queueVars, refs, lastSample,
                   pictures, copied, srcVars>>

\* Stop, from the sink to the source: the sink lets its threads go.
Stop ==
    /\ App("paused", "sink") \/ App("playing", "sink")
    /\ stops < MaxStops
    /\ stops' = stops + 1
    /\ flushing' = flushing \cup {"sink"}
    /\ UNCHANGED <<layout, crashed, job, awaiting, queue, qlock, halted, refs, lastSample,
                   pictures, copied, srcVars>>

\* With no thread left in it, the sink frees its last sample; the queue, then
\* the source, are told.
StopSink ==
    /\ App("sink", IF Queued THEN "queue" ELSE "source")
    /\ \A t \in DOMAIN job : Stage(t) = "sink" => job[t].step \in {"swap", "drop"}
    /\ Free("A", lastSample)
    /\ lastSample' = System
    /\ flushing' = flushing \cup {app'}
    /\ UNCHANGED <<layout, stops, crashed, job, awaiting, queue, qlock, halted,
                   pictures, copied, srcVars>>

\* The thread of the queue is joined.
StopQueue ==
    /\ App("queue", "source")
    /\ "Q" \in halted
    /\ UNCHANGED <<layout, stops, crashed, job, awaiting, queueVars, refs, lastSample,
                   pictures, copied, srcVars>>

\* So is the thread of the source; its pad forgets the caps.
StopSource ==
    /\ App("source", "stopped")
    /\ job["S"] = Idle
    /\ padCaps' = FALSE
    /\ UNCHANGED <<layout, stops, crashed, job, awaiting, queueVars, refs, lastSample,
                   pictures, copied, srcCaps>>

Restart ==
    /\ App("stopped", "paused")
    /\ flushing' = {} /\ halted' = {}
    /\ UNCHANGED <<layout, stops, crashed, job, awaiting, queue, qlock, refs,
                   lastSample, pictures, copied, srcVars>>

--------------------------------------------------------------------------------
\* Steps of a thread with a buffer in its hands.
ThreadStep(t) ==
    \/ Download(t)
    \/ DownloadCopied(t)
    \/ DownloadReturn(t)
    \/ Upload(t)
    \/ KeepSample(t)
    \/ ShowFrame(t)
    \/ DrawRaw(t)
    \/ Preroll(t)
    \/ Return(t)

RunnerStep  == WrapOutput \/ EnterQueue \/ ThreadStep("R")
QueueStep   == LeaveQueue \/ FlushQueue \/ FlushBuffer \/ ThreadStep("Q")
SourceStep  == Capture \/ Captured \/ ThreadStep("S")
StopStep    == StopSink \/ StopQueue \/ StopSource

Next ==
    \/ Output
    \/ Create
    \/ RunnerStep
    \/ QueueStep
    \/ SourceStep
    \/ Play
    \/ Stop
    \/ StopStep
    \/ Restart

Spec == Init /\ [][Next]_vars

\* Threads go on, promises are fulfilled, the main thread serves what is proxied
\* to it. Pictures, play and stop need not come.
Fairness ==
    /\ WF_vars(RunnerStep)
    /\ WF_vars(QueueStep)
    /\ WF_vars(SourceStep)
    /\ WF_vars(StopStep)

FairSpec == Spec /\ Fairness

--------------------------------------------------------------------------------
(* Correctness *)

\* Type invariant.
TypeOK ==
    /\ layout \in Layouts
    /\ app \in {"paused", "playing", "sink", "queue", "source", "stopped"}
    /\ \A t \in {"R", "Q", "S"} :
          /\ job[t].pos \in 0..4 /\ job[t].picture \in 0..MaxFrames
          /\ job[t].mem \in Memory \cup {System}
    /\ awaiting \in {"nobody", "R", "Q", "S"}
    /\ Len(queue) <= QueueSize /\ qlock \in {"free", "Q"}
    /\ flushing \subseteq {"sink", "queue", "source"}
    /\ halted \subseteq {"Q", "S"}
    /\ refs \in [Memory -> 0..3]
    /\ lastSample \in Memory \cup {System}
    /\ pictures \in 0..MaxFrames /\ copied \subseteq Picture
    /\ srcCaps \in BOOLEAN /\ padCaps \in BOOLEAN
    /\ stops \in 0..MaxStops
    /\ crashed \in {"no", "two awaits", "assertion"}

\* Those that hold a VideoFrame: threads, places in the queue, the last sample.
Holders(m) ==
    Cardinality({t \in DOMAIN job : job[t].mem = m /\ job[t].step # "wrap"})
    + Cardinality({i \in DOMAIN queue : queue[i].mem = m})
    + Cardinality({l \in {lastSample} : l = m})

\* A VideoFrame is open exactly as long as somebody holds it, wherever it goes
\* and whoever drops it: none is used when it is closed, none is left open, and
\* after a stop at most the one that is coming out of the decoder. (And the types.)
FramesConserved ==
    /\ TypeOK
    /\ \A m \in Memory : refs[m] = Holders(m)
    /\ app = "stopped" => \A m \in Memory : refs[m] > 0 => job["R"].mem = m

\* What webdownload hands on is a whole picture: its copy has ended, though the
\* runner did other work in between.
WholePictures ==
    \A t \in {"R", "Q"} : job[t].step = "make" => job[t].picture \in copied

\* The runner thread is inside a push that cannot return without somebody else:
\* in a queue that is full or whose mutex is taken, or in a sink that prerolls.
RunnerBlocked ==
    \/ At("R", "enter") /\ (Len(queue) = QueueSize \/ qlock = "Q")
    \/ At("R", "preroll") /\ app = "paused"

\* A thread that needs the runner gets it: every call of the queue, the source
\* and the application returns, unless the runner thread blocks in a push.
CallsReturn ==
    /\ \A t \in {"Q", "S"} :
          job[t].step \in {"copy", "copying", "make", "draw", "drawing", "predraw",
                           "predrawing", "release", "drop"}
              ~> job[t].step \in {"idle", "flush", "preroll"} \/ RunnerBlocked \/ crashed # "no"
    /\ app = "sink" ~> app # "sink" \/ RunnerBlocked \/ crashed # "no"

\* Without a queue, a stop returns: neither a preroll on the runner thread nor
\* its drawing nor its awaits are in the way.
StopReturns ==
    app = "sink" /\ ~Queued ~> app = "stopped" \/ crashed # "no"

--------------------------------------------------------------------------------
(* Not kept by the code *)

\* The runner thread never blocks for ever in a queue behind the decoder.
QueuePasses == At("R", "enter") ~> ~At("R", "enter")

\* A stop returns with a queue, too.
QueuedStopReturns == app = "sink" ~> app = "stopped" \/ crashed # "no"

\* No await starts while another waits.
OneAwait == crashed # "two awaits"

\* A stop while the first picture is captured does no harm.
CaptureSurvivesStop == crashed # "assertion"

\* What is captured has caps, after a restart too.
CapsBeforeData == At("S", "created") => padCaps \/ "source" \in flushing

================================================================================
