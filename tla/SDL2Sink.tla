-------------------------------- MODULE SDL2Sink --------------------------------
(***************************************************************************)
(* GstSDL2Sink (ext/sdl2/gstsdl2sink.c) on the main loop iteration of      *)
(* gst-libs/gst/emscripten/gstemscripten.c. SDL renders only on the thread *)
(* that iterates the main loop of the browser, so show_frame copies each   *)
(* frame into a surface of a small pool and queues it, and the callback    *)
(* that setcaps installed renders it and gives the surface back.           *)
(*                                                                         *)
(* Two threads interleave: the streaming thread, and the main thread,      *)
(* which iterates the loop and, between two iterations, is the application *)
(* that changes states and seeks (main() and the handlers of the samples). *)
(* The base class calls prepare and show_frame with its preroll lock,      *)
(* which it releases in between to wait for the clock, and holds the       *)
(* stream lock of the pad in every call.                                   *)
(***************************************************************************)
EXTENDS Naturals, Sequences, FiniteSetsExt, SequencesExt

CONSTANTS PoolSize,     \* SURFACE_POOL_SIZE, 4
          MaxCaps,      \* bound: different caps
          MaxFrames,    \* bound: frames that reach the sink
          MaxStarts,    \* bound: changes from NULL to READY
          MaxFlushes    \* bound: flushes and changes from PAUSED to READY

ASSUME SinkAssumption ==
    /\ PoolSize \in Nat \ {0}
    /\ MaxCaps \in Nat /\ MaxFrames \in Nat
    /\ MaxStarts \in Nat /\ MaxFlushes \in Nat

VARIABLES
    slot,       \* gst_emscripten_ui_context holds the callback of the sink
    info,       \* self->info: the caps it describes, 0 before any
    queueMade,  \* render.queue is not NULL
    queue,      \* render.queue: the surfaces to render
    target,     \* render.target and render.window are not NULL
    pool,       \* self->surface_pool, numbered from 1; 0 is NULL
    free,       \* the surfaces in each pool
    made,       \* the caps the surfaces of each pool were made for
    content,    \* the frame in each surface
    cancelled,  \* render.cancelled
    chain,      \* where the streaming thread is
    caps,       \* the current caps of the pad, 0 without
    frame,      \* number of the last frame that reached the sink
    chainSurf,  \* the surface show_frame works on
    main,       \* where the main thread is
    mainSurf,   \* the surface the callback works on
    screen,     \* the frame on the screen
    element,    \* the state of the element
    starts, flushes,
    raced       \* history: did a thread use what the other one was setting up?

poolVars  == <<pool, free, made>>
queueVars == <<queueMade, queue>>
chainVars == <<chain, caps, frame, chainSurf>>
mainVars  == <<main, mainSurf, screen>>
appVars   == <<element, starts, flushes>>
vars == <<slot, info, queueMade, queue, target, pool, free, made, content, cancelled,
          chain, caps, frame, chainSurf, main, mainSurf, screen, element, starts,
          flushes, raced>>

Pools   == 1..MaxStarts
Surface == Pools \X (1..PoolSize)
None    == <<0, 0>>

Init ==
    /\ slot = FALSE
    /\ info = 0
    /\ queueMade = FALSE /\ queue = <<>>
    /\ target = FALSE
    /\ pool = 0
    /\ free = [p \in Pools |-> <<>>]
    /\ made = [p \in Pools |-> 0]
    /\ content = [s \in Surface |-> 0]
    /\ cancelled = FALSE
    /\ chain = "idle" /\ caps = 0 /\ frame = 0 /\ chainSurf = None
    /\ main = "idle" /\ mainSurf = None /\ screen = 0
    /\ element = "null" /\ starts = 0 /\ flushes = 0
    /\ raced = FALSE

\* The states of the streaming thread in which it holds the preroll lock.
PrerollLocked == {"prepare", "asleep", "show", "copy", "push"}

\* g_assert and g_error end the program.
Abort ==
    /\ chain' = "aborted" /\ main' = "aborted"
    /\ UNCHANGED <<slot, info, queueVars, target, poolVars, content, cancelled, caps,
                   frame, chainSurf, mainSurf, screen, appVars, raced>>

\* g_cond_signal on render.ready, where only prepare waits
SignalReady == chain' = IF chain = "asleep" THEN "prepare" ELSE chain

\* gst_emscripten_ui_attach_callback, and ..._remove_callback: one slot.
AttachCallback == slot' = TRUE
RemoveCallback == slot' = FALSE

--------------------------------------------------------------------------------
(* Streaming thread: setcaps, with caps other than the current ones *)

\* "Can't run twice for now", then the callback is attached.
SetCaps(c) ==
    /\ chain = "idle" /\ element = "paused" /\ c # caps
    /\ IF queueMade \/ slot
       THEN Abort
       ELSE /\ AttachCallback
            /\ chain' = "setcaps"
            /\ caps' = c
            /\ UNCHANGED <<info, queueVars, target, poolVars, content, cancelled,
                           frame, chainSurf, mainVars, appVars, raced>>

SetCapsInfo ==
    /\ chain = "setcaps"
    /\ info' = caps
    /\ chain' = "setcaps_queue"
    /\ UNCHANGED <<slot, queueVars, target, poolVars, content, cancelled, caps, frame,
                   chainSurf, mainVars, appVars, raced>>

SetCapsQueue ==
    /\ chain = "setcaps_queue"
    /\ queueMade' = TRUE
    /\ chain' = "idle"
    /\ UNCHANGED <<slot, info, queue, target, poolVars, content, cancelled, caps, frame,
                   chainSurf, mainVars, appVars, raced>>

--------------------------------------------------------------------------------
(* Streaming thread: a frame *)

\* The frame passes the pad, and is refused under the preroll lock if the sink
\* is flushing by then; prepare looks at the target without its lock first.
Arrive ==
    /\ chain = "idle" /\ element = "paused" /\ caps # 0
    /\ frame < MaxFrames
    /\ frame' = frame + 1
    /\ chain' = "arrived"
    /\ UNCHANGED <<slot, info, queueVars, target, poolVars, content, cancelled, caps,
                   chainSurf, mainVars, appVars, raced>>

BeginPrepare ==
    /\ chain = "arrived"
    /\ chain' = IF main = "flushing" THEN "idle"
                ELSE IF target THEN "prepared" ELSE "prepare"
    /\ UNCHANGED <<slot, info, queueVars, target, poolVars, content, cancelled, caps,
                   frame, chainSurf, mainVars, appVars, raced>>

\* Mutant: the wait does not look at render.cancelled.
PrepareDeaf ==
    /\ chain = "prepare"
    /\ chain' = IF target THEN "prepared" ELSE "asleep"
    /\ UNCHANGED <<slot, info, queueVars, target, poolVars, content, cancelled, caps,
                   frame, chainSurf, mainVars, appVars, raced>>

\* prepare with its lock: wait, give up, or go on.
Prepare ==
    /\ chain = "prepare"
    /\ chain' = IF cancelled THEN "idle"
                ELSE IF target THEN "prepared" ELSE "asleep"
    /\ UNCHANGED <<slot, info, queueVars, target, poolVars, content, cancelled, caps,
                   frame, chainSurf, mainVars, appVars, raced>>

\* The base class waits for the clock, and drops a frame that is late, or
\* flushed meanwhile.
Synchronized ==
    /\ chain = "prepared"
    /\ chain' \in IF main = "flushing" THEN {"idle"} ELSE {"idle", "show"}
    /\ UNCHANGED <<slot, info, queueVars, target, poolVars, content, cancelled, caps,
                   frame, chainSurf, mainVars, appVars, raced>>

\* show_frame: without a pool, or a surface in it, the frame is dropped.
ShowFrameNoSurface ==
    /\ chain = "show"
    /\ pool # 0 => free[pool] = <<>>
    /\ chain' = "idle"
    /\ UNCHANGED <<slot, info, queueVars, target, poolVars, content, cancelled, caps,
                   frame, chainSurf, mainVars, appVars, raced>>

ShowFrame ==
    /\ chain = "show"
    /\ pool # 0 /\ free[pool] # <<>>
    /\ chainSurf' = <<pool, Head(free[pool])>>
    /\ free' = [free EXCEPT ![pool] = Tail(@)]
    /\ chain' = "copy"
    /\ raced' = (raced \/ main = "pool")
    /\ UNCHANGED <<slot, info, queueVars, target, pool, made, content, cancelled, caps,
                   frame, mainVars, appVars>>

Copy ==
    /\ chain = "copy"
    /\ content' = [content EXCEPT ![chainSurf] = frame]
    /\ chain' = "push"
    /\ UNCHANGED <<slot, info, queueVars, target, poolVars, cancelled, caps, frame,
                   chainSurf, mainVars, appVars, raced>>

\* Mutant: g_async_queue_push_front, as for the pool.
PushFront ==
    /\ chain = "push"
    /\ queue' = <<chainSurf>> \o queue
    /\ chainSurf' = None
    /\ chain' = "idle"
    /\ UNCHANGED <<slot, info, queueMade, target, poolVars, content, cancelled, caps,
                   frame, mainVars, appVars, raced>>

PushSurface ==
    /\ chain = "push"
    /\ queue' = Append(queue, chainSurf)
    /\ chainSurf' = None
    /\ chain' = "idle"
    /\ UNCHANGED <<slot, info, queueMade, target, poolVars, content, cancelled, caps,
                   frame, mainVars, appVars, raced>>

--------------------------------------------------------------------------------
(* Main thread: an iteration of the main loop *)

\* The callback of the sink makes the window first, if there is none. SDL
\* does not refuse it.
RenderMainloop ==
    /\ main' = IF target THEN "pop" ELSE "pool"
    /\ target' = TRUE
    /\ raced' = (raced \/ (~target /\ chain = "setcaps"))

\* gst_emscripten_ui_main_loop_iteration, with a callback in the slot.
Iterate ==
    /\ main = "idle" /\ slot
    /\ RenderMainloop
    /\ UNCHANGED <<slot, info, queueVars, poolVars, content, cancelled, chainVars,
                   mainSurf, screen, appVars>>

FullPool == [i \in 1..PoolSize |-> i]

\* surface_pool_create; a pool of before is forgotten, not freed.
CreatePool ==
    /\ main = "pool"
    /\ pool' = pool + 1
    /\ free' = [free EXCEPT ![pool + 1] = FullPool]
    /\ made' = [made EXCEPT ![pool + 1] = info]
    /\ main' = "signal"
    /\ UNCHANGED <<slot, info, queueVars, target, content, cancelled, chainVars,
                   mainSurf, screen, appVars, raced>>

WindowReady ==
    /\ main = "signal"
    /\ SignalReady
    /\ main' = "pop"
    /\ UNCHANGED <<slot, info, queueVars, target, poolVars, content, cancelled, caps,
                   frame, chainSurf, mainSurf, screen, appVars, raced>>

\* g_async_queue_try_pop; a queue that is NULL gives nothing.
PopNothing ==
    /\ main = "pop" /\ queue = <<>>
    /\ main' = "idle"
    /\ UNCHANGED <<slot, info, queueVars, target, poolVars, content, cancelled,
                   chainVars, mainSurf, screen, appVars, raced>>

Pop ==
    /\ main = "pop" /\ queue # <<>>
    /\ mainSurf' = Head(queue)
    /\ queue' = Tail(queue)
    /\ main' = "render"
    /\ UNCHANGED <<slot, info, queueMade, target, poolVars, content, cancelled,
                   chainVars, screen, appVars, raced>>

\* Mutant: a call of SDL fails, and the callback returns with the surface.
RenderLeak ==
    /\ main = "render"
    /\ screen' = content[mainSurf]
    /\ main' = "idle"
    /\ mainSurf' = None
    /\ UNCHANGED <<slot, info, queueVars, target, poolVars, content, cancelled,
                   chainVars, appVars, raced>>

\* The texture, or one of the calls that render it, may fail.
Render ==
    /\ main = "render"
    /\ screen' \in {screen, content[mainSurf]}
    /\ main' = "return"
    /\ UNCHANGED <<slot, info, queueVars, target, poolVars, content, cancelled,
                   chainVars, mainSurf, appVars, raced>>

\* surface_return_to_pool: in front, of the pool the surface is of.
Returned(s) == [free EXCEPT ![s[1]] = <<s[2]>> \o @]

ReturnSurface ==
    /\ main = "return"
    /\ free' = Returned(mainSurf)
    /\ mainSurf' = None
    /\ main' = "idle"
    /\ UNCHANGED <<slot, info, queueVars, target, pool, made, content, cancelled,
                   chainVars, screen, appVars, raced>>

--------------------------------------------------------------------------------
(* Main thread: the application *)

NullToReady ==
    /\ main = "idle" /\ element = "null"
    /\ starts < MaxStarts
    /\ starts' = starts + 1
    /\ element' = "ready"
    /\ UNCHANGED <<slot, info, queueVars, target, poolVars, content, cancelled,
                   chainVars, mainVars, flushes, raced>>

ReadyToPaused ==
    /\ main = "idle" /\ element = "ready"
    /\ element' = "paused"
    /\ UNCHANGED <<slot, info, queueVars, target, poolVars, content, cancelled,
                   chainVars, mainVars, starts, flushes, raced>>

\* A flushing seek, or the deactivation of the pad: the pad refuses data, and
\* unlock() is called without the preroll lock.
Unlock(next) ==
    /\ main = "idle" /\ element = "paused"
    /\ flushes < MaxFlushes
    /\ flushes' = flushes + 1
    /\ element' = next
    /\ cancelled' = TRUE
    /\ SignalReady
    /\ main' = "unlock"
    /\ UNCHANGED <<slot, info, queueVars, target, poolVars, content, caps, frame,
                   chainSurf, mainSurf, screen, starts, raced>>

\* unlock_stop(), with the preroll lock.
UnlockStop ==
    /\ main = "unlock"
    /\ chain \notin PrerollLocked
    /\ cancelled' = FALSE
    /\ main' = "flushing"
    /\ UNCHANGED <<slot, info, queueVars, target, poolVars, content, chainVars,
                   mainSurf, screen, appVars, raced>>

\* The stream lock of the pad: the streaming thread is out of the sink.
Flushed ==
    /\ main = "flushing" /\ chain = "idle"
    /\ element' = IF element = "flush" THEN "paused" ELSE "ready"
    /\ caps' = IF element = "flush" THEN caps ELSE 0
    /\ main' = "idle"
    /\ UNCHANGED <<slot, info, queueVars, target, poolVars, content, cancelled, chain,
                   frame, chainSurf, mainSurf, screen, starts, flushes, raced>>

\* stop(). The assertions of gst_emscripten_ui_remove_callback come first.
ReadyToNull ==
    /\ main = "idle" /\ element = "ready"
    /\ IF ~slot
       THEN Abort
       ELSE /\ RemoveCallback
            /\ main' = "stop"
            /\ UNCHANGED <<info, queueVars, target, poolVars, content, cancelled,
                           chainVars, mainSurf, screen, appVars, raced>>

\* g_async_queue_unref gives each surface in the queue back to its pool.
FreeQueued ==
    /\ main = "stop" /\ queue # <<>>
    /\ free' = Returned(Head(queue))
    /\ queue' = Tail(queue)
    /\ UNCHANGED <<slot, info, queueMade, target, pool, made, content, cancelled,
                   chainVars, mainVars, appVars, raced>>

\* The rest of stop(): the window is closed.
Stopped ==
    /\ main = "stop" /\ queue = <<>>
    /\ queueMade' = FALSE
    /\ target' = FALSE
    /\ cancelled' = FALSE
    /\ element' = "null"
    /\ main' = "idle"
    /\ UNCHANGED <<slot, info, queue, poolVars, content, chainVars, mainSurf, screen,
                   starts, flushes, raced>>

--------------------------------------------------------------------------------
ChainStep ==
    \/ SetCapsInfo
    \/ SetCapsQueue
    \/ BeginPrepare
    \/ Prepare
    \/ Synchronized
    \/ ShowFrameNoSurface
    \/ ShowFrame
    \/ Copy
    \/ PushSurface

MainStep ==
    \/ Iterate
    \/ CreatePool
    \/ WindowReady
    \/ PopNothing
    \/ Pop
    \/ Render
    \/ ReturnSurface
    \/ UnlockStop
    \/ Flushed
    \/ FreeQueued
    \/ Stopped

Next ==
    \/ \E c \in 1..MaxCaps : SetCaps(c)
    \/ Arrive
    \/ ChainStep
    \/ MainStep
    \/ NullToReady
    \/ ReadyToPaused
    \/ Unlock("flush")
    \/ Unlock("deactivate")
    \/ ReadyToNull

Spec == Init /\ [][Next]_vars

\* The thread that streams goes on inside a call, the browser iterates the main
\* loop (the page is visible), and a flush or a state change is carried through.
\* No frame, caps, seek or state change needs to come.
Fairness == WF_vars(ChainStep) /\ WF_vars(MainStep)

FairSpec == Spec /\ Fairness

--------------------------------------------------------------------------------
(* Correctness *)

\* Type invariant.
TypeOK ==
    /\ slot \in BOOLEAN /\ queueMade \in BOOLEAN /\ target \in BOOLEAN
    /\ cancelled \in BOOLEAN /\ raced \in BOOLEAN
    /\ info \in 0..MaxCaps /\ caps \in 0..MaxCaps
    /\ queue \in Seq(Surface)
    /\ pool \in 0..MaxStarts
    /\ free \in [Pools -> Seq(1..PoolSize)]
    /\ made \in [Pools -> 0..MaxCaps]
    /\ content \in [Surface -> Nat]
    /\ chain \in {"idle", "setcaps", "setcaps_queue", "arrived", "prepare", "asleep",
                  "prepared", "show", "copy", "push", "aborted"}
    /\ main \in {"idle", "pool", "signal", "pop", "render", "return", "unlock",
                 "flushing", "stop", "aborted"}
    /\ element \in {"null", "ready", "paused", "flush", "deactivate"}
    /\ chainSurf \in Surface \cup {None} /\ mainSurf \in Surface \cup {None}
    /\ frame \in Nat /\ screen \in Nat /\ starts \in Nat /\ flushes \in Nat

Occurrences(e, seq) == Quantify(DOMAIN seq, LAMBDA i : seq[i] = e)

\* A frame goes into a surface made for its caps, unless the callback ran
\* between its attachment and the assignment of info in setcaps, or show_frame
\* between the window and the pool of a restart.
FramesFit ==
    chain = "copy" /\ ~raced => made[chainSurf[1]] = caps

\* From the creation of its pool on, a surface is in one place.
InOnePlace ==
    \A s \in Surface :
        Occurrences(s, queue) + Occurrences(s[2], free[s[1]])
            + Occurrences(s, <<chainSurf, mainSurf>>)
        = IF s[1] <= pool THEN 1 ELSE 0

\* No surface is lost or handed out twice, whatever is flushed, stopped or
\* fails to render; and a frame is only copied to one of its size. (And the
\* types.)
SurfacesConserved == TypeOK /\ FramesFit /\ InOnePlace

\* What is on the screen only ever moves forward: no surface is filled again
\* before it was rendered.
RenderedInOrder == [][screen' # screen => screen' > screen]_vars

\* A flush and a state change return, although the main loop stands still in
\* them and no window can be made: unlock reaches prepare in time.
FlushReturns ==
    main \in {"unlock", "flushing"} ~> main \notin {"unlock", "flushing"}

--------------------------------------------------------------------------------
(* What the source asserts, and the code does not keep *)

\* g_assert (render.queue == NULL) in setcaps, and g_assert (just_one_func == cb)
\* in gst_emscripten_ui_remove_callback, which stop calls.
AssertionsHold == main # "aborted"

================================================================================
