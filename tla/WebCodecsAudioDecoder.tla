------------------------- MODULE WebCodecsAudioDecoder -------------------------
(***************************************************************************)
(* GstWebCodecsAudioDecoder (gst/web/codecs/gstwebcodecsaudiodecoder.cpp): *)
(* a GstAudioDecoder over the browser's AudioDecoder. It takes turns with  *)
(* it as the video decoder does, and differs in its runner, which start    *)
(* makes and stop ends, with whatever is queued on it, in the base class,  *)
(* which keeps the input buffers and is told how many an output is worth,  *)
(* and in what on_output does when something fails.                        *)
(*                                                                         *)
(* The parties are the streaming thread (set_format, handle_frame), the    *)
(* runner thread (messages, callbacks of the browser), the codec, and the  *)
(* application (flush, stop, start). Messages are served in order.         *)
(***************************************************************************)
EXTENDS Integers, Sequences

CONSTANTS MaxDequeue,   \* GST_WEB_CODECS_AUDIO_DECODER_MAX_DEQUEUE
          MaxFrames,    \* bound: buffers that enter the element
          MaxFormats,   \* bound: calls of set_format
          MaxResets     \* bound: flushes and stops

ASSUME AudioAssumption ==
    /\ MaxDequeue \in Nat \ {0}
    /\ MaxFrames \in Nat
    /\ MaxFormats \in Nat \ {0}
    /\ MaxResets \in Nat

VARIABLES
    streamLock,  \* holder of GST_AUDIO_DECODER_STREAM_LOCK
    chain,       \* where the streaming thread is
    hasFormat,   \* input_caps is set
    handled,     \* number of the last buffer that entered handle_frame
    frames,      \* the base class's pending buffers
    drain,       \* a drain: "done" (priv->drained), "due", or "running"
    dequeueSize, \* self->dequeue_size
    box,         \* the messages in the runner's queue
    runner,      \* what the runner thread does, "none" when there is none
    item,        \* the AudioData on_output works on
    cur,         \* the AudioDecoder in self->decoder, numbered from 1
    old,         \* the last one that was made by a runner thread that has ended
    jsState, jsQueue, jsOutputs, jsEvent,  \* each AudioDecoder, its chunks, its
                                           \* scheduled outputs and dequeue event
    outputCaps,  \* self->output_caps: the AudioDecoder they were made for, or 0
    app,         \* where the application is in the state changes
    resets,      \* flushes and stops so far
    fresh,       \* history: nothing was posted since the start
    dropped,     \* history: an output or a pending buffer was dropped, or chunks were
    overUnref,   \* history: finish_frame failed, and its buffer was unreferenced
    crashed      \* undefined behaviour has ended the program

chainVars  == <<chain, hasFormat, handled, fresh, drain>>
jsVars     == <<jsState, jsQueue, jsOutputs, jsEvent>>
decoderVars == <<cur, old>>
outputVars == <<item, outputCaps, dropped, overUnref>>
appVars    == <<app, resets>>
audioVars ==
    <<streamLock, chain, hasFormat, handled, frames, drain, dequeueSize, box, runner, item,
      cur, old, jsState, jsQueue, jsOutputs, jsEvent, outputCaps, app, resets, fresh,
      dropped, overUnref, crashed>>

Decoders == 1..MaxFormats
NoItem   == 0
NoBuffer == 0

AudioInit ==
    /\ streamLock = "free"
    /\ chain = "idle" /\ hasFormat = FALSE /\ handled = 0
    /\ frames = <<>> /\ drain = "done" /\ dequeueSize = 0
    /\ box = <<>> /\ runner = "loop" /\ item = NoItem
    /\ cur = 0 /\ old = 0
    /\ jsState = [g \in Decoders |-> "none"]
    /\ jsQueue = [g \in Decoders |-> <<>>]
    /\ jsOutputs = [g \in Decoders |-> <<>>]
    /\ jsEvent = [g \in Decoders |-> FALSE]
    /\ outputCaps = 0
    /\ app = "started" /\ resets = 0
    /\ fresh = TRUE /\ dropped = FALSE /\ overUnref = FALSE /\ crashed = FALSE

--------------------------------------------------------------------------------
(* Streaming thread *)

\* The base class takes the stream lock, queues the buffer and calls
\* handle_frame, which releases the lock first of all.
HandleFrame ==
    /\ chain = "idle" /\ app = "started" /\ hasFormat
    /\ handled < MaxFrames
    /\ streamLock = "free"
    /\ handled' = handled + 1
    /\ frames' = Append(frames, handled + 1)
    /\ drain' = "due"
    /\ chain' = "reserve"
    /\ UNCHANGED <<streamLock, hasFormat, fresh, dequeueSize, box, runner, decoderVars,
                   jsVars, outputVars, appVars, crashed>>

\* At the end of a stream or segment, at a gap and at a discontinuity, the base
\* class drains what came since the last drain: it calls handle_frame without a
\* buffer, which does the same.
Drain ==
    /\ chain = "idle" /\ app = "started" /\ hasFormat
    /\ drain = "due"
    /\ streamLock = "free"
    /\ drain' = "running"
    /\ chain' = "reserve"
    /\ UNCHANGED <<streamLock, hasFormat, handled, fresh, frames, dequeueSize, box, runner,
                   decoderVars, jsVars, outputVars, appVars, crashed>>

\* Under dequeue_lock: wait at the limit, or take a place.
Reserve ==
    /\ chain = "reserve"
    /\ IF dequeueSize >= MaxDequeue
       THEN chain' = "wait" /\ UNCHANGED dequeueSize
       ELSE chain' = "post" /\ dequeueSize' = dequeueSize + 1
    /\ UNCHANGED <<streamLock, hasFormat, handled, fresh, drain, frames, box, runner,
                   decoderVars, jsVars, outputVars, appVars, crashed>>

\* With the stream lock again, the decode message is posted.
PostDecode ==
    /\ chain = "post" /\ drain # "running"
    /\ streamLock = "free"
    /\ box' = Append(box, [kind |-> "decode", frame |-> handled])
    /\ fresh' = FALSE
    /\ chain' = "idle"
    /\ UNCHANGED <<streamLock, hasFormat, handled, frames, drain, dequeueSize, runner,
                   decoderVars, jsVars, outputVars, appVars, crashed>>

\* A drain posts a decode message without a buffer, and does not wait for it: the
\* base class drops every buffer that is still pending.
PostDrain ==
    /\ chain = "post" /\ drain = "running"
    /\ streamLock = "free"
    /\ box' = Append(box, [kind |-> "decode", frame |-> NoBuffer])
    /\ fresh' = FALSE
    /\ frames' = <<>> /\ dropped' = TRUE
    /\ drain' = "done"
    /\ chain' = "idle"
    /\ UNCHANGED <<streamLock, hasFormat, handled, dequeueSize, runner, decoderVars,
                   jsVars, item, outputCaps, overUnref, appVars, crashed>>

\* set_format, with the stream lock: two synchronous messages, constructor and
\* configure.
SetFormat ==
    /\ chain = "idle" /\ app = "started"
    /\ cur < MaxFormats
    /\ streamLock = "free"
    /\ streamLock' = "chain"
    /\ box' = Append(box, [kind |-> "ctor", frame |-> 0])
    /\ chain' = "ctor"
    /\ UNCHANGED <<hasFormat, handled, fresh, drain, frames, dequeueSize, runner, decoderVars,
                   jsVars, outputVars, appVars, crashed>>

SetFormatConfigure ==
    /\ chain = "ctor" /\ box = <<>>
    /\ box' = <<[kind |-> "configure", frame |-> 0]>>
    /\ chain' = "configure"
    /\ UNCHANGED <<streamLock, hasFormat, handled, fresh, drain, frames, dequeueSize, runner,
                   decoderVars, jsVars, outputVars, appVars, crashed>>

SetFormatReturn ==
    /\ chain = "configure" /\ box = <<>>
    /\ hasFormat' = TRUE
    /\ streamLock' = "free"
    /\ chain' = "idle"
    /\ UNCHANGED <<handled, fresh, drain, frames, dequeueSize, box, runner, decoderVars,
                   jsVars, outputVars, appVars, crashed>>

--------------------------------------------------------------------------------
(* Runner thread: messages *)

Receive(kind) ==
    /\ runner = "loop"
    /\ box # <<>> /\ Head(box).kind = kind
    /\ box' = Tail(box)

\* gst_web_codecs_audio_decoder_decode: AudioDecoder.decode throws unless the
\* decoder is configured, and nothing catches it. Without a buffer, the map that
\* the chunk is made from is not initialised: whatever it holds is a chunk, or
\* makes one impossible, which throws.
RunDecode ==
    /\ Receive("decode")
    /\ \/ /\ jsState[cur] = "configured"
          /\ jsQueue' = [jsQueue EXCEPT ![cur] = Append(@, Head(box).frame)]
          /\ UNCHANGED runner
       \/ /\ jsState[cur] # "configured" \/ Head(box).frame = NoBuffer
          /\ runner' = "dead" /\ UNCHANGED jsQueue
    /\ UNCHANGED <<streamLock, chainVars, frames, dequeueSize, decoderVars, jsState,
                   jsOutputs, jsEvent, outputVars, appVars, crashed>>

\* gst_web_codecs_audio_decoder_ctor: the decoder before is replaced, not
\* closed. To drop what another thread made is undefined.
RunCtor ==
    /\ Receive("ctor")
    /\ cur' = cur + 1
    /\ jsState' = [jsState EXCEPT ![cur + 1] = "unconfigured"]
    /\ crashed' \in (IF cur # 0 /\ cur = old THEN BOOLEAN ELSE {FALSE})
    /\ UNCHANGED <<streamLock, chainVars, frames, dequeueSize, runner, old, jsQueue,
                   jsOutputs, jsEvent, outputVars, appVars>>

\* gst_web_codecs_audio_decoder_configure: without channels, rate or codec_data
\* in the caps it returns early, and its result is read by nobody.
RunConfigure ==
    /\ Receive("configure")
    /\ \E complete \in BOOLEAN :
          jsState' = IF complete THEN [jsState EXCEPT ![cur] = "configured"] ELSE jsState
    /\ UNCHANGED <<streamLock, chainVars, frames, dequeueSize, runner, decoderVars,
                   jsQueue, jsOutputs, jsEvent, outputVars, appVars, crashed>>

--------------------------------------------------------------------------------
(* Runner thread: callbacks of the browser *)

\* decodeQueueSize of the AudioDecoder in self->decoder
DequeueSize == Len(jsQueue[cur])

\* Mutant: dequeue_size changes and dequeue_cond is not signalled.
SignalNobody == UNCHANGED chain

SignalDequeue == chain' = IF chain = "wait" THEN "reserve" ELSE chain

OnDequeue(g) ==
    /\ runner = "loop" /\ g > old
    /\ jsEvent[g]
    /\ jsEvent' = [jsEvent EXCEPT ![g] = FALSE]
    /\ dequeueSize' = DequeueSize
    /\ SignalDequeue
    /\ UNCHANGED <<streamLock, hasFormat, handled, fresh, drain, frames, box, runner,
                   decoderVars, jsState, jsQueue, jsOutputs, outputVars, appVars, crashed>>

\* on_output is called, and waits for the stream lock.
OnOutput(g) ==
    /\ runner = "loop" /\ g > old
    /\ jsOutputs[g] # <<>>
    /\ item' = Head(jsOutputs[g])
    /\ jsOutputs' = [jsOutputs EXCEPT ![g] = Tail(@)]
    /\ runner' = "output"
    /\ UNCHANGED <<streamLock, chainVars, frames, dequeueSize, box, decoderVars, jsState,
                   jsQueue, jsEvent, outputCaps, dropped, overUnref, appVars, crashed>>

\* An AudioData without channels or frames is dropped without the lock.
EmptyOutput(g) ==
    /\ runner = "loop" /\ g > old
    /\ jsOutputs[g] # <<>>
    /\ jsOutputs' = [jsOutputs EXCEPT ![g] = Tail(@)]
    /\ dropped' = TRUE
    /\ UNCHANGED <<streamLock, chainVars, frames, dequeueSize, box, runner, item,
                   decoderVars, jsState, jsQueue, jsEvent, outputCaps, overUnref,
                   appVars, crashed>>

\* get_format: the first AudioData since the start makes the output caps.
GetFormat == outputCaps' = IF outputCaps = 0 THEN cur ELSE outputCaps

\* negotiate fails: the caps that were made stay, and are not negotiated again.
NegotiateFails == outputCaps = 0 /\ GetFormat

\* The AudioData is dropped: its format is unknown, or downstream refuses it, or
\* its planes have no size.
DropOutput ==
    /\ runner = "output"
    /\ streamLock = "free"
    /\ NegotiateFails \/ UNCHANGED outputCaps
    /\ dropped' = TRUE
    /\ item' = NoItem
    /\ runner' = "loop"
    /\ UNCHANGED <<streamLock, chainVars, frames, dequeueSize, box, decoderVars, jsVars,
                   overUnref, appVars, crashed>>

\* Mutant: the output is worth no frame.
FinishNone == UNCHANGED frames

\* gst_audio_decoder_finish_frame (dec, buffer, 1): the oldest buffer is done;
\* with none, the base class warns.
FinishOne == frames' = IF frames = <<>> THEN frames ELSE Tail(frames)

\* The AudioData is copied to a buffer and pushed, with the stream lock.
FinishFrame ==
    /\ runner = "output"
    /\ streamLock = "free"
    /\ streamLock' = "runner"
    /\ GetFormat
    /\ FinishOne
    /\ runner' = "push"
    /\ UNCHANGED <<chainVars, dequeueSize, box, item, decoderVars, jsVars, dropped,
                   overUnref, appVars, crashed>>

\* When the push fails, on_output drops the reference that finish_frame took.
PushReturn ==
    /\ runner = "push"
    /\ \E ok \in BOOLEAN : overUnref' = (overUnref \/ ~ok)
    /\ runner' = "loop"
    /\ item' = NoItem
    /\ streamLock' = "free"
    /\ UNCHANGED <<chainVars, frames, dequeueSize, box, decoderVars, jsVars, outputCaps,
                   dropped, appVars, crashed>>

--------------------------------------------------------------------------------
(* The codec behind an AudioDecoder *)

CodecTake(g) ==
    /\ jsQueue[g] # <<>>
    /\ jsQueue' = [jsQueue EXCEPT ![g] = Tail(@)]
    /\ jsOutputs' = [jsOutputs EXCEPT ![g] = Append(@, Head(jsQueue[g]))]
    /\ jsEvent' = [jsEvent EXCEPT ![g] = TRUE]
    /\ UNCHANGED <<streamLock, chainVars, frames, dequeueSize, box, runner, decoderVars,
                   jsState, outputVars, appVars, crashed>>

\* A decoding error closes the decoder, empties its queue and calls on_error,
\* which logs.
CodecError(g) ==
    /\ jsState[g] = "configured"
    /\ jsState' = [jsState EXCEPT ![g] = "closed"]
    /\ jsEvent' = [jsEvent EXCEPT ![g] = @ \/ jsQueue[g] # <<>>]
    /\ jsQueue' = [jsQueue EXCEPT ![g] = <<>>]
    /\ dropped' = TRUE
    /\ UNCHANGED <<streamLock, chainVars, frames, dequeueSize, box, runner, decoderVars,
                   jsOutputs, item, outputCaps, overUnref, appVars, crashed>>

\* A callback of a decoder whose thread has ended enters the program from a
\* worker without a thread.
StrayCallback(g) ==
    /\ g <= old
    /\ jsOutputs[g] # <<>> \/ jsEvent[g]
    /\ crashed' = TRUE
    /\ UNCHANGED <<streamLock, chainVars, frames, dequeueSize, box, runner, decoderVars,
                   jsVars, outputVars, appVars>>

--------------------------------------------------------------------------------
(* The application *)

\* A flushing seek: flush does nothing, the base class drops its buffers.
Flush ==
    /\ chain = "idle" /\ app = "started"
    /\ streamLock = "free"
    /\ resets < MaxResets
    /\ resets' = resets + 1
    /\ frames' = <<>> /\ drain' = "done"
    /\ UNCHANGED <<streamLock, chain, hasFormat, handled, fresh, dequeueSize, box, runner,
                   decoderVars, jsVars, outputVars, app, crashed>>

\* Mutant: stop keeps the stream lock for the join.
StopLocked == streamLock = "free" /\ streamLock' = "app"

\* stop is called without the stream lock.
StopUnlocked == UNCHANGED streamLock

\* stop, with the streaming thread out of the element: the last reference of
\* the runner goes, its loop is told to quit, and the caps are forgotten.
Stop ==
    /\ chain = "idle" /\ app = "started"
    /\ resets < MaxResets
    /\ resets' = resets + 1
    /\ StopUnlocked
    /\ hasFormat' = FALSE
    /\ app' = "joining"
    /\ UNCHANGED <<chain, handled, fresh, drain, frames, dequeueSize, box, runner,
                   decoderVars, jsVars, outputVars, crashed>>

\* The runner thread leaves its loop, with the messages that are queued, and
\* stop, which has waited for it, drops the caps and returns.
RunnerEnds ==
    /\ app = "joining"
    /\ runner = "loop"
    /\ runner' = "none"
    /\ box' = <<>>
    /\ old' = cur
    /\ outputCaps' = 0
    /\ app' = "reset"
    /\ UNCHANGED <<streamLock, chainVars, frames, dequeueSize, item, cur, jsVars,
                   dropped, overUnref, resets, crashed>>

\* The base class's reset after stop.
BaseReset ==
    /\ app = "reset"
    /\ streamLock = "free"
    /\ frames' = <<>> /\ drain' = "done"
    /\ app' = "stopped"
    /\ UNCHANGED <<streamLock, chain, hasFormat, handled, fresh, dequeueSize, box, runner,
                   decoderVars, jsVars, outputVars, resets, crashed>>

\* start: a runner of its own. dequeue_size stays as it was.
Start ==
    /\ app = "stopped"
    /\ runner' = "loop"
    /\ fresh' = TRUE
    /\ app' = "started"
    /\ UNCHANGED <<streamLock, chain, hasFormat, handled, drain, frames, dequeueSize, box,
                   decoderVars, jsVars, outputVars, resets, crashed>>

--------------------------------------------------------------------------------
ChainStep ==
    \/ Reserve
    \/ PostDecode
    \/ PostDrain
    \/ SetFormatConfigure
    \/ SetFormatReturn

RunnerStep ==
    \/ RunDecode
    \/ RunCtor
    \/ RunConfigure
    \/ \E g \in Decoders : OnDequeue(g) \/ OnOutput(g) \/ EmptyOutput(g)
    \/ DropOutput
    \/ FinishFrame
    \/ PushReturn

CodecStep == \E g \in Decoders : CodecTake(g)
StopStep  == RunnerEnds \/ BaseReset

AudioNext ==
    /\ ~crashed
    /\ \/ HandleFrame
       \/ Drain
       \/ SetFormat
       \/ ChainStep
       \/ RunnerStep
       \/ CodecStep
       \/ \E g \in Decoders : CodecError(g) \/ StrayCallback(g)
       \/ Flush
       \/ Stop
       \/ StopStep
       \/ Start

AudioSpec == AudioInit /\ [][AudioNext]_audioVars

\* Threads inside a call keep going, downstream returns from a push, and the
\* codec works on what is queued. Data, seeks and state changes need not come.
AudioFairness ==
    /\ WF_audioVars(~crashed /\ ChainStep)
    /\ WF_audioVars(~crashed /\ RunnerStep)
    /\ WF_audioVars(~crashed /\ CodecStep)
    /\ WF_audioVars(~crashed /\ StopStep)

AudioFairSpec == AudioSpec /\ AudioFairness

--------------------------------------------------------------------------------
(* Correctness *)

\* Type invariant.
AudioTypeOK ==
    /\ streamLock \in {"free", "chain", "runner"}
    /\ chain \in {"idle", "reserve", "wait", "post", "ctor", "configure"}
    /\ handled \in 0..MaxFrames /\ dequeueSize \in Nat
    /\ frames \in Seq(1..MaxFrames) /\ drain \in {"done", "due", "running"}
    /\ box \in Seq([kind : {"decode", "ctor", "configure"}, frame : 0..MaxFrames])
    /\ runner \in {"none", "loop", "output", "push", "dead"}
    /\ item \in 0..MaxFrames
    /\ cur \in 0..MaxFormats /\ old \in 0..cur
    /\ jsState \in [Decoders -> {"none", "unconfigured", "configured", "closed"}]
    /\ jsQueue \in [Decoders -> Seq(0..MaxFrames)]
    /\ jsOutputs \in [Decoders -> Seq(0..MaxFrames)]
    /\ jsEvent \in [Decoders -> BOOLEAN]
    /\ outputCaps \in 0..MaxFormats
    /\ app \in {"started", "joining", "reset", "stopped"} /\ resets \in 0..MaxResets
    /\ {hasFormat, fresh, dropped, overUnref, crashed} \subseteq BOOLEAN

\* One frame per output: until an output is dropped or the element is drained,
\* flushed or stopped, an AudioData goes out in place of the very buffer it was
\* decoded from, which is what its timestamp is made of, also while a drain
\* waits for its place in the queue. (And the types.)
OutputPaired ==
    /\ AudioTypeOK
    /\ runner = "output" /\ ~dropped /\ resets = 0 /\ cur = 1
        => frames # <<>> /\ Head(frames) = item

\* handle_frame returns, once something was posted since the start and as long
\* as the runner thread lives.
HandleFrameReturns ==
    chain = "wait" /\ ~fresh ~> chain # "wait" \/ runner = "dead" \/ crashed

\* stop returns as long as the runner thread lives, wherever on_output is: the
\* thread that joins it holds nothing that it waits for.
StopReturns ==
    app = "joining" ~> app = "stopped" \/ runner = "dead" \/ crashed

--------------------------------------------------------------------------------
(* Not kept by the code *)

\* handle_frame returns after a restart too: dequeue_size survives the stop,
\* and the decoder that would bring it down does not.
RestartHandlesFrames == chain = "wait" ~> chain # "wait" \/ runner = "dead" \/ crashed

\* stop returns after a decoding error too.
StopAlwaysReturns == app = "joining" ~> app = "stopped" \/ crashed

\* What handle_frame posts for the runner to decode is a buffer.
BuffersOnly ==
    \A i \in DOMAIN box : box[i].kind = "decode" => box[i].frame # NoBuffer

\* A buffer is unreferenced once.
UnrefOnce == ~overUnref

\* Nothing that belongs to a runner thread is used after it.
RunnerOutlives == ~crashed

\* set_format, which keeps the stream lock, returns.
SetFormatReturns == chain \in {"ctor", "configure"} ~> chain = "idle" \/ runner = "dead" \/ crashed

================================================================================
