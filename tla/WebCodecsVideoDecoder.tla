------------------------- MODULE WebCodecsVideoDecoder -------------------------
(***************************************************************************)
(* GstWebCodecsVideoDecoder (gst/web/codecs/gstwebcodecsvideodecoder.cpp): *)
(* a GstVideoDecoder that hands the encoded frames to the browser's        *)
(* VideoDecoder, on the runner thread of the canvas, and pushes the        *)
(* VideoFrames it gets back, on that same thread.                          *)
(*                                                                         *)
(* Four parties interleave: the streaming thread (set_format and           *)
(* handle_frame, called by the base class), the runner thread (messages of *)
(* the element and callbacks of the browser, one at a time), the codec     *)
(* behind the VideoDecoder, and the application (flush, stop, start).      *)
(*                                                                         *)
(* Frames are numbered in the order they enter handle_frame. Only the      *)
(* streaming thread posts messages, the runner serves them in order, and a *)
(* synchronous one is the last while its caller waits: the runner's queue  *)
(* is the frames decoded+1 .. Posted, then formatMsg.                      *)
(***************************************************************************)
EXTENDS Integers, Sequences, FiniteSets, SequencesExt

CONSTANTS MaxDequeue,   \* GST_WEB_CODECS_VIDEO_DECODER_MAX_DEQUEUE, 32
          MaxFrames,    \* bound: frames that enter the element
          MaxFormats,   \* bound: calls of set_format
          MaxResets     \* bound: flushes and stops

ASSUME DecoderAssumption ==
    /\ MaxDequeue \in Nat \ {0}
    /\ MaxFrames \in Nat
    /\ MaxFormats \in Nat \ {0}
    /\ MaxResets \in Nat

VARIABLES
    streamLock,   \* holder of GST_VIDEO_DECODER_STREAM_LOCK
    chain,        \* where the streaming thread is
    hasFormat,    \* input_state is set
    handled,      \* number of the last frame that entered handle_frame
    frames,       \* the base class's pending frames
    dequeueSize,  \* self->dequeue_size
    decoded,      \* number of the last frame whose decode message has run
    formatMsg,    \* the synchronous message in the runner's queue
    runner,       \* what the runner thread does
    item,         \* the VideoFrame on_output works on
    cur,          \* the VideoDecoder in self->decoder, numbered from 1
    jsState,      \* state of each VideoDecoder
    jsQueue,      \* chunks in its queue; decodeQueueSize is the length
    jsOutputs,    \* output callbacks scheduled
    jsEvent,      \* is its dequeue event scheduled?
    outputState,  \* self->output_state: the VideoDecoder it was made for, or 0
    caps,         \* the one downstream accepted caps for, or 0
    element,      \* where the application is in the state changes
    resets,       \* flushes and stops so far
    reordered     \* history: did a codec output out of decoding order?

jsVars    == <<jsState, jsQueue, jsOutputs, jsEvent>>
chainVars == <<chain, hasFormat, handled>>
negotVars == <<outputState, caps>>
appVars   == <<element, resets>>
vars == <<streamLock, chain, hasFormat, handled, frames, dequeueSize, decoded,
          formatMsg, runner, item, cur, jsState, jsQueue, jsOutputs, jsEvent,
          outputState, caps, element, resets, reordered>>

Decoders == 1..MaxFormats
Frame    == 1..MaxFrames
NoItem   == [gen |-> 0, output |-> 0]

\* The last frame whose decode message was posted.
Posted == IF chain \in {"reserve", "wait", "post"} THEN handled - 1 ELSE handled

\* Mutant: gst_video_decoder_get_frame of the last one.
Newest == CHOOSE f \in frames : \A e \in frames : f >= e

\* The oldest pending frame.
Oldest == CHOOSE f \in frames : \A e \in frames : f <= e

Init ==
    /\ streamLock = "free"
    /\ chain = "idle"
    /\ hasFormat = FALSE
    /\ handled = 0
    /\ frames = {}
    /\ dequeueSize = 0
    /\ decoded = 0
    /\ formatMsg = "none"
    /\ runner = "idle"
    /\ item = NoItem
    /\ cur = 0
    /\ jsState = [g \in Decoders |-> "none"]
    /\ jsQueue = [g \in Decoders |-> <<>>]
    /\ jsOutputs = [g \in Decoders |-> <<>>]
    /\ jsEvent = [g \in Decoders |-> FALSE]
    /\ outputState = 0
    /\ caps = 0
    /\ element = "started"
    /\ resets = 0
    /\ reordered = FALSE

--------------------------------------------------------------------------------
(* Streaming thread: handle_frame *)

\* The base class takes the stream lock, queues the frame and calls
\* handle_frame, which releases the lock first of all.
HandleFrame ==
    /\ chain = "idle"
    /\ element = "started"
    /\ hasFormat
    /\ handled < MaxFrames
    /\ streamLock = "free"
    /\ handled' = handled + 1
    /\ frames' = frames \cup {handled + 1}
    /\ chain' = "reserve"
    /\ UNCHANGED <<streamLock, hasFormat, dequeueSize, decoded, formatMsg, runner,
                   item, cur, jsVars, negotVars, appVars, reordered>>

\* Under dequeue_lock: wait at the limit, or take a place.
Reserve ==
    /\ chain = "reserve"
    /\ IF dequeueSize >= MaxDequeue
       THEN /\ chain' = "wait"
            /\ UNCHANGED dequeueSize
       ELSE /\ chain' = "post"
            /\ dequeueSize' = dequeueSize + 1
    /\ UNCHANGED <<streamLock, hasFormat, handled, frames, decoded, formatMsg,
                   runner, item, cur, jsVars, negotVars, appVars, reordered>>

\* The stream lock is taken again, the decode message posted, and the lock
\* released by the base class.
PostDecode ==
    /\ chain = "post"
    /\ streamLock = "free"
    /\ chain' = "idle"
    /\ UNCHANGED <<streamLock, hasFormat, handled, frames, dequeueSize, decoded,
                   formatMsg, runner, item, cur, jsVars, negotVars, appVars, reordered>>

--------------------------------------------------------------------------------
(* Streaming thread: set_format, called with the stream lock taken *)

SetFormat ==
    /\ chain = "idle"
    /\ element = "started"
    /\ cur < MaxFormats
    /\ streamLock = "free"
    /\ streamLock' = "stream"
    /\ formatMsg' = "ctor"
    /\ chain' = "format_ctor"
    /\ UNCHANGED <<hasFormat, handled, frames, dequeueSize, decoded, runner, item,
                   cur, jsVars, negotVars, appVars, reordered>>

SetFormatConfigure ==
    /\ chain = "format_ctor"
    /\ formatMsg = "none"
    /\ formatMsg' = "configure"
    /\ chain' = "format_configure"
    /\ UNCHANGED <<streamLock, hasFormat, handled, frames, dequeueSize, decoded,
                   runner, item, cur, jsVars, negotVars, appVars, reordered>>

SetFormatReturn ==
    /\ chain = "format_configure"
    /\ formatMsg = "none"
    /\ hasFormat' = TRUE
    /\ streamLock' = "free"
    /\ chain' = "idle"
    /\ UNCHANGED <<handled, frames, dequeueSize, decoded, formatMsg, runner, item,
                   cur, jsVars, negotVars, appVars, reordered>>

--------------------------------------------------------------------------------
(* Runner thread: messages *)

\* gst_web_codecs_video_decoder_decode. VideoDecoder.decode throws unless the
\* decoder is configured, and nothing catches it: the loop is unwound.
RunDecode ==
    /\ runner = "idle"
    /\ decoded < Posted
    /\ decoded' = decoded + 1
    /\ IF cur # 0 /\ jsState[cur] = "configured"
       THEN /\ jsQueue' = [jsQueue EXCEPT ![cur] = Append(@, decoded + 1)]
            /\ UNCHANGED runner
       ELSE /\ runner' = "dead"
            /\ UNCHANGED jsQueue
    /\ UNCHANGED <<streamLock, chainVars, frames, dequeueSize, formatMsg, item, cur,
                   jsState, jsOutputs, jsEvent, negotVars, appVars, reordered>>

\* Mutant: the callback takes the stream lock, to negotiate.
RunFormatLocked(msg) ==
    /\ runner = "idle"
    /\ formatMsg = msg
    /\ decoded = Posted
    /\ streamLock = "free"
    /\ formatMsg' = "none"

\* A synchronous message comes up, and its caller is let go when it has run.
RunFormat(msg) ==
    /\ runner = "idle"
    /\ formatMsg = msg
    /\ decoded = Posted
    /\ formatMsg' = "none"

\* gst_web_codecs_video_decoder_ctor: the previous VideoDecoder is replaced,
\* not closed, and keeps its callbacks.
RunCtor ==
    /\ RunFormat("ctor")
    /\ cur' = cur + 1
    /\ jsState' = [jsState EXCEPT ![cur + 1] = "unconfigured"]
    /\ UNCHANGED <<streamLock, chainVars, frames, dequeueSize, decoded, runner, item,
                   jsQueue, jsOutputs, jsEvent, negotVars, appVars, reordered>>

\* gst_web_codecs_video_decoder_configure: without codec_data in the caps it
\* returns early, and its result is read by nobody.
RunConfigure ==
    /\ RunFormat("configure")
    /\ \E hasCodecData \in BOOLEAN :
          jsState' = IF hasCodecData
                     THEN [jsState EXCEPT ![cur] = "configured"]
                     ELSE jsState
    /\ UNCHANGED <<streamLock, chainVars, frames, dequeueSize, decoded, runner, item,
                   cur, jsQueue, jsOutputs, jsEvent, negotVars, appVars, reordered>>

--------------------------------------------------------------------------------
(* Runner thread: callbacks of the browser *)

\* Mutants: the frame just taken is taken off, or counts still.
DequeueOneLess == Len(jsQueue[cur]) - 1
DequeueOneMore == Len(jsQueue[cur]) + 1

\* decodeQueueSize of the VideoDecoder in self->decoder
DequeueSize == Len(jsQueue[cur])

\* Mutant: dequeue_size changes and dequeue_cond is not signalled.
SignalNobody == UNCHANGED chain

\* g_cond_signal on dequeue_cond, where only handle_frame waits
SignalDequeue == chain' = IF chain = "wait" THEN "reserve" ELSE chain

\* on_dequeue: the length of the queue of the decoder in self->decoder
\* replaces the count, and the condition is signalled.
OnDequeue(g) ==
    /\ runner = "idle"
    /\ jsEvent[g]
    /\ jsEvent' = [jsEvent EXCEPT ![g] = FALSE]
    /\ dequeueSize' = DequeueSize
    /\ SignalDequeue
    /\ UNCHANGED <<streamLock, hasFormat, handled, frames, decoded, formatMsg, runner,
                   item, cur, jsState, jsQueue, jsOutputs, negotVars, appVars, reordered>>

\* on_output is called with the i-th VideoFrame of decoder g and waits for
\* the stream lock; i > 1 when the codec reorders.
OnOutput(g, i) ==
    /\ runner = "idle"
    /\ i \in 1..Len(jsOutputs[g])
    /\ item' = [gen |-> g, output |-> jsOutputs[g][i]]
    /\ jsOutputs' = [jsOutputs EXCEPT ![g] =
                        SubSeq(@, 1, i - 1) \o SubSeq(@, i + 1, Len(@))]
    /\ runner' = "output"
    /\ reordered' = (reordered \/ i > 1)
    /\ UNCHANGED <<streamLock, chainVars, frames, dequeueSize, decoded, formatMsg, cur,
                   jsState, jsQueue, jsEvent, negotVars, appVars>>

\* get_format and negotiate, on the first output after a start: the format is
\* not known, or downstream refuses it, or it is agreed.
GetFormat ==
    \/ UNCHANGED negotVars
    \/ outputState' = item.gen /\ UNCHANGED caps
    \/ outputState' = item.gen /\ caps' = item.gen

\* on_output with the stream lock: the VideoFrame goes into the oldest pending
\* frame, which finish_frame takes from the list and pushes downstream.
FinishFrame ==
    /\ runner = "output"
    /\ streamLock = "free"
    /\ frames # {}
    /\ streamLock' = "runner"
    /\ IF outputState = 0 THEN GetFormat ELSE UNCHANGED negotVars
    /\ frames' = frames \ {Oldest}
    /\ runner' = "push"
    /\ UNCHANGED <<chainVars, dequeueSize, decoded, formatMsg, item, cur, jsVars,
                   appVars, reordered>>

\* No frame is pending: get_oldest_frame returns NULL and on_output reads and
\* writes through it.
NullFrame ==
    /\ runner = "output"
    /\ streamLock = "free"
    /\ frames = {}
    /\ runner' = "dead"
    /\ UNCHANGED <<streamLock, chainVars, frames, dequeueSize, decoded, formatMsg, item,
                   cur, jsVars, negotVars, appVars, reordered>>

\* Downstream returns from the push.
PushReturn ==
    /\ runner = "push"
    /\ runner' = "idle"
    /\ item' = NoItem
    /\ streamLock' = "free"
    /\ UNCHANGED <<chainVars, frames, dequeueSize, decoded, formatMsg, cur, jsVars,
                   negotVars, appVars, reordered>>

--------------------------------------------------------------------------------
(* The codec behind a VideoDecoder *)

\* A chunk leaves the queue, and its picture is scheduled for output.
CodecTake(g) ==
    /\ jsQueue[g] # <<>>
    /\ jsQueue' = [jsQueue EXCEPT ![g] = Tail(@)]
    /\ jsOutputs' = [jsOutputs EXCEPT ![g] = Append(@, Head(jsQueue[g]))]
    /\ jsEvent' = [jsEvent EXCEPT ![g] = TRUE]
    /\ UNCHANGED <<streamLock, chainVars, frames, dequeueSize, decoded, formatMsg,
                   runner, item, cur, jsState, negotVars, appVars, reordered>>

\* Mutant: on_error drops the pending frames.
DropPending == frames' = {}

\* gst_web_codecs_video_decoder_on_error: "TODO handle this"
OnError == UNCHANGED frames

\* A decoding error closes the decoder, empties its queue and calls on_error.
CodecError(g) ==
    /\ jsState[g] = "configured"
    /\ jsState' = [jsState EXCEPT ![g] = "closed"]
    /\ jsEvent' = [jsEvent EXCEPT ![g] = @ \/ jsQueue[g] # <<>>]
    /\ jsQueue' = [jsQueue EXCEPT ![g] = <<>>]
    /\ OnError
    /\ UNCHANGED <<streamLock, chainVars, dequeueSize, decoded, formatMsg,
                   runner, item, cur, jsOutputs, negotVars, appVars, reordered>>

--------------------------------------------------------------------------------
(* The application *)

\* A flushing seek: flush() leaves the VideoDecoder alone, and the base class
\* drops its pending frames.
Flush ==
    /\ chain = "idle"
    /\ element = "started"
    /\ streamLock = "free"
    /\ resets < MaxResets
    /\ resets' = resets + 1
    /\ frames' = {}
    /\ UNCHANGED <<streamLock, chainVars, dequeueSize, decoded, formatMsg, runner, item,
                   cur, jsVars, negotVars, element, reordered>>

\* stop(), with the streaming thread out of the element and without the
\* stream lock. The VideoDecoder stays, and so does dequeue_size.
Stop ==
    /\ chain = "idle"
    /\ element = "started"
    /\ resets < MaxResets
    /\ resets' = resets + 1
    /\ hasFormat' = FALSE
    /\ outputState' = 0
    /\ element' = "stopping"
    /\ UNCHANGED <<streamLock, chain, handled, frames, dequeueSize, decoded, formatMsg,
                   runner, item, cur, jsVars, caps, reordered>>

\* The base class's reset after stop().
BaseReset ==
    /\ element = "stopping"
    /\ streamLock = "free"
    /\ frames' = {}
    /\ element' = "stopped"
    /\ UNCHANGED <<streamLock, chainVars, dequeueSize, decoded, formatMsg, runner, item,
                   cur, jsVars, negotVars, resets, reordered>>

\* start(): the runner already runs, run() returns at once.
Start ==
    /\ element = "stopped"
    /\ element' = "started"
    /\ UNCHANGED <<streamLock, chainVars, frames, dequeueSize, decoded, formatMsg,
                   runner, item, cur, jsVars, negotVars, resets, reordered>>

--------------------------------------------------------------------------------
\* Steps of the streaming thread inside a call.
ChainStep ==
    \/ Reserve
    \/ PostDecode
    \/ SetFormatConfigure
    \/ SetFormatReturn

RunnerStep ==
    \/ RunDecode
    \/ RunCtor
    \/ RunConfigure
    \/ \E g \in Decoders : OnDequeue(g)
    \/ \E g \in Decoders : \E i \in Frame : OnOutput(g, i)
    \/ FinishFrame
    \/ NullFrame
    \/ PushReturn

CodecStep == \E g \in Decoders : CodecTake(g)

Next ==
    \/ HandleFrame
    \/ SetFormat
    \/ ChainStep
    \/ RunnerStep
    \/ CodecStep
    \/ \E g \in Decoders : CodecError(g)
    \/ Flush
    \/ Stop
    \/ BaseReset
    \/ Start

Spec == Init /\ [][Next]_vars

\* Threads inside a call keep going, downstream returns from a push, and the
\* codec works on what is queued. Data, seeks and state changes need not come.
Fairness ==
    /\ WF_vars(ChainStep)
    /\ WF_vars(RunnerStep)
    /\ WF_vars(CodecStep)
    /\ WF_vars(BaseReset)

FairSpec == Spec /\ Fairness

--------------------------------------------------------------------------------
(* Correctness *)

\* Type invariant.
TypeOK ==
    /\ streamLock \in {"free", "stream", "runner"}
    /\ chain \in {"idle", "reserve", "wait", "post", "format_ctor",
                  "format_configure"}
    /\ hasFormat \in BOOLEAN
    /\ handled \in Nat /\ decoded \in Nat /\ resets \in Nat
    /\ frames \subseteq Nat
    /\ dequeueSize \in Nat
    /\ formatMsg \in {"none", "ctor", "configure"}
    /\ runner \in {"idle", "output", "push", "dead"}
    /\ item \in [gen : 0..MaxFormats, output : Nat]
    /\ cur \in 0..MaxFormats
    /\ jsState \in [Decoders -> {"none", "unconfigured", "configured", "closed"}]
    /\ jsQueue \in [Decoders -> Seq(Nat)]
    /\ jsOutputs \in [Decoders -> Seq(Nat)]
    /\ jsEvent \in [Decoders -> BOOLEAN]
    /\ outputState \in 0..MaxFormats /\ caps \in 0..MaxFormats
    /\ element \in {"started", "stopping", "stopped"}
    /\ reordered \in BOOLEAN

\* handle_frame returns, as long as the runner thread lives.
HandleFrameReturns ==
    chain = "wait" ~> chain # "wait" \/ runner = "dead"

\* The frames the element has taken and the VideoDecoder still owes.
Owed ==
    (decoded + 1 .. handled)
    \cup (UNION {ToSet(jsQueue[g]) \cup ToSet(jsOutputs[g]) : g \in Decoders})
    \cup (IF runner = "output" THEN {item.output} ELSE {})

\* Whatever the codec reorders, fails or replaces: while nothing was flushed or
\* stopped, every VideoFrame still owed has a pending frame to go into, so
\* on_output never meets the NULL of get_oldest_frame. (And the types.)
EveryOutputHasFrame ==
    /\ TypeOK
    /\ resets = 0 => Cardinality(frames) >= Cardinality(Owed)

\* Of one VideoDecoder that outputs in decoding order, every VideoFrame goes
\* into the frame it was decoded from: on_output pairs by age, not by timestamp.
OutputMatchesFrame ==
    runner = "output" /\ ~reordered /\ cur = 1 /\ resets = 0
        => frames # {} /\ Oldest = item.output

\* set_format returns when the VideoDecoder owes nothing as it begins: a drain
\* before a change of caps is enough to exclude the deadlock of SetFormatReturns.
DrainedFormatReturns ==
    chain = "format_ctor" /\ Owed = {} ~> chain = "idle" \/ runner = "dead"

--------------------------------------------------------------------------------
(* What comments of the source say, and the code does not do *)

\* "Amount of the output frames pending to be dequeued" (the header on
\* dequeue_size), held below MAX_DEQUEUE by handle_frame: the frames posted
\* and not taken by the codec never exceed the limit.
PendingBounded ==
    \A g \in Decoders : Posted - decoded + Len(jsQueue[g]) <= MaxDequeue

\* "We can not keep the stream lock taken here and when the decoder outputs
\* frames" (handle_frame): set_format, which keeps it, returns all the same.
SetFormatReturns ==
    chain \in {"format_ctor", "format_configure"} ~> chain = "idle" \/ runner = "dead"

\* "In this moment we have already negotiated downstream, we can safely push
\* buffers" (on_output): a VideoFrame is pushed under the caps of its decoder.
NegotiatedBeforePush ==
    runner = "push" => caps = item.gen

================================================================================
