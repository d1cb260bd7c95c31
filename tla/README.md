# gst.wasm in TLA+

Specifications of the concurrent core of `gst.wasm`: the GStreamer elements of
`gst.wasm/subprojects/gst-plugins-web` that run inside a browser. The elements
are ordinary GStreamer code compiled with Emscripten, but what they drive is
not: a `VideoDecoder`, a `VideoFrame`, an `OffscreenCanvas` or a
`ReadableStream` belongs to the JavaScript realm of the worker that created it,
so every element splits its work between the GStreamer threads that call it and
a thread it must not leave. The protocols between the two are what is modelled,
model-checked and, as far as safety goes, proved for any number of elements, buffers,
sessions and limits.

Paths below are relative to `src/gst.wasm/subprojects/gst-plugins-web/`.

## The system

| Component | State | Operations | Hard behaviour |
|---|---|---|---|
| `GstWebRunner` `gst-libs/gst/web/gstwebrunner.c` | `created`, `alive`, three condition variables, a `GMainContext` and its loop | `run`, `send_message`, `send_message_async`, `finalize` | `create_lock` is handed from the starting thread to its running loop; several elements `run` one runner; synchronous senders share one condition; the loop must not be quit before it runs |
| `GstWebCodecsVideoDecoder` `gst/web/codecs/gstwebcodecsvideodecoder.cpp` | the stream lock, `dequeue_size`, `output_state`, pending frames, the `VideoDecoder` and its queues | `set_format`, `handle_frame`, `flush`, `stop`, `start`; on the runner `ctor`, `configure`, `decode`, `on_output`, `on_dequeue`, `on_error` | back-pressure counted by two threads, the stream lock wanted by both, events of a replaced decoder, errors |
| `GstWebStreamSrc` `gst/web/gstwebstreamsrc.cpp` | a queue of buffers with a byte limit, `flushing`, `in_eos`, `fetch_error`, offsets | `create`, `do_seek`, `change_state`; from JavaScript `chunk`, `eos`, `error` | one condition for both directions, a download that outlives its thread, seek and stop against it |
| `GstWebCanvas`, `gstwebutils.cpp` | the canvas of a pipeline and the runner it owns, references, the contexts of bins | `ensure_canvas`, `set_context`, context messages and queries | elements that start at once, that leave a pipeline, that drop a reference too few |
| `GstWebVideoFrame` | a `VideoFrame` behind a `GstMemory` | wrap, copy, free | only the runner thread may touch it; whoever drops the last reference waits for that thread |
| `GstWebTransferable`, `GstWebTask`, `GstWebTaskPool` | handlers per worker, a run loop per task | request and transfer of an object between workers; run, join | messages cross, workers end while others call them |
| `GstWebTransportSrc`, `GstWebStreamReaderSrc`, `GstWebFetchSrc` | a connection, its streams and pads, water marks | create and destroy the connection, accept, transfer and end streams, water mark | streams of several kinds, ended or lost, against stop, restart and finalize |
| `GstWebEmFetchSrc` | a byte range, offsets | `create`, `do_seek`, `change_state`, `set_uri` | a seek during a blocking range request |
| `GstSDL2Sink`, `gstemscripten.c` | a pool of four surfaces, one callback slot per process | `setcaps`, `show_frame`, `unlock`, `stop`; the render callback | the main thread renders while the streaming thread fills |
| `GstWebCodecsAudioDecoder` | its own runner, `dequeue_size`, `output_caps`, a decoder | as the video decoder; `start` makes the runner, `stop` ends it | what outlives the runner thread it belongs to, failures inside `on_output` |
| `gstwebcodecs.cpp`, `codecs/utils/h264.cpp` | none | `isConfigSupported` for each profile and level; registration of one element per codec | which profiles and levels are tried |
| `GstWebCanvasSink`, `GstWebCanvasSrc`, `GstWebDownload`, `GstWebUpload` | a canvas, a runner | draw, capture, copy | a synchronous message to the runner the upstream decoder pushes from |

Interaction. An element reaches a browser object by `gst_web_runner_send_message`
(blocking) or `..._async`; elements of one pipeline find a common `GstWebCanvas`
through context queries and use its runner. The browser calls back on the thread
that created the object, between two messages. Elements above them call from
the streaming thread with the stream lock taken, applications from their own.

## Modules

| Module | Models | Reads |
|---|---|---|
| `Executor` | what a runner promises, free of locks and loops: messages run one at a time, in the order of posting, once; a synchronous call returns after its message ran | the API documentation, through the public functions |
| `WebRunner` | `gstwebrunner.c` with the `GMainLoop` below it | one action per critical section |
| `WebRunnerProofs` | theorems about `WebRunner` and about `WebCodecsAudioDecoder` | |
| `WebCodecsVideoDecoder` | the video decoder element, the browser's `VideoDecoder`, the part of `GstVideoDecoder` around it | one action per call between two lock operations |
| `WebCodecsVideoDecoderProofs` | theorems about `WebCodecsVideoDecoder` and about `WebCodecs` | |
| `WebStreamSrc` | the HTTP source with the JavaScript of its downloads | one action per critical section or per turn of the JavaScript loop |
| `WebStreamSrcProofs` | theorems about `WebStreamSrc` and about `WebTransportSrc` | |
| `WebTransferable` | `gstwebtransferable.cpp`: registration, the request to the owner, the object on its way over the main thread | operators, parts of the actions of the elements that use them |
| `WebFetchSrc` | on top of it, the bin that fetches and owns a stream, its reader element, and the `GstWebTask` of a `GstWebTaskPool` the reader runs in | one action per call, message or event |
| `StreamHandover` | what a transfer promises, free of registrations and queues: an object is asked for once, and comes, at most once, to the thread that asked for it | the interface of `GstWebTransferable`, as `GstWebFetchSrc` uses it |
| `WebFetchSrcProofs` | theorems about `WebFetchSrc` | |
| `WebEmFetchSrc` | the source that asks for one range after the other, `GstBaseSrc` and the HTTP server around it | one action per step between two lock operations, one per kind of answer |
| `WebEmFetchSrcProofs` | theorems about `WebEmFetchSrc` | |
| `WebTransportSrc` | the connection, the loop that accepts its streams, pads and transfers | one action per turn of the runner's event loop, per call of the application |
| `WebCanvas` | `ensure_canvas` in elements of several bins, their canvases and references | one action per question an element asks, per context it is given |
| `WebCanvasProofs` | theorems about `WebCanvas` | |
| `WebPipeline` | decoder, `webdownload`, `webupload`, `webcanvassrc`, `webcanvassink`, a queue and `GstWebVideoFrame` on one runner, in six layouts | one action per call to the runner, await, push or lock |
| `WebPipelineProofs` | theorems about `WebPipeline` | |
| `WebCodecsAudioDecoder` | the audio decoder element, the browser's `AudioDecoder`, the part of `GstAudioDecoder` around it, the runner that comes and goes | as the video decoder |
| `WebCodecs` | the scan for H.264 decoders and the conversions that elements share | one action per question to the browser, per registration, per conversion |
| `SDL2Sink` | the sink with its surfaces, the callback slot of `gstemscripten.c`, the part of `GstBaseSink` around them | one action per access to what the two threads share |
| `SDL2SinkProofs` | theorems about `SDL2Sink` | |

**WebRunner.** `Clients` are the threads with a reference. `Run` is
`gst_web_runner_run` up to its return or wait, `WorkerStart` .. `WorkerExit` are
`gst_web_runner_run_thread` with `g_main_loop_run` opened up (raise `is_running`,
own the context or wait for it, collect the ready sources, dispatch them, look at
`is_running` again), `RunUnlock`, `RunSync`, `RunAsync` the three callbacks a
source may carry, `SendAsync`, `SendSync`/`SyncCheck` the two ways to send,
`Unref`/`Finalize`/`FinalizeRecheck` the end. A wait on a condition variable is a
state of its own and is left only by a signal; `Signal` picks any one sleeper,
`Broadcast` wakes all. `create_lock` is the only lock held across steps, so it
is the only one that is a variable. The posted and executed messages are kept as
history, and so is `overlapped`: whether a `run()` began while another one was
waiting. Spurious wake-ups are left out; the code re-checks its condition in a
loop everywhere.

**WebCodecsVideoDecoder.** The runner's queue is not a sequence here: only the
streaming thread posts, so it is the frames `decoded+1 .. Posted` followed by at
most one synchronous message, `formatMsg`. `HandleFrame`, `Reserve` and
`PostDecode` are the three parts of `handle_frame` that its two locks cut it
into. Each `set_format` makes a new `VideoDecoder` and leaves the old one with
its callbacks, so the browser side is a function of the decoder's number.
`CodecTake` (a chunk leaves the queue, an output and a dequeue event are
scheduled) and `CodecError` are the browser. The contents of frames are their
number; what is written to the caps is which decoder they were negotiated for.

**WebStreamSrc.** The thread function of a download returns once `fetch` has been
called, its worker's event loop goes on: `fetch[g]` is the JavaScript loop, and a
download may outlive a seek. Bytes are positions of a resource of `FileSize`
bytes. `do_seek` and the cleanup of `PAUSED_TO_READY` hold the object lock across
the join, which is why `lockHeld` is a variable and `flushing` is never seen.
The stop position of a seek and the text of the range header are left out.

**SDL2Sink.** Two threads: `ChainStep` is the streaming thread, `MainStep` the
thread that iterates the browser's main loop. That thread is also the
application: between two iterations it changes states and seeks, as `main()` and
the handlers of the samples do, so while a flush or a state change is under way
(`main = "unlock"` or `"flushing"`) no iteration happens. `setcaps` is three
actions, since it attaches the callback before it stores the caps and makes the
queue; that the attachment stores the function before its data, so that a callback in
between would run with the data of before, is one step here (`AttachCallback`). The callback is cut at each access to what is shared. `stop` gives the queued
surfaces back one by one (`FreeQueued`) before it closes the window (`Stopped`). A surface
is a pair
of its pool and a number, because a restart makes a second pool and forgets the
first. `raced` is history: the callback ran between the attachment and the
assignment of `info`, or `show_frame` between the window and the pool of a
restart. The pixels are the number of the frame.

**WebFetchSrc.** A session is one `READY` to `PAUSED` and back; each makes a runner,
`RunnerThread(s)`, and, once the pad is linked, a thread of a task pool,
`TaskThread(s)`. The application acts by `Start`, `Activate`, `Link`, `Stop` and what
they go through (`app` is where it is): the state change returns from `Activate` when
`create_stream` did, from `DestroyStream` when the runner ran it. The thread of the
task is in its main loop (`idle`), in `gst_web_task_execute` (`execute`) or in `create`
(`request`, `requested`, `await`). `dispatched`, `toMain` and `toWorker` are the three
queues a stream crosses: to the owner by `CreateRequest`, to the main thread by
`Transfer`, to the reader by `Relay`, out by `OnStream`; each thread takes from its
queue only while it yields. `gst_element_call_async` is the counter `resumes`, `Resume`
the thread that serves it. `stale` is history: the session began with an element
that had requested a stream in an earlier one. Chunks have no contents, and a URI
that is not set is left out: the start fails before it changes anything. `Handover`
maps the model to `StreamHandover`: `Coming` is every stream in one of the three queues
with the thread it goes to, what came is `reader`, what is owned is `stream`.

**WebEmFetchSrc.** The loop of `GstBaseSrc` holds the stream lock of the pad while its
thread is in `loop`; `CreateBegin` is `create` and `fetch_range` up to the request,
where both locks are free, `Whole`, `Partial`, `NotSatisfiable`, `Failure` are the
turns of its `switch`, `CreateEnd` is the rest of `create` with what the base class
does with the result: it drops it if it is flushing, and else counts on from the
position the loop began with (`range.at`), up to the stop. A range that wrapped leaves
`fetch_range` at once and keeps the object lock (`refused`). What the base class knows
of the size is `duration`, and that only once it was near an end it knew and asked
`get_size` (`NearEnd`, `gst_base_src_update_length`): a segment without a stop is never
ended by the base class as long as the duration is unknown, and a seek is clamped to no
size. `Seek` picks any segment, past the end and past a `gsize` too; `SeekLock` waits
for the thread as `gst_base_src_perform_seek` does, and `CreateEnd` unlocks the object
lock whoever holds it, as the code does. Bytes are positions in units of the resource;
a `gsize` is a number below `Word`. A server ignores a range that ends before it begins
(`Ignored`). In `Whole`, an empty answer to the second request is a step that changes
nothing: the code sends the same request again, without end. `crossed` is history: a
seek came while a request was under way, or after `in_eos` was set, or to a position
that a `gsize` cannot hold, and the element did not follow.

**WebTransportSrc.** The runner of the connection runs one of: `create_connection`,
which awaits `ready`, and then the callback of a `Promise.any` over the readers of the
incoming streams of each kind. A stream is its kind and its number; `streams` is the
map of the element by pad name, with what `insert` and `operator[]` make of it, and
`LookupName` is the name after the sixteen characters that `transfer` skips. `sent`,
`taken` and `nstreams` are what the server opened, what a promise brought, and what
got a pad. The water mark travels from any thread (`SetMark`, `StoreMark`,
`SendMark`). After a second start (`Restart`) objects of two workers are mixed, and the
model stops.

**WebCanvas.** Elements are sinks and codecs, each in at most one bin. `ensure_canvas` is
cut where another thread may act: after the element looked whether it has a canvas,
after each question, after it made one and before it told its bin. `context` is the
canvas a bin hands to elements that are added to it; `refs` counts references as the
code takes and drops them, so that `RefsCover` compares it with who holds the canvas.
`apart` is history: the pipelines in which two elements made one at once, or one
brought its own. Nested bins are left out.

**WebPipeline.** A layout of the samples or of `DEVELOPMENT.md` is a graph of elements
fixed in `Init`. Each thread (`R`, the runner; `Q`, the queue's; `S`, the source's) has
a `job`: where in its push it is and what memory it carries. A call to the runner is
served when its thread is in its loop, and at once when the caller is that thread
(`Serves`). An await on the runner thread gives it to other callbacks until
`Fulfilled`. A memory is a `VideoFrame` with its references, or system memory; pictures
have numbers. Sizes, timestamps, mouse events, a canvas that changes its size and the
mapping of a `VideoFrame`, which no element does, are left out.

**WebCodecsAudioDecoder.** As the video decoder, but the base class keeps the pending
buffers as a queue and is told how many an output is worth, messages of the runner are
one queue (`box`), and a stop ends the runner: `old` is the last `AudioDecoder` made by a
thread that is gone. Using it is undefined behaviour, and ends the program or does not.
`Drain` is the base class's, which calls `handle_frame` without a buffer at the end of a
stream or segment, at a gap and at a discontinuity, and drops the pending buffers when it
returns (`PostDrain`). The element does not test for NULL: it posts a decode message
without a buffer, frame 0 here, from whose uninitialised `GstMapInfo` `RunDecode` makes a
chunk, or throws.
`overUnref` is history: a buffer was unreferenced that `finish_frame` had taken.

**WebCodecs.** The two loops of the scan ask the browser for one codec string each,
three numbers here; the browser decodes nothing or one configuration with each
acceleration, which is enough since answers are only united. An `AudioDecoder` is there
or not; a browser without a `VideoDecoder`, and a promise of `isConfigSupported` that is
rejected, are left out. After the scan one
element is asked for a conversion: of a pixel format or of caps once, of audio again and
again, since `on_output` makes `outputInfo` of the first `AudioData` after a start only
and uses it for the `GstAudioMeta` of all that follow. The first may be refused by
downstream (`Refused`); `StopAudio` clears the info. `changed` is history: an `AudioData`
had another format or number of channels than the one before. Formats are their names,
sizes are numbers.

Base classes and libraries appear by what the code relies on: `GstVideoDecoder`
calls `set_format` and `handle_frame` with the stream lock and `stop` without,
`GstBaseSrc` serialises `do_seek` with `create` but not `change_state`, `GMainLoop`
dispatches in order what one iteration has collected.

## Runs

| Run | Bounds | Shows |
|---|---|---|
| `runner` | 2 clients, 2 messages each | messages have run when their sender returns, the locks are freed last, every blocked call returns, `Executor` is implemented |
| `decoder` | limit of 2, 3 frames, 2 `set_format`, 1 flush or stop | pairing of outputs and frames, termination of `handle_frame` and of `set_format` after a drain |
| `decoder_set_format` | as `decoder` | a statement of the source that its code does not keep |
| `stream` | queue of 2 bytes, 4 bytes in chunks of 1 and 3, 2 downloads, 1 seek or stop | accounting, back-pressure, order, termination of `create` |
| `sdl2` | pool of 2, 2 caps, 3 frames, 2 starts, 2 flushes or deactivations | the surfaces are conserved and rendered in order, a flush returns |
| `fetch` | 3 sessions | a reader gets its own stream, in its own thread; the task function is entered once; requests are answered, stops return; `StreamHandover` is implemented |
| `em_fetch` | sizes 0, 2 and 4, ranges of 2, blocks of 1, `gsize` below 5, 2 starts, 2 seeks, 1 `set_uri` | buffers are pushed where their bytes belong, a stream ends at its end and not before, a seek returns |
| `transport` | 2 streams of each kind, 1 requested pad, 1 link, 1 water mark | every stream is accepted once, in order, under its name; the mark is applied; no kind starves the other |
| `canvas` | 1 sink, 2 codecs, 2 bins, 4 additions | no canvas is freed under a holder; a pipeline has one |
| `pipeline` | 6 layouts, queue of 2, 4 pictures, 2 stops | `VideoFrame`s are conserved, downloads are whole, calls to the runner and stops return |
| `audio` | limit of 1, 3 buffers with a drain after any, 2 `set_format`, 2 flushes or stops | pairing of outputs and buffers, termination of `handle_frame` and `stop` |
| `codecs` | 3 channel counts, 2 lengths, 4 levels the browser may decode | the scan registers what was answered for; the conversions agree |

Every module has a `TypeOK`; where it is not a property of its own it is the first
conjunct of the first property of the run.

Why the bounds are enough. Two clients give every pair of roles the runner
distinguishes: first and second `run`, sender and finalizer, two senders on one
condition, the worker of an overlapped `run` waiting for the context of the
other; two messages give an order and a sender that blocks a second time. The
invariant is proved for all values, so these bounds carry only the liveness
property, and so it is for the safety properties of all other modules, which are proved
too. The decoder needs one frame more than its limit to sleep, and one reset
and one change of caps to leave something of the past behind. The resource of
four bytes holds a chunk larger than the queue, chunks that fill it, and a chunk
that has to wait; a second download is one that meets a stale first one. The sink
needs more frames than surfaces, so that one finds the pool empty and one reuses
a surface, a second start for the second pool, and a flush before and after one. The
fetching bin needs three sessions: one that is never linked, one that requests, and
one that begins with what the second left. Nothing else in it is bounded: what is in
flight is one object, which the run finds out and `Invariance` proves. The ranges of
`WebEmFetchSrc` need a resource with none, one and two of them, told or not, segments
that begin or end in the middle of a range, one seek that crosses a request and one
that does not, a session after another, and a word so small that the last range
wraps. A connection needs two streams of a kind for their order and two kinds for
their independence; the pad that is requested by name is one more kind. Three elements
give every pair in `ensure_canvas` and a third that comes when two have one; four
additions move an element to another pipeline and back. The queue of the pipeline is
full with two buffers, while one picture is drawn and one is on its way; two stops show
what a session leaves behind, and what a restart makes of it. The audio decoder has
three buffers for the pairing, a limit that the second one meets, or the first drain,
and two resets, for a stop after a flush. The
channel counts are mono, 5.1 and one with no positions, so that an `AudioData` can have
more or fewer channels than `outputInfo`; the proofs are for all of them. The levels are
two that are asked for, near the ends of the table, and two that are not.

`CHECK_DEADLOCK FALSE` in every run: clients may stop calling, streams end.

Fairness. `WebRunner` has weak fairness for each worker and for each client inside
a call: the operating system schedules threads, no thread is obliged to make
another call. Weak fairness is enough since a lock is only ever held for a
bounded step, `create_lock` included once its worker is in the loop.
`WebCodecsVideoDecoder` adds the codec, which works on what is queued, and
downstream, which returns from a push; nothing obliges data, errors, seeks or
state changes. `WebStreamSrc` assumes that downstream asks for buffers and that a
download that does not fail delivers; failure is never fair. `SDL2Sink` assumes
that the page is visible, so that the browser iterates the main loop, and that a
seek or a state change once begun is carried on; no frame, no caps and no seek
need to come. `WebFetchSrc` assumes that event loops handle what they have while
their thread yields, that `fetch()` settles, and that a server that has not stalled
sends something or closes; `Stall` may happen at any time. `WebEmFetchSrc` assumes that
a blocking request is answered, with `Failure` never fair, and that a seek, a stop or
a `set_uri` once begun is carried on. `WebTransportSrc` assumes that the event loop of
the runner turns and that a settled promise calls back in the end; no stream, end or
loss need come. (`Promise.any` prefers the first of its list, which could starve the
other kind only if the server opened streams of the first without end.) `WebPipeline` assumes that
threads run, that a mutex is not withheld from one of them for ever, and that the
promises of `copyTo` and `createImageBitmap` settle. `WebCodecsAudioDecoder` assumes what
`WebCodecsVideoDecoder` does, and that a stop once begun is carried on. `WebCanvas` and
`WebCodecs` have no liveness property.

## What the checks show

*Runner.* `SyncGuarantee`: a thread back from `gst_web_runner_send_message` finds
its message executed, also when two `run()` overlap. As long as they do not
overlap: `SafeFree` (the locks are freed after their last use) and `EveryCallReturns`,
and, proved and in no run, `RunServes` (who returned from `run()` has a loop that
serves it) and `QuitNotLost` (a worker never enters its loop after `finalize` quit it).
Without that proviso all but the first fail: `created` is still false while the
first `run()` waits, so a second one creates a second thread, which waits for the
context of the first. The API documentation says `run()` "should only be called
once"; that the elements of a pipeline change state one after the other is what
keeps the calls apart.

*Decoder.* `HandleFrameReturns`: `handle_frame` never sleeps for good although
`dequeue_size` is incremented by one thread and overwritten by another.
`EveryOutputHasFrame` and `OutputMatchesFrame`: until the first flush or stop every
output has a pending frame to go into, the right one if the codec keeps the
order. After a flush neither holds, the VideoDecoder is not reset: the model
reaches `NullFrame`. `DrainedFormatReturns`: `set_format` returns if the decoder owes
nothing when it is called.

*Stream.* `ByteAccounting`, with `QueueBounded` in it, holds through seeks, stops and
stale downloads, and so the count is zero only for an empty queue (`CountTellsEmpty`,
proved). For the first download, `CreateReturns`, and `BytesInOrder`: what came out of
`create` and what is queued is what the network delivered, in order and without a loss,
and the end of the stream is known only when that is the whole resource. What is then
still queued is lost all the same, as `create` tests `in_eos` before the queue
(`EosWhenDrained` fails, a finding).

*SDL2 sink.* `SurfacesConserved`: from the creation of its pool on, a surface is in
one place, also when a flush, a stop or a failed call of SDL comes in between;
`RenderedInOrder`: hence no surface is filled again before it was rendered.
`FlushReturns`: the streaming thread sleeps until the main loop makes the window, and
a seek on the main thread stops that loop until the streaming thread is out; `unlock`
is what keeps the two from waiting for each other. `FramesFit`, a part of
`SurfacesConserved`, holds but for the two races that `raced` names.

*Fetching bin.* `ReaderUsable`: `create` pauses its task until the stream is there, so
that it never reads from a reader that is undefined or was made in another worker;
`RequestServed`: the stream does come, since the thread yields after the pause.
`OneRun`: the resume cannot cross the return from `create`, since the event that
causes it is handled in the main loop, and no earlier. `OwnerGone`, proved and in no
run: the runner ends in `stop`, with what is dispatched to it. `StopReturns`: `PAUSED` to `READY` waits for the
network in `create`, which has no `unlock`, and returns if the network does anything.
Two things are not so, and are findings: a pipeline freed while its stream is in
flight has `on_stream` called for a freed reader (`NoUseAfterFree` fails; no run, as no
comment claims otherwise), and a second session reads at once from the reader of the
first, since `registered` is never reset. `ReaderUsable` says nothing of such sessions,
and `StopReturns` excludes their wait.

*Ranges.* `Complete`: the three comparisons by which the end is told hit the end of the
resource or of the segment, whatever the server tells of its size, through seeks
and restarts; `InPlace`: the offset that `create` counts and the position that the base
class counts agree. `StreamEnds`: the ranges come to an end, and so do the requests
that are repeated without an end after a refusal. `SeekReturns`: the two locks that
`create` and a seek take are never held the wrong way round. Each names what it leaves
out, and there the code goes wrong: a seek during a request adds the bytes of the old
range to the new offset and pushes the old bytes in the new segment, and after `in_eos`
it ends the stream at once (`AlwaysInPlace` fails); a seek to or past the end of a
resource of known size asks for a range that is none, is sent everything, and pushes it
past the end (`NothingPastEnd` fails); at the end of the address space a refused range
keeps the object lock while it waits for the stream lock; a request that is refused and
then answered with nothing is sent again for ever, since `request_again` stays set, and
a server that ignores ranges, and whose resource has exactly the length of one, sends
it for ever (`EveryStreamEnds` fails for both). `create` also unlocks
the object lock once too often, and so breaks into `set_uri` (`UriIntact` fails). No
comment claims otherwise, so these have no run.

*Transport.* `AcceptedInOrder` and `StreamsAccepted`: one `Promise.any` over two readers,
armed again after each stream, loses none, takes none twice and starves none, though
either kind may end at any time. `MarkApplied`: the water mark reaches the connection
whether it is set before, while or after that is made, but for a setter in the middle
of `start` (`MarkNotLost` fails). A stream is never found under the name a reader asks
with: `transfer` skips one character too many (`RightStream`, `StreamDelivered` fail).
Nothing ends the connection's callbacks when the element is freed or started again
(`NoUseAfterFree`, `ObjectsAtHome` fail).

*Canvas.* `RefsCover`: a canvas is never freed under an element or a bin that holds it.
`OneCanvas`: the elements of a pipeline share one, if no two of them looked for it at
once and none brought its own. The reverse is not so: references are lost, and the
canvas, its runner and the HTML canvas outlive the pipeline (`CanvasFreed` fails); two
elements at once make two (`OneCanvasAlways` fails); a sink that comes second may have
no HTML canvas in the worker (`SinkAlwaysDraws` fails).

*Pipeline.* `FramesConserved`: a `VideoFrame` is open exactly as long as an element, a
queue, a thread or the last sample of the sink holds it, through stops at every point.
`WholePictures`: what `webdownload` hands on was copied to the end, though the runner
does other work during the await. `CallsReturn` and `StopReturns`: nobody waits for the
runner for ever unless its thread is itself in a push that waits: for room in a queue,
for the mutex of a queue that frees its buffers, or in a preroll. There the deadlock is
real (`QueuePasses`, `QueuedStopReturns` fail): decoder, queue and sink on one runner
are exactly the pipeline of the samples with a queue added. Also: `OneAwait` (two
awaits nest on one thread), `CaptureSurvivesStop` (an assertion of `webcanvassrc` meets
a stop) and `CapsBeforeData` (its second session has no caps) fail.

*Audio decoder.* `OutputPaired`, until the first output that is dropped and the end of the
first drain; after a dropped output every output takes the place, and the timestamp, of the
one before. A drain, which every end of a stream is, does not wait for the outputs that are
still to come: they find no pending buffer. And it decodes nothing as if it were a
buffer (`BuffersOnly` fails). `HandleFrameReturns` but
for the first frame after a restart, which may wait for ever on the `dequeue_size` of
before (`RestartHandlesFrames` fails). `StopReturns`: the join of the runner thread never
waits for a thread that waits for the caller, even in the middle of `on_output`. After a
decoding error stop does not return (`StopAlwaysReturns` fails); a failed push frees a
buffer twice (`UnrefOnce` fails); the `AudioDecoder` outlives its thread
(`RunnerOutlives` fails); `set_format` deadlocks as in the video decoder.

*Registration and conversions.* `DecodersFound`: an element is registered for an
acceleration exactly if one of the questions was answered by yes. What is not asked,
four fifths of the profiles and three levels, is `EveryDecoderFound`, which fails.
`PlanesInPlace`: what is copied of an `AudioData` stays within the buffer, and as long as
none since the start differed from the one before, it is where the `GstAudioMeta` says. After
such a change the meta and the caps are still those of the first one (`MetaMatches` fails).
`DecodersFound`, `FormatsInverse`, `PlanesInPlace` and `CapsAgree` are proved.

Where a property that fails has no run, its definition stands under *Not kept by the
code*, or is named by the finding; the runs are for what holds, and for one of the
statements that do not.

*Disagreements with the source's own comments.* `PendingBounded` (the limit on
frames in flight is passed), `SetFormatReturns` (a change of caps while a frame
comes out deadlocks), `NegotiatedBeforePush` (frames pushed without or under old
caps), `NoStaleBytes` (a seek does not stop the download of before it),
`EosWhenDrained` (what is queued when the download ends is lost), `AssertionsHold`
(a sink stopped before it got caps, or given new ones, aborts the program).

## What is proved

`WebRunnerProofs`, for every set of clients and every number of messages.

- `Invariance`: `Spec => []IInv`. None of the safety properties is inductive:
  whether `created` may be trusted depends on where the worker is, that on who
  holds `create_lock`, that on who waits. `IInv` has three parts. `MsgInv` follows
  messages from the queue to the batch to the executed ones (`Fifo`), says that a
  synchronous one is posted once (`Distinct`), and that one that has not run holds
  its sender in the call (`PendingHolds`). `RefInv` says that who finalizes is alone.
  `ThreadInv`, as long as no two `run()` overlap, says what the flags, the lock and
  the context are in each phase of the one worker (`PhaseInv`), and what each
  client may rely on in each state of its calls (`ClientInv`). One lemma per part
  (`MsgNext`, `RefNext`, `ThreadNext`, `TypeNext`) shows that every step keeps it;
  the first three rest on lemmas about a message that is posted or dispatched.
- `TypeCorrect`, `SyncCorrect`, `QuitCorrect`, `ServeCorrect`, `FreeCorrect` are its
  consequences for the properties the run checks.
- `Refinement`: `Spec => ImplementsExecutor`. `waiting` is the set of clients in the
  wait of `send_message`; posting maps to `Post`, dispatching to `Execute` (by
  `Fifo` the head of the batch is the next posted message), the check that finds
  `fired` set to `Return` (by `FiredRan` and `Distinct`), everything else stutters.

`WebFetchSrcProofs`, for any number of sessions.

- `Invariance`: `Spec => []IInv`. That the reader is the right one when `create` reads
  depends on where the stream is, on who asked for it, and on where that thread is
  meanwhile. `FlightInv`: nothing is in flight, or one object is, in one place, for
  the session that requested it, which is parked (task paused or stopped, thread out
  of `create`). `ReaderInv`: the reader is undefined, or that session's, and as long
  as a resume is due that session is parked in its main loop. `UnregisteredInv`: before
  the request there is none of this. `SessionInv` ties runner, task and thread of each
  session to where the application is; `CurrentInv` says that a task that is started
  and not just requesting has its reader. Lemmas about the queues (`RequestFlies`,
  `TransferFlies`, `RelayFlies`, `EventLands`) show that an object alone in its queue
  goes to the next; one lemma per conjunct shows that every step keeps it.
- `TypeCorrect`, `ReaderCorrect`, `RunCorrect`, `OwnerCorrect` are its consequences. The
  types of the queues follow from `FlightInv`, not from the actions.
- `HandoverCorrect`: `Spec => ImplementsHandover`. `ComingIs` reads off `FlightInv` what
  is on its way. `CreateRequest` is `Ask`: by `SessionInv` the runner of a reader that asks
  has its stream, so it is this session's that comes. `Transfer` stutters, since the
  stream only changes its queue; `Relay` stutters or, with a worker that does not listen,
  is `Lose`; `OnStream` is `Deliver` where a handler listens, and by `FlightInv` the reader
  was undefined before, else `Lose`; `CreateStream` is `Own`.

`WebCodecsVideoDecoderProofs`, for every limit of the queue and every number of frames,
of changes of format and of resets.

- `Invariance`: `Spec => []IInv`. The counts of pending frames and of what is owed only
  compare if no frame is in two places: `DecodedInv` (what a `VideoDecoder` has was
  decoded), `DistinctInv` and `ItemInv` (once) follow the frames through the queues of
  all decoders, and `CountInv` compares. `OrderInv` is for one decoder that keeps the
  order: after `k` frames finished, frame `k + 1` is the oldest pending one and the next
  to come out, and the others follow it without a gap (`Follows(k)`). `QueueSteps` says
  that a step does one of five things to the queues, so that each conjunct is shown for
  five cases and not for twenty actions; `OwedStep`, that nothing is owed anew but the
  frame that `handle_frame` took.
- `OutputHasFrame` and `OutputMatches` are its consequences.

`WebStreamSrcProofs`, for every size of the queue, of the resource and of its chunks.

- `Invariance`: `Spec => []IInv`. The byte count is a difference of offsets: the buffers
  are a chain in which each begins where the one before ends (`BufferInv`), the last ends
  at `offset`, and the count is the length of the chain (`CountInv`). Stale downloads put
  other bytes in it, and no other lengths. `ChunkInv` bounds what a download holds in its
  hands; before the first reset `FirstDownload` and `FirstBytes` say that the one download
  there is reads on where the chain ends, `FirstEos` that it has read everything at the end
  of the stream.
- `AccountingCorrect`, `CountTellsEmpty` and `OrderCorrect` are its consequences. None of
  them says that the queue is emptied at the end of the stream.

`WebEmFetchSrcProofs`, for every size of a range, of a block, of a resource and of a word
that holds it.

- `Invariance`: `Spec => []IInv`. `create` counts in the object, the base class in the pad,
  and a seek changes both in several steps. `SteadyInv` says that they agree when no seek
  and no state change is under way (`Steady`) and the end was not seen, `FetchInv` that the
  range that was asked for is then still the next one, or lies past the end of the resource
  and brings all of it, `BaseInv` who holds which lock and what the base class knows of the
  size; `PastLimit` is where it ends a segment. Sums of offsets are taken modulo the word
  as in the code (`ModSmall`, `ModDifference`).
- `PlaceCorrect` and `EndCorrect` are its consequences, and are conjuncts of `IInv`. Both
  speak of the sessions in which the element followed every seek, and `PlaceCorrect` of
  positions before the end of the resource.

`WebCanvasProofs`, for every number of elements and bins.

- `Invariance`: `Spec => []IInv`. `StateInv` says in which states an element has a canvas
  and is in a bin. `RefsInv` counts the holders of a canvas; `FiberChange` says what one
  assignment does to such a count, and the steps that drop a reference rest on `Held`: what
  is held has one to drop. `SpareInv` (no more canvases than elements that had their turn)
  gives `gst_web_canvas_new` one that is not in use (`FreshIs`). `OneCanvas` is about
  elements that have started; `SharedInv` says what makes it so: in a bin that is not
  `apart`, an element that makes a canvas is alone in that, the bin and the others have
  none, and whoever has one otherwise has that of the bin.
- `RefsCorrect` and `SharedCorrect` are its consequences.

`WebPipelineProofs`, for each of the layouts, a queue of every size and any number of
pictures and stops.

- `Invariance`: `Spec => []IInv`. The code never counts up from nothing when it makes a
  `VideoFrame`: it sets one reference. That is the number of holders (`CountInv`) only if
  nobody has a buffer of that picture yet, so the proof is about where pictures are.
  `PathInv` says that what a thread does fits the element its buffer is in, and which
  thread may do it; `MemoryInv` that the memory of a buffer is one of the two of its
  picture; `DistinctInv` that a picture is in one place, `LastInv` that only the last
  sample shares it, with a buffer that is past the swap. Hence `Fresh`: a `VideoFrame`
  that is being made has no holder. `StopInv` says what every element has let go of when
  the application has passed it, and with `CountInv` gives the end of `FramesConserved`:
  after a stop nothing is open but what the runner thread still has in its hands.
- A step is one of five things for threads and queue (`StepCases`): a thread goes on with
  its buffer (`Turn`), a buffer enters or leaves the queue, the queue is drained, or all
  rest. Each part of `IInv` is shown for these, and not for thirty actions. `Holders` is a
  sum of cardinalities; `ThreadShares`, `AppendPositions`, `TailPositions` and `LastShare`
  say what one buffer adds to it.
- `FramesCorrect` and `PicturesCorrect` are its consequences.

`SDL2SinkProofs`, for pools of every size and any number of frames, caps, starts and
flushes.

- `Invariance`: `Spec => []IInv`. `SurfacesConserved` counts the occurrences of a surface
  in the free list, the queue and two hands; the lemmas say what taking from the head and
  giving back at an end do to such a count (`OneMore` and its converse). `ThreadInv` says
  what the threads hold at each step, `WindowInv` that there is at most one pool for each
  start, `FitInv` that the pool belongs to the current caps outside the two races.
  `OrderInv` says that the frames on their way are in order; it needs the conservation: a
  frame is copied into a surface that is nowhere else (`HeldIsNowhereElse`), so it
  overwrites none that still waits.
- `SurfacesCorrect` and `ScreenCorrect` are its consequences.

`WebCodecsVideoDecoderProofs`, second half, about `WebCodecs`, whose specification is
called `CodecsSpec` for that: for every set of channel counts, lengths and levels.

- `ScanCorrect`: `CodecsSpec => []DecodersFound`. `ScanInv` says how far the two loops are
  and that `supported` tells whether one of the questions so far was answered by yes;
  `ProfileTable` and `LevelTable` say what the tables ask for, `AskedIsAskable` that at the
  end this is all that was asked.
- `SamplesCorrect`: `CodecsSpec => []PlanesInPlace`. The element adds up what the browser
  says of each plane, the meta divides that by the size of a frame, and multiplies again:
  `TotalSizeIs` brings both layouts to one product, `SamplesAreFrames` divides it
  (`DivMultiple`), and `PlaneInPlace` compares the offsets. That the meta's info is that of
  the `AudioData` at hand is `InfoInv`: as long as nothing `changed`, `outputInfo` has the
  format and the channels of the last one, converted or refused.
- `FormatsCorrect` and `CapsCorrect`: over the tables, entry by entry. `OtherSteps` says that
  nothing but the conversions touches `data`.

`WebStreamSrcProofs`, second half, about `WebTransportSrc`, whose specification is called
`TransportSpec` for that: for every number of streams, pads, links and marks.

- `TransportInvariance`: `TransportSpec => []TransportIInv`. `StreamInv` says that the map of
  streams has exactly the accepted ones, and beside them what a lookup for a pad that was
  requested by name left there; `PadInv` that names are counted per kind; `StageInv` that
  streams are accepted only once the connection is open; `MarkInv` where the last water
  mark is: with its setter, in the element, or on the connection. A step keeps the streams,
  accepts one, or adds something else (`StreamSteps`: `StreamsKept`, `Accepted`, `Added`),
  and the invariant is shown for these.
- `AcceptanceCorrect` and `MarkCorrect` are its consequences for `AcceptedInOrder` and
  `MarkApplied`.

`WebRunnerProofs`, second half, about `WebCodecsAudioDecoder`, whose specification is
called `AudioSpec` for that: for every limit of the queue and any number of buffers,
formats and resets.

- `AudioInvariance`: `AudioSpec => []AudioIInv`. An output meets its own buffer only because
  the numbers of all buffers on their way form one run without a gap, which `InOrder` says:
  the pending ones begin at `First`, and from there on come the output in hand, the outputs
  of the `AudioDecoder`, its chunks, the messages of the runner, and the buffer that
  `handle_frame` is about to post. Every step moves one border of the run by one
  (`RunAppend`, `RunTail`). It holds as long as it is `Quiet`: no output dropped, no drain
  at its end, no reset, one `AudioDecoder`, a runner that lives; `QuietBefore` says that this
  ends once. `BoxInv`
  says that the runner's queue has decode messages and behind them at most the message of
  `set_format`, `MadeInv` that an `AudioDecoder` not made yet has nothing, `ResetInv` that a
  stop is a reset.
- `OutputsCorrect` is its consequence for `OutputPaired`.

The assumptions are `RunnerAssumption` (`None` is not a client), `FetchAssumption`
(there are sessions, and two threads for each), `DecoderAssumption` and
`StreamAssumption` (the limits are positive), `EmFetchAssumption` (a word holds the size
of every resource), `CanvasAssumption` (finitely many elements, each a sink or a codec, and
bins, of which `None` is none), `SinkAssumption` and `PipelineAssumption` (a pool, a queue
has a place, the layouts are those listed), `CodecsAssumption` (counts are positive),
`TransportAssumption` (the bounds are numbers) and `AudioAssumption` (the limit and the
number of formats are positive). Liveness is model-checked only, here and everywhere: the
prover has no reasoning about fairness.

## Plan

All modules of the plan are written: `WebRunner` with `Executor`, the two decoders,
`WebStreamSrc`, `SDL2Sink`, `WebEmFetchSrc`, `WebFetchSrc` on `WebTransferable`,
`WebTransportSrc`, `WebCanvas`, `WebPipeline`, `WebCodecs`, and every invariant that a run
checks is proved, and so are both refinements, of `Executor` and of `StreamHandover`.

## Not modelled

- The live reader of datagrams (`gstwebstreamreadersrc.cpp`), whose `create` the base
  class may call a second time while the first waits.
- The mapping of a `VideoFrame` by its memory (`gst_memory_map`): no element of the
  repository maps one. The sizes that `copyTo` is told, and timestamps.
- Mouse events of the canvas sink, which become navigation events without any state,
  and a canvas that changes its size under `webcanvassrc`.
- `handle_context_query`: the base classes answer pad queries themselves, so it is never
  reached. Bins in bins.
- Plugin registration (`gst/web/gstweb.c`: calls without state), the samples, and the
  build recipes and patches, which are no program of their own.
