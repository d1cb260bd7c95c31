------------------------------ MODULE WebStreamSrc ------------------------------
(***************************************************************************)
(* GstWebStreamSrc (gst/web/gstwebstreamsrc.cpp): an HTTP source. Each     *)
(* download is a JavaScript loop on a worker of its own that hands the     *)
(* chunks it reads to a queue of at most queue_max_size bytes, from which  *)
(* the streaming thread takes them in create(). Queue, flags and counters  *)
(* are under the object lock; one condition variable, qcond, serves the    *)
(* readers and the writers of the queue, and is only ever signalled.       *)
(*                                                                         *)
(* The thread function of a download returns as soon as the fetch has      *)
(* begun, so joining it waits for nothing: the loop lives on in the event  *)
(* loop of the worker, and stops only when chunk() asks it to.             *)
(***************************************************************************)
EXTENDS Integers, Sequences, SequencesExt

CONSTANTS QueueMaxSize,   \* the initial queue_max_size, 1 MiB in the code
          FileSize,       \* bytes in the resource
          ChunkSizes,     \* sizes the network cuts chunks into
          MaxFetches,     \* bound: downloads begun
          MaxResets       \* bound: seeks and stops

ASSUME StreamAssumption ==
    /\ QueueMaxSize \in Nat \ {0}
    /\ FileSize \in Nat
    /\ ChunkSizes \subseteq Nat \ {0}
    /\ MaxFetches \in Nat
    /\ MaxResets \in Nat

VARIABLES
    lockHeld,     \* is the object lock held across steps, by cleanup?
    flushing,     \* self->flushing
    inEos,        \* self->in_eos
    fetchError,   \* self->fetch_error is set
    q,            \* self->q
    queueMax,     \* self->queue_max_size
    accumulated,  \* self->accumulated_data_size
    thread,       \* self->fetch_thread: the download it began, or 0
    start,        \* self->download_start
    offset,       \* self->download_offset
    create,       \* where the streaming thread is
    last,         \* the last buffer create() returned
    app,          \* where the application thread is
    resets,       \* seeks and stops so far
    fetches,      \* downloads begun so far
    fetch,        \* what each download does
    pos,          \* the next byte of the resource each download reads
    size          \* the chunk each download has in hand

queueVars == <<q, queueMax, accumulated>>
flagVars  == <<flushing, inEos, fetchError>>
rangeVars == <<start, offset>>
fetchVars == <<fetches, fetch, pos, size>>
vars == <<lockHeld, flushing, inEos, fetchError, q, queueMax, accumulated, thread,
          start, offset, create, last, app, resets, fetches, fetch, pos, size>>

Fetches == 1..MaxFetches

\* The states of the application in which the base class may call create().
Live == {"playing", "stop", "deactivate"}

\* The states of a download that waits for the network.
Reading == {"requested", "reading"}

\* A buffer: the download it came from, the byte of the resource it begins at,
\* its size, and the offset it is given.
Buffer == [from : Fetches, at : Nat, size : Nat, offset : Int]
NoBuffer == [from |-> 0, at |-> 0, size |-> 0, offset |-> 0]

Init ==
    /\ lockHeld = FALSE
    /\ flushing = FALSE
    /\ inEos = FALSE
    /\ fetchError = FALSE
    /\ q = <<>>
    /\ queueMax = QueueMaxSize
    /\ accumulated = 0
    /\ thread = 0
    /\ start = -1
    /\ offset = 0
    /\ create = "out"
    /\ last = NoBuffer
    /\ app = "playing"
    /\ resets = 0
    /\ fetches = 0
    /\ fetch = [g \in Fetches |-> "none"]
    /\ pos = [g \in Fetches |-> 0]
    /\ size = [g \in Fetches |-> 0]

\* g_cond_signal on qcond, with the state each thread is left in otherwise:
\* one of the sleepers, create() or a download in chunk(), goes on to re-check.
SignalTo(create1, fetch1) ==
    LET writers == {g \in Fetches : fetch1[g] = "asleep"}
    IN  \/ create1 = "asleep" /\ create' = "check" /\ fetch' = fetch1
        \/ \E g \in writers :
              create' = create1 /\ fetch' = [fetch1 EXCEPT ![g] = "chunk"]
        \/ create1 # "asleep" /\ writers = {} /\ create' = create1 /\ fetch' = fetch1

--------------------------------------------------------------------------------
(* Streaming thread: create *)

\* Before the lock: in_eos and flushing are read, and a download begun.
CreateAtEos ==
    /\ create = "out" /\ app \in Live
    /\ inEos
    /\ create' = "ended"
    /\ UNCHANGED <<lockHeld, flagVars, queueVars, thread, rangeVars, last, app,
                   resets, fetchVars>>

CreateFlushing ==
    /\ create = "out" /\ app \in Live
    /\ ~inEos /\ flushing
    /\ create' = "ended"
    /\ UNCHANGED <<lockHeld, flagVars, queueVars, thread, rangeVars, last, app,
                   resets, fetchVars>>

CreateBegin ==
    /\ create = "out" /\ app \in Live
    /\ ~inEos /\ ~flushing
    /\ \/ /\ thread = 0
          /\ fetches < MaxFetches
          /\ fetches' = fetches + 1
          /\ thread' = fetches + 1
          /\ fetch' = [fetch EXCEPT ![fetches + 1] = "created"]
       \/ /\ thread # 0
          /\ UNCHANGED <<fetches, thread, fetch>>
    /\ create' = "check"
    /\ UNCHANGED <<lockHeld, flagVars, queueVars, rangeVars, last, app, resets,
                   pos, size>>

\* Nothing to return: wait on qcond.
CreateSleep ==
    /\ create = "check" /\ ~lockHeld
    /\ accumulated = 0 /\ ~fetchError /\ ~inEos
    /\ create' = "asleep"
    /\ UNCHANGED <<lockHeld, flagVars, queueVars, thread, rangeVars, last, app,
                   resets, fetchVars>>

CreateError ==
    /\ create = "check" /\ ~lockHeld
    /\ fetchError
    /\ fetchError' = FALSE
    /\ create' = "ended"
    /\ UNCHANGED <<lockHeld, flushing, inEos, queueVars, thread, rangeVars, last, app,
                   resets, fetchVars>>

\* The queue is empty and there was no error: it is the end of the stream.
CreateDrained ==
    /\ create = "check" /\ ~lockHeld
    /\ ~fetchError /\ q = <<>> /\ inEos
    /\ create' = "ended"
    /\ UNCHANGED <<lockHeld, flagVars, queueVars, thread, rangeVars, last, app,
                   resets, fetchVars>>

\* Mutant: g_queue_pop_tail for g_queue_pop_head.
CreatePopTail ==
    /\ create = "check" /\ ~lockHeld
    /\ ~fetchError /\ q # <<>>
    /\ q' = Front(q)
    /\ last' = Last(q)
    /\ accumulated' = accumulated - Last(q).size
    /\ SignalTo("out", fetch)
    /\ UNCHANGED <<lockHeld, flagVars, queueMax, thread, rangeVars, app, resets,
                   fetches, pos, size>>

CreatePop ==
    /\ create = "check" /\ ~lockHeld
    /\ ~fetchError /\ q # <<>>
    /\ q' = Tail(q)
    /\ last' = Head(q)
    /\ accumulated' = accumulated - Head(q).size
    /\ SignalTo("out", fetch)
    /\ UNCHANGED <<lockHeld, flagVars, queueMax, thread, rangeVars, app, resets,
                   fetches, pos, size>>

--------------------------------------------------------------------------------
(* The downloads: the JavaScript of gst_web_stream_fetch and its callbacks *)

\* The thread function: the range of the request is read, and it is sent.
FetchBegin(g) ==
    /\ fetch[g] = "created"
    /\ fetch' = [fetch EXCEPT ![g] = "requested"]
    /\ pos' = [pos EXCEPT ![g] = IF start = -1 THEN 0 ELSE start]
    /\ UNCHANGED <<lockHeld, flagVars, queueVars, thread, rangeVars, create, last, app,
                   resets, fetches, size>>

\* gst_web_stream_src_error: fetch() itself was rejected.
FetchRejected(g) ==
    /\ fetch[g] = "requested" /\ ~lockHeld
    /\ fetchError' = TRUE
    /\ SignalTo(create, [fetch EXCEPT ![g] = "closed"])
    /\ UNCHANGED <<lockHeld, flushing, inEos, queueVars, thread, rangeVars, last, app,
                   resets, fetches, pos, size>>

\* reader.read() fails inside the stream's start(): no callback hears of it.
ReadFails(g) ==
    /\ fetch[g] \in Reading
    /\ fetch' = [fetch EXCEPT ![g] = "broken"]
    /\ UNCHANGED <<lockHeld, flagVars, queueVars, thread, rangeVars, create, last, app,
                   resets, fetches, pos, size>>

\* reader.read() gives a chunk, and chunk() is called with it.
ReadChunk(g) ==
    /\ fetch[g] \in Reading
    /\ \E n \in ChunkSizes :
          /\ pos[g] + n <= FileSize
          /\ size' = [size EXCEPT ![g] = n]
    /\ fetch' = [fetch EXCEPT ![g] = "chunk"]
    /\ UNCHANGED <<lockHeld, flagVars, queueVars, thread, rangeVars, create, last, app,
                   resets, fetches, pos>>

\* A chunk larger than the whole queue makes the queue larger.
Extended(n) == IF n > queueMax THEN n ELSE queueMax

ChunkSleep(g) ==
    /\ fetch[g] = "chunk" /\ ~lockHeld
    /\ accumulated + size[g] > queueMax
    /\ queueMax' = Extended(size[g])
    /\ accumulated + size[g] > queueMax'
    /\ fetch' = [fetch EXCEPT ![g] = "asleep"]
    /\ UNCHANGED <<lockHeld, flagVars, q, accumulated, thread, rangeVars, create, last,
                   app, resets, fetches, pos, size>>

\* chunk() queues the buffer. The answer "stop" belongs to flushing, which no
\* thread that holds the lock ever sees.
ChunkPush(g) ==
    /\ fetch[g] = "chunk" /\ ~lockHeld
    /\ queueMax' = IF accumulated + size[g] > queueMax
                   THEN Extended(size[g]) ELSE queueMax
    /\ accumulated + size[g] <= queueMax'
    /\ accumulated' = accumulated + size[g]
    /\ q' = Append(q, [from |-> g, at |-> pos[g], size |-> size[g],
                       offset |-> offset])
    /\ offset' = offset + size[g]
    /\ pos' = [pos EXCEPT ![g] = @ + size[g]]
    /\ SignalTo(create, [fetch EXCEPT ![g] = "reading"])
    /\ UNCHANGED <<lockHeld, flagVars, thread, start, last, app, resets, fetches, size>>

\* Mutant: in_eos set without g_cond_signal.
FetchDoneSilent(g) ==
    /\ fetch[g] \in Reading /\ ~lockHeld
    /\ pos[g] = FileSize
    /\ inEos' = TRUE
    /\ fetch' = [fetch EXCEPT ![g] = "closed"]
    /\ UNCHANGED <<lockHeld, flushing, fetchError, queueVars, thread, rangeVars, last,
                   app, resets, fetches, pos, size, create>>

\* gst_web_stream_src_eos
FetchDone(g) ==
    /\ fetch[g] \in Reading /\ ~lockHeld
    /\ pos[g] = FileSize
    /\ inEos' = TRUE
    /\ SignalTo(create, [fetch EXCEPT ![g] = "closed"])
    /\ UNCHANGED <<lockHeld, flushing, fetchError, queueVars, thread, rangeVars, last,
                   app, resets, fetches, pos, size>>

--------------------------------------------------------------------------------
(* The application: do_seek, with create() out of the way (the base class takes
   the stream lock of the pad), and change_state, at any time *)

\* cleanup_unlocked up to the join of the thread.
CleanupBegin(next) ==
    /\ app = "playing" /\ ~lockHeld
    /\ resets < MaxResets
    /\ resets' = resets + 1
    /\ lockHeld' = TRUE
    /\ flushing' = TRUE
    /\ app' = next
    /\ SignalTo(create, fetch)
    /\ UNCHANGED <<inEos, fetchError, queueVars, thread, rangeVars, last, fetches,
                   pos, size>>

Seek == create \in {"out", "ended"} /\ CleanupBegin("seek")

PausedToReady == CleanupBegin("stop")

\* Mutant: the byte count survives the cleanup.
CountSurvives == q' = <<>> /\ accumulated' = accumulated

EmptyQueue == q' = <<>> /\ accumulated' = 0

\* The rest of cleanup_unlocked.
CleanupEnd ==
    /\ thread # 0 => fetch[thread] # "created"
    /\ lockHeld' = FALSE
    /\ flushing' = FALSE
    /\ inEos' = FALSE
    /\ fetchError' = FALSE
    /\ EmptyQueue
    /\ thread' = 0
    /\ UNCHANGED <<queueMax, resets, fetchVars>>

SeekEnd ==
    /\ app = "seek"
    /\ CleanupEnd
    /\ \E s \in 0..FileSize : start' = s /\ offset' = s
    /\ create' = "out"
    /\ last' = NoBuffer
    /\ app' = "playing"

StopEnd ==
    /\ app = "stop"
    /\ CleanupEnd
    /\ start' = -1 /\ offset' = 0
    /\ app' = "deactivate"
    /\ UNCHANGED <<create, last>>

\* The base class deactivates the pad: create() must have returned.
Deactivated ==
    /\ app = "deactivate"
    /\ create \in {"out", "ended"}
    /\ app' = "ready"
    /\ create' = "ended"
    /\ last' = NoBuffer
    /\ UNCHANGED <<lockHeld, flagVars, queueVars, thread, rangeVars, resets, fetchVars>>

ReadyToPaused ==
    /\ app = "ready"
    /\ app' = "playing"
    /\ create' = "out"
    /\ UNCHANGED <<lockHeld, flagVars, queueVars, thread, rangeVars, last, resets,
                   fetchVars>>

--------------------------------------------------------------------------------
CreateStep ==
    \/ CreateAtEos
    \/ CreateFlushing
    \/ CreateBegin
    \/ CreateSleep
    \/ CreateError
    \/ CreateDrained
    \/ CreatePop

FetchStep(g) ==
    \/ FetchBegin(g)
    \/ ReadChunk(g)
    \/ ChunkSleep(g)
    \/ ChunkPush(g)
    \/ FetchDone(g)

Next ==
    \/ CreateStep
    \/ \E g \in Fetches : FetchStep(g) \/ FetchRejected(g) \/ ReadFails(g)
    \/ Seek
    \/ SeekEnd
    \/ PausedToReady
    \/ StopEnd
    \/ Deactivated
    \/ ReadyToPaused

Spec == Init /\ [][Next]_vars

\* Downstream keeps asking for buffers, and a download that does not fail keeps
\* delivering. Nothing makes the application seek or stop.
Fairness ==
    /\ WF_vars(CreateStep)
    /\ \A g \in Fetches : WF_vars(FetchStep(g))
    /\ WF_vars(SeekEnd) /\ WF_vars(StopEnd) /\ WF_vars(Deactivated)

FairSpec == Spec /\ Fairness

--------------------------------------------------------------------------------
(* Correctness *)

\* Type invariant.
TypeOK ==
    /\ lockHeld \in BOOLEAN /\ flushing \in BOOLEAN
    /\ inEos \in BOOLEAN /\ fetchError \in BOOLEAN
    /\ q \in Seq(Buffer)
    /\ queueMax \in Nat /\ accumulated \in Nat
    /\ thread \in 0..MaxFetches
    /\ start \in Int /\ offset \in Int
    /\ create \in {"out", "check", "asleep", "ended"}
    /\ last \in Buffer \cup {NoBuffer}
    /\ app \in {"playing", "seek", "stop", "deactivate", "ready"}
    /\ resets \in Nat /\ fetches \in 0..MaxFetches
    /\ fetch \in [Fetches -> {"none", "created", "requested", "reading", "chunk", 
                              "asleep", "closed", "broken"}]
    /\ pos \in [Fetches -> Nat] /\ size \in [Fetches -> Nat]

\* Back-pressure: the queue holds at most the limit, which only a chunk larger
\* than it can have raised. Buffers follow each other without a gap, and the next
\* one that is queued will follow the last of them.
QueueBounded ==
    /\ accumulated <= queueMax
    /\ queueMax = QueueMaxSize \/ queueMax \in ChunkSizes
    /\ \A i \in 1..Len(q) :
          q[i].offset + q[i].size = IF i < Len(q) THEN q[i + 1].offset ELSE offset

\* The byte count is what is queued, from the first byte of the head to the offset
\* of the next chunk, through every seek, stop and stale callback: create() tests
\* the count, and pops the queue. And the queue is bounded, and the types are kept.
ByteAccounting ==
    /\ TypeOK
    /\ QueueBounded
    /\ accumulated = IF q = <<>> THEN 0 ELSE offset - Head(q).offset

\* Between the network and downstream no byte of the first download is lost,
\* doubled or moved: what came out of create(), and behind it what is queued, is
\* what the download has delivered, each byte at its offset. The end of the stream
\* is not known before the whole resource was delivered. That what is queued then
\* comes out too is not said, and is not so: see EosWhenDrained below.
BytesInOrder ==
    resets = 0 =>
        /\ last.offset = last.at
        /\ \A i \in 1..Len(q) : q[i].offset = q[i].at
        /\ (IF q = <<>> THEN offset ELSE Head(q).at) = last.at + last.size
        /\ \A g \in Fetches :
              fetch[g] \in Reading \cup {"chunk", "asleep"} => pos[g] = offset
        /\ inEos => offset = FileSize

\* create() returns, unless the download broke unheard or was cleaned up.
CreateReturns ==
    create \in {"check", "asleep"} ~>
        \/ create \in {"out", "ended"}
        \/ resets > 0
        \/ \E g \in Fetches : fetch[g] = "broken"

--------------------------------------------------------------------------------
(* What the source says, and the code does not do *)

\* "Element is flushing, stop fetching" (chunk): a download that a seek or a
\* stop cleaned up delivers nothing more, so what create() takes comes from the
\* download begun last.
NoStaleBytes ==
    thread # 0 => \A i \in 1..Len(q) : q[i].from = thread

\* "self->in_eos ? GST_FLOW_EOS" for an empty queue (create): the end of the
\* stream is reported when the queue has been emptied.
EosWhenDrained ==
    create = "ended" /\ inEos /\ resets = 0 /\ ~fetchError => q = <<>>

================================================================================
