------------------------------ MODULE WebEmFetchSrc -----------------------------
(***************************************************************************)
(* GstWebEmFetchSrc (gst/web/gstwebemfetchsrc.c): an HTTP source that asks *)
(* for one range of the resource after the other, with a request that      *)
(* blocks the streaming thread. For the time of the request create()       *)
(* releases the stream lock of the pad, which the base class holds around  *)
(* it, so that the application may seek in between. The base class drops   *)
(* what create() returns while it is flushing, and keeps the position and  *)
(* a duration, which it takes from get_size() only near an end it knows:   *)
(* where a segment has no stop, it never asks.                             *)
(***************************************************************************)
EXTENDS Integers

CONSTANTS
    Sizes,          \* of the resource, in units of bytes; a gsize can hold them
    ChunkSize,
    BlockSize,      \* what the base class asks create() for
    Word,           \* a gsize is a number below Word
    MaxSeeks,       \* bound: seeks
    MaxStarts,      \* bound: changes from READY to PAUSED
    MaxUris         \* bound: calls of set_uri

ASSUME EmFetchAssumption ==
    /\ Word \in Nat \ {0} /\ ChunkSize \in Nat /\ BlockSize \in Nat
    /\ Sizes \subseteq 0..Word - 1
    /\ MaxSeeks \in Nat /\ MaxStarts \in Nat /\ MaxUris \in Nat

VARIABLES
    server,         \* the size of the resource, whether it is told, and the kind of server
    app,            \* the application
    streamLock, objectLock,     \* who holds them
    flushing,       \* of the base class
    position, stop, duration,   \* its segment; -1 is none, or unknown
    thread,         \* the streaming thread
    range,          \* the range that is requested, and the position it is for
    again,          \* request_again
    buffer,         \* what was fetched: its first byte, its length
    uri,            \* self->uri
    inEos, downloadOffset, downloadEnd, resourceSize,
    last,           \* history: where the last buffer is from, and where it was pushed
    ended,          \* history: how the stream ended
    seeks, starts, uris,        \* how many there were so far
    crossed,        \* history: a seek was not followed by the element
    freedRead       \* history: create() copied a URI that was freed

lockVars    == <<streamLock, objectLock>>
baseVars    == <<flushing, position, stop, duration>>
requestVars == <<range, again, buffer>>
selfVars    == <<inEos, downloadOffset, downloadEnd, resourceSize>>
counters    == <<seeks, starts, uris>>
vars == <<server, app, lockVars, baseVars, thread, requestVars, uri, selfVars, last, ended,
          counters, crossed, freedRead>>

\* A server honours ranges, or does not, or only those that have an end.
Kinds == {"ranges", "whole", "odd"}

NoBuffer == [from |-> 0, length |-> 0]
NoRange  == [start |-> 0, end |-> 0, at |-> 0]

Init ==
    /\ server \in [size : Sizes, told : BOOLEAN, kind : Kinds]
    /\ server.told => server.kind # "whole" /\ server.size # 0
    /\ app = "ready"
    /\ streamLock = "none" /\ objectLock = "none"
    /\ flushing = TRUE /\ position = 0 /\ stop = -1 /\ duration = -1
    /\ thread = "paused"
    /\ range = NoRange /\ again = FALSE /\ buffer = NoBuffer
    /\ uri = "set"
    /\ inEos = FALSE /\ downloadOffset = 0 /\ downloadEnd = 0 /\ resourceSize = 0
    /\ last = [from |-> 0, at |-> 0] /\ ended = "no"
    /\ seeks = 0 /\ starts = 0 /\ uris = 0
    /\ crossed = FALSE /\ freedRead = FALSE

--------------------------------------------------------------------------------
(* Streaming thread: the loop of the base class, and create *)

\* The task is started: its function runs with the stream lock.
Resume ==
    /\ thread = "started" /\ streamLock = "none"
    /\ streamLock' = "thread"
    /\ thread' = "loop"
    /\ UNCHANGED <<server, app, objectLock, baseVars, requestVars, uri, selfVars, last,
                   ended, counters, crossed, freedRead>>

Pause(how) ==
    /\ thread' = "paused"
    /\ streamLock' = "none"
    /\ ended' = how

\* Where the base class ends a segment: at its stop, at the duration, or nowhere.
Limit(length) ==
    IF stop = -1 \/ (length # -1 /\ length < stop) THEN length ELSE stop

\* get_size
Size == IF resourceSize = 0 THEN -1 ELSE resourceSize

\* update_length: a block before the limit the duration is asked for anew.
NearEnd  == Limit(duration) # -1 /\ position + BlockSize >= Limit(duration)
Duration == IF NearEnd THEN Size ELSE duration
Past     == Limit(Duration) # -1 /\ position >= Limit(Duration)

\* The base class is flushing, or past the end of what it knows.
LoopEnds ==
    /\ thread = "loop"
    /\ \/ flushing /\ Pause(ended)
       \/ ~flushing /\ objectLock = "none" /\ Past /\ Pause("eos")
    /\ UNCHANGED <<server, app, objectLock, baseVars, requestVars, uri, selfVars, last,
                   counters, crossed, freedRead>>

\* It keeps the duration, and calls create().
CallsCreate ==
    /\ thread = "loop" /\ ~flushing /\ objectLock = "none" /\ ~Past
    /\ duration' = Duration
    /\ UNCHANGED <<flushing, position, stop>>

CreateEos ==
    /\ CallsCreate /\ inEos
    /\ Pause("eos")
    /\ UNCHANGED <<server, app, objectLock, requestVars, uri, selfVars, last, counters,
                   crossed, freedRead>>

AtMost(n, limit) == IF limit # 0 /\ n > limit THEN limit ELSE n

\* fetch_range, up to the request; all numbers are of type gsize.
Range ==
    LET end == AtMost((downloadOffset + ChunkSize) % Word, resourceSize)
    IN  [start |-> downloadOffset, end |-> AtMost(end, downloadEnd), at |-> position]

\* create, up to the request: the URI is copied with the object lock, and the
\* stream lock is released. A range that wrapped is refused, with the lock held.
CreateBegin ==
    /\ CallsCreate /\ ~inEos
    /\ freedRead' = (freedRead \/ uri = "freed")
    /\ range' = Range
    /\ again' = FALSE /\ buffer' = NoBuffer
    /\ streamLock' = "none"
    /\ IF downloadOffset < (downloadOffset + ChunkSize) % Word
       THEN thread' = "request" /\ objectLock' = "none"
       ELSE thread' = "refused" /\ objectLock' = "thread"
    /\ UNCHANGED <<server, app, uri, selfVars, last, ended, counters, crossed>>

\* A status of 200 or 206 with bytes: the size, if it is in the headers of a
\* range, and the end of the stream.
Success(from, length, told) ==
    /\ buffer' = [from |-> from, length |-> length]
    /\ again' = FALSE
    /\ resourceSize' = IF resourceSize = 0 /\ told THEN server.size ELSE resourceSize
    /\ inEos' = (inEos \/ range.end = resourceSize'
                       \/ length # (range.end + Word - range.start) % Word)
    /\ thread' = "fetched"

Answer ==
    /\ thread = "request" /\ objectLock = "none"
    /\ UNCHANGED <<server, app, lockVars, baseVars, range, uri, downloadOffset,
                   downloadEnd, last, ended, counters, crossed, freedRead>>

\* A server that honours ranges ignores one that ends before it begins, and an odd
\* one the range without an end that is asked for after a refusal.
Ignored ==
    \/ server.kind = "whole"
    \/ again /\ server.kind = "odd"
    \/ ~again /\ range.end <= range.start

\* 200: everything is sent. When that is nothing the request is done, unless
\* request_again is still set from a refusal: then it is sent again, as it was, for
\* ever (a step that changes nothing).
Whole ==
    /\ Answer /\ Ignored
    /\ IF server.size # 0
       THEN Success(0, server.size, FALSE)
       ELSE /\ thread' = IF again THEN "request" ELSE "fetched"
            /\ UNCHANGED <<again, buffer, inEos, resourceSize>>

\* Mutant: the object lock is kept.
PartialLocked ==
    /\ thread = "request" /\ objectLock = "none"
    /\ ~Ignored /\ ~again /\ range.start < server.size
    /\ Success(range.start, AtMost(range.end, server.size) - range.start, server.told)
    /\ objectLock' = "thread"
    /\ UNCHANGED <<server, app, streamLock, baseVars, range, uri, downloadOffset,
                   downloadEnd, last, ended, counters, crossed, freedRead>>

\* 206
Partial ==
    /\ Answer
    /\ ~Ignored /\ ~again /\ range.start < server.size
    /\ Success(range.start, AtMost(range.end, server.size) - range.start, server.told)

\* Mutant: request_again is not reset.
AlwaysAgain ==
    /\ Answer
    /\ ~Ignored /\ range.start >= server.size
    /\ again' = TRUE
    /\ inEos' = TRUE
    /\ UNCHANGED <<thread, buffer, resourceSize>>

\* 416: once more, without an end; the second time it is the end.
NotSatisfiable ==
    /\ Answer
    /\ ~Ignored /\ range.start >= server.size
    /\ again' = ~again
    /\ thread' = IF again THEN "fetched" ELSE "request"
    /\ inEos' = TRUE
    /\ UNCHANGED <<buffer, resourceSize>>

\* Any other status
Failure ==
    /\ Answer
    /\ again' = FALSE
    /\ thread' = "fetched"
    /\ UNCHANGED <<buffer, inEos, resourceSize>>

\* What was local to create is gone.
Return == range' = NoRange /\ again' = FALSE /\ buffer' = NoBuffer

\* The base class drops a buffer, or pushes it and counts on from where the loop
\* began, but not beyond the stop, which is the end.
Pushed ==
    LET next == range.at + buffer.length
    IN  /\ last' = [from |-> buffer.from, at |-> position]
        /\ IF stop # -1 /\ next >= stop
           THEN position' = stop /\ Pause("eos")
           ELSE /\ position' = next
                /\ thread' = "loop" /\ streamLock' = "thread" /\ UNCHANGED ended

Returned ==
    IF buffer # NoBuffer /\ ~flushing
    THEN Pushed
    ELSE /\ Pause(IF buffer # NoBuffer THEN ended ELSE IF inEos THEN "eos" ELSE "error")
         /\ UNCHANGED <<position, last>>

\* Mutant: what was fetched is not counted.
CreateEndStill ==
    /\ thread \in {"fetched", "refused"} /\ streamLock = "none"
    /\ objectLock' = "none"
    /\ Returned
    /\ Return
    /\ UNCHANGED <<server, app, flushing, stop, duration, uri, selfVars, counters, crossed,
                   freedRead>>

\* create, from the request on: the stream lock, the offset, and the unlock of an
\* object lock that is not held, unless the range was refused.
CreateEnd ==
    /\ thread \in {"fetched", "refused"} /\ streamLock = "none"
    /\ downloadOffset' = (downloadOffset + buffer.length) % Word
    /\ objectLock' = "none"
    /\ Returned
    /\ Return
    /\ UNCHANGED <<server, app, flushing, stop, duration, uri, inEos, downloadEnd,
                   resourceSize, counters, crossed, freedRead>>

--------------------------------------------------------------------------------
(* Application: seeks, state changes, the location *)

Start ==
    /\ app = "ready" /\ starts < MaxStarts
    /\ starts' = starts + 1
    /\ flushing' = FALSE /\ position' = 0 /\ stop' = -1 /\ duration' = -1
    /\ thread' = "started" /\ ended' = "no"
    /\ crossed' = FALSE /\ last' = [from |-> 0, at |-> 0]
    /\ app' = "playing"
    /\ UNCHANGED <<server, lockVars, requestVars, uri, selfVars, seeks, uris, freedRead>>

\* A seek flushes, so that the task pauses, and takes the stream lock.
SeekBegin ==
    /\ app = "playing" /\ seeks < MaxSeeks
    /\ seeks' = seeks + 1
    /\ flushing' = TRUE
    /\ app' = "flush"
    /\ UNCHANGED <<server, lockVars, position, stop, duration, thread, requestVars, uri,
                   selfVars, last, ended, starts, uris, crossed, freedRead>>

SeekLock ==
    /\ app = "flush" /\ streamLock = "none"
    /\ streamLock' = "app"
    /\ flushing' = FALSE
    /\ app' = "seek"
    /\ UNCHANGED <<server, objectLock, position, stop, duration, thread, requestVars, uri,
                   selfVars, last, ended, counters, crossed, freedRead>>

\* do_seek; the base class starts the task and releases the lock. A request that is
\* under way, in_eos, and a position that is none of a gsize keep the element from
\* following.
DoSeek(start, end) ==
    /\ app = "seek" /\ objectLock = "none"
    /\ downloadOffset' = start % Word
    /\ downloadEnd' = IF end = -1 THEN 0 ELSE end % Word
    /\ position' = start /\ stop' = end
    /\ thread' = IF thread = "paused" THEN "started" ELSE thread
    /\ ended' = "no"
    /\ crossed' = \/ crossed \/ inEos \/ thread \in {"request", "fetched", "refused"}
                  \/ start >= Word \/ end >= Word
    /\ streamLock' = "none"
    /\ app' = "playing"
    /\ UNCHANGED <<server, objectLock, flushing, duration, requestVars, uri, inEos,
                   resourceSize, last, counters, freedRead>>

\* Bound: the positions of the resource, one behind it, and the first that is none of
\* a gsize.
Positions == 0..server.size + 1 \cup {Word}

\* The base class clamps a segment to the duration, where it knows one.
Clamped(n) == IF duration # -1 /\ n > duration THEN duration ELSE n

Seek ==
    \E start \in Positions, end \in Positions \cup {-1} :
        /\ end = -1 \/ start <= end
        /\ DoSeek(Clamped(start), Clamped(end))

\* PAUSED to READY: the pad is deactivated, and its thread joined;
Stop ==
    /\ app = "playing"
    /\ flushing' = TRUE
    /\ app' = "stop"
    /\ UNCHANGED <<server, lockVars, position, stop, duration, thread, requestVars, uri,
                   selfVars, last, ended, counters, crossed, freedRead>>

\* Mutant: in_eos is not reset.
StopEndEos ==
    /\ app = "stop" /\ thread \in {"paused", "started"} /\ objectLock = "none"
    /\ thread' = "paused"
    /\ downloadOffset' = 0 /\ downloadEnd' = 0 /\ resourceSize' = 0
    /\ app' = "ready"
    /\ UNCHANGED <<server, lockVars, baseVars, requestVars, uri, inEos, last, ended,
                   counters, crossed, freedRead>>

\* then the range is forgotten.
StopEnd ==
    /\ app = "stop" /\ thread \in {"paused", "started"} /\ objectLock = "none"
    /\ thread' = "paused"
    /\ downloadOffset' = 0 /\ downloadEnd' = 0 /\ resourceSize' = 0 /\ inEos' = FALSE
    /\ app' = "ready"
    /\ UNCHANGED <<server, lockVars, baseVars, requestVars, uri, last, ended, counters,
                   crossed, freedRead>>

\* set_uri frees the old one, and copies the new one.
SetUri ==
    /\ app = "playing" /\ uris < MaxUris /\ objectLock = "none"
    /\ uris' = uris + 1
    /\ objectLock' = "app"
    /\ uri' = "freed"
    /\ app' = "location"
    /\ UNCHANGED <<server, streamLock, baseVars, thread, requestVars, selfVars, last,
                   ended, seeks, starts, crossed, freedRead>>

SetUriEnd ==
    /\ app = "location"
    /\ uri' = "set"
    /\ objectLock' = "none"
    /\ app' = "playing"
    /\ UNCHANGED <<server, streamLock, baseVars, thread, requestVars, selfVars, last,
                   ended, counters, crossed, freedRead>>

--------------------------------------------------------------------------------
ThreadStep ==
    \/ Resume
    \/ LoopEnds
    \/ CreateEos
    \/ CreateBegin
    \/ Whole
    \/ Partial
    \/ NotSatisfiable
    \/ CreateEnd

AppStep ==
    \/ SeekLock
    \/ Seek
    \/ StopEnd
    \/ SetUriEnd

Next ==
    \/ ThreadStep
    \/ AppStep
    \/ Failure
    \/ Start
    \/ SeekBegin
    \/ Stop
    \/ SetUri

Spec == Init /\ [][Next]_vars

\* The streaming thread goes on, and the server answers with more than a failure;
\* the application goes on with a call it is in. Nobody needs to start, seek or
\* stop.
Fairness == WF_vars(ThreadStep) /\ WF_vars(AppStep)

FairSpec == Spec /\ Fairness

--------------------------------------------------------------------------------
(* Correctness *)

\* Type invariant
TypeOK ==
    /\ server \in [size : Sizes, told : BOOLEAN, kind : Kinds]
    /\ app \in {"ready", "playing", "flush", "seek", "stop", "location"}
    /\ streamLock \in {"none", "thread", "app"} /\ objectLock \in {"none", "thread", "app"}
    /\ flushing \in BOOLEAN /\ position \in Nat
    /\ stop \in Nat \cup {-1} /\ duration \in Nat \cup {-1}
    /\ thread \in {"paused", "started", "loop", "request", "refused", "fetched"}
    /\ range \in [start : 0..Word - 1, end : 0..Word - 1, at : Nat]
    /\ again \in BOOLEAN /\ buffer \in [from : Nat, length : Nat]
    /\ uri \in {"set", "freed"}
    /\ inEos \in BOOLEAN /\ downloadOffset \in 0..Word - 1 /\ downloadEnd \in 0..Word - 1
    /\ resourceSize \in Nat
    /\ last \in [from : Nat, at : Nat] /\ ended \in {"no", "eos", "error"}
    /\ seeks \in 0..MaxSeeks /\ starts \in 0..MaxStarts /\ uris \in 0..MaxUris
    /\ crossed \in BOOLEAN /\ freedRead \in BOOLEAN

\* A buffer is pushed where its bytes belong, with a server that honours ranges,
\* unless a seek was not followed, or went past the end of the resource. (And the
\* types.)
InPlace ==
    /\ TypeOK
    /\ server.kind = "ranges" /\ ~crossed /\ last.at < server.size => last.from = last.at

\* The end of the stream is the end of the segment or of the resource, through
\* seeks, stops, and sizes that are told or not.
Complete ==
    ended = "eos" /\ app # "ready" /\ server.kind = "ranges" /\ ~crossed =>
        position >= server.size \/ (stop # -1 /\ position = stop)

\* The stream ends, however it is split into ranges, unless the offset wraps; but for
\* a server that sends the resource, as long as a range, to every range, and one that
\* refuses a range of an empty resource and then sends the whole of it.
StreamEnds ==
    thread = "loop" ~>
        \/ thread \in {"paused", "refused"}
        \/ server.kind = "whole" /\ server.size = ChunkSize
        \/ server.kind = "odd" /\ server.size = 0 /\ again

\* A seek returns, in spite of the two locks it and create take one after the
\* other, unless the offset wraps.
SeekReturns == app = "flush" ~> app = "playing" \/ thread = "refused"

--------------------------------------------------------------------------------
(* What the code does not keep *)

\* A buffer is pushed where its bytes belong.
AlwaysInPlace == server.kind = "ranges" => last.from = last.at

\* Nothing is pushed past the end of the resource.
NothingPastEnd == server.kind = "ranges" /\ ~crossed => last.from = last.at

\* A stream ends, whatever the server (and unless the offset wraps).
EveryStreamEnds == thread = "loop" ~> thread \in {"paused", "refused"}

\* The copy that create() makes of the URI is of the current one.
UriIntact == ~freedRead

================================================================================
