-------------------------- MODULE WebEmFetchSrcProofs ---------------------------
(***************************************************************************)
(* Theorems about WebEmFetchSrc, for every width of a gsize, every size of *)
(* the resource that it can hold and of the ranges, and any number of      *)
(* starts, seeks and changes of the URI.                                   *)
(***************************************************************************)
EXTENDS WebEmFetchSrc, TLAPS

(***************************************************************************)
(* The inductive invariant.                                                *)
(***************************************************************************)

\* Who holds the stream lock, when the base class is flushing, and what is left of
\* a session that ended.
BaseInv ==
    /\ thread = "loop" <=> streamLock = "thread"
    /\ app = "seek" <=> streamLock = "app"
    /\ flushing <=> app \in {"ready", "flush", "stop"}
    /\ app = "ready" => /\ thread = "paused"
                        /\ downloadOffset = 0 /\ downloadEnd = 0 /\ resourceSize = 0
                        /\ ~inEos
    /\ resourceSize \in {0, server.size} /\ duration \in {-1, server.size}
    /\ stop # -1 => position <= stop
    /\ thread # "paused" => ended = "no"
    /\ thread = "refused" => buffer = NoBuffer /\ ~inEos

\* The sessions that InPlace and Complete speak of.
Sound == server.kind = "ranges" /\ ~crossed

\* No seek, start or stop is under way.
Steady == app \in {"playing", "location"}

\* The element and the base class count the same segment. Behind the end of the
\* resource the element has more bytes to count than the base class.
StopAgree == downloadEnd = IF stop = -1 THEN 0 ELSE stop

SteadyInv ==
    Sound /\ Steady =>
        /\ StopAgree
        /\ ~inEos \/ thread \in {"request", "fetched"} => position = downloadOffset
        /\ inEos /\ thread \in {"started", "loop", "paused"} => position >= server.size

\* The range that is requested is the next one, and not empty but past the end of
\* the resource, where it is cut at the size.
Requested ==
    /\ StopAgree /\ position = downloadOffset
    /\ range.at = position /\ range.start = position
    /\ stop # -1 => range.end <= stop
    /\ range.end <= range.start => resourceSize # 0 /\ range.end = resourceSize

\* What came is the first part of it, and all of it but at the end of the resource.
\* What comes past that end, the whole resource, is known to be the last.
FetchInv ==
    Sound /\ thread \in {"request", "fetched"} =>
        /\ Requested
        /\ thread = "request" => buffer = NoBuffer
        /\ buffer = NoBuffer => (inEos => position >= server.size)
        /\ buffer # NoBuffer /\ position < server.size =>
              /\ buffer.from = position
              /\ position + buffer.length <= range.end
              /\ position + buffer.length <= server.size
              /\ inEos => position + buffer.length >= server.size
        /\ buffer # NoBuffer /\ position >= server.size => inEos

IInv ==
    /\ TypeOK
    /\ BaseInv
    /\ SteadyInv
    /\ FetchInv
    /\ InPlace
    /\ Complete

--------------------------------------------------------------------------------
(* Arithmetic *)

\* What does not wrap.
LEMMA ModSmall ==
    ASSUME NEW n \in 0..Word - 1
    PROVE  n % Word = n
  BY EmFetchAssumption, SMT

LEMMA ModDifference ==
    ASSUME NEW a \in 0..Word - 1, NEW b \in 0..Word - 1, a <= b
    PROVE  (b + Word - a) % Word = b - a
  BY EmFetchAssumption, SMT

LEMMA ModRange ==
    ASSUME NEW n \in Nat
    PROVE  n % Word \in 0..Word - 1
  BY EmFetchAssumption, SMT

\* The duration that the base class has is the size, or unknown.
LEMMA DurationKnown ==
    ASSUME IInv
    PROVE  /\ server.size \in 0..Word - 1
           /\ Duration \in {-1, server.size} /\ Duration \in Nat \cup {-1}
<1>1. server.size \in 0..Word - 1
    <2>1. server.size \in Sizes
        BY DEF IInv, TypeOK
    <2>. QED
        BY <2>1, EmFetchAssumption
<1>2. Duration \in {-1, server.size}
    BY DEF IInv, BaseInv, Duration, Size
<1>. QED
    BY <1>1, <1>2, EmFetchAssumption

\* A segment that is past its limit is at its stop, or at the end of the resource.
LEMMA PastLimit ==
    ASSUME IInv
    PROVE  /\ Past => position >= server.size \/ (stop # -1 /\ position = stop)
           /\ ~Past /\ stop # -1 => position < stop
<1>. DEFINE d == Duration
<1>1. d \in {-1, server.size} /\ server.size \in Nat
    BY DurationKnown, EmFetchAssumption
<1>2. /\ stop \in Nat \cup {-1} /\ position \in Nat
      /\ stop # -1 => position <= stop
    BY DEF IInv, TypeOK, BaseInv
<1>3. Past <=> Limit(d) # -1 /\ position >= Limit(d)
    BY DEF Past
<1>4. Limit(d) = IF stop = -1 \/ (d # -1 /\ d < stop) THEN d ELSE stop
    BY DEF Limit
<1>. HIDE DEF d
<1>. QED
    BY <1>1, <1>2, <1>3, <1>4

--------------------------------------------------------------------------------
(* Every step keeps the invariant *)

LEMMA InitInv == Init => IInv
<1>. SUFFICES ASSUME Init PROVE IInv
    OBVIOUS
<1>. USE EmFetchAssumption DEF Init, NoBuffer, NoRange
<1>1. TypeOK
    <2>1. 0 \in 0..Word - 1 /\ 0 \in 0..MaxSeeks /\ 0 \in 0..MaxStarts /\ 0 \in 0..MaxUris
        OBVIOUS
    <2>2. range \in [start : 0..Word - 1, end : 0..Word - 1, at : Nat]
        BY <2>1
    <2>. QED
        BY <2>1, <2>2 DEF TypeOK
<1>2. BaseInv /\ SteadyInv /\ FetchInv
    BY DEF BaseInv, SteadyInv, FetchInv, Steady, StopAgree
<1>3. InPlace /\ Complete
    BY <1>1 DEF InPlace, Complete
<1>. QED
    BY <1>1, <1>2, <1>3 DEF IInv

\* The task is started.
LEMMA ResumeInv == IInv /\ Resume => IInv'
<1>. SUFFICES ASSUME IInv, Resume PROVE IInv'
    OBVIOUS
<1>. USE EmFetchAssumption DEF IInv, lockVars, baseVars, requestVars, selfVars, counters
<1>1. TypeOK'
    BY DEF Resume, TypeOK
<1>2. BaseInv'
    BY DEF Resume, TypeOK, BaseInv
<1>3. SteadyInv' /\ FetchInv'
    BY DEF Resume, TypeOK, BaseInv, SteadyInv, FetchInv, Sound, Steady, StopAgree, Requested
<1>4. InPlace' /\ Complete'
    BY <1>1 DEF Resume, TypeOK, BaseInv, SteadyInv, FetchInv, InPlace, Complete, Sound,
            Steady, StopAgree
<1>. QED
    BY <1>1, <1>2, <1>3, <1>4

\* The loop ends, flushed or at the end.
LEMMA LoopInv == IInv /\ (LoopEnds \/ CreateEos) => IInv'
<1>. SUFFICES ASSUME IInv, (LoopEnds \/ CreateEos) PROVE IInv'
    OBVIOUS
<1>. USE EmFetchAssumption DEF lockVars, baseVars, requestVars, selfVars, counters
<1>1. /\ thread = "loop" /\ thread' = "paused" /\ streamLock' = "none"
      /\ \/ flushing /\ ended' = ended /\ duration' = duration
         \/ Past /\ ~flushing /\ ended' = "eos" /\ duration' = duration
         \/ inEos /\ ~flushing /\ ended' = "eos" /\ duration' = Duration
      /\ UNCHANGED <<server, app, objectLock, flushing, position, stop, requestVars, uri,
                     selfVars, last, counters, crossed, freedRead>>
    BY DEF LoopEnds, CreateEos, CallsCreate, Pause
<1>2. TypeOK /\ BaseInv /\ SteadyInv /\ InPlace /\ duration' \in {-1, server.size}
      /\ duration' \in Nat \cup {-1}
    <2>1. duration' \in {duration, Duration}
        BY <1>1
    <2>. QED
        BY <2>1, DurationKnown DEF IInv, BaseInv, TypeOK
<1>3. TypeOK'
    BY <1>1, <1>2 DEF TypeOK
<1>4. BaseInv'
    BY <1>1, <1>2 DEF BaseInv, TypeOK
<1>5. SteadyInv' /\ FetchInv'
    BY <1>1, <1>2 DEF BaseInv, SteadyInv, FetchInv, Sound, Steady, StopAgree
<1>6. InPlace'
    BY <1>1, <1>2, <1>3 DEF InPlace
<1>7. Complete'
    <2>1. CASE flushing
        BY <1>1, <1>2, <2>1 DEF BaseInv, Complete
    <2>2. CASE Past
        BY <1>1, <2>2, PastLimit DEF Complete
    <2>3. CASE ~flushing /\ inEos
        <3>1. app # "ready" /\ Sound => Steady
            BY <1>1, <1>2, <2>3 DEF BaseInv, TypeOK, Steady
        <3>. QED
            BY <1>1, <1>2, <2>3, <3>1 DEF SteadyInv, Complete, Sound
    <2>. QED
        BY <1>1, <2>1, <2>2, <2>3
<1>. QED
    BY <1>3, <1>4, <1>5, <1>6, <1>7 DEF IInv

\* A seek up to the segment, and a stop.
LEMMA SeekInv == IInv /\ (SeekBegin \/ SeekLock \/ Stop \/ StopEnd) => IInv'
<1>. SUFFICES ASSUME IInv, (SeekBegin \/ SeekLock \/ Stop \/ StopEnd) PROVE IInv'
    OBVIOUS
<1>. USE EmFetchAssumption DEF IInv, lockVars, baseVars, requestVars, selfVars, counters
<1>1. TypeOK'
    <2>1. CASE SeekBegin
        BY <2>1 DEF SeekBegin, TypeOK
    <2>2. CASE SeekLock
        <3>1. flushing' \in BOOLEAN
            BY <2>2 DEF SeekLock
        <3>. QED
            BY <2>2, <3>1 DEF SeekLock, TypeOK
    <2>3. CASE Stop
        BY <2>3 DEF Stop, TypeOK
    <2>4. CASE StopEnd
        <3>1. inEos' \in BOOLEAN
            BY <2>4 DEF StopEnd
        <3>. QED
            BY <2>4, <3>1 DEF StopEnd, TypeOK
    <2>. QED
        BY <2>1, <2>2, <2>3, <2>4
<1>2. BaseInv'
    BY DEF SeekBegin, SeekLock, Stop, StopEnd, TypeOK, BaseInv
<1>3. SteadyInv' /\ FetchInv'
    BY DEF SeekBegin, SeekLock, Stop, StopEnd, TypeOK, BaseInv, SteadyInv, FetchInv, Sound, Steady, StopAgree, Requested
<1>4. InPlace' /\ Complete'
    BY <1>1 DEF SeekBegin, SeekLock, Stop, StopEnd, TypeOK, BaseInv, SteadyInv, FetchInv, InPlace, Complete, Sound,
            Steady, StopAgree
<1>. QED
    BY <1>1, <1>2, <1>3, <1>4

\* A start begins a segment.
LEMMA StartInv == IInv /\ Start => IInv'
<1>. SUFFICES ASSUME IInv, Start PROVE IInv'
    OBVIOUS
<1>. USE EmFetchAssumption DEF IInv, lockVars, baseVars, requestVars, selfVars, counters
<1>1. TypeOK'
    <2>1. flushing' \in BOOLEAN /\ crossed' \in BOOLEAN /\ -1 \in Nat \cup {-1}
        BY DEF Start
    <2>. QED
        BY <2>1 DEF Start, TypeOK
<1>2. BaseInv'
    BY DEF Start, TypeOK, BaseInv
<1>3. SteadyInv' /\ FetchInv'
    BY DEF Start, TypeOK, BaseInv, SteadyInv, FetchInv, Sound, Steady, StopAgree, Requested
<1>4. InPlace' /\ Complete'
    BY <1>1 DEF Start, TypeOK, BaseInv, SteadyInv, FetchInv, InPlace, Complete, Sound,
            Steady, StopAgree
<1>. QED
    BY <1>1, <1>2, <1>3, <1>4

\* The URI is none of the segment's.
LEMMA UriInv == IInv /\ (SetUri \/ SetUriEnd) => IInv'
<1>. SUFFICES ASSUME IInv, (SetUri \/ SetUriEnd) PROVE IInv'
    OBVIOUS
<1>. USE EmFetchAssumption DEF IInv, lockVars, baseVars, requestVars, selfVars, counters
<1>1. TypeOK'
    BY DEF SetUri, SetUriEnd, TypeOK
<1>2. BaseInv'
    BY DEF SetUri, SetUriEnd, TypeOK, BaseInv
<1>3. SteadyInv' /\ FetchInv'
    BY DEF SetUri, SetUriEnd, TypeOK, BaseInv, SteadyInv, FetchInv, Sound, Steady, StopAgree, Requested
<1>4. InPlace' /\ Complete'
    BY <1>1 DEF SetUri, SetUriEnd, TypeOK, BaseInv, SteadyInv, FetchInv, InPlace, Complete, Sound,
            Steady, StopAgree
<1>. QED
    BY <1>1, <1>2, <1>3, <1>4

\* An answer without bytes.
LEMMA FailureInv == IInv /\ (Failure \/ NotSatisfiable) => IInv'
<1>. SUFFICES ASSUME IInv, (Failure \/ NotSatisfiable) PROVE IInv'
    OBVIOUS
<1>. USE EmFetchAssumption DEF IInv, lockVars, baseVars, requestVars, selfVars, counters
<1>1. TypeOK'
    <2>1. CASE Failure
        <3>1. again' \in BOOLEAN
            BY <2>1 DEF Failure
        <3>. QED
            BY <2>1, <3>1 DEF Failure, Answer, TypeOK
    <2>2. CASE NotSatisfiable
        BY <2>2 DEF NotSatisfiable, Answer, TypeOK
    <2>. QED
        BY <2>1, <2>2
<1>2. BaseInv'
    BY DEF Failure, NotSatisfiable, Answer, TypeOK, BaseInv
<1>3. SteadyInv' /\ FetchInv'
    BY DEF Failure, NotSatisfiable, Answer, TypeOK, BaseInv, SteadyInv, FetchInv, Sound, Steady, StopAgree, Requested
<1>4. InPlace' /\ Complete'
    BY <1>1 DEF Failure, NotSatisfiable, Answer, TypeOK, BaseInv, SteadyInv, FetchInv, InPlace, Complete, Sound,
            Steady, StopAgree
<1>. QED
    BY <1>1, <1>2, <1>3, <1>4

\* The next range begins at the position, and ends behind it: the loop would have
\* ended if there were nothing left of the segment or of the resource.
LEMMA CreateBeginInv == IInv /\ CreateBegin => IInv'
<1>. SUFFICES ASSUME IInv, CreateBegin PROVE IInv'
    OBVIOUS
<1>. USE EmFetchAssumption DEF IInv, lockVars, baseVars, requestVars, selfVars, counters
<1>. DEFINE sum == (downloadOffset + ChunkSize) % Word
            end == AtMost(sum, resourceSize)
<1>1. /\ thread = "loop" /\ ~flushing /\ ~Past /\ ~inEos /\ duration' = Duration
      /\ range' = [start |-> downloadOffset, end |-> AtMost(end, downloadEnd), at |-> position]
      /\ again' = FALSE /\ buffer' = NoBuffer /\ streamLock' = "none"
      /\ UNCHANGED <<server, app, flushing, position, stop, uri, selfVars, last, ended,
                     counters, crossed>>
    BY DEF CreateBegin, CallsCreate, Range
<1>2. \/ downloadOffset < sum /\ thread' = "request" /\ objectLock' = "none"
      \/ thread' = "refused" /\ objectLock' = "thread"
    BY DEF CreateBegin
<1>3. /\ downloadOffset \in 0..Word - 1 /\ downloadEnd \in 0..Word - 1
      /\ resourceSize \in Nat /\ position \in Nat /\ stop \in Nat \cup {-1}
      /\ resourceSize \in {0, server.size}
    BY DEF TypeOK, BaseInv
<1>4. sum \in 0..Word - 1
    BY <1>3, ModRange
<1>. HIDE DEF sum
<1>5. /\ end \in 0..Word - 1
      /\ end = sum \/ (resourceSize # 0 /\ end = resourceSize)
    BY <1>3, <1>4 DEF AtMost
<1>. HIDE DEF end
<1>6. /\ AtMost(end, downloadEnd) \in 0..Word - 1
      /\ \/ AtMost(end, downloadEnd) = end
         \/ downloadEnd # 0 /\ AtMost(end, downloadEnd) = downloadEnd
      /\ downloadEnd # 0 => AtMost(end, downloadEnd) <= downloadEnd
    BY <1>3, <1>5 DEF AtMost
<1>7. TypeOK'
    <2>1. range' \in [start : 0..Word - 1, end : 0..Word - 1, at : Nat]
        BY <1>1, <1>3, <1>6
    <2>2. buffer' \in [from : Nat, length : Nat]
        BY <1>1 DEF NoBuffer
    <2>3. again' \in BOOLEAN /\ freedRead' \in BOOLEAN /\ duration' \in Nat \cup {-1}
        BY <1>1, DurationKnown DEF CreateBegin
    <2>. QED
        BY <1>1, <1>2, <2>1, <2>2, <2>3 DEF TypeOK
<1>8. BaseInv'
    <2>1. duration' \in {-1, server.size}
        BY <1>1, DurationKnown
    <2>. QED
        BY <1>1, <1>2, <2>1 DEF BaseInv, TypeOK
<1>9. Sound => Steady /\ StopAgree /\ position = downloadOffset
    BY <1>1 DEF BaseInv, SteadyInv, TypeOK, Sound, Steady
<1>10. SteadyInv'
    BY <1>1, <1>2, <1>9 DEF SteadyInv, Sound, Steady, StopAgree
<1>11. FetchInv'
    <2>. SUFFICES ASSUME Sound, downloadOffset < sum, thread' = "request"
                  PROVE  Requested'
        BY <1>1, <1>2 DEF FetchInv, Sound, NoBuffer
    <2>1. StopAgree /\ position = downloadOffset
        BY <1>9
    <2>2. stop # -1 => position < stop
        BY <1>1, PastLimit
    <2>3. stop # -1 => downloadEnd = stop /\ downloadEnd # 0
        BY <1>3, <2>1, <2>2 DEF StopAgree
    <2>4. stop = -1 => downloadEnd = 0
        BY <2>1 DEF StopAgree
    <2>5. stop # -1 => AtMost(end, downloadEnd) <= stop
        BY <1>6, <2>3
    <2>6. AtMost(end, downloadEnd) <= position => resourceSize # 0 /\ AtMost(end, downloadEnd) = resourceSize
        BY <1>3, <1>4, <1>5, <1>6, <2>1, <2>2, <2>3, <2>4
    <2>. QED
        BY <1>1, <2>1, <2>5, <2>6 DEF Requested, StopAgree
<1>12. InPlace' /\ Complete'
    BY <1>1, <1>7 DEF InPlace, Complete
<1>. QED
    BY <1>7, <1>8, <1>10, <1>11, <1>12

\* A server that honours ranges sends everything only past the end of what the
\* element knows to be the size, and that is the end of the stream.
LEMMA WholeInv == IInv /\ Whole => IInv'
<1>. SUFFICES ASSUME IInv, Whole PROVE IInv'
    OBVIOUS
<1>. USE EmFetchAssumption DEF IInv, lockVars, baseVars, requestVars, selfVars, counters
<1>1. /\ thread = "request" /\ server.size \in Nat
      /\ UNCHANGED <<server, app, lockVars, baseVars, range, uri, downloadOffset,
                     downloadEnd, last, ended, counters, crossed, freedRead>>
    <2>1. server.size \in Sizes
        BY DEF TypeOK
    <2>2. server.size \in 0..Word - 1
        BY <2>1
    <2>. QED
        BY <2>2 DEF Whole, Answer
<1>2. /\ thread' \in {"request", "fetched"}
      /\ again' \in BOOLEAN /\ inEos' \in BOOLEAN
      /\ buffer' \in [from : Nat, length : Nat]
      /\ resourceSize' = resourceSize
    <2>1. CASE server.size # 0
        <3>1. Success(0, server.size, FALSE)
            BY <2>1 DEF Whole
        <3>2. again' \in BOOLEAN /\ inEos' \in BOOLEAN
            BY <3>1 DEF Success, TypeOK
        <3>. QED
            BY <1>1, <3>1, <3>2 DEF Success
    <2>2. CASE server.size = 0
        BY <2>2 DEF Whole, TypeOK
    <2>. QED
        BY <2>1, <2>2
<1>3. TypeOK'
    BY <1>1, <1>2 DEF TypeOK
<1>4. BaseInv'
    BY <1>1, <1>2 DEF BaseInv, TypeOK
<1>5. ASSUME Sound
      PROVE  /\ Requested /\ ~again /\ range.end = resourceSize /\ resourceSize = server.size
             /\ resourceSize # 0 /\ position >= server.size
    <2>1. Requested
        BY <1>1, <1>5 DEF FetchInv
    <2>2. ~again /\ range.end <= range.start
        BY <1>5 DEF Whole, Ignored, Sound
    <2>3. resourceSize # 0 /\ range.end = resourceSize /\ range.start = position
        BY <2>1, <2>2 DEF Requested
    <2>. QED
        BY <2>1, <2>2, <2>3 DEF BaseInv
<1>6. ASSUME Sound
      PROVE  inEos' /\ thread' = "fetched" /\ buffer' # NoBuffer
    <2>1. Success(0, server.size, FALSE)
        BY <1>5, <1>6 DEF Whole
    <2>2. resourceSize' = range.end
        BY <1>2, <1>5, <1>6
    <2>. QED
        BY <1>5, <1>6, <2>1, <2>2 DEF Success, NoBuffer
<1>7. SteadyInv'
    <2>. SUFFICES ASSUME Sound, Steady PROVE SteadyInv'
        BY <1>1 DEF SteadyInv, Sound, Steady
    <2>1. StopAgree' /\ position' = downloadOffset'
        BY <1>1, <1>5 DEF Requested, StopAgree
    <2>. QED
        BY <1>6, <2>1 DEF SteadyInv
<1>8. FetchInv'
    <2>. SUFFICES ASSUME Sound PROVE FetchInv'
        BY <1>1 DEF FetchInv, Sound
    <2>1. Requested'
        BY <1>1, <1>2, <1>5 DEF Requested, StopAgree
    <2>2. ~(position' < server'.size)
        BY <1>1, <1>5 DEF TypeOK
    <2>. QED
        BY <1>6, <2>1, <2>2 DEF FetchInv
<1>9. InPlace' /\ Complete'
    BY <1>1, <1>3 DEF InPlace, Complete
<1>. QED
    BY <1>3, <1>4, <1>7, <1>8, <1>9

\* Part of the resource: the requested range, or what there is of it, which is the
\* end of the stream.
LEMMA PartialInv == IInv /\ Partial => IInv'
<1>. SUFFICES ASSUME IInv, Partial PROVE IInv'
    OBVIOUS
<1>. USE EmFetchAssumption DEF IInv, lockVars, baseVars, requestVars, selfVars, counters
<1>. DEFINE limit  == AtMost(range.end, server.size)
            length == limit - range.start
<1>1. /\ thread = "request" /\ range.start < range.end /\ range.start < server.size
      /\ UNCHANGED <<server, app, lockVars, baseVars, range, uri, downloadOffset,
                     downloadEnd, last, ended, counters, crossed, freedRead>>
      /\ Success(range.start, length, server.told)
    <2>1. range.start \in Nat /\ range.end \in Nat /\ ~(range.end <= range.start)
        BY DEF Partial, Ignored, TypeOK
    <2>. QED
        BY <2>1 DEF Partial, Answer
<1>2. /\ range.start \in 0..Word - 1 /\ range.end \in 0..Word - 1 /\ server.size \in 0..Word - 1
      /\ position \in Nat /\ resourceSize \in {0, server.size}
    BY DEF TypeOK, BaseInv
<1>3. /\ limit \in 0..Word - 1 /\ limit <= range.end /\ limit <= server.size
      /\ limit \in {range.end, server.size} /\ range.start < limit
    BY <1>1, <1>2 DEF AtMost
<1>. HIDE DEF limit
<1>4. length \in Nat \ {0} /\ range.start + length = limit
    BY <1>2, <1>3
<1>5. (range.end + Word - range.start) % Word = range.end - range.start
    <2>1. range.start <= range.end
        BY <1>1, <1>2
    <2>. QED
        BY <1>2, <2>1, ModDifference
<1>. HIDE DEF length
<1>6. /\ buffer' = [from |-> range.start, length |-> length] /\ again' = FALSE
      /\ resourceSize' \in {0, server.size} /\ thread' = "fetched"
    BY <1>1, <1>2 DEF Success
<1>7. inEos' \in BOOLEAN
    BY <1>1 DEF Success, TypeOK
<1>8. TypeOK'
    <2>1. buffer' \in [from : Nat, length : Nat] /\ resourceSize' \in Nat
        BY <1>2, <1>4, <1>6
    <2>2. again' \in BOOLEAN
        BY <1>6
    <2>. QED
        BY <1>1, <1>6, <1>7, <2>1, <2>2 DEF TypeOK
<1>9. BaseInv'
    <2>1. app # "ready"
        BY <1>1 DEF BaseInv
    <2>. QED
        BY <1>1, <1>6, <2>1 DEF BaseInv
<1>10. SteadyInv'
    BY <1>1, <1>6 DEF SteadyInv, FetchInv, Requested, Sound, Steady, StopAgree
<1>11. FetchInv'
    <2>. SUFFICES ASSUME Sound PROVE FetchInv'
        BY <1>1 DEF FetchInv, Sound
    <2>1. Requested /\ (inEos => position >= server.size) /\ range.start = position
        BY <1>1 DEF FetchInv, Requested
    <2>0. position < server.size
        BY <1>1, <2>1
    <2>2. position + length <= range.end /\ position + length <= server.size
        BY <1>2, <1>3, <1>4, <2>1
    <2>3. inEos' => position + length >= server.size
        <3>1. inEos' <=> (inEos \/ range.end = resourceSize'
                              \/ length # (range.end + Word - range.start) % Word)
            BY <1>1 DEF Success
        <3>2. CASE inEos
            BY <1>2, <1>4, <2>1, <3>2
        <3>3. CASE range.end = resourceSize'
            BY <1>1, <1>2, <1>3, <1>4, <1>6, <2>1, <3>3
        <3>4. CASE length # range.end - range.start
            BY <1>2, <1>3, <1>4, <2>1, <3>4
        <3>. QED
            BY <1>5, <3>1, <3>2, <3>3, <3>4
    <2>4. buffer' # NoBuffer /\ buffer'.from = position /\ buffer'.length = length
        BY <1>4, <1>6, <2>1 DEF NoBuffer
    <2>5. Requested'
        <3>1. ~(range.end <= range.start)
            BY <1>1, <1>2
        <3>. QED
            BY <1>1, <2>1, <3>1 DEF Requested, StopAgree
    <2>6. ~(position' >= server'.size)
        BY <1>1, <1>2, <2>0
    <2>. QED
        BY <1>1, <1>6, <2>2, <2>3, <2>4, <2>5, <2>6 DEF FetchInv
<1>12. InPlace' /\ Complete'
    BY <1>1, <1>8 DEF InPlace, Complete
<1>. QED
    BY <1>8, <1>9, <1>10, <1>11, <1>12

\* The offset and the position count on by what came; a buffer that is dropped is
\* one of a segment that a seek or a stop will replace.
LEMMA CreateEndInv == IInv /\ CreateEnd => IInv'
<1>. SUFFICES ASSUME IInv, CreateEnd PROVE IInv'
    OBVIOUS
<1>. USE EmFetchAssumption DEF IInv, lockVars, baseVars, requestVars, selfVars, counters
<1>1. /\ thread \in {"fetched", "refused"} /\ streamLock = "none"
      /\ downloadOffset' = (downloadOffset + buffer.length) % Word
      /\ objectLock' = "none"
      /\ range' = NoRange /\ again' = FALSE /\ buffer' = NoBuffer
      /\ UNCHANGED <<server, app, flushing, stop, duration, uri, inEos, downloadEnd,
                     resourceSize, counters, crossed, freedRead>>
    BY DEF CreateEnd, Return
<1>2. \/ /\ buffer = NoBuffer
         /\ thread' = "paused" /\ streamLock' = "none"
         /\ ended' = IF inEos THEN "eos" ELSE "error"
         /\ UNCHANGED <<position, last>>
      \/ /\ buffer # NoBuffer /\ flushing
         /\ thread' = "paused" /\ streamLock' = "none"
         /\ UNCHANGED <<position, last, ended>>
      \/ /\ buffer # NoBuffer /\ ~flushing
         /\ last' = [from |-> buffer.from, at |-> position]
         /\ stop # -1 /\ range.at + buffer.length >= stop
         /\ position' = stop /\ thread' = "paused" /\ streamLock' = "none" /\ ended' = "eos"
      \/ /\ buffer # NoBuffer /\ ~flushing
         /\ last' = [from |-> buffer.from, at |-> position]
         /\ ~(stop # -1 /\ range.at + buffer.length >= stop)
         /\ position' = range.at + buffer.length
         /\ thread' = "loop" /\ streamLock' = "thread"
         /\ UNCHANGED ended
    BY DEF CreateEnd, Returned, Pushed, Pause
<1>3. /\ downloadOffset \in 0..Word - 1 /\ range \in [start : 0..Word - 1, end : 0..Word - 1, at : Nat]
      /\ buffer \in [from : Nat, length : Nat] /\ position \in Nat /\ stop \in Nat \cup {-1}
      /\ server.size \in 0..Word - 1
    <2>1. server.size \in 0..Word - 1
        BY DEF TypeOK
    <2>. QED
        BY <2>1 DEF TypeOK
<1>4. downloadOffset' \in 0..Word - 1
    <2>1. downloadOffset + buffer.length \in Nat
        BY <1>3
    <2>. QED
        BY <1>1, <2>1, ModRange
<1>5. TypeOK'
    <2>1. 0 \in 0..Word - 1
        OBVIOUS
    <2>2. range' \in [start : 0..Word - 1, end : 0..Word - 1, at : Nat]
          /\ buffer' \in [from : Nat, length : Nat]
        BY <1>1, <2>1 DEF NoRange, NoBuffer
    <2>3. again' \in BOOLEAN
        BY <1>1
    <2>4. /\ position' \in Nat /\ last' \in [from : Nat, at : Nat]
          /\ ended' \in {"no", "eos", "error"}
        <3>1. range.at + buffer.length \in Nat /\ buffer.from \in Nat
            BY <1>3
        <3>. QED
            BY <1>2, <1>3, <3>1 DEF TypeOK
    <2>5. thread' \in {"paused", "loop"} /\ streamLock' \in {"none", "thread"}
        BY <1>2
    <2>. QED
        BY <1>1, <1>4, <2>2, <2>3, <2>4, <2>5 DEF TypeOK
<1>6. BaseInv'
    <2>1. app \notin {"ready", "seek"} /\ ended = "no"
        BY <1>1 DEF BaseInv
    <2>2. stop # -1 => position' <= stop
        <3>1. range.at + buffer.length \in Nat
            BY <1>3
        <3>. QED
            BY <1>2, <1>3, <3>1 DEF BaseInv
    <2>. QED
        BY <1>1, <1>2, <2>1, <2>2 DEF BaseInv
<1>7. ASSUME buffer = NoBuffer
      PROVE  downloadOffset' = downloadOffset
    <2>1. downloadOffset + buffer.length = downloadOffset
        BY <1>3, <1>7 DEF NoBuffer
    <2>. QED
        BY <1>1, <1>3, <2>1, ModSmall
<1>8. ASSUME Sound, thread = "fetched"
      PROVE  /\ StopAgree /\ downloadOffset = position /\ range.at = position
             /\ stop # -1 => range.end <= stop
             /\ buffer = NoBuffer => (inEos => position >= server.size)
             /\ buffer # NoBuffer /\ position < server.size =>
                   /\ buffer.from = position
                   /\ position + buffer.length <= range.end
                   /\ position + buffer.length <= server.size
                   /\ inEos => position + buffer.length >= server.size
             /\ buffer # NoBuffer /\ position >= server.size => inEos
    BY <1>8 DEF FetchInv, Requested
<1>9. ASSUME Sound, buffer # NoBuffer
      PROVE  /\ thread = "fetched" /\ range.at = position
             /\ position < server.size =>
                   buffer.from = position /\ downloadOffset' = position + buffer.length
    <2>1. thread = "fetched"
        BY <1>1, <1>9 DEF BaseInv
    <2>. SUFFICES ASSUME position < server.size
                  PROVE  buffer.from = position /\ downloadOffset' = position + buffer.length
        BY <1>8, <1>9, <2>1
    <2>2. /\ downloadOffset = position /\ range.at = position /\ buffer.from = position
          /\ position + buffer.length <= server.size
        BY <1>8, <1>9, <2>1
    <2>3. position + buffer.length \in 0..Word - 1
        BY <1>3, <2>2
    <2>. QED
        BY <1>1, <2>1, <2>2, <2>3, ModSmall
<1>10. SteadyInv'
    <2>. SUFFICES ASSUME Sound, Steady
                  PROVE  /\ StopAgree'
                         /\ ~inEos => position' = downloadOffset'
                         /\ inEos => position' >= server.size
        BY <1>1, <1>2 DEF SteadyInv, Sound, Steady
    <2>1. /\ StopAgree /\ (~inEos => position = downloadOffset) /\ ~flushing
        BY DEF SteadyInv, BaseInv, Steady
    <2>2. StopAgree'
        BY <1>1, <2>1 DEF StopAgree
    <2>3. CASE buffer = NoBuffer
        <3>1. position' = position /\ downloadOffset' = downloadOffset
            BY <1>2, <1>7, <2>3
        <3>2. inEos => thread = "fetched"
            BY <1>1 DEF BaseInv
        <3>. QED
            BY <1>8, <2>1, <2>2, <2>3, <3>1, <3>2
    <2>4. CASE buffer # NoBuffer /\ position < server.size
        <3>1. thread = "fetched" /\ downloadOffset' = position + buffer.length
            BY <1>9, <2>4
        <3>2. /\ stop # -1 => range.end <= stop
              /\ position + buffer.length <= range.end /\ range.at = position
              /\ inEos => position + buffer.length >= server.size
            BY <1>8, <2>4, <3>1
        <3>3. position + buffer.length \in Nat /\ range.end \in Nat
            BY <1>3
        <3>4. position' = position + buffer.length
            BY <1>2, <1>3, <2>1, <2>4, <3>2, <3>3
        <3>. QED
            BY <2>2, <3>1, <3>2, <3>4
    <2>5. CASE buffer # NoBuffer /\ position >= server.size
        <3>1. inEos /\ range.at = position
            BY <1>8, <1>9, <2>5
        <3>2. position + buffer.length >= server.size /\ (stop # -1 => stop >= server.size)
            BY <1>3, <2>5 DEF BaseInv
        <3>3. position' >= server.size
            BY <1>2, <1>3, <2>1, <2>5, <3>1, <3>2
        <3>. QED
            BY <2>2, <3>1, <3>3
    <2>. QED
        BY <1>3, <2>3, <2>4, <2>5
<1>11. FetchInv'
    BY <1>2 DEF FetchInv
<1>12. InPlace'
    <2>. SUFFICES ASSUME Sound, last'.at < server.size PROVE last'.from = last'.at
        BY <1>1, <1>5 DEF InPlace, Sound
    <2>1. last.at < server.size => last.from = last.at
        BY DEF InPlace, Sound
    <2>2. CASE buffer # NoBuffer /\ ~flushing
        <3>1. last' = [from |-> buffer.from, at |-> position]
            BY <1>2, <2>2
        <3>. QED
            BY <1>9, <2>2, <3>1
    <2>3. CASE buffer = NoBuffer \/ flushing
        BY <1>2, <2>1, <2>3
    <2>. QED
        BY <2>2, <2>3
<1>13. Complete'
    <2>. SUFFICES ASSUME Sound, ended' = "eos"
                  PROVE  position' >= server.size \/ (stop # -1 /\ position' = stop)
        BY <1>1 DEF Complete, Sound
    <2>1. ended = "no"
        BY <1>1 DEF BaseInv
    <2>2. CASE buffer = NoBuffer
        <3>1. inEos /\ position' = position
            BY <1>2, <2>1, <2>2
        <3>2. thread = "fetched"
            BY <1>1, <3>1 DEF BaseInv
        <3>. QED
            BY <1>8, <2>2, <3>1, <3>2
    <2>3. CASE buffer # NoBuffer
        BY <1>2, <2>1, <2>3
    <2>. QED
        BY <2>2, <2>3
<1>. QED
    BY <1>5, <1>6, <1>10, <1>11, <1>12, <1>13

\* do_seek sets both sides to the new segment, unless a request was under way.
LEMMA DoSeekInv == IInv /\ Seek => IInv'
<1>. SUFFICES ASSUME IInv, Seek PROVE IInv'
    OBVIOUS
<1>. USE EmFetchAssumption DEF IInv, lockVars, baseVars, requestVars, selfVars, counters
<1>1. server.size \in 0..Word - 1
    <2>1. server.size \in Sizes
        BY DEF TypeOK
    <2>. QED
        BY <2>1
<1>2. PICK start \in Nat, end \in Nat \cup {-1} :
          (end = -1 \/ start <= end) /\ DoSeek(start, end)
    <2>0. Positions \subseteq Nat
        BY <1>1 DEF Positions
    <2>1. PICK s \in Nat, e \in Nat \cup {-1} :
              (e = -1 \/ s <= e) /\ DoSeek(Clamped(s), Clamped(e))
        BY <2>0 DEF Seek
    <2>2. duration \in Nat \cup {-1}
        BY DEF TypeOK
    <2>3. /\ Clamped(s) \in Nat /\ Clamped(e) \in Nat \cup {-1}
          /\ Clamped(e) = -1 \/ Clamped(s) <= Clamped(e)
        BY <2>1, <2>2 DEF Clamped
    <2>. QED
        BY <2>1, <2>3
<1>3. /\ start % Word \in 0..Word - 1 /\ (start < Word => start % Word = start)
      /\ end # -1 => end % Word \in 0..Word - 1 /\ (end < Word => end % Word = end)
    BY <1>2, ModSmall, ModRange
<1>4. /\ app = "seek" /\ app' = "playing" /\ streamLock' = "none" /\ ended' = "no"
      /\ downloadOffset' = start % Word
      /\ downloadEnd' = IF end = -1 THEN 0 ELSE end % Word
      /\ position' = start /\ stop' = end
      /\ thread' = IF thread = "paused" THEN "started" ELSE thread
      /\ crossed' = \/ crossed \/ inEos \/ thread \in {"request", "fetched", "refused"}
                    \/ start >= Word \/ end >= Word
      /\ UNCHANGED <<server, objectLock, flushing, duration, requestVars, uri, inEos,
                     resourceSize, last, counters, freedRead>>
    BY <1>2 DEF DoSeek
<1>5. TypeOK'
    <2>1. crossed' \in BOOLEAN
        BY <1>4
    <2>2. position' \in Nat /\ stop' \in Nat \cup {-1}
        BY <1>2, <1>4
    <2>3. downloadOffset' \in 0..Word - 1 /\ downloadEnd' \in 0..Word - 1
        BY <1>3, <1>4
    <2>. QED
        BY <1>4, <2>1, <2>2, <2>3 DEF TypeOK
<1>6. BaseInv'
    BY <1>2, <1>4 DEF BaseInv, TypeOK
<1>7. SteadyInv'
    <2>. SUFFICES ASSUME Sound' PROVE SteadyInv'
        BY DEF SteadyInv
    <2>1. ~inEos' /\ start < Word /\ ~(end >= Word)
        BY <1>2, <1>4 DEF Sound
    <2>2. position' = downloadOffset' /\ StopAgree'
        BY <1>2, <1>3, <1>4, <2>1 DEF StopAgree
    <2>. QED
        BY <2>1, <2>2 DEF SteadyInv
<1>8. FetchInv'
    BY <1>4 DEF FetchInv, Sound
<1>9. InPlace' /\ Complete'
    BY <1>4, <1>5 DEF InPlace, Complete
<1>. QED
    BY <1>5, <1>6, <1>7, <1>8, <1>9

LEMMA StepInv == IInv /\ [Next]_vars => IInv'
<1>1. IInv /\ UNCHANGED vars => IInv'
    BY DEF vars, lockVars, baseVars, requestVars, selfVars, counters, IInv, TypeOK, BaseInv,
       SteadyInv, FetchInv, InPlace, Complete, Sound, Steady, StopAgree, Requested
<1>. QED
    BY <1>1, ResumeInv, LoopInv, SeekInv, StartInv, UriInv, FailureInv, CreateBeginInv,
       WholeInv, PartialInv, CreateEndInv, DoSeekInv DEF Next, ThreadStep, AppStep

--------------------------------------------------------------------------------
(* The theorems *)

\* The inductive invariant: the element and the base class count the same segment
\* while no seek or state change is under way and the end was not seen, and what is
\* fetched is its next part, or else comes from past the end of the resource.
THEOREM Invariance == Spec => []IInv
<1>1. Init => IInv
    BY InitInv
<1>2. IInv /\ [Next]_vars => IInv'
    BY StepInv
<1>. QED
    BY <1>1, <1>2, PTL DEF Spec

\* A buffer is pushed where its bytes belong, unless the element did not follow a seek
\* or the position is past the end of the resource, for every size of the ranges, of
\* the blocks and of the resource.
THEOREM PlaceCorrect == Spec => []InPlace
<1>1. IInv => InPlace
    BY DEF IInv
<1>. QED
    BY <1>1, Invariance, PTL

\* The stream ends at the end of the segment or of the resource, and not before.
THEOREM EndCorrect == Spec => []Complete
<1>1. IInv => Complete
    BY DEF IInv
<1>. QED
    BY <1>1, Invariance, PTL

================================================================================
