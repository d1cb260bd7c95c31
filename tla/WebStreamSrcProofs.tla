--------------------------- MODULE WebStreamSrcProofs ---------------------------
(***************************************************************************)
(* Theorems about the sources that are told by JavaScript what the network *)
(* brings: about WebStreamSrc, for every queue limit, resource, chunking   *)
(* and number of downloads, seeks and stops; and, in the second half,      *)
(* about WebTransportSrc, for every number of streams, pads, links and     *)
(* water marks.                                                            *)
(***************************************************************************)
EXTENDS WebStreamSrc, WebTransportSrc, FiniteSetTheorems, SequenceTheorems, TLAPS

(***************************************************************************)
(* The inductive invariant.                                                *)
(***************************************************************************)

\* What a download hands to chunk() is a chunk, and so not empty.
ChunkInv == \A g \in Fetches : fetch[g] \in {"chunk", "asleep"} => size[g] \in ChunkSizes

\* The queued buffers are chunks too, and end before the next one.
BufferInv ==
    \A i \in 1..Len(q) : q[i].size \in ChunkSizes /\ q[i].offset + q[i].size <= offset

\* A range begins at a byte of the resource, or was never set.
StartOK == start = -1 \/ start \in 0..FileSize

\* What create() and chunk() rely on: the parts of ByteAccounting, with the types.
CountInv == accumulated = IF q = <<>> THEN 0 ELSE offset - Head(q).offset

QueueOK ==
    /\ q \in Seq(Buffer) /\ queueMax \in Nat /\ accumulated \in Nat /\ offset \in Int
    /\ QueueBounded /\ BufferInv /\ CountInv

\* The downloads that may still call chunk().
Active == {"requested", "reading", "chunk", "asleep"}

\* Before the first seek or stop there is at most one download, and it reads the
\* byte that is queued next.
FirstDownload ==
    /\ app = "playing" /\ start = -1
    /\ thread = fetches /\ fetches \in {0, 1}
    /\ \A g \in Fetches :
          /\ fetch[g] # "none" => g = thread
          /\ fetch[g] = "created" => offset = 0
          /\ fetch[g] \in Active => pos[g] = offset
    /\ thread = 0 => offset = 0

\* What has left the queue, what is in it and what comes next make one stream.
FirstBytes ==
    /\ \A i \in 1..Len(q) : q[i].offset = q[i].at
    /\ (IF q = <<>> THEN offset ELSE Head(q).at) = last.at + last.size
    /\ last.offset = last.at

\* The end of the stream: everything was queued, and nothing more will be.
FirstEos ==
    inEos =>
        /\ offset = FileSize /\ thread # 0
        /\ \A g \in Fetches : fetch[g] \notin Active \cup {"created"}

IInv ==
    /\ TypeOK
    /\ StartOK
    /\ QueueOK
    /\ ChunkInv
    /\ resets = 0 => FirstDownload /\ FirstBytes /\ FirstEos

--------------------------------------------------------------------------------
(* The operators *)

CreateStates == {"out", "check", "asleep", "ended"}
FetchStates ==
    {"none", "created", "requested", "reading", "chunk", "asleep", "closed", "broken"}

\* A signal wakes create(), or a download in chunk(), or nobody.
LEMMA SignalWakes ==
    ASSUME NEW c \in CreateStates, NEW f \in [Fetches -> FetchStates], SignalTo(c, f)
    PROVE  /\ create' \in CreateStates
           /\ fetch' \in [Fetches -> FetchStates]
           /\ \A g \in Fetches :
                 fetch'[g] = f[g] \/ (f[g] = "asleep" /\ fetch'[g] = "chunk")
  BY DEF SignalTo, CreateStates, FetchStates

\* What the pop of a buffer leaves.
LEMMA TailOf ==
    ASSUME NEW S, NEW s \in Seq(S), s # <<>>
    PROVE  /\ Head(s) = s[1] /\ Head(s) \in S
           /\ Tail(s) \in Seq(S) /\ Len(Tail(s)) = Len(s) - 1 /\ Len(s) \in Nat \ {0}
           /\ \A i \in 1..Len(Tail(s)) : Tail(s)[i] = s[i + 1]
           /\ Tail(s) = <<>> <=> Len(s) = 1
<1>1. Len(s) \in Nat \ {0}
    BY EmptySeq
<1>2. /\ Head(s) \in S /\ Tail(s) \in Seq(S) /\ Len(Tail(s)) = Len(s) - 1
      /\ \A i \in 1..Len(Tail(s)) : Tail(s)[i] = s[i + 1]
    BY HeadTailProperties
<1>3. Tail(s) = <<>> <=> Len(Tail(s)) = 0
    BY <1>2, EmptySeq
<1>4. Head(s) = s[1]
    OBVIOUS
<1>. QED
    BY <1>1, <1>2, <1>3, <1>4

\* What the push of a buffer adds.
LEMMA AppendOf ==
    ASSUME NEW S, NEW s \in Seq(S), NEW e \in S
    PROVE  /\ Append(s, e) \in Seq(S) /\ Append(s, e) # <<>>
           /\ Len(Append(s, e)) = Len(s) + 1 /\ Len(s) \in Nat
           /\ \A i \in 1..Len(s) : Append(s, e)[i] = s[i]
           /\ Append(s, e)[Len(s) + 1] = e
           /\ Head(Append(s, e)) = IF s = <<>> THEN e ELSE Head(s)
           /\ s # <<>> => Head(s) = s[1]
           /\ s = <<>> <=> Len(s) = 0
<1>1. /\ Append(s, e) \in Seq(S) /\ Append(s, e) # <<>>
      /\ Len(Append(s, e)) = Len(s) + 1
      /\ \A i \in 1..Len(s) : Append(s, e)[i] = s[i]
      /\ Append(s, e)[Len(s) + 1] = e
    BY AppendProperties
<1>2. Len(s) \in Nat /\ (s = <<>> <=> Len(s) = 0)
    BY EmptySeq, LenProperties
<1>3. Head(Append(s, e)) = Append(s, e)[1] /\ Head(s) = s[1]
    OBVIOUS
<1>. QED
    BY <1>1, <1>2, <1>3

\* The sizes and offsets of queued buffers.
LEMMA QueuedBuffer ==
    ASSUME QueueOK, NEW i \in 1..Len(q)
    PROVE  /\ q[i].size \in Nat \ {0} /\ q[i].offset \in Int
           /\ q[i].offset + q[i].size <= offset
<1>1. q[i] \in Buffer
    BY ElementOfSeq DEF QueueOK
<1>2. q[i].size \in ChunkSizes /\ q[i].offset + q[i].size <= offset
    BY DEF QueueOK, BufferInv
<1>. QED
    BY <1>1, <1>2, StreamAssumption DEF Buffer

--------------------------------------------------------------------------------
(* Every step keeps the invariant *)

LEMMA InitInv == Init => IInv
<1>. SUFFICES ASSUME Init PROVE IInv
    OBVIOUS
<1>1. TypeOK
    <2>1. fetch \in [Fetches -> FetchStates] /\ pos \in [Fetches -> Nat]
          /\ size \in [Fetches -> Nat]
        BY DEF Init, FetchStates
    <2>2. q \in Seq(Buffer)
        BY EmptySeq DEF Init
    <2>3. /\ queueMax \in Nat /\ accumulated \in Nat
          /\ thread \in 0..MaxFetches /\ fetches \in 0..MaxFetches
          /\ start \in Int /\ offset \in Int
        BY StreamAssumption DEF Init
    <2>. QED
        BY <2>1, <2>2, <2>3 DEF Init, TypeOK, FetchStates
<1>2. QueueOK
    BY <1>1, StreamAssumption DEF Init, TypeOK, QueueOK, QueueBounded, BufferInv, CountInv
<1>3. ChunkInv
    BY DEF Init, ChunkInv
<1>4. FirstDownload /\ FirstBytes /\ FirstEos
    BY StreamAssumption DEF Init, FirstDownload, FirstBytes, FirstEos, NoBuffer, Active
<1>. QED
    BY <1>1, <1>2, <1>3, <1>4 DEF IInv, Init, StartOK

\* Only five actions touch the queue, its count, its limit or the next offset.
LEMMA QueueSteps ==
    ASSUME [Next]_vars
    PROVE  \/ UNCHANGED <<q, accumulated, queueMax, offset>>
           \/ CreatePop
           \/ \E g \in Fetches : ChunkSleep(g) \/ ChunkPush(g)
           \/ SeekEnd \/ StopEnd
<1>. USE DEF queueVars, rangeVars
<1>1. CASE UNCHANGED vars
    BY <1>1 DEF vars
<1>2. CASE CreateStep
    BY <1>2 DEF CreateStep, CreateAtEos, CreateFlushing, CreateBegin, CreateSleep,
            CreateError, CreateDrained
<1>3. ASSUME NEW g \in Fetches, FetchStep(g) \/ FetchRejected(g) \/ ReadFails(g)
      PROVE  \/ UNCHANGED <<q, accumulated, queueMax, offset>>
             \/ ChunkSleep(g) \/ ChunkPush(g)
    BY <1>3 DEF FetchStep, FetchBegin, ReadChunk, FetchDone, FetchRejected, ReadFails
<1>4. CASE Seek \/ PausedToReady \/ Deactivated \/ ReadyToPaused
    BY <1>4 DEF Seek, PausedToReady, CleanupBegin, Deactivated, ReadyToPaused
<1>. QED
    BY <1>1, <1>2, <1>3, <1>4 DEF Next

\* The pop of the head: its size is what the count and the span lose.
LEMMA QueuePop ==
    ASSUME IInv, CreatePop
    PROVE  QueueOK'
<1>. DEFINE n == Len(q)
<1>1. /\ q \in Seq(Buffer) /\ queueMax \in Nat /\ accumulated \in Nat /\ offset \in Int
      /\ QueueBounded /\ BufferInv /\ CountInv
    BY DEF IInv, QueueOK
<1>2. /\ q # <<>> /\ q' = Tail(q) /\ accumulated' = accumulated - Head(q).size
      /\ UNCHANGED <<queueMax, offset>>
    BY DEF CreatePop, rangeVars
<1>3. /\ Head(q) = q[1] /\ q' \in Seq(Buffer) /\ Len(q') = n - 1 /\ n \in Nat \ {0}
      /\ \A i \in 1..n - 1 : q'[i] = q[i + 1]
      /\ q' = <<>> <=> n = 1
    BY <1>1, <1>2, TailOf
<1>4. \A i \in 1..n : q[i].size \in Nat \ {0} /\ q[i].offset \in Int
    BY QueuedBuffer DEF IInv
<1>5. 1 \in 1..n /\ (q' # <<>> => Head(q') = q[2] /\ 2 \in 1..n)
    <2>1. q' # <<>> => Head(q') = q'[1]
        BY <1>3, TailOf
    <2>2. q' # <<>> => 1 \in 1..n - 1 /\ 2 \in 1..n
        BY <1>3
    <2>3. q' # <<>> => q'[1] = q[1 + 1]
        BY <1>3, <2>2
    <2>. QED
        BY <1>3, <2>1, <2>2, <2>3
<1>6. CountInv' /\ accumulated' \in Nat
    <2>1. accumulated = offset - q[1].offset
        BY <1>1, <1>2, <1>3 DEF CountInv
    <2>2. q[1].offset + q[1].size = IF 1 < n THEN q[2].offset ELSE offset
        BY <1>1, <1>5 DEF QueueBounded
    <2>3. CASE q' = <<>>
        <3>1. q[1].offset \in Int /\ q[1].size \in Nat /\ n = 1
            BY <1>3, <1>4, <1>5, <2>3
        <3>2. accumulated' = 0
            BY <1>1, <1>2, <1>3, <2>1, <2>2, <3>1
        <3>. QED
            BY <2>3, <3>2 DEF CountInv
    <2>4. CASE q' # <<>>
        <3>1. q[2].offset + q[2].size <= offset
            BY <1>1, <1>5, <2>4 DEF BufferInv
        <3>2. /\ q[1].offset \in Int /\ q[1].size \in Nat
              /\ q[2].offset \in Int /\ q[2].size \in Nat
            BY <1>3, <1>4, <1>5, <2>4
        <3>3. 1 < n /\ Head(q) = q[1] /\ offset' = offset /\ offset \in Int
            BY <1>1, <1>2, <1>3, <1>5, <2>4
        <3>4. accumulated' = offset - q[2].offset
            <4>1. accumulated' = accumulated - q[1].size
                BY <1>2, <3>3
            <4>2. q[1].offset + q[1].size = q[2].offset
                BY <2>2, <3>3
            <4>. QED
                BY SMTT(40), <2>1, <3>2, <3>3, <4>1, <4>2
        <3>5. accumulated' = offset' - Head(q').offset
            BY <1>5, <2>4, <3>3, <3>4
        <3>6. accumulated' \in Nat
            BY <3>1, <3>2, <3>3, <3>4
        <3>. QED
            BY <2>4, <3>5, <3>6 DEF CountInv
    <2>. QED
        BY <2>3, <2>4
<1>7. BufferInv'
    <2>. SUFFICES ASSUME NEW i \in 1..n - 1
                  PROVE  q[i + 1].size \in ChunkSizes /\ q[i + 1].offset + q[i + 1].size <= offset
        BY <1>2, <1>3 DEF BufferInv
    <2>1. i + 1 \in 1..n
        BY <1>3
    <2>. QED
        BY <1>1, <2>1 DEF BufferInv
<1>8. QueueBounded'
    <2>1. accumulated' <= queueMax' /\ (queueMax' = QueueMaxSize \/ queueMax' \in ChunkSizes)
        <3>1. q[1].size \in Nat
            BY <1>3, <1>4
        <3>. QED
            BY <1>1, <1>2, <1>3, <3>1 DEF QueueBounded
    <2>2. ASSUME NEW i \in 1..n - 1
          PROVE  q'[i].offset + q'[i].size = IF i < n - 1 THEN q'[i + 1].offset ELSE offset
        <3>1. i + 1 \in 1..n /\ (i < n - 1 => i + 1 \in 1..n - 1) /\ (i + 1 < n <=> i < n - 1)
            BY <1>3
        <3>2. q[i + 1].offset + q[i + 1].size
                  = IF i + 1 < n THEN q[i + 1 + 1].offset ELSE offset
            BY <1>1, <3>1 DEF QueueBounded
        <3>. QED
            BY <1>3, <3>1, <3>2
    <2>. QED
        BY <1>2, <1>3, <2>1, <2>2 DEF QueueBounded
<1>. QED
    BY <1>1, <1>2, <1>3, <1>6, <1>7, <1>8 DEF QueueOK

\* The push of a chunk: the count and the span gain its size.
LEMMA QueuePush ==
    ASSUME IInv, NEW g \in Fetches, ChunkPush(g)
    PROVE  QueueOK'
<1>. DEFINE n == Len(q)
            e == [from |-> g, at |-> pos[g], size |-> size[g], offset |-> offset]
<1>1. /\ q \in Seq(Buffer) /\ queueMax \in Nat /\ accumulated \in Nat /\ offset \in Int
      /\ QueueBounded /\ BufferInv /\ CountInv
    BY DEF IInv, QueueOK
<1>2. /\ q' = Append(q, e) /\ accumulated' = accumulated + size[g]
      /\ offset' = offset + size[g]
      /\ queueMax' = IF accumulated + size[g] > queueMax THEN Extended(size[g]) ELSE queueMax
      /\ accumulated + size[g] <= queueMax'
    BY DEF ChunkPush
<1>3. size[g] \in ChunkSizes /\ size[g] \in Nat \ {0}
    BY StreamAssumption DEF IInv, ChunkInv, ChunkPush
<1>4. e \in Buffer
    BY <1>1, <1>3 DEF IInv, TypeOK, Buffer
<1>. HIDE DEF e
<1>5. /\ q' \in Seq(Buffer) /\ q' # <<>> /\ Len(q') = n + 1 /\ n \in Nat
      /\ \A i \in 1..n : q'[i] = q[i]
      /\ q'[n + 1] = e
      /\ Head(q') = IF q = <<>> THEN e ELSE Head(q)
      /\ q # <<>> => Head(q) = q[1] /\ 1 \in 1..n
      /\ q = <<>> <=> n = 0
    BY <1>1, <1>2, <1>4, AppendOf
<1>6. e.size = size[g] /\ e.offset = offset
    BY DEF e
<1>7. \A i \in 1..n : q[i].size \in Nat /\ q[i].offset \in Int /\ q[i].offset + q[i].size <= offset
    BY QueuedBuffer DEF IInv
<1>8. CountInv'
    <2>1. CASE q = <<>>
        BY <1>1, <1>2, <1>3, <1>5, <1>6, <2>1 DEF CountInv
    <2>2. CASE q # <<>>
        <3>1. Head(q).offset \in Int /\ Head(q') = Head(q)
            BY <1>5, <1>7, <2>2
        <3>2. accumulated = offset - Head(q).offset
            BY <1>1, <2>2 DEF CountInv
        <3>3. accumulated' = offset' - Head(q').offset
            <4>1. accumulated' = accumulated + size[g] /\ offset' = offset + size[g]
                BY <1>2
            <4>. QED
                BY SMTT(40), <1>1, <1>3, <3>1, <3>2, <4>1
        <3>. QED
            BY <1>5, <3>3 DEF CountInv
    <2>. QED
        BY <2>1, <2>2
<1>9. BufferInv'
    <2>. SUFFICES ASSUME NEW i \in 1..n + 1
                  PROVE  q'[i].size \in ChunkSizes /\ q'[i].offset + q'[i].size <= offset'
        BY <1>5 DEF BufferInv
    <2>1. CASE i = n + 1
        BY <1>1, <1>2, <1>3, <1>5, <1>6, <2>1
    <2>2. CASE i \in 1..n
        <3>1. q'[i] = q[i] /\ q[i].size \in ChunkSizes
            BY <1>1, <1>5, <2>2 DEF BufferInv
        <3>2. q[i].size \in Nat /\ q[i].offset \in Int /\ q[i].offset + q[i].size <= offset
            BY <1>7, <2>2
        <3>3. offset <= offset' /\ offset' \in Int
            BY <1>1, <1>2, <1>3
        <3>4. q'[i].offset + q'[i].size <= offset'
            BY <1>1, <3>1, <3>2, <3>3
        <3>. QED
            BY <3>1, <3>4
    <2>. QED
        BY <1>5, <2>1, <2>2
<1>10. QueueBounded'
    <2>1. accumulated' <= queueMax' /\ (queueMax' = QueueMaxSize \/ queueMax' \in ChunkSizes)
        BY <1>1, <1>2, <1>3 DEF QueueBounded, Extended
    <2>2. ASSUME NEW i \in 1..n + 1
          PROVE  q'[i].offset + q'[i].size = IF i < n + 1 THEN q'[i + 1].offset ELSE offset'
        <3>1. CASE i = n + 1
            BY <1>1, <1>2, <1>3, <1>5, <1>6, <3>1
        <3>2. CASE i = n
            BY <1>1, <1>5, <1>6, <3>2 DEF QueueBounded
        <3>3. CASE i \in 1..n - 1
            <4>1. q[i].offset + q[i].size = q[i + 1].offset /\ i + 1 \in 1..n /\ i \in 1..n
                BY <1>1, <1>5, <3>3 DEF QueueBounded
            <4>. QED
                BY <1>5, <3>3, <4>1
        <3>. QED
            BY <1>5, <3>1, <3>2, <3>3
    <2>. QED
        BY <1>2, <1>5, <2>1, <2>2 DEF QueueBounded
<1>11. queueMax' \in Nat /\ accumulated' \in Nat /\ offset' \in Int
    BY <1>1, <1>2, <1>3 DEF Extended
<1>. QED
    BY <1>5, <1>8, <1>9, <1>10, <1>11 DEF QueueOK

LEMMA QueueNext ==
    ASSUME IInv, [Next]_vars
    PROVE  QueueOK'
<1>. USE DEF QueueOK, CountInv, QueueBounded, BufferInv
<1>1. CASE UNCHANGED <<q, accumulated, queueMax, offset>>
    BY <1>1 DEF IInv
<1>2. ASSUME NEW g \in Fetches, ChunkSleep(g) PROVE QueueOK'
    BY <1>2, StreamAssumption DEF IInv, TypeOK, ChunkInv, ChunkSleep, Extended, rangeVars
<1>3. CASE SeekEnd \/ StopEnd
    <2>1. q' = <<>> /\ accumulated' = 0 /\ queueMax' = queueMax /\ offset' \in Int
        BY <1>3, StreamAssumption DEF SeekEnd, StopEnd, CleanupEnd, EmptyQueue
    <2>2. q' \in Seq(Buffer) /\ Len(q') = 0
        BY <2>1, EmptySeq
    <2>. QED
        BY <2>1, <2>2 DEF IInv
<1>. QED
    BY <1>1, <1>2, <1>3, QueuePop, QueuePush, QueueSteps

\* The types: the queue has its own by QueueNext.
LEMMA TypeNext ==
    ASSUME IInv, [Next]_vars
    PROVE  TypeOK'
<1>. USE DEF queueVars, flagVars, rangeVars, fetchVars
<1>1. TypeOK /\ fetch \in [Fetches -> FetchStates] /\ create \in CreateStates
    BY DEF IInv, TypeOK, FetchStates, CreateStates
<1>2. q' \in Seq(Buffer) /\ queueMax' \in Nat /\ accumulated' \in Nat /\ offset' \in Int
    BY QueueNext DEF QueueOK
<1>3. SUFFICES /\ lockHeld' \in BOOLEAN /\ flushing' \in BOOLEAN
               /\ inEos' \in BOOLEAN /\ fetchError' \in BOOLEAN
               /\ thread' \in 0..MaxFetches /\ start' \in Int
               /\ create' \in CreateStates
               /\ last' \in Buffer \cup {NoBuffer}
               /\ app' \in {"playing", "seek", "stop", "deactivate", "ready"}
               /\ resets' \in Nat /\ fetches' \in 0..MaxFetches
               /\ fetch' \in [Fetches -> FetchStates]
               /\ pos' \in [Fetches -> Nat] /\ size' \in [Fetches -> Nat]
    BY <1>2 DEF TypeOK, FetchStates, CreateStates
<1>4. CASE UNCHANGED vars
    BY <1>1, <1>4 DEF vars, TypeOK
<1>5. CASE CreateAtEos \/ CreateFlushing \/ CreateSleep \/ CreateError \/ CreateDrained
    BY <1>1, <1>5 DEF CreateAtEos, CreateFlushing, CreateSleep, CreateError, CreateDrained,
            TypeOK, CreateStates
<1>6. CASE CreateBegin
    <2>1. fetch' \in [Fetches -> FetchStates]
        BY <1>1, <1>6 DEF CreateBegin, FetchStates
    <2>2. thread' \in 0..MaxFetches /\ fetches' \in 0..MaxFetches
        BY <1>1, <1>6, StreamAssumption DEF CreateBegin, TypeOK
    <2>. QED
        BY <1>1, <1>6, <2>1, <2>2 DEF CreateBegin, TypeOK, CreateStates
<1>7. CASE CreatePop
    <2>1. Head(q) \in Buffer
        BY <1>1, <1>7, TailOf DEF CreatePop, TypeOK
    <2>2. create' \in CreateStates /\ fetch' \in [Fetches -> FetchStates]
        BY <1>1, <1>7, SignalWakes DEF CreatePop, CreateStates
    <2>. QED
        BY <1>1, <1>7, <2>1, <2>2 DEF CreatePop, TypeOK
<1>8. ASSUME NEW g \in Fetches, FetchBegin(g) \/ ReadFails(g) \/ ReadChunk(g) \/ ChunkSleep(g)
      PROVE  /\ fetch' \in [Fetches -> FetchStates]
             /\ pos' \in [Fetches -> Nat] /\ size' \in [Fetches -> Nat]
             /\ UNCHANGED <<lockHeld, flagVars, thread, start, create, last, app, resets,
                            fetches>>
    <2>1. fetch' \in [Fetches -> FetchStates]
        BY <1>1, <1>8 DEF FetchBegin, ReadFails, ReadChunk, ChunkSleep, FetchStates
    <2>2. pos' \in [Fetches -> Nat] /\ size' \in [Fetches -> Nat]
        BY SMTT(40), <1>1, <1>8, StreamAssumption
            DEF IInv, StartOK, FetchBegin, ReadFails, ReadChunk, ChunkSleep, TypeOK
    <2>. QED
        BY <1>8, <2>1, <2>2 DEF FetchBegin, ReadFails, ReadChunk, ChunkSleep
<1>9. ASSUME NEW g \in Fetches, FetchRejected(g) \/ FetchDone(g) \/ ChunkPush(g)
      PROVE  /\ create' \in CreateStates /\ fetch' \in [Fetches -> FetchStates]
             /\ pos' \in [Fetches -> Nat] /\ inEos' \in BOOLEAN /\ fetchError' \in BOOLEAN
             /\ UNCHANGED <<lockHeld, flushing, thread, start, last, app, resets, fetches,
                            size>>
    <2>1. PICK f \in [Fetches -> FetchStates] : SignalTo(create, f)
        <3>1. /\ [fetch EXCEPT ![g] = "closed"] \in [Fetches -> FetchStates]
              /\ [fetch EXCEPT ![g] = "reading"] \in [Fetches -> FetchStates]
            BY <1>1 DEF FetchStates
        <3>. QED
            BY <1>9, <3>1 DEF FetchRejected, FetchDone, ChunkPush
    <2>2. create' \in CreateStates /\ fetch' \in [Fetches -> FetchStates]
        BY <1>1, <2>1, SignalWakes
    <2>3. pos' \in [Fetches -> Nat]
        <3>1. CASE ChunkPush(g)
            <4>1. pos[g] + size[g] \in Nat /\ pos' = [pos EXCEPT ![g] = pos[g] + size[g]]
                BY <1>1, <3>1 DEF ChunkPush, TypeOK
            <4>. QED
                BY <1>1, <4>1 DEF TypeOK
        <3>2. CASE FetchRejected(g) \/ FetchDone(g)
            BY <1>1, <3>2 DEF FetchRejected, FetchDone, TypeOK
        <3>. QED
            BY <1>9, <3>1, <3>2
    <2>4. inEos' \in BOOLEAN /\ fetchError' \in BOOLEAN
        BY <1>1, <1>9 DEF FetchRejected, FetchDone, ChunkPush, TypeOK
    <2>5. UNCHANGED <<lockHeld, flushing, thread, start, last, app, resets, fetches, size>>
        BY <1>9 DEF FetchRejected, FetchDone, ChunkPush
    <2>. QED
        BY <2>2, <2>3, <2>4, <2>5
<1>10. CASE Seek \/ PausedToReady
    <2>1. PICK next \in {"seek", "stop"} : CleanupBegin(next)
        BY <1>10 DEF Seek, PausedToReady
    <2>2. create' \in CreateStates /\ fetch' \in [Fetches -> FetchStates]
        BY <1>1, <2>1, SignalWakes DEF CleanupBegin
    <2>. QED
        BY <1>1, <2>1, <2>2 DEF CleanupBegin, TypeOK
<1>11. CASE SeekEnd \/ StopEnd
    <2>1. /\ lockHeld' = FALSE /\ flushing' = FALSE /\ inEos' = FALSE /\ fetchError' = FALSE
          /\ thread' = 0
          /\ UNCHANGED <<resets, fetches, fetch, pos, size>>
        BY <1>11 DEF SeekEnd, StopEnd, CleanupEnd
    <2>2. start' \in Int /\ app' \in {"playing", "deactivate"}
        BY <1>11, StreamAssumption DEF SeekEnd, StopEnd
    <2>3. create' \in CreateStates /\ last' \in Buffer \cup {NoBuffer}
        BY <1>1, <1>11 DEF SeekEnd, StopEnd, TypeOK, CreateStates
    <2>4. 0 \in 0..MaxFetches
        BY StreamAssumption
    <2>. QED
        BY <1>1, <2>1, <2>2, <2>3, <2>4 DEF TypeOK
<1>12. CASE Deactivated \/ ReadyToPaused
    BY <1>1, <1>12 DEF Deactivated, ReadyToPaused, TypeOK, CreateStates
<1>. QED
    BY <1>1, <1>4, <1>5, <1>6, <1>7, <1>8, <1>9, <1>10, <1>11, <1>12
        DEF Next, CreateStep, FetchStep, TypeOK

\* A download has a chunk in hand when it calls chunk(), and until that returns.
LEMMA ChunkNext ==
    ASSUME IInv, [Next]_vars
    PROVE  ChunkInv'
<1>. USE DEF fetchVars
<1>1. ChunkInv /\ fetch \in [Fetches -> FetchStates] /\ create \in CreateStates
      /\ size \in [Fetches -> Nat]
    BY DEF IInv, TypeOK, FetchStates, CreateStates
<1>2. CASE UNCHANGED <<fetch, size>>
    BY <1>1, <1>2 DEF ChunkInv
<1>3. CASE CreateBegin
    BY <1>1, <1>3 DEF CreateBegin, ChunkInv
<1>4. ASSUME NEW g \in Fetches, FetchBegin(g) \/ ReadFails(g) \/ ReadChunk(g) \/ ChunkSleep(g)
      PROVE  ChunkInv'
    BY <1>1, <1>4 DEF FetchBegin, ReadFails, ReadChunk, ChunkSleep, ChunkInv
<1>5. ASSUME NEW c \in CreateStates, NEW f \in [Fetches -> FetchStates], SignalTo(c, f),
             \A g \in Fetches : f[g] = fetch[g] \/ f[g] \in {"closed", "reading"},
             size' = size
      PROVE  ChunkInv'
    BY <1>1, <1>5, SignalWakes DEF ChunkInv
<1>6. ASSUME NEW g \in Fetches, FetchRejected(g) \/ FetchDone(g) \/ ChunkPush(g)
      PROVE  ChunkInv'
    <2>1. PICK x \in {"closed", "reading"} :
              SignalTo(create, [fetch EXCEPT ![g] = x]) /\ size' = size
        BY <1>6 DEF FetchRejected, FetchDone, ChunkPush
    <2>2. [fetch EXCEPT ![g] = x] \in [Fetches -> FetchStates]
        BY <1>1 DEF FetchStates
    <2>3. \A h \in Fetches : [fetch EXCEPT ![g] = x][h] \in {fetch[h], x}
        BY <1>1
    <2>. QED
        BY <1>1, <1>5, <2>1, <2>2, <2>3
<1>7. CASE CreatePop \/ Seek \/ PausedToReady
    <2>1. PICK c \in CreateStates : SignalTo(c, fetch) /\ size' = size
        BY <1>1, <1>7 DEF CreatePop, Seek, PausedToReady, CleanupBegin, CreateStates
    <2>. QED
        BY <1>1, <1>5, <2>1
<1>8. \/ UNCHANGED <<fetch, size>>
      \/ CreateBegin \/ CreatePop \/ Seek \/ PausedToReady
      \/ \E g \in Fetches :
            \/ FetchBegin(g) \/ ReadFails(g) \/ ReadChunk(g) \/ ChunkSleep(g)
            \/ FetchRejected(g) \/ FetchDone(g) \/ ChunkPush(g)
    <2>1. CASE UNCHANGED vars
        BY <2>1 DEF vars
    <2>2. CASE CreateStep
        BY <2>2 DEF CreateStep, CreateAtEos, CreateFlushing, CreateSleep, CreateError,
                CreateDrained
    <2>3. CASE SeekEnd \/ StopEnd \/ Deactivated \/ ReadyToPaused
        BY <2>3 DEF SeekEnd, StopEnd, CleanupEnd, Deactivated, ReadyToPaused
    <2>. QED
        BY <2>1, <2>2, <2>3 DEF Next, FetchStep
<1>. QED
    BY <1>2, <1>3, <1>4, <1>6, <1>7, <1>8

\* The start of a range: set by a seek, reset by a stop.
LEMMA StartNext ==
    ASSUME IInv, [Next]_vars
    PROVE  StartOK'
<1>. USE DEF rangeVars
<1>1. CASE SeekEnd \/ StopEnd
    BY <1>1 DEF SeekEnd, StopEnd, StartOK
<1>2. CASE start' = start
    BY <1>2 DEF IInv, StartOK
<1>3. SeekEnd \/ StopEnd \/ start' = start
    <2>1. CASE UNCHANGED vars
        BY <2>1 DEF vars
    <2>2. CASE CreateStep
        BY <2>2 DEF CreateStep, CreateAtEos, CreateFlushing, CreateBegin, CreateSleep,
                CreateError, CreateDrained, CreatePop
    <2>3. ASSUME NEW g \in Fetches, FetchStep(g) \/ FetchRejected(g) \/ ReadFails(g)
          PROVE  start' = start
        BY <2>3 DEF FetchStep, FetchBegin, ReadChunk, ChunkSleep, ChunkPush, FetchDone,
                FetchRejected, ReadFails
    <2>4. CASE Seek \/ PausedToReady \/ Deactivated \/ ReadyToPaused
        BY <2>4 DEF Seek, PausedToReady, CleanupBegin, Deactivated, ReadyToPaused
    <2>. QED
        BY <2>1, <2>2, <2>3, <2>4 DEF Next
<1>. QED
    BY <1>1, <1>2, <1>3

\* Up to the first seek or stop no application step is taken.
LEMMA NoReset ==
    ASSUME IInv, [Next]_vars, resets' = 0
    PROVE  /\ resets = 0 /\ FirstDownload /\ FirstBytes /\ FirstEos
           /\ \/ UNCHANGED vars
              \/ CreateStep
              \/ \E g \in Fetches : FetchStep(g) \/ FetchRejected(g) \/ ReadFails(g)
           /\ UNCHANGED <<app, start>>
<1>. USE DEF rangeVars
<1>1. resets \in Nat
    BY DEF IInv, TypeOK
<1>2. ~(Seek \/ PausedToReady)
    BY <1>1 DEF Seek, PausedToReady, CleanupBegin
<1>3. CASE UNCHANGED vars
    BY <1>3 DEF vars, IInv
<1>4. CASE CreateStep
    BY <1>4 DEF IInv, CreateStep, CreateAtEos, CreateFlushing, CreateBegin, CreateSleep,
            CreateError, CreateDrained, CreatePop
<1>5. CASE \E g \in Fetches : FetchStep(g) \/ FetchRejected(g) \/ ReadFails(g)
    BY <1>5 DEF IInv, FetchStep, FetchBegin, ReadChunk, ChunkSleep, ChunkPush, FetchDone,
            FetchRejected, ReadFails
<1>6. CASE SeekEnd \/ StopEnd \/ Deactivated \/ ReadyToPaused
    <2>1. resets = 0
        BY <1>6 DEF SeekEnd, StopEnd, CleanupEnd, Deactivated, ReadyToPaused
    <2>. QED
        BY <1>6, <2>1 DEF IInv, FirstDownload, SeekEnd, StopEnd, Deactivated, ReadyToPaused
<1>. QED
    BY <1>2, <1>3, <1>4, <1>5, <1>6 DEF Next

\* The first download stays the only one, and reads what is queued next.
LEMMA FirstDownloadNext ==
    ASSUME IInv, [Next]_vars, resets' = 0
    PROVE  FirstDownload'
<1>. USE DEF queueVars, flagVars, rangeVars, fetchVars
<1>1. FirstDownload /\ UNCHANGED <<app, start>>
    BY NoReset
<1>2. /\ fetch \in [Fetches -> FetchStates] /\ create \in CreateStates
      /\ pos \in [Fetches -> Nat] /\ size \in [Fetches -> Nat]
      /\ offset \in Int /\ fetches \in 0..MaxFetches
    BY DEF IInv, TypeOK, FetchStates, CreateStates
<1>3. CASE UNCHANGED <<thread, fetches, fetch, pos, offset>>
    BY <1>1, <1>3 DEF FirstDownload
<1>4. CASE CreateBegin
    <2>1. CASE thread = 0
        <3>1. fetches = 0 /\ offset = 0 /\ fetches' = 1 /\ thread' = 1
              /\ fetch' = [fetch EXCEPT ![1] = "created"] /\ UNCHANGED <<pos, offset>>
            BY <1>1, <1>4, <2>1 DEF CreateBegin, FirstDownload
        <3>2. \A g \in Fetches : fetch[g] = "none"
            BY <1>1, <2>1 DEF FirstDownload, Fetches
        <3>. QED
            BY <1>1, <1>2, <3>1, <3>2 DEF FirstDownload, Active
    <2>2. CASE thread # 0
        BY <1>3, <1>4, <2>2 DEF CreateBegin
    <2>. QED
        BY <2>1, <2>2
<1>5. ASSUME NEW g \in Fetches, FetchBegin(g)
      PROVE  FirstDownload'
    <2>1. offset = 0 /\ g = thread /\ fetch' = [fetch EXCEPT ![g] = "requested"]
          /\ pos' = [pos EXCEPT ![g] = 0] /\ UNCHANGED <<thread, fetches, offset>>
        BY <1>1, <1>5 DEF FetchBegin, FirstDownload
    <2>. QED
        BY <1>1, <1>2, <2>1 DEF FirstDownload, Active
<1>6. ASSUME NEW g \in Fetches, ReadFails(g) \/ ReadChunk(g) \/ ChunkSleep(g)
      PROVE  FirstDownload'
    <2>1. PICK x \in {"broken", "chunk", "asleep"} :
              /\ fetch' = [fetch EXCEPT ![g] = x]
              /\ UNCHANGED <<thread, fetches, pos, offset>>
        BY <1>6 DEF ReadFails, ReadChunk, ChunkSleep
    <2>2. fetch[g] \in Active
        BY <1>6 DEF ReadFails, ReadChunk, ChunkSleep, Reading, Active
    <2>. QED
        BY <1>1, <1>2, <2>1, <2>2 DEF FirstDownload, Active
<1>7. ASSUME NEW c \in CreateStates, NEW f \in [Fetches -> FetchStates], SignalTo(c, f),
             \A g \in Fetches : f[g] = fetch[g] \/ (f[g] \in {"closed", "reading"} /\ fetch[g] \in Active),
             UNCHANGED <<thread, fetches, pos, offset>>
      PROVE  FirstDownload'
    <2>1. \A g \in Fetches :
              \/ fetch'[g] = fetch[g]
              \/ fetch[g] \in Active /\ fetch'[g] \in {"closed", "reading", "chunk"}
        BY <1>7, SignalWakes DEF Active
    <2>. QED
        BY <1>1, <1>2, <1>7, <2>1 DEF FirstDownload, Active
<1>8. CASE CreatePop
    BY <1>2, <1>7, <1>8 DEF CreatePop, CreateStates
<1>9. ASSUME NEW g \in Fetches, FetchRejected(g) \/ FetchDone(g)
      PROVE  FirstDownload'
    <2>1. /\ SignalTo(create, [fetch EXCEPT ![g] = "closed"]) /\ fetch[g] \in Active
          /\ UNCHANGED <<thread, fetches, pos, offset>>
        BY <1>9 DEF FetchRejected, FetchDone, Reading, Active
    <2>2. [fetch EXCEPT ![g] = "closed"] \in [Fetches -> FetchStates]
        BY <1>2 DEF FetchStates
    <2>. QED
        BY <1>2, <1>7, <2>1, <2>2
<1>10. ASSUME NEW g \in Fetches, ChunkPush(g)
       PROVE  FirstDownload'
    <2>. DEFINE f == [fetch EXCEPT ![g] = "reading"]
    <2>1. /\ SignalTo(create, f) /\ fetch[g] = "chunk"
          /\ pos' = [pos EXCEPT ![g] = pos[g] + size[g]] /\ offset' = offset + size[g]
          /\ UNCHANGED <<thread, fetches>>
        BY <1>10 DEF ChunkPush
    <2>2. f \in [Fetches -> FetchStates] /\ \A h \in Fetches : f[h] = IF h = g THEN "reading" ELSE fetch[h]
        BY <1>2 DEF FetchStates
    <2>. HIDE DEF f
    <2>3. g = thread /\ pos[g] = offset /\ \A h \in Fetches \ {g} : fetch[h] = "none"
        BY <1>1, <2>1 DEF FirstDownload, Active
    <2>4. \A h \in Fetches : fetch'[h] = IF h = g THEN "reading" ELSE "none"
        <3>1. \A h \in Fetches : fetch'[h] = f[h] \/ (f[h] = "asleep" /\ fetch'[h] = "chunk")
            BY <1>2, <2>1, <2>2, SignalWakes
        <3>2. \A h \in Fetches : f[h] = IF h = g THEN "reading" ELSE "none"
            BY <2>2, <2>3
        <3>. QED
            BY <3>1, <3>2
    <2>5. pos'[g] = offset'
        BY <1>2, <2>1, <2>3
    <2>6. thread # 0
        BY <2>3 DEF Fetches
    <2>. QED
        BY <1>1, <2>1, <2>3, <2>4, <2>5, <2>6 DEF FirstDownload, Active
<1>11. \/ UNCHANGED <<thread, fetches, fetch, pos, offset>>
       \/ CreateBegin \/ CreatePop
       \/ \E g \in Fetches :
             \/ FetchBegin(g) \/ ReadFails(g) \/ ReadChunk(g) \/ ChunkSleep(g)
             \/ FetchRejected(g) \/ FetchDone(g) \/ ChunkPush(g)
    <2>1. CASE UNCHANGED vars
        BY <2>1 DEF vars
    <2>2. CASE CreateStep
        BY <2>2 DEF CreateStep, CreateAtEos, CreateFlushing, CreateSleep, CreateError,
                CreateDrained
    <2>. QED
        BY <2>1, <2>2, NoReset DEF FetchStep
<1>. QED
    BY <1>3, <1>4, <1>5, <1>6, <1>8, <1>9, <1>10, <1>11

\* A pop moves the head of the queue to last, a push adds the byte that was next.
LEMMA FirstBytesNext ==
    ASSUME IInv, [Next]_vars, resets' = 0
    PROVE  FirstBytes'
<1>. USE DEF queueVars, flagVars, rangeVars, fetchVars
<1>1. FirstDownload /\ FirstBytes
    BY NoReset
<1>2. q \in Seq(Buffer) /\ QueueBounded /\ offset \in Int /\ Len(q) \in Nat
    BY EmptySeq, LenProperties DEF IInv, QueueOK
<1>3. \A i \in 1..Len(q) : q[i] \in Buffer
    BY <1>2, ElementOfSeq
<1>4. CASE UNCHANGED <<q, last, offset>>
    BY <1>1, <1>4 DEF FirstBytes
<1>5. CASE CreatePop
    <2>. DEFINE n == Len(q)
    <2>1. q # <<>> /\ q' = Tail(q) /\ last' = Head(q) /\ UNCHANGED offset
        BY <1>5 DEF CreatePop
    <2>2. /\ Head(q) = q[1] /\ Len(q') = n - 1 /\ n \in Nat \ {0} /\ q' \in Seq(Buffer)
          /\ \A i \in 1..n - 1 : q'[i] = q[i + 1]
          /\ q' = <<>> <=> n = 1
        BY <1>2, <2>1, TailOf
    <2>3. \A i \in 1..n - 1 : q'[i].offset = q'[i].at
        <3>. SUFFICES ASSUME NEW i \in 1..n - 1 PROVE q[i + 1].offset = q[i + 1].at
            BY <2>2
        <3>1. i + 1 \in 1..n
            BY <2>2
        <3>. QED
            BY <1>1, <3>1 DEF FirstBytes
    <2>4. /\ 1 \in 1..n /\ q[1].offset = q[1].at
          /\ q[1].offset + q[1].size = IF 1 < n THEN q[2].offset ELSE offset
        BY <1>1, <1>2, <2>2 DEF FirstBytes, QueueBounded
    <2>5. CASE q' = <<>>
        BY <2>1, <2>2, <2>3, <2>4, <2>5 DEF FirstBytes
    <2>6. CASE q' # <<>>
        <3>1. Head(q') = q'[1] /\ 1 \in 1..n - 1 /\ 2 \in 1..n /\ 1 < n
            BY <2>2, <2>6, TailOf
        <3>2. q'[1] = q[1 + 1]
            BY <2>2, <3>1
        <3>3. q[2].offset = q[2].at
            BY <1>1, <3>1 DEF FirstBytes
        <3>. QED
            BY <2>1, <2>2, <2>3, <2>4, <2>6, <3>1, <3>2, <3>3 DEF FirstBytes
    <2>. QED
        BY <2>5, <2>6
<1>6. ASSUME NEW g \in Fetches, ChunkPush(g)
      PROVE  FirstBytes'
    <2>. DEFINE n == Len(q)
                e == [from |-> g, at |-> pos[g], size |-> size[g], offset |-> offset]
    <2>1. q' = Append(q, e) /\ UNCHANGED last
        BY <1>6 DEF ChunkPush
    <2>2. e \in Buffer
        BY <1>2 DEF IInv, TypeOK, Buffer
    <2>3. e.offset = e.at /\ e.at = offset
        BY <1>1, <1>6 DEF FirstDownload, Active, ChunkPush
    <2>. HIDE DEF e
    <2>4. /\ q' # <<>> /\ Len(q') = n + 1 /\ n \in Nat
          /\ \A i \in 1..n : q'[i] = q[i]
          /\ q'[n + 1] = e
          /\ Head(q') = IF q = <<>> THEN e ELSE Head(q)
        BY <1>2, <2>1, <2>2, AppendOf
    <2>5. \A i \in 1..n + 1 : q'[i].offset = q'[i].at
        <3>1. \A i \in 1..n + 1 : i \in 1..n \/ i = n + 1
            BY <2>4
        <3>. QED
            BY <1>1, <2>3, <2>4, <3>1 DEF FirstBytes
    <2>6. Head(q').at = last.at + last.size
        BY <1>1, <2>3, <2>4 DEF FirstBytes
    <2>. QED
        BY <1>1, <2>1, <2>4, <2>5, <2>6 DEF FirstBytes
<1>7. \/ UNCHANGED <<q, last, offset>>
      \/ CreatePop
      \/ \E g \in Fetches : ChunkPush(g)
    <2>1. CASE UNCHANGED vars
        BY <2>1 DEF vars
    <2>2. CASE CreateStep
        BY <2>2 DEF CreateStep, CreateAtEos, CreateFlushing, CreateBegin, CreateSleep,
                CreateError, CreateDrained
    <2>3. ASSUME NEW g \in Fetches, FetchStep(g) \/ FetchRejected(g) \/ ReadFails(g)
          PROVE  UNCHANGED <<q, last, offset>> \/ ChunkPush(g)
        BY <2>3 DEF FetchStep, FetchBegin, ReadChunk, ChunkSleep, FetchDone,
                FetchRejected, ReadFails
    <2>. QED
        BY <2>1, <2>2, <2>3, NoReset
<1>. QED
    BY <1>4, <1>5, <1>6, <1>7

\* in_eos is set by the download that has read the last byte, which then stops; no
\* other is begun.
LEMMA FirstEosNext ==
    ASSUME IInv, [Next]_vars, resets' = 0
    PROVE  FirstEos'
<1>. USE DEF queueVars, flagVars, rangeVars, fetchVars
<1>1. FirstDownload /\ FirstEos
    BY NoReset
<1>2. /\ fetch \in [Fetches -> FetchStates] /\ create \in CreateStates
    BY DEF IInv, TypeOK, FetchStates, CreateStates
<1>3. CASE UNCHANGED <<inEos, offset, thread, fetch>>
    BY <1>1, <1>3 DEF FirstEos
<1>4. CASE CreateBegin
    BY <1>4 DEF CreateBegin, FirstEos
<1>5. CASE CreatePop
    <2>1. SignalTo("out", fetch) /\ UNCHANGED <<inEos, offset, thread>> /\ "out" \in CreateStates
        BY <1>5 DEF CreatePop, CreateStates
    <2>2. \A g \in Fetches :
              fetch'[g] = fetch[g] \/ (fetch[g] = "asleep" /\ fetch'[g] = "chunk")
        BY <1>2, <2>1, SignalWakes
    <2>. QED
        BY <1>1, <2>1, <2>2 DEF FirstEos, Active
<1>6. ASSUME NEW g \in Fetches,
             \/ FetchBegin(g) \/ ReadFails(g) \/ ReadChunk(g) \/ ChunkSleep(g)
             \/ FetchRejected(g) \/ ChunkPush(g)
      PROVE  FirstEos'
    <2>1. fetch[g] \in Active \cup {"created"} /\ inEos' = inEos
        BY <1>6 DEF FetchBegin, ReadFails, ReadChunk, ChunkSleep, FetchRejected, ChunkPush,
                Reading, Active
    <2>. QED
        BY <1>1, <2>1 DEF FirstEos
<1>7. ASSUME NEW g \in Fetches, FetchDone(g)
      PROVE  FirstEos'
    <2>. DEFINE f == [fetch EXCEPT ![g] = "closed"]
    <2>1. /\ fetch[g] \in Active /\ pos[g] = FileSize /\ UNCHANGED <<offset, thread>>
          /\ SignalTo(create, f)
        BY <1>7 DEF FetchDone, Reading, Active
    <2>2. g = thread /\ pos[g] = offset /\ \A h \in Fetches \ {g} : fetch[h] = "none"
        BY <1>1, <2>1 DEF FirstDownload, Active
    <2>3. f \in [Fetches -> FetchStates] /\ \A h \in Fetches : f[h] = IF h = g THEN "closed" ELSE fetch[h]
        BY <1>2 DEF FetchStates
    <2>. HIDE DEF f
    <2>4. \A h \in Fetches : fetch'[h] \in {"closed", "none"}
        BY <1>2, <2>1, <2>2, <2>3, SignalWakes
    <2>5. thread # 0
        BY <2>2 DEF Fetches
    <2>. QED
        BY <2>1, <2>2, <2>4, <2>5 DEF FirstEos, Active
<1>8. \/ UNCHANGED <<inEos, offset, thread, fetch>>
      \/ CreateBegin \/ CreatePop
      \/ \E g \in Fetches :
            \/ FetchBegin(g) \/ ReadFails(g) \/ ReadChunk(g) \/ ChunkSleep(g)
            \/ FetchRejected(g) \/ FetchDone(g) \/ ChunkPush(g)
    <2>1. CASE UNCHANGED vars
        BY <2>1 DEF vars
    <2>2. CASE CreateStep
        BY <2>2 DEF CreateStep, CreateAtEos, CreateFlushing, CreateSleep, CreateError,
                CreateDrained
    <2>. QED
        BY <2>1, <2>2, NoReset DEF FetchStep
<1>. QED
    BY <1>3, <1>4, <1>5, <1>6, <1>7, <1>8

LEMMA StepInv == IInv /\ [Next]_vars => IInv'
    BY TypeNext, StartNext, QueueNext, ChunkNext, FirstDownloadNext, FirstBytesNext,
       FirstEosNext DEF IInv

--------------------------------------------------------------------------------
(* The theorems *)

\* The inductive invariant: the queue is a chain of chunks that ends where the next
\* one begins, the count is its length, and before the first seek or stop the
\* download reads on from there.
THEOREM Invariance == Spec => []IInv
<1>1. Init => IInv
    BY InitInv
<1>2. IInv /\ [Next]_vars => IInv'
    BY StepInv
<1>. QED
    BY <1>1, <1>2, PTL DEF Spec

\* The byte count of the queue (accumulated_data_size) is the size of what is queued,
\* and within the limit, whatever is sought, stopped or delivered late.
THEOREM AccountingCorrect == Spec => []ByteAccounting
<1>1. IInv => ByteAccounting
    BY DEF IInv, QueueOK, CountInv, ByteAccounting
<1>. QED
    BY <1>1, Invariance, PTL

\* create() waits only for an empty queue: the count it tests is zero only if there
\* is nothing it could pop. No chunk is left lying while it sleeps.
THEOREM CountTellsEmpty == Spec => [](accumulated = 0 <=> q = <<>>)
<1>1. IInv => (accumulated = 0 <=> q = <<>>)
    <2>. SUFFICES ASSUME IInv, q # <<>> PROVE accumulated # 0
        BY DEF IInv, QueueOK, CountInv
    <2>1. Head(q) = q[1] /\ 1 \in 1..Len(q)
        BY TailOf DEF IInv, QueueOK
    <2>2. /\ q[1].size \in Nat \ {0} /\ q[1].offset \in Int
          /\ q[1].offset + q[1].size <= offset /\ offset \in Int
        BY <2>1, QueuedBuffer DEF IInv, QueueOK
    <2>3. accumulated = offset - q[1].offset
        BY <2>1 DEF IInv, QueueOK, CountInv
    <2>. QED
        BY <2>2, <2>3
<1>. QED
    BY <1>1, Invariance, PTL

\* Until the first seek or stop what came out of create(), followed by what is queued,
\* is exactly what the download has delivered, in order and at its offset, and at the
\* end of the stream that is the whole resource. (create() may then leave the queued
\* part behind: the theorem is about what is delivered, not about what comes out.)
THEOREM OrderCorrect == Spec => []BytesInOrder
<1>1. IInv => BytesInOrder
    BY DEF IInv, FirstDownload, FirstBytes, FirstEos, BytesInOrder, Active, Reading
<1>. QED
    BY <1>1, Invariance, PTL

--------------------------------------------------------------------------------
(* The accepted streams and the water mark of WebTransportSrc: the         *)
(* inductive invariant.                                                    *)

\* What the application and the runner know of each other. Streams are only
\* accepted once the connection is open, which it then stays.
StageInv ==
    /\ stage = "ready" => connection = "none"
    /\ connection = "none" => stage \in {"ready", "gone"}
    /\ connection \in {"created", "connecting", "creating"} => stage = "starting"
    /\ connection # "open" => loop = "none" /\ \A k \in Kinds : nstreams[k] = 0

\* The names of the pads are counted on for each kind.
PadInv ==
    \A k \in Kinds :
        /\ nstreams[k] = taken[k] /\ taken[k] <= sent[k]
        /\ \A i \in 0..MaxStreams : <<k, i>> \in pads <=> i < nstreams[k]

\* The map has the stream of every such pad, and nothing else under such names
\* but what a lookup for a requested pad left there.
StreamInv ==
    \A k \in Kinds, i \in 0..MaxStreams :
        /\ i < nstreams[k] => <<k, i>> \in DOMAIN streams
        /\ <<k, i>> \in DOMAIN streams =>
              \/ i < nstreams[k] /\ streams[<<k, i>>] = <<k, i>>
              \/ k = "bidi" /\ <<"rbidi", i>> \in pads /\ streams[<<k, i>>] = Undefined

\* Where the mark that was set last is: with the setter, in the element, or on
\* the connection.
MarkInv ==
    ~raced =>
        /\ setter.at # "idle" => setter.value = wanted
        /\ setter.at = "store" => connection = "none"
        /\ connection \in {"created", "connecting", "creating"} => setter.at = "idle"
        /\ connection \in {"none", "created", "connecting"} /\ setter.at = "idle" =>
              mark = wanted
        /\ connection \in {"creating", "open"} /\ setter.at = "idle" =>
              transportMark = wanted

TransportIInv ==
    /\ TransportTypeOK
    /\ StageInv
    /\ PadInv
    /\ StreamInv
    /\ MarkInv

--------------------------------------------------------------------------------
(* The maps and the names *)

\* The only lookup that meets the name of an accepted stream is that of a
\* requested pad, which meets the bidirectional stream of its number.
LEMMA LookupMeets ==
    ASSUME NEW name \in PadNames, NEW k \in Kinds, NEW i \in 0..MaxStreams,
           LookupName(name) = <<k, i>>
    PROVE  k = "bidi" /\ name = <<"rbidi", i>>
<1>1. CASE name = Datagram
    BY <1>1 DEF LookupName, Datagram, Kinds
<1>2. CASE name \in {"unidi", "bidi"} \X (0..MaxStreams)
    BY <1>2 DEF LookupName, Kinds
<1>3. CASE name \in {"rbidi"} \X (0..MaxRequested)
    BY <1>3 DEF LookupName, Kinds
<1>. QED
    BY <1>1, <1>2, <1>3 DEF PadNames

\* A requested pad gets a number that is allowed.
LEMMA RequestedName ==
    ASSUME TransportIInv, RequestPad
    PROVE  \E n \in 0..MaxRequested :
              /\ AddPad(<<"rbidi", n>>) /\ <<"rbidi", n>> \in PadNames
<1>. DEFINE requested == {p \in pads : p[1] = "rbidi"}
<1>1. IsFiniteSet({"rbidi"} \X (0..MaxRequested))
    <2>1. IsFiniteSet({"rbidi"})
        BY FS_Singleton
    <2>2. 0 \in Int /\ MaxRequested \in Int
        BY TransportAssumption
    <2>3. IsFiniteSet(0..MaxRequested)
        BY <2>2, FS_Interval
    <2>. QED
        BY <2>1, <2>3, FS_Product
<1>2. requested \subseteq {"rbidi"} \X (0..MaxRequested)
    BY DEF TransportIInv, TransportTypeOK, PadNames, Datagram
<1>3. Cardinality(requested) \in Nat
    BY <1>1, <1>2, FS_Subset, FS_CardinalityType
<1>4. Cardinality(requested) < MaxRequested /\ AddPad(<<"rbidi", Cardinality(requested)>>)
    BY DEF RequestPad
<1>. HIDE DEF requested
<1>5. Cardinality(requested) \in 0..MaxRequested
    BY <1>3, <1>4, TransportAssumption
<1>. QED
    BY <1>4, <1>5 DEF PadNames

--------------------------------------------------------------------------------
(* Every step keeps it *)

LEMMA TransportStart == TransportInit => TransportIInv
<1>. SUFFICES ASSUME TransportInit PROVE TransportIInv
    OBVIOUS
<1>. USE TransportAssumption DEF TransportInit, Kinds, Datagram
<1>4. DOMAIN streams = {}
    OBVIOUS
<1>1. TransportTypeOK
    <2>1. pads \subseteq PadNames /\ todo \subseteq pads /\ requests \subseteq pads
        BY DEF PadNames
    <2>2. /\ DOMAIN readers = pads /\ \A p \in pads : readers[p] \in {"none", "waiting"}
          /\ DOMAIN given = pads /\ \A p \in pads : given[p] \in PadNames \cup {Undefined}
        OBVIOUS
    <2>3. /\ nstreams \in [Kinds -> 0..MaxStreams] /\ sent \in [Kinds -> 0..MaxStreams]
          /\ taken \in [Kinds -> 0..MaxStreams]
          /\ promise \in [Kinds -> {"none", "reading", "rejected"}]
        OBVIOUS
    <2>4. setter \in [at : {"idle", "store", "send", "stuck"}, value : Marks \cup {0}]
        OBVIOUS
    <2>5. /\ stage \in {"ready", "starting", "paused", "stopping", "stopped", "restarted", "gone"}
          /\ connection \in Connection /\ loop \in {"none", "armed", "over"}
          /\ ended \subseteq Kinds /\ {mark, transportMark, wanted} \subseteq Marks \cup {0}
          /\ alive \in BOOLEAN /\ lost \in BOOLEAN /\ raced \in BOOLEAN
          /\ freedUse \in BOOLEAN
        BY DEF Connection
    <2>. QED
        BY <1>4, <2>1, <2>2, <2>3, <2>4, <2>5 DEF TransportTypeOK
<1>2. StageInv
    BY DEF StageInv
<1>3. PadInv
    BY DEF PadInv
<1>5. StreamInv
    BY <1>4 DEF StreamInv
<1>6. MarkInv
    BY DEF MarkInv
<1>. QED
    BY <1>1, <1>2, <1>3, <1>5, <1>6 DEF TransportIInv

\* A new pad, of an accepted stream or a requested one.
LEMMA AddPadTypes ==
    ASSUME TransportTypeOK, NEW name \in PadNames, AddPad(name)
    PROVE  /\ pads' \subseteq PadNames /\ pads \subseteq pads'
           /\ DOMAIN readers' = pads'
           /\ \A p \in pads' : readers'[p] \in {"none", "waiting"}
           /\ DOMAIN given' = pads'
           /\ \A p \in pads' : given'[p] \in PadNames \cup {Undefined}
<1>1. pads' = pads \cup {name}
    BY DEF AddPad
<1>2. DOMAIN readers' = pads' /\ DOMAIN given' = pads'
    BY <1>1 DEF AddPad, Insert, TransportTypeOK
<1>3. \A p \in pads' : readers'[p] \in {"none", "waiting"}
    BY <1>1 DEF AddPad, Insert, TransportTypeOK
<1>4. \A p \in pads' : given'[p] \in PadNames \cup {Undefined}
    BY <1>1 DEF AddPad, Insert, TransportTypeOK
<1>. QED
    BY <1>1, <1>2, <1>3, <1>4 DEF TransportTypeOK

\* What the acceptance of a stream does to the counters.
LEMMA AddStreamIs ==
    ASSUME TransportIInv, NEW k \in Kinds, AddStream(k)
    PROVE  /\ connection = "open"
           /\ nstreams[k] = taken[k] /\ taken[k] < sent[k] /\ taken[k] \in 0..MaxStreams
           /\ taken[k] + 1 \in 0..MaxStreams
           /\ <<k, nstreams[k]>> \in PadNames /\ AddPad(<<k, nstreams[k]>>)
           /\ streams' = Insert(streams, <<k, nstreams[k]>>, <<k, nstreams[k]>>)
           /\ nstreams' = [nstreams EXCEPT ![k] = taken[k] + 1]
           /\ taken' = [taken EXCEPT ![k] = taken[k] + 1]
<1>. USE TransportAssumption
<1>1. nstreams[k] = taken[k] /\ taken[k] < sent[k] /\ connection = "open"
    BY DEF AddStream, Yields, Received, TransportIInv, PadInv, StageInv
<1>2. taken[k] \in 0..MaxStreams /\ sent[k] \in 0..MaxStreams
    BY DEF TransportIInv, TransportTypeOK
<1>3. taken[k] + 1 \in 0..MaxStreams
    BY <1>1, <1>2
<1>4. <<k, nstreams[k]>> \in PadNames
    BY <1>1, <1>2 DEF PadNames, Kinds
<1>. QED
    BY <1>1, <1>2, <1>3, <1>4 DEF AddStream

\* The variables that only the acceptance and the loss change.
LEMMA TransportTypeNext ==
    ASSUME TransportIInv, [TransportNext]_transportVars
    PROVE  TransportTypeOK'
<1>. USE TransportAssumption
<1>1. TransportTypeOK /\ StageInv /\ PadInv
    BY DEF TransportIInv
<1>2. CASE Start \/ StartReturn \/ Stop \/ Restart \/ Finalize \/ NoTransport \/ NewTransport
           \/ Ready \/ Rejected \/ DestroyConnection
    <2>1. stage' \in {"ready", "starting", "paused", "stopping", "stopped", "restarted", "gone"}
        BY <1>1, <1>2 DEF TransportTypeOK, Start, StartReturn, Stop, Restart, Finalize,
               NoTransport, NewTransport, Ready, Rejected, DestroyConnection, stageVars
    <2>2. connection' \in Connection
        BY <1>1, <1>2 DEF TransportTypeOK, Start, StartReturn, Stop, Restart, Finalize,
               NoTransport, NewTransport, Ready, Rejected, DestroyConnection, Connection
    <2>3. alive' \in BOOLEAN /\ raced' \in BOOLEAN
        BY <1>1, <1>2 DEF TransportTypeOK, Start, StartReturn, Stop, Restart, Finalize,
               NoTransport, NewTransport, Ready, Rejected, DestroyConnection, markVars,
               stageVars
    <2>4. todo' \in {todo, pads} /\ transportMark' \in {transportMark, mark}
        BY <1>2 DEF Start, StartReturn, Stop, Restart, Finalize, NoTransport, NewTransport,
               Ready, Rejected, DestroyConnection, markVars
    <2>5. UNCHANGED <<padVars, acceptVars, serverVars, requests, mark, setter, wanted, freedUse>>
        BY <1>2 DEF Start, StartReturn, Stop, Restart, Finalize, NoTransport, NewTransport,
               Ready, Rejected, DestroyConnection, markVars
    <2>. QED
        BY <1>1, <2>1, <2>2, <2>3, <2>4, <2>5 DEF TransportTypeOK, padVars, acceptVars,
               serverVars
<1>3. CASE StoreMark \/ SendMark \/ \E value \in Marks : SetMark(value)
    <2>1. /\ {mark', transportMark', wanted'} \subseteq Marks \cup {0}
          /\ setter' \in [at : {"idle", "store", "send", "stuck"}, value : Marks \cup {0}]
          /\ raced' \in BOOLEAN
        <3>1. CASE StoreMark
            BY <1>1, <3>1 DEF TransportTypeOK, StoreMark
        <3>2. CASE SendMark
            BY <1>1, <3>2 DEF TransportTypeOK, SendMark
        <3>3. ASSUME NEW value \in Marks, SetMark(value)
              PROVE  /\ {mark', transportMark', wanted'} \subseteq Marks \cup {0}
                     /\ setter' \in [at : {"idle", "store", "send", "stuck"},
                                     value : Marks \cup {0}]
                     /\ raced' \in BOOLEAN
            <4>1. setter' = [at |-> "store", value |-> value]
                  \/ setter' = [at |-> "send", value |-> value]
                BY <3>3 DEF SetMark
            <4>2. mark' = mark /\ transportMark' = transportMark /\ wanted' = value
                BY <3>3 DEF SetMark
            <4>3. raced' \in BOOLEAN
                BY <1>1, <3>3 DEF SetMark, TransportTypeOK
            <4>. QED
                BY <1>1, <4>1, <4>2, <4>3 DEF TransportTypeOK
        <3>. QED
            BY <1>3, <3>1, <3>2, <3>3
    <2>2. UNCHANGED <<stageVars, connection, todo, padVars, acceptVars, serverVars, requests,
                      freedUse>>
        BY <1>3 DEF StoreMark, SendMark, SetMark
    <2>. QED
        BY <1>1, <2>1, <2>2 DEF TransportTypeOK, stageVars, padVars, acceptVars, serverVars
<1>4. CASE RequestPad
    <2>1. PICK n \in 0..MaxRequested :
             AddPad(<<"rbidi", n>>) /\ <<"rbidi", n>> \in PadNames
        BY <1>4, RequestedName
    <2>. QED
        BY <1>1, <1>4, <2>1, AddPadTypes DEF TransportTypeOK, RequestPad, stageVars,
               acceptVars, serverVars, markVars
<1>5. ASSUME NEW k \in Kinds, AddStream(k) PROVE TransportTypeOK'
    <2>. DEFINE name == <<k, nstreams[k]>>
    <2>0. /\ taken[k] + 1 \in 0..MaxStreams /\ name \in PadNames /\ AddPad(name)
          /\ streams' = Insert(streams, name, name)
          /\ nstreams' = [nstreams EXCEPT ![k] = taken[k] + 1]
          /\ taken' = [taken EXCEPT ![k] = taken[k] + 1]
        BY <1>5, AddStreamIs
    <2>. HIDE DEF name
    <2>1. /\ nstreams' \in [Kinds -> 0..MaxStreams] /\ taken' \in [Kinds -> 0..MaxStreams]
        BY <1>1, <2>0 DEF TransportTypeOK
    <2>2. \A key \in DOMAIN streams' : streams'[key] \in PadNames \cup {Undefined}
        BY <1>1, <2>0 DEF TransportTypeOK, Insert
    <2>3. /\ pads' \subseteq PadNames /\ pads \subseteq pads'
          /\ DOMAIN readers' = pads' /\ DOMAIN given' = pads'
          /\ \A p \in pads' : readers'[p] \in {"none", "waiting"}
          /\ \A p \in pads' : given'[p] \in PadNames \cup {Undefined}
        BY <1>1, <2>0, AddPadTypes
    <2>4. freedUse' \in BOOLEAN
        BY <1>1, <1>5 DEF TransportTypeOK, AddStream
    <2>5. UNCHANGED <<stageVars, connection, todo, promise, loop, sent, ended, lost, requests,
                      markVars>>
        BY <1>5 DEF AddStream
    <2>. QED
        BY <1>1, <2>1, <2>2, <2>3, <2>4, <2>5 DEF TransportTypeOK, stageVars, markVars
<1>6. CASE AcceptStreams \/ AllRejected \/ \E k \in Kinds : EndStream(k)
    <2>1. /\ promise' \in [Kinds -> {"none", "reading", "rejected"}]
          /\ loop' \in {"none", "armed", "over"} /\ connection' \in Connection
          /\ freedUse' \in BOOLEAN
        BY <1>1, <1>6 DEF TransportTypeOK, AcceptStreams, AllRejected, EndStream, Connection
    <2>2. UNCHANGED <<stageVars, todo, padVars, nstreams, serverVars, requests, markVars>>
        BY <1>6 DEF AcceptStreams, AllRejected, EndStream
    <2>. QED
        BY <1>1, <2>1, <2>2 DEF TransportTypeOK, stageVars, padVars, serverVars, markVars
<1>7. ASSUME NEW name \in PadNames, CreateStream(name) PROVE TransportTypeOK'
    <2>1. \A key \in DOMAIN streams' : streams'[key] \in PadNames \cup {Undefined}
        BY <1>1, <1>7 DEF TransportTypeOK, CreateStream, Insert
    <2>. QED
        BY <1>1, <1>7, <2>1 DEF TransportTypeOK, CreateStream, stageVars, acceptVars,
               serverVars, markVars
<1>8. ASSUME NEW name \in PadNames, Link(name) PROVE TransportTypeOK'
    <2>1. requests' \subseteq pads
        BY <1>1, <1>8 DEF TransportTypeOK, Link, HandleMessage
    <2>. QED
        BY <1>1, <1>8, <2>1 DEF TransportTypeOK, Link, stageVars, acceptVars, serverVars,
               markVars
<1>9. ASSUME NEW name \in PadNames, Transfer(name) PROVE TransportTypeOK'
    <2>. DEFINE key == LookupName(name)
                found == IF key \in DOMAIN streams THEN streams[key] ELSE Undefined
    <2>1. found \in PadNames \cup {Undefined}
        BY <1>1 DEF TransportTypeOK
    <2>2. \A k \in DOMAIN streams' : streams'[k] \in PadNames \cup {Undefined}
        BY <1>1, <1>9 DEF TransportTypeOK, Transfer, Insert
    <2>3. given' = given \/ given' = [given EXCEPT ![name] = found]
        BY <1>9 DEF Transfer
    <2>4. DOMAIN given' = pads /\ \A p \in pads : given'[p] \in PadNames \cup {Undefined}
        BY <1>1, <2>1, <2>3 DEF TransportTypeOK
    <2>5. requests' \subseteq pads /\ freedUse' \in BOOLEAN
        BY <1>1, <1>9 DEF TransportTypeOK, Transfer
    <2>6. UNCHANGED <<stageVars, connection, todo, pads, readers, acceptVars, serverVars,
                      markVars>>
        BY <1>9 DEF Transfer
    <2>. QED
        BY <1>1, <2>2, <2>4, <2>5, <2>6 DEF TransportTypeOK, stageVars, acceptVars,
               serverVars, markVars
<1>10. ASSUME NEW k \in Kinds, ServerOpens(k) \/ ServerEnds(k) PROVE TransportTypeOK'
    <2>1. sent' \in [Kinds -> 0..MaxStreams]
        <3>1. CASE ServerOpens(k)
            <4>1. sent["unidi"] \in Nat /\ sent["bidi"] \in Nat
                BY <1>1 DEF TransportTypeOK, Kinds
            <4>2. sent["unidi"] + 1 \in 0..MaxStreams /\ sent["bidi"] + 1 \in 0..MaxStreams
                BY <3>1, <4>1 DEF ServerOpens
            <4>3. sent[k] + 1 \in 0..MaxStreams
                BY <4>2 DEF Kinds
            <4>. QED
                BY <1>1, <3>1, <4>3 DEF TransportTypeOK, ServerOpens
        <3>2. CASE ServerEnds(k)
            BY <1>1, <3>2 DEF TransportTypeOK, ServerEnds
        <3>. QED
            BY <1>10, <3>1, <3>2
    <2>2. ended' \subseteq Kinds
        BY <1>1, <1>10 DEF TransportTypeOK, ServerOpens, ServerEnds
    <2>. QED
        BY <1>1, <1>10, <2>1, <2>2 DEF TransportTypeOK, ServerOpens, ServerEnds, stageVars,
               padVars, acceptVars, markVars
<1>11. CASE ConnectionLost
    <2>1. \A k \in Kinds : sent[k] > taken[k] => taken[k] + 1 \in 0..MaxStreams
        BY <1>1 DEF TransportTypeOK
    <2>2. sent' \in [Kinds -> 0..MaxStreams] /\ lost' \in BOOLEAN
        BY <1>1, <1>11, <2>1 DEF TransportTypeOK, ConnectionLost
    <2>. QED
        BY <1>1, <1>11, <2>2 DEF TransportTypeOK, ConnectionLost, stageVars, padVars,
               acceptVars, markVars
<1>12. CASE UNCHANGED transportVars
    BY <1>1, <1>12 DEF TransportTypeOK, transportVars, stageVars, padVars, acceptVars,
           serverVars, markVars
<1>. QED
    BY <1>2, <1>3, <1>4, <1>5, <1>6, <1>7, <1>8, <1>9, <1>10, <1>11, <1>12
       DEF TransportNext, RunnerStep, Accept

\* Nothing but the start, the runner and the end of a stream touches what StageInv is about.
LEMMA StageNext ==
    ASSUME TransportIInv, [TransportNext]_transportVars
    PROVE  StageInv'
<1>1. StageInv /\ TransportTypeOK
    BY DEF TransportIInv
<1>2. CASE Start \/ StartReturn \/ Stop \/ Restart \/ Finalize \/ NoTransport \/ NewTransport
           \/ Ready \/ Rejected \/ DestroyConnection
    <2>1. UNCHANGED <<loop, nstreams>>
        BY <1>2 DEF Start, StartReturn, Stop, Restart, Finalize, NoTransport, NewTransport,
               Ready, Rejected, DestroyConnection, acceptVars
    <2>2. connection' = "open" <=> connection = "open"
        BY <1>1, <1>2 DEF StageInv, Start, StartReturn, Stop, Restart, Finalize, NoTransport,
               NewTransport, Ready, Rejected, DestroyConnection
    <2>3. /\ stage' = "ready" => connection' = "none"
          /\ connection' = "none" => stage' \in {"ready", "gone"}
          /\ connection' \in {"created", "connecting", "creating"} => stage' = "starting"
        BY <1>1, <1>2 DEF StageInv, Start, StartReturn, Stop, Restart, Finalize, NoTransport,
               NewTransport, Ready, Rejected, DestroyConnection, stageVars
    <2>. QED
        BY <1>1, <2>1, <2>2, <2>3 DEF StageInv
<1>3. CASE AcceptStreams
    BY <1>1, <1>3 DEF StageInv, AcceptStreams, stageVars
<1>4. CASE AllRejected \/ \E k \in Kinds : Accept(k)
    <2>1. connection = "open" /\ UNCHANGED <<stage, connection>>
        BY <1>1, <1>4 DEF StageInv, AllRejected, Accept, AddStream, EndStream, Yields,
               stageVars
    <2>. QED
        BY <1>1, <2>1 DEF StageInv
<1>5. CASE UNCHANGED <<stage, connection, loop, nstreams>>
    BY <1>1, <1>5 DEF StageInv
<1>6. StoreMark \/ SendMark \/ (\E value \in Marks : SetMark(value)) =>
          UNCHANGED <<stage, connection, loop, nstreams>>
    BY DEF StoreMark, SendMark, SetMark, stageVars, acceptVars
<1>7. RequestPad \/ (\E name \in PadNames : Link(name) \/ CreateStream(name) \/ Transfer(name))
          => UNCHANGED <<stage, connection, loop, nstreams>>
    BY DEF RequestPad, Link, CreateStream, Transfer, stageVars, acceptVars
<1>8. ConnectionLost \/ (\E k \in Kinds : ServerOpens(k) \/ ServerEnds(k))
          => UNCHANGED <<stage, connection, loop, nstreams>>
    BY DEF ConnectionLost, ServerOpens, ServerEnds, stageVars, acceptVars
<1>9. UNCHANGED transportVars => UNCHANGED <<stage, connection, loop, nstreams>>
    BY DEF transportVars, stageVars, acceptVars
<1>. QED
    BY <1>2, <1>3, <1>4, <1>5, <1>6, <1>7, <1>8, <1>9 DEF TransportNext, RunnerStep

\* What a step does to the counters, the pads and the map of the streams.
\* Nothing,
StreamsKept == UNCHANGED <<nstreams, taken, pads, streams>>

\* or a stream is accepted,
Accepted(k) ==
    /\ taken[k] < sent[k] /\ sent' = sent
    /\ nstreams' = [nstreams EXCEPT ![k] = taken[k] + 1]
    /\ taken' = [taken EXCEPT ![k] = taken[k] + 1]
    /\ pads' = pads \cup {<<k, taken[k]>>}
    /\ streams' = Insert(streams, <<k, taken[k]>>, <<k, taken[k]>>)

\* or something is added that is not the pad or the stream of an accepted one.
Added ==
    /\ UNCHANGED <<nstreams, taken, sent>>
    /\ \/ streams' = streams /\ \E n \in 0..MaxRequested : pads' = pads \cup {<<"rbidi", n>>}
       \/ pads' = pads /\ \E name \in pads :
             \/ streams' = Insert(streams, name, name) /\ name[1] \notin Kinds
             \/ streams' = Insert(streams, LookupName(name), Undefined)

\* The server does not take back what was accepted.
LEMMA SentStays ==
    ASSUME TransportIInv, [TransportNext]_transportVars
    PROVE  \A k \in Kinds : sent'[k] \in Nat /\ (taken[k] <= sent[k] => taken[k] <= sent'[k])
<1>1. \A k \in Kinds : sent[k] \in Nat /\ taken[k] \in Nat
    BY DEF TransportIInv, TransportTypeOK
<1>2. sent \in [Kinds -> 0..MaxStreams]
    BY DEF TransportIInv, TransportTypeOK
<1>3. CASE \E k \in Kinds : ServerOpens(k)
    BY <1>1, <1>2, <1>3 DEF ServerOpens
<1>4. CASE ConnectionLost
    BY <1>1, <1>4 DEF ConnectionLost
<1>5. CASE sent' = sent
    BY <1>1, <1>5
<1>6. Start \/ StartReturn \/ Stop \/ Restart \/ Finalize \/ RequestPad => sent' = sent
    BY DEF Start, StartReturn, Stop, Restart, Finalize, RequestPad, serverVars
<1>7. RunnerStep => sent' = sent
    BY DEF RunnerStep, NoTransport, NewTransport, Ready, CreateStream, Transfer, Rejected,
           AcceptStreams, DestroyConnection, AllRejected, serverVars
<1>8. \A k \in Kinds : Accept(k) \/ ServerEnds(k) => sent' = sent
    BY DEF Accept, AddStream, EndStream, ServerEnds, serverVars
<1>9. StoreMark \/ SendMark \/ (\E value \in Marks : SetMark(value))
         \/ (\E name \in PadNames : Link(name)) \/ UNCHANGED transportVars => sent' = sent
    BY DEF StoreMark, SendMark, SetMark, Link, serverVars, transportVars
<1>. QED
    BY <1>3, <1>4, <1>5, <1>6, <1>7, <1>8, <1>9 DEF TransportNext

LEMMA StreamSteps ==
    ASSUME TransportIInv, [TransportNext]_transportVars
    PROVE  StreamsKept \/ Added \/ \E k \in Kinds : Accepted(k)
<1>1. CASE Start \/ StartReturn \/ Stop \/ Restart \/ Finalize
    BY <1>1 DEF StreamsKept, Start, StartReturn, Stop, Restart, Finalize, padVars, acceptVars,
           serverVars
<1>2. CASE NoTransport \/ NewTransport \/ Ready \/ Rejected \/ AcceptStreams
           \/ DestroyConnection \/ AllRejected
    BY <1>2 DEF StreamsKept, NoTransport, NewTransport, Ready, Rejected, AcceptStreams,
           DestroyConnection, AllRejected, padVars, acceptVars, serverVars
<1>3. CASE StoreMark \/ SendMark \/ \E value \in Marks : SetMark(value)
    BY <1>3 DEF StreamsKept, StoreMark, SendMark, SetMark, padVars, acceptVars, serverVars
<1>4. CASE ConnectionLost
           \/ \E k \in Kinds : EndStream(k) \/ ServerOpens(k) \/ ServerEnds(k)
    BY <1>4 DEF StreamsKept, ConnectionLost, EndStream, ServerOpens, ServerEnds, padVars,
           acceptVars, serverVars
<1>5. CASE (\E name \in PadNames : Link(name)) \/ UNCHANGED transportVars
    BY <1>5 DEF StreamsKept, Link, transportVars, padVars, acceptVars, serverVars
<1>6. ASSUME NEW k \in Kinds, AddStream(k) PROVE Accepted(k)
    BY <1>6, AddStreamIs DEF Accepted, AddStream, AddPad
<1>7. CASE RequestPad
    <2>1. PICK n \in 0..MaxRequested : pads' = pads \cup {<<"rbidi", n>>}
        BY <1>7, RequestedName DEF AddPad
    <2>. QED
        BY <1>7, <2>1 DEF Added, RequestPad, acceptVars, serverVars
<1>8. ASSUME NEW name \in PadNames, CreateStream(name) PROVE Added
    <2>1. name \in pads /\ \A k \in Kinds : nstreams[k] = 0
        BY <1>8 DEF CreateStream, TransportIInv, TransportTypeOK, StageInv
    <2>2. ASSUME name[1] \in Kinds PROVE FALSE
        <3>1. PICK k \in Kinds, i \in 0..MaxStreams : name = <<k, i>>
            BY <2>2 DEF PadNames, Kinds, Datagram
        <3>2. i < nstreams[k]
            BY <2>1, <3>1 DEF TransportIInv, PadInv
        <3>. QED
            BY <2>1, <3>2
    <2>. QED
        BY <1>8, <2>1, <2>2 DEF Added, CreateStream, acceptVars, serverVars
<1>9. ASSUME NEW name \in PadNames, Transfer(name) PROVE Added
    <2>1. name \in pads
        BY <1>9 DEF Transfer, TransportIInv, TransportTypeOK
    <2>. QED
        BY <1>9, <2>1 DEF Added, Transfer, acceptVars, serverVars
<1>. QED
    BY <1>1, <1>2, <1>3, <1>4, <1>5, <1>6, <1>7, <1>8, <1>9
       DEF TransportNext, RunnerStep, Accept

LEMMA PadNext ==
    ASSUME TransportIInv, [TransportNext]_transportVars
    PROVE  PadInv'
<1>1. PadInv /\ \A k \in Kinds : taken[k] \in Nat /\ sent[k] \in Nat
    BY DEF TransportIInv, TransportTypeOK
<1>2. CASE StreamsKept
    BY <1>1, <1>2, SentStays DEF StreamsKept, PadInv
<1>3. CASE Added
    <2>1. \A k \in Kinds : \A i \in 0..MaxStreams : <<k, i>> \in pads' <=> <<k, i>> \in pads
        BY <1>3 DEF Added, Kinds
    <2>. QED
        BY <1>1, <1>3, <2>1 DEF Added, PadInv
<1>4. ASSUME NEW k \in Kinds, Accepted(k) PROVE PadInv'
    <2>1. nstreams \in [Kinds -> 0..MaxStreams] /\ taken \in [Kinds -> 0..MaxStreams]
        BY DEF TransportIInv, TransportTypeOK
    <2>2. ASSUME NEW l \in Kinds, l # k
          PROVE  /\ nstreams'[l] = taken'[l] /\ taken'[l] <= sent'[l]
                 /\ \A i \in 0..MaxStreams : <<l, i>> \in pads' <=> i < nstreams'[l]
        BY <1>1, <1>4, <2>1, <2>2 DEF Accepted, PadInv
    <2>3. /\ nstreams'[k] = taken[k] + 1 /\ taken'[k] = taken[k] + 1
          /\ taken[k] + 1 <= sent'[k]
        BY <1>1, <1>4, <2>1 DEF Accepted
    <2>4. \A i \in 0..MaxStreams : <<k, i>> \in pads' <=> i < taken[k] + 1
        <3>1. \A i \in 0..MaxStreams : <<k, i>> \in pads' <=> <<k, i>> \in pads \/ i = taken[k]
            BY <1>4 DEF Accepted
        <3>2. \A i \in 0..MaxStreams : <<k, i>> \in pads <=> i < taken[k]
            BY <1>1 DEF PadInv
        <3>. QED
            BY <1>1, <3>1, <3>2
    <2>. QED
        BY <2>2, <2>3, <2>4 DEF PadInv
<1>. QED
    BY <1>2, <1>3, <1>4, StreamSteps

LEMMA StreamNext ==
    ASSUME TransportIInv, [TransportNext]_transportVars
    PROVE  StreamInv'
<1>1. StreamInv /\ \A k \in Kinds : nstreams[k] \in Nat /\ nstreams[k] = taken[k]
    BY DEF TransportIInv, TransportTypeOK, PadInv
<1>2. CASE StreamsKept
    BY <1>1, <1>2 DEF StreamsKept, StreamInv
<1>3. CASE Added
    <2>1. CASE streams' = streams
        BY <1>1, <1>3, <2>1 DEF Added, StreamInv
    <2>2. ASSUME NEW name \in pads, name[1] \notin Kinds, streams' = Insert(streams, name, name),
                 pads' = pads
          PROVE  StreamInv'
        <3>1. \A k \in Kinds, i \in 0..MaxStreams :
                 /\ <<k, i>> \in DOMAIN streams' <=> <<k, i>> \in DOMAIN streams
                 /\ <<k, i>> \in DOMAIN streams => streams'[<<k, i>>] = streams[<<k, i>>]
            <4>1. /\ DOMAIN streams' = DOMAIN streams \cup {name}
                  /\ \A x \in DOMAIN streams : streams'[x] = streams[x]
                BY <2>2 DEF Insert
            <4>2. \A k \in Kinds, i \in 0..MaxStreams : name # <<k, i>>
                BY <2>2
            <4>. QED
                BY <4>1, <4>2
        <3>. QED
            BY <1>1, <1>3, <2>2, <3>1 DEF Added, StreamInv
    <2>3. ASSUME NEW name \in pads, streams' = Insert(streams, LookupName(name), Undefined),
                 pads' = pads
          PROVE  StreamInv'
        <3>1. \A k \in Kinds, i \in 0..MaxStreams :
                 LookupName(name) = <<k, i>> => k = "bidi" /\ <<"rbidi", i>> \in pads
            BY LookupMeets DEF TransportIInv, TransportTypeOK
        <3>2. \A k \in Kinds, i \in 0..MaxStreams :
                 /\ <<k, i>> \in DOMAIN streams =>
                       <<k, i>> \in DOMAIN streams' /\ streams'[<<k, i>>] = streams[<<k, i>>]
                 /\ <<k, i>> \in DOMAIN streams' /\ <<k, i>> \notin DOMAIN streams =>
                       LookupName(name) = <<k, i>> /\ streams'[<<k, i>>] = Undefined
            <4>. DEFINE key == LookupName(name)
            <4>. HIDE DEF key
            <4>1. streams' = Insert(streams, key, Undefined)
                BY <2>3 DEF key
            <4>2. /\ DOMAIN streams' = DOMAIN streams \cup {key}
                  /\ \A x \in DOMAIN streams : streams'[x] = streams[x]
                  /\ key \notin DOMAIN streams => streams'[key] = Undefined
                BY <4>1 DEF Insert
            <4>. QED
                BY <4>2 DEF key
        <3>. QED
            BY <1>1, <1>3, <2>3, <3>1, <3>2 DEF Added, StreamInv
    <2>. QED
        BY <1>3, <2>1, <2>2, <2>3 DEF Added
<1>4. ASSUME NEW k \in Kinds, Accepted(k) PROVE StreamInv'
    <2>. DEFINE name == <<k, taken[k]>>
    <2>1. /\ DOMAIN streams' = DOMAIN streams \cup {name}
          /\ \A x \in DOMAIN streams : streams'[x] = streams[x]
          /\ name \notin DOMAIN streams => streams'[name] = name
        BY <1>4 DEF Accepted, Insert
    <2>2. pads \subseteq pads' /\ nstreams \in [Kinds -> 0..MaxStreams]
        BY <1>4 DEF Accepted, TransportIInv, TransportTypeOK
    <2>3. ASSUME NEW l \in Kinds, NEW i \in 0..MaxStreams, <<l, i>> # name
          PROVE  /\ i < nstreams'[l] <=> i < nstreams[l]
                 /\ <<l, i>> \in DOMAIN streams' <=> <<l, i>> \in DOMAIN streams
        <3>1. CASE l = k
            <4>1. i # taken[k] /\ nstreams'[l] = taken[k] + 1 /\ nstreams[l] = taken[k]
                BY <1>1, <1>4, <2>2, <2>3, <3>1 DEF Accepted
            <4>. QED
                BY <1>1, <2>1, <2>3, <4>1
        <3>2. CASE l # k
            BY <1>4, <2>1, <2>2, <2>3, <3>2 DEF Accepted
        <3>. QED
            BY <3>1, <3>2
    <2>4. taken[k] < nstreams'[k]
        BY <1>1, <1>4, <2>2 DEF Accepted
    <2>5. ASSUME NEW l \in Kinds, NEW i \in 0..MaxStreams
          PROVE  /\ i < nstreams'[l] => <<l, i>> \in DOMAIN streams'
                 /\ <<l, i>> \in DOMAIN streams' =>
                      \/ i < nstreams'[l] /\ streams'[<<l, i>>] = <<l, i>>
                      \/ l = "bidi" /\ <<"rbidi", i>> \in pads' /\ streams'[<<l, i>>] = Undefined
        <3>1. CASE <<l, i>> # name
            BY <1>1, <2>1, <2>2, <2>3, <3>1 DEF StreamInv
        <3>2. CASE <<l, i>> = name /\ name \notin DOMAIN streams
            BY <2>1, <2>4, <3>2
        <3>3. CASE <<l, i>> = name /\ name \in DOMAIN streams
            <4>1. l = k /\ i = taken[k]
                BY <3>3
            <4>2. ~(i < nstreams[l])
                BY <1>1, <4>1
            <4>3. l = "bidi" /\ <<"rbidi", i>> \in pads /\ streams[<<l, i>>] = Undefined
                BY <1>1, <3>3, <4>2 DEF StreamInv
            <4>. QED
                BY <2>1, <2>2, <3>3, <4>3
        <3>. QED
            BY <3>1, <3>2, <3>3
    <2>. QED
        BY <2>5 DEF StreamInv
<1>. QED
    BY <1>2, <1>3, <1>4, StreamSteps

LEMMA MarkNext ==
    ASSUME TransportIInv, [TransportNext]_transportVars
    PROVE  MarkInv'
<1>1. MarkInv /\ StageInv /\ TransportTypeOK
    BY DEF TransportIInv
<1>2. CASE Start
    BY <1>1, <1>2 DEF Start, MarkInv, StageInv
<1>3. CASE \E value \in Marks : SetMark(value)
    <2>1. PICK value \in Marks : SetMark(value)
        BY <1>3
    <2>2. setter' = [at |-> IF connection = "none" THEN "store" ELSE "send", value |-> value]
        BY <2>1 DEF SetMark
    <2>3. setter'.value = wanted' /\ setter'.at # "idle"
          /\ (setter'.at = "store" => connection = "none")
        BY <2>1, <2>2 DEF SetMark
    <2>4. connection' = connection /\ (raced' <=> (raced \/ stage = "starting"))
        BY <2>1 DEF SetMark
    <2>. QED
        BY <1>1, <2>3, <2>4 DEF MarkInv, StageInv
<1>4. CASE StoreMark
    BY <1>1, <1>4 DEF StoreMark, MarkInv, TransportTypeOK
<1>5. CASE SendMark
    BY <1>1, <1>5 DEF SendMark, MarkInv, TransportTypeOK
<1>6. CASE NoTransport \/ NewTransport \/ Rejected \/ AcceptStreams \/ DestroyConnection
    BY <1>1, <1>6 DEF NoTransport, NewTransport, Rejected, AcceptStreams, DestroyConnection,
           MarkInv, markVars
<1>7. CASE Ready
    BY <1>1, <1>7 DEF Ready, MarkInv
<1>8. CASE UNCHANGED <<connection, markVars>>
    BY <1>1, <1>8 DEF MarkInv, markVars
<1>9. StartReturn \/ Stop \/ Restart \/ Finalize \/ RequestPad \/ AllRejected \/ ConnectionLost
         => UNCHANGED <<connection, markVars>>
    BY DEF StartReturn, Stop, Restart, Finalize, RequestPad, AllRejected, ConnectionLost
<1>10. (\E name \in PadNames : Link(name) \/ CreateStream(name) \/ Transfer(name))
         => UNCHANGED <<connection, markVars>>
    BY DEF Link, CreateStream, Transfer
<1>11. (\E k \in Kinds : Accept(k) \/ ServerOpens(k) \/ ServerEnds(k))
         => UNCHANGED <<connection, markVars>>
    BY DEF Accept, AddStream, EndStream, ServerOpens, ServerEnds
<1>12. UNCHANGED transportVars => UNCHANGED <<connection, markVars>>
    BY DEF transportVars
<1>. QED
    BY <1>2, <1>3, <1>4, <1>5, <1>6, <1>7, <1>8, <1>9, <1>10, <1>11, <1>12
       DEF TransportNext, RunnerStep

--------------------------------------------------------------------------------
(* The theorems about WebTransportSrc *)

\* The inductive invariant, of every step of the application, the runner, the
\* server and the network.
THEOREM TransportInvariance == TransportSpec => []TransportIInv
<1>1. TransportIInv /\ [TransportNext]_transportVars => TransportIInv'
    BY TransportTypeNext, StageNext, PadNext, StreamNext, MarkNext DEF TransportIInv
<1>. QED
    BY <1>1, TransportStart, PTL DEF TransportSpec

\* add_stream: every stream a promise brought, of either kind, has its pad and stands
\* under its name in self->streams, whatever ends, is lost or is requested by name.
THEOREM AcceptanceCorrect == TransportSpec => []AcceptedInOrder
<1>1. TransportIInv => AcceptedInOrder
    <2>. SUFFICES ASSUME TransportIInv PROVE AcceptedInOrder
        OBVIOUS
    <2>1. ASSUME NEW k \in Kinds, NEW i \in 0 .. nstreams[k] - 1
          PROVE  /\ <<k, i>> \in pads
                 /\ \/ streams[<<k, i>>] = <<k, i>>
                    \/ k = "bidi" /\ <<"rbidi", i>> \in pads /\ streams[<<k, i>>] = Undefined
        <3>1. nstreams[k] \in 0..MaxStreams
            BY DEF TransportIInv, TransportTypeOK
        <3>2. i \in 0..MaxStreams /\ i < nstreams[k]
            BY <3>1, TransportAssumption
        <3>. QED
            BY <3>2 DEF TransportIInv, PadInv, StreamInv
    <2>. QED
        BY <2>1 DEF AcceptedInOrder, TransportIInv, PadInv
<1>. QED
    BY <1>1, TransportInvariance, PTL

\* gst_web_transport_src_set_property: a mark that was not set while the element
\* started is the one that get_property returns, before there is a connection and on it.
THEOREM MarkCorrect == TransportSpec => []MarkApplied
<1>1. TransportIInv => MarkApplied
    BY DEF TransportIInv, MarkInv, MarkApplied, GetMark
<1>. QED
    BY <1>1, TransportInvariance, PTL

================================================================================
