---------------------------- MODULE WebPipelineProofs ----------------------------
(***************************************************************************)
(* Proofs about WebPipeline: in every pipeline, and for every number of    *)
(* pictures and stops, a VideoFrame is open exactly as long as somebody    *)
(* holds it, and webdownload hands on whole pictures.                      *)
(*                                                                         *)
(* The references of a VideoFrame are set, not added to, when it is made:  *)
(* the count is right because nobody holds the VideoFrame of that picture  *)
(* yet, which is so because a picture is in one place.                     *)
(***************************************************************************)
EXTENDS WebPipeline, FiniteSetTheorems, SequenceTheorems, TLAPS

--------------------------------------------------------------------------------
(* The inductive invariant *)

Threads == {"R", "Q", "S"}

\* The steps of a thread without a buffer, and those before, in and after the
\* swap of the last sample.
Without == {"idle", "create", "flush", "flushing"}
InSink  == {"swap", "predraw", "predrawing", "draw", "drawing", "preroll", "release"}
Kept    == {"predraw", "predrawing", "draw", "drawing", "preroll", "release", "drop"}
Copying == {"copy", "copying", "copied"}
Steps   == Without \cup {"wrap", "created", "enter", "make", "swap"} \cup Copying \cup Kept

Buffers == [pos : 0..4, step : Steps, picture : 0..MaxFrames,
            mem : Memory \cup {System}]

ShapeInv ==
    /\ job \in [Threads -> Buffers]
    /\ queue \in Seq(Buffers)

\* What a thread does with a buffer fits the element that the buffer is in.
InPlaceOf(pos, step) ==
    /\ pos = 0 \/ pos \in DOMAIN Path[layout]
    /\ step \in Without \cup {"wrap", "created"} <=> pos = 0
    /\ step = "enter" => Path[layout][pos] = "queue"
    /\ step \in Copying => Path[layout][pos] = "download"
    /\ step = "make" => Path[layout][pos] = "upload"
    /\ step \in InSink => Path[layout][pos] = "sink"
    /\ step = "drop" => Path[layout][pos] \in {"queue", "sink"}

\* Who does what: the runner pushes what is decoded, the thread of the queue
\* what is queued, and that of the source what is captured.
MayDo(t, step) ==
    \/ step = "idle"
    \/ t = "R" /\ Decoded /\ step \notin {"create", "created", "flush", "flushing"}
    \/ t = "Q" /\ Queued /\ step \notin {"create", "created", "wrap", "enter"}
    \/ t = "S" /\ ~Decoded /\ step \notin {"wrap", "enter", "flush", "flushing"}

PathInv ==
    /\ \A t \in Threads :
           InPlaceOf(job[t].pos, job[t].step) /\ MayDo(t, job[t].step)
    /\ \A i \in DOMAIN queue :
           queue[i].step = "enter" /\ InPlaceOf(queue[i].pos, "enter")
    /\ queue # <<>> => Queued

\* What was copied is whole.
CopiedInv ==
    \A t \in {"R", "Q"} :
        job[t].step \in {"copied", "make"} => job[t].picture \in copied

\* The memory of a buffer is that of its picture, one of the first count.
MemoryOf(b, count) ==
    /\ b.picture <= count
    /\ b.picture = 0 <=> b.step \in Without
    /\ b.mem \in {System, b.picture, MaxFrames + b.picture}
    /\ b.step \in Without \cup {"created", "make"} => b.mem = System
    /\ b.step = "wrap" => b.mem = b.picture

MemoryInv ==
    /\ \A t \in Threads : MemoryOf(job[t], pictures)
    /\ \A i \in DOMAIN queue : MemoryOf(queue[i], pictures)
    /\ job["S"].step = "create" => pictures < MaxFrames

\* A picture is in one place.
DistinctInv ==
    /\ \A t, u \in Threads :
           t # u /\ job[t].picture # 0 => job[t].picture # job[u].picture
    /\ \A t \in Threads, i \in DOMAIN queue : job[t].picture # queue[i].picture
    /\ \A i, j \in DOMAIN queue : i # j => queue[i].picture # queue[j].picture

\* The picture of the last sample has been in the sink.
LastInv ==
    /\ lastSample # System =>
           \E p \in 1..pictures : lastSample \in {p, MaxFrames + p}
    /\ \A t \in Threads :
           /\ job[t].picture # 0
           /\ lastSample \in {job[t].picture, MaxFrames + job[t].picture}
           => job[t].step \in Kept
    /\ \A i \in DOMAIN queue :
           lastSample \notin {queue[i].picture, MaxFrames + queue[i].picture}

\* What the elements have let go of when the application has passed them.
StopInv ==
    /\ app \in {"sink", "queue", "source", "stopped"} => "sink" \in flushing
    /\ app \in {"queue", "source", "stopped"} => lastSample = System
    /\ app = "queue" => Queued
    /\ app \in {"source", "stopped"} => (Queued => "Q" \in halted)
    /\ app = "stopped" => job["S"] = Idle
    /\ job["Q"].step = "flushing" => "queue" \in flushing
    /\ "Q" \in halted => job["Q"].step = "idle" /\ queue = <<>> /\ "queue" \in flushing

\* A VideoFrame has one reference from each that holds it.
CountInv == \A m \in Memory : refs[m] = Holders(m)

IInv ==
    /\ TypeOK
    /\ ShapeInv
    /\ PathInv
    /\ CopiedInv
    /\ MemoryInv
    /\ DistinctInv
    /\ LastInv
    /\ StopInv
    /\ CountInv

--------------------------------------------------------------------------------
(* Counting *)

\* The places in the queue that hold a VideoFrame.
Positions(q, m) == {i \in DOMAIN q : q[i].mem = m}

LEMMA PositionsFinite ==
    ASSUME NEW q \in Seq(Buffers), NEW m
    PROVE  IsFiniteSet(Positions(q, m)) /\ Cardinality(Positions(q, m)) \in Nat
  <1>1. Len(q) \in Nat /\ DOMAIN q = 1..Len(q)
    BY LenProperties
  <1>2. IsFiniteSet(DOMAIN q)
    BY <1>1, FS_Interval, SMT
  <1>3. Positions(q, m) \in SUBSET DOMAIN q
    BY DEF Positions
  <1> QED BY <1>2, <1>3, FS_Subset, FS_CardinalityType

LEMMA AppendPositions ==
    ASSUME NEW q \in Seq(Buffers), NEW b \in Buffers, NEW m
    PROVE  Cardinality(Positions(Append(q, b), m)) =
               Cardinality(Positions(q, m)) + (IF b.mem = m THEN 1 ELSE 0)
  <1> DEFINE new == Append(q, b)
             at == Len(q) + 1
  <1>1. Len(q) \in Nat /\ DOMAIN q = 1..Len(q)
    BY LenProperties
  <1>2. /\ new \in Seq(Buffers) /\ Len(new) = at
        /\ \A i \in 1..Len(q) : new[i] = q[i]
        /\ new[at] = b
    BY AppendProperties
  <1>3. DOMAIN new = 1..at
    BY <1>2, LenProperties
  <1>4. DOMAIN new = DOMAIN q \cup {at} /\ at \notin DOMAIN q
    BY <1>1, <1>3, SMT
  <1> HIDE DEF new, at
  <1>5. Positions(new, m) = Positions(q, m) \cup (IF b.mem = m THEN {at} ELSE {})
    BY <1>1, <1>2, <1>4 DEF Positions
  <1>6. at \notin Positions(q, m)
    BY <1>4 DEF Positions
  <1>7. IsFiniteSet(Positions(q, m)) /\ Cardinality(Positions(q, m)) \in Nat
    BY PositionsFinite
  <1>8. Cardinality(Positions(q, m) \cup {at}) = Cardinality(Positions(q, m)) + 1
    BY <1>6, <1>7, FS_AddElement
  <1>9. CASE b.mem = m
    <2>1. Positions(new, m) = Positions(q, m) \cup {at}
      BY <1>5, <1>9
    <2>2. Cardinality(Positions(new, m)) =
              Cardinality(Positions(q, m)) + (IF b.mem = m THEN 1 ELSE 0)
      BY <1>8, <1>9, <2>1
    <2> QED BY <2>2 DEF new
  <1>10. CASE b.mem # m
    <2>1. Positions(new, m) = Positions(q, m)
      BY <1>5, <1>10
    <2>2. Cardinality(Positions(new, m)) =
              Cardinality(Positions(q, m)) + (IF b.mem = m THEN 1 ELSE 0)
      BY <1>7, <1>10, <2>1
    <2> QED BY <2>2 DEF new
  <1> QED BY <1>9, <1>10

\* What is in a queue without its head.
LEMMA TailIs ==
    ASSUME NEW q \in Seq(Buffers), q # <<>>
    PROVE  /\ Len(q) \in Nat \ {0} /\ DOMAIN q = 1..Len(q)
           /\ Head(q) = q[1] /\ Head(q) \in Buffers /\ 1 \in DOMAIN q
           /\ Tail(q) \in Seq(Buffers) /\ Len(Tail(q)) = Len(q) - 1
           /\ DOMAIN Tail(q) = 1..(Len(q) - 1)
           /\ \A i \in DOMAIN Tail(q) : i + 1 \in DOMAIN q /\ Tail(q)[i] = q[i + 1]
  <1>1. Len(q) \in Nat \ {0} /\ DOMAIN q = 1..Len(q)
    BY EmptySeq, LenProperties
  <1>2. /\ Head(q) = q[1] /\ Head(q) \in Buffers
        /\ Tail(q) \in Seq(Buffers) /\ Len(Tail(q)) = Len(q) - 1
        /\ \A i \in 1..Len(Tail(q)) : Tail(q)[i] = q[i + 1]
    BY HeadTailProperties
  <1>3. DOMAIN Tail(q) = 1..(Len(q) - 1)
    BY <1>2, LenProperties
  <1>4. 1 \in 1..Len(q) /\ \A i \in 1..(Len(q) - 1) : i + 1 \in 1..Len(q)
    BY <1>1, SMT
  <1> QED BY <1>1, <1>2, <1>3, <1>4

LEMMA TailPositions ==
    ASSUME NEW q \in Seq(Buffers), q # <<>>, NEW m
    PROVE  Cardinality(Positions(q, m)) =
               Cardinality(Positions(Tail(q), m)) + (IF Head(q).mem = m THEN 1 ELSE 0)
  <1> DEFINE rest == Tail(q)
             moved == {i + 1 : i \in Positions(rest, m)}
             move == [i \in Positions(rest, m) |-> i + 1]
  <1>1. /\ Len(q) \in Nat \ {0} /\ DOMAIN q = 1..Len(q)
        /\ Head(q) = q[1] /\ 1 \in DOMAIN q
        /\ rest \in Seq(Buffers) /\ DOMAIN rest = 1..(Len(q) - 1)
        /\ \A i \in DOMAIN rest : i + 1 \in DOMAIN q /\ rest[i] = q[i + 1]
    BY TailIs
  <1> HIDE DEF rest
  <1>2. Positions(rest, m) \subseteq 1..(Len(q) - 1)
    BY <1>1 DEF Positions
  <1>3. move \in Bijection(Positions(rest, m), moved)
    <2>1. move \in [Positions(rest, m) -> moved]
      OBVIOUS
    <2>2. ASSUME NEW i \in Positions(rest, m), NEW j \in Positions(rest, m),
                 move[i] = move[j]
          PROVE  i = j
      <3>1. i \in Int /\ j \in Int /\ i + 1 = j + 1
        BY <1>1, <1>2, <2>2
      <3> QED BY <3>1, SMT
    <2>3. IsInjective(move)
      BY <2>2 DEF IsInjective
    <2>4. \A t \in moved : \E i \in Positions(rest, m) : move[i] = t
      OBVIOUS
    <2> QED BY <2>1, <2>3, <2>4 DEF Bijection, Injection, Surjection
  <1>4. IsFiniteSet(moved) /\ Cardinality(moved) = Cardinality(Positions(rest, m))
    BY <1>1, <1>3, PositionsFinite, FS_Bijection DEF ExistsBijection
  <1>5. 1 \notin moved
    <2>1. \A i \in 1..(Len(q) - 1) : i + 1 # 1
      BY <1>1, SMT
    <2> QED BY <1>2, <2>1
  <1>6. Positions(q, m) = moved \cup (IF Head(q).mem = m THEN {1} ELSE {})
    <2>1. \A i \in DOMAIN q : i = 1 \/ \E j \in DOMAIN rest : i = j + 1
      <3> SUFFICES ASSUME NEW i \in DOMAIN q, i # 1
                   PROVE  \E j \in DOMAIN rest : i = j + 1
        OBVIOUS
      <3>1. i - 1 \in DOMAIN rest /\ i = (i - 1) + 1
        BY <1>1, SMT
      <3> QED BY <3>1
    <2>2. ASSUME NEW i \in Positions(q, m)
          PROVE  i \in moved \cup (IF Head(q).mem = m THEN {1} ELSE {})
      <3>1. i \in DOMAIN q /\ q[i].mem = m
        BY DEF Positions
      <3>2. CASE i = 1
        BY <1>1, <3>1, <3>2
      <3>3. CASE i # 1
        <4>1. PICK j \in DOMAIN rest : i = j + 1
          BY <2>1, <3>1, <3>3
        <4>2. j \in Positions(rest, m)
          BY <1>1, <3>1, <4>1 DEF Positions
        <4> QED BY <4>1, <4>2
      <3> QED BY <3>2, <3>3
    <2>3. moved \subseteq Positions(q, m)
      BY <1>1 DEF Positions
    <2>4. Head(q).mem = m => 1 \in Positions(q, m)
      BY <1>1 DEF Positions
    <2> HIDE DEF moved
    <2> QED BY <2>2, <2>3, <2>4
  <1>7. Cardinality(Positions(rest, m)) \in Nat
    BY <1>1, PositionsFinite
  <1> HIDE DEF moved
  <1>8. CASE Head(q).mem = m
    <2>1. Positions(q, m) = moved \cup {1}
      BY <1>6, <1>8
    <2>2. Cardinality(moved \cup {1}) = Cardinality(moved) + 1
      BY <1>4, <1>5, FS_AddElement
    <2> QED BY <1>4, <1>7, <1>8, <2>1, <2>2 DEF rest
  <1>9. CASE Head(q).mem # m
    <2>1. Positions(q, m) = moved
      BY <1>6, <1>9
    <2> QED BY <1>4, <1>7, <1>9, <2>1 DEF rest
  <1> QED BY <1>8, <1>9

\* The share of one buffer, and of the last sample, in the holders.
Has(b, m) == IF b.mem = m /\ b.step # "wrap" THEN 1 ELSE 0
Keeps(l, m) == IF l = m THEN 1 ELSE 0

\* A thread more, or none.
Joined(set, t, cond) == set \cup (IF cond THEN {t} ELSE {})

LEMMA OneOrNone ==
    ASSUME NEW set, IsFiniteSet(set), NEW x, x \notin set, NEW cond \in BOOLEAN
    PROVE  /\ IsFiniteSet(Joined(set, x, cond))
           /\ Cardinality(Joined(set, x, cond)) =
                  Cardinality(set) + (IF cond THEN 1 ELSE 0)
  <1>1. Cardinality(set) \in Nat
    BY FS_CardinalityType
  <1>2. CASE cond
    BY <1>1, <1>2, FS_AddElement DEF Joined
  <1>3. CASE ~cond
    BY <1>1, <1>3 DEF Joined
  <1> QED BY <1>2, <1>3

\* The holders of a VideoFrame, one by one.
Shares(hands, q, l, m) ==
    Has(hands["R"], m) + Has(hands["Q"], m) + Has(hands["S"], m)
        + Cardinality(Positions(q, m)) + Keeps(l, m)

LEMMA ThreadShares ==
    ASSUME NEW hands \in [Threads -> Buffers], NEW m
    PROVE  Cardinality({t \in DOMAIN hands : hands[t].mem = m /\ hands[t].step # "wrap"}) =
               Has(hands["R"], m) + Has(hands["Q"], m) + Has(hands["S"], m)
  <1> DEFINE H(t) == hands[t].mem = m /\ hands[t].step # "wrap"
             T == {t \in DOMAIN hands : H(t)}
             T1 == Joined({}, "R", H("R"))
             T2 == Joined(T1, "Q", H("Q"))
             T3 == Joined(T2, "S", H("S"))
  <1>1. "R" \notin {} /\ "Q" \notin T1 /\ "S" \notin T2
    BY DEF Joined
  <1>2. T = T3
    BY DEF Threads, Joined
  <1>3. IsFiniteSet({}) /\ Cardinality({}) = 0
    BY FS_EmptySet
  <1>4. /\ \A t : H(t) \in BOOLEAN
        /\ \A t : Has(hands[t], m) = IF H(t) THEN 1 ELSE 0
    BY DEF Has
  <1>5. /\ T1 = Joined({}, "R", H("R"))
        /\ T2 = Joined(T1, "Q", H("Q"))
        /\ T3 = Joined(T2, "S", H("S"))
    OBVIOUS
  <1> HIDE DEF T1, T2, T3, H
  <1>6. IsFiniteSet(T1) /\ Cardinality(T1) = 0 + (IF H("R") THEN 1 ELSE 0)
    BY <1>1, <1>3, <1>4, <1>5, OneOrNone
  <1>7. IsFiniteSet(T2) /\ Cardinality(T2) = Cardinality(T1) + (IF H("Q") THEN 1 ELSE 0)
    BY <1>1, <1>4, <1>5, <1>6, OneOrNone
  <1>8. Cardinality(T3) = Cardinality(T2) + (IF H("S") THEN 1 ELSE 0)
    BY <1>1, <1>4, <1>5, <1>7, OneOrNone
  <1>9. Cardinality(T1) = Has(hands["R"], m)
    BY <1>4, <1>6
  <1>10. Cardinality(T2) = Has(hands["R"], m) + Has(hands["Q"], m)
    BY <1>4, <1>7, <1>9
  <1>11. Cardinality(T3) = Has(hands["R"], m) + Has(hands["Q"], m) + Has(hands["S"], m)
    BY <1>4, <1>8, <1>10
  <1> QED BY <1>2, <1>11 DEF T, H

LEMMA LastShare ==
    ASSUME NEW l, NEW m
    PROVE  Cardinality({k \in {l} : k = m}) = Keeps(l, m)
  <1>1. CASE l = m
    <2>1. {k \in {l} : k = m} = {m}
      BY <1>1
    <2> QED BY <1>1, <2>1, FS_Singleton DEF Keeps
  <1>2. CASE l # m
    <2>1. {k \in {l} : k = m} = {}
      BY <1>2
    <2> QED BY <1>2, <2>1, FS_EmptySet DEF Keeps
  <1> QED BY <1>1, <1>2

LEMMA HoldersAre ==
    ASSUME ShapeInv, NEW m
    PROVE  Holders(m) = Shares(job, queue, lastSample, m)
  BY ThreadShares, LastShare DEF ShapeInv, Holders, Shares, Positions

\* So they are after a step.
LEMMA HoldersAfter ==
    ASSUME ShapeInv', NEW m
    PROVE  Holders(m)' = Shares(job', queue', lastSample', m)
  BY ThreadShares, LastShare DEF ShapeInv, Holders, Shares, Positions

--------------------------------------------------------------------------------
(* What a step is to the buffers: thread t has b in place of what it had, a *)
(* buffer enters the queue, leaves it, or is freed in it, or all stay where *)
(* they are.                                                                *)

\* Every VideoFrame keeps one reference for each holder.
Balanced(t, b) ==
    \A m \in Memory :
        refs'[m] + Has(job[t], m) + Keeps(lastSample, m) =
            refs[m] + Has(b, m) + Keeps(lastSample', m)

\* The last sample is that of before, which t does not take back from the sink
\* before the swap, or what t has in its hands in the sink.
Swapped(t, b) ==
    \/ /\ lastSample' = lastSample
       /\ job[t].step \in Kept /\ b.picture # 0 => b.step \in Kept
    \/ /\ lastSample' = job[t].mem
       /\ b.picture = job[t].picture /\ b.step \in Kept

Turn(t, b) ==
    /\ b \in Buffers
    /\ job' = [job EXCEPT ![t] = b]
    /\ queue' = queue
    /\ \/ b.picture \in {0, job[t].picture} /\ pictures' = pictures
       \/ /\ b.picture = pictures + 1 /\ pictures' = pictures + 1
          /\ job[t].picture = 0 /\ b.step \in {"wrap", "created"}
    /\ b.step = "create" => pictures' < MaxFrames
    /\ b.step = "flushing" => "queue" \in flushing'
    /\ InPlaceOf(b.pos, b.step) /\ MayDo(t, b.step)
    /\ MemoryOf(b, pictures')
    /\ copied \subseteq copied'
    /\ t \in {"R", "Q"} /\ b.step \in {"copied", "make"} => b.picture \in copied'
    /\ Swapped(t, b)
    /\ Balanced(t, b)

Enters ==
    /\ job["R"].step = "enter"
    /\ queue' = Append(queue, job["R"])
    /\ job' = [job EXCEPT !["R"] = Idle]
    /\ UNCHANGED <<pictures, copied, lastSample, refs>>

\* The head of the queue as its thread takes it on.
Onward(b) == [b EXCEPT !.pos = b.pos + 1, !.step = First[Path[layout][b.pos + 1]]]

Leaves ==
    /\ job["Q"].step = "idle"
    /\ queue # <<>>
    /\ queue' = Tail(queue)
    /\ job' = [job EXCEPT !["Q"] = Onward(Head(queue))]
    /\ UNCHANGED <<pictures, copied, lastSample, refs>>

Drains ==
    /\ queue # <<>>
    /\ queue' = Tail(queue)
    /\ \A m \in Memory :
           refs'[m] + (IF Head(queue).mem = m THEN 1 ELSE 0) = refs[m]
    /\ UNCHANGED <<job, pictures, copied, lastSample>>

Rests ==
    /\ UNCHANGED <<job, queue, pictures, copied>>
    /\ lastSample' \in {lastSample, System}
    /\ \A m \in Memory :
           refs'[m] + Keeps(lastSample, m) = refs[m] + Keeps(lastSample', m)

\* Where a buffer goes from where it is.
LEMMA Along ==
    ASSUME layout \in DOMAIN Path, NEW pos, pos = 0 \/ pos \in DOMAIN Path[layout]
    PROVE  /\ pos \in 0..4
           /\ pos = 0 =>
                  /\ pos + 1 \in DOMAIN Path[layout]
                  /\ ~Decoded => Path[layout][pos + 1] \in {"upload", "sink"}
                  /\ Decoded => Path[layout][pos + 1] \in {"queue", "download", "sink"}
                  /\ Path[layout][pos + 1] = "queue" => Queued
           /\ pos # 0 /\ Path[layout][pos] = "queue" =>
                  /\ pos + 1 \in DOMAIN Path[layout]
                  /\ Path[layout][pos + 1] \in {"download", "sink"}
           /\ pos # 0 /\ Path[layout][pos] = "download" =>
                  pos + 1 \in DOMAIN Path[layout] /\ Path[layout][pos + 1] = "upload"
           /\ pos # 0 /\ Path[layout][pos] = "upload" =>
                  pos + 1 \in DOMAIN Path[layout] /\ Path[layout][pos + 1] = "sink"
  <1>1. layout \in {"direct", "queued", "copied", "buffered", "captured", "raw"}
    BY DEF Path
  <1>2. CASE layout = "direct"
    BY <1>2 DEF Path, Decoded, Queued
  <1>3. CASE layout = "queued"
    BY <1>3 DEF Path, Decoded, Queued
  <1>4. CASE layout = "copied"
    BY <1>4 DEF Path, Decoded, Queued
  <1>5. CASE layout = "buffered"
    BY <1>5 DEF Path, Decoded, Queued
  <1>6. CASE layout = "captured"
    BY <1>6 DEF Path, Decoded, Queued
  <1>7. CASE layout = "raw"
    BY <1>7 DEF Path, Decoded, Queued
  <1> QED BY <1>1, <1>2, <1>3, <1>4, <1>5, <1>6, <1>7

LEMMA Sizes ==
    /\ MaxFrames \in Nat /\ System = 0 /\ System \notin Memory
    /\ \A m : m \in Memory <=> m \in Nat /\ m # 0 /\ m <= 2 * MaxFrames
  <1>1. MaxFrames \in Nat
    BY PipelineAssumption
  <1> QED BY <1>1 DEF System, Memory

LEMMA Numbers ==
    ASSUME TypeOK
    PROVE  /\ MaxFrames \in Nat /\ pictures \in Nat /\ pictures <= MaxFrames
           /\ System = 0 /\ System \notin Memory
           /\ \A m : m \in Memory <=> m \in Nat /\ m # 0 /\ m <= 2 * MaxFrames
  <1>1. pictures \in 0..MaxFrames
    BY DEF TypeOK
  <1> QED BY <1>1, Sizes

LEMMA BufferFields ==
    ASSUME NEW a \in Buffers, NEW pos \in 0..4, NEW step \in Steps,
           NEW mem \in Memory \cup {System}
    PROVE  LET b == [a EXCEPT !.pos = pos, !.mem = mem, !.step = step]
           IN /\ b \in Buffers /\ b.pos = pos /\ b.step = step
              /\ b.picture = a.picture /\ b.mem = mem
  <1> USE DEF Buffers
  <1> QED OBVIOUS

\* A thread goes on with the buffer it has.
LEMMA GoTurn ==
    ASSUME IInv, NEW t \in Threads, NEW step \in Steps \ {"wrap", "created", "make"},
           Go(t, step), job[t].step # "wrap",
           InPlaceOf(job[t].pos, step), MayDo(t, step),
           job[t].step \in Without <=> step \in Without,
           job[t].step \in Kept => step \in Kept,
           step = "create" => pictures < MaxFrames,
           step = "flushing" => "queue" \in flushing',
           copied \subseteq copied',
           t \in {"R", "Q"} /\ step = "copied" => job[t].picture \in copied',
           UNCHANGED <<queue, pictures, lastSample, refs>>
    PROVE  \E b : Turn(t, b)
  <1> DEFINE b == [job[t] EXCEPT !.step = step]
  <1>1. job[t] \in Buffers
    BY DEF IInv, ShapeInv
  <1>2. b \in Buffers /\ b.pos = job[t].pos /\ b.step = step
        /\ b.picture = job[t].picture /\ b.mem = job[t].mem
    BY <1>1 DEF Buffers
  <1>3. job' = [job EXCEPT ![t] = b]
    BY DEF Go
  <1>4. MemoryOf(job[t], pictures)
    BY DEF IInv, MemoryInv
  <1> HIDE DEF b
  <1>5. MemoryOf(b, pictures')
    BY <1>2, <1>4 DEF MemoryOf
  <1>6. Swapped(t, b)
    BY <1>2 DEF Swapped
  <1>7. Balanced(t, b)
    BY <1>2 DEF Balanced, Has
  <1>8. Turn(t, b)
    BY <1>2, <1>3, <1>5, <1>6, <1>7 DEF Turn
  <1> QED BY <1>8

\* A thread hands its buffer to the next element, as memory mem.
LEMMA PushTurn ==
    ASSUME IInv, NEW t \in Threads, NEW mem, Push(t, mem),
           job[t].picture # 0, job[t].step \notin Kept,
           mem \in {System, job[t].picture, MaxFrames + job[t].picture} \cap
                       (Memory \cup {System}),
           job[t].pos + 1 \in DOMAIN Path[layout],
           MayDo(t, First[Path[layout][job[t].pos + 1]]),
           Path[layout][job[t].pos + 1] = "upload" =>
               mem = System /\ (t \in {"R", "Q"} => job[t].picture \in copied),
           UNCHANGED <<queue, pictures, copied, lastSample>>,
           \A m \in Memory :
               refs'[m] + Has(job[t], m) = refs[m] + (IF mem = m THEN 1 ELSE 0)
    PROVE  \E b : Turn(t, b)
  <1> DEFINE pos  == job[t].pos + 1
             step == First[Path[layout][pos]]
             b    == [job[t] EXCEPT !.pos = pos, !.mem = mem, !.step = step]
  <1>1. job[t] \in Buffers /\ job \in [Threads -> Buffers]
    BY DEF IInv, ShapeInv
  <1>2. MemoryOf(job[t], pictures) /\ InPlaceOf(job[t].pos, job[t].step)
    BY DEF IInv, MemoryInv, PathInv
  <1>3. layout \in DOMAIN Path
    BY PipelineAssumption DEF IInv, TypeOK
  <1>4. pos \in 1..4
    <2>1. pos \in 0..4
      BY <1>3, Along
    <2>2. job[t].pos \in 0..4
      BY <1>1 DEF Buffers
    <2> QED BY <2>1, <2>2
  <1>5. Path[layout][pos] \in {"queue", "download", "upload", "sink"}
    <2>1. layout \in {"direct", "queued", "copied", "buffered", "captured", "raw"}
      BY <1>3 DEF Path
    <2> QED BY <2>1 DEF Path
  <1>6. /\ step \in {"enter", "copy", "make", "swap"}
        /\ step = "enter" <=> Path[layout][pos] = "queue"
        /\ step = "copy" <=> Path[layout][pos] = "download"
        /\ step = "make" <=> Path[layout][pos] = "upload"
        /\ step = "swap" <=> Path[layout][pos] = "sink"
    <2> DEFINE place == Path[layout][pos]
    <2> HIDE DEF place
    <2> SUFFICES ASSUME place \in {"queue", "download", "upload", "sink"}
                 PROVE  /\ First[place] \in {"enter", "copy", "make", "swap"}
                        /\ First[place] = "enter" <=> place = "queue"
                        /\ First[place] = "copy" <=> place = "download"
                        /\ First[place] = "make" <=> place = "upload"
                        /\ First[place] = "swap" <=> place = "sink"
      BY <1>5 DEF place
    <2> QED BY DEF First
  <1>7. job' = [job EXCEPT ![t] = b]
    BY DEF Push
  <1> HIDE DEF pos, step
  <1>8. b \in Buffers /\ b.pos = pos /\ b.step = step
        /\ b.picture = job[t].picture /\ b.mem = mem
    <2>1. pos \in 0..4 /\ step \in Steps /\ mem \in Memory \cup {System}
      BY <1>4, <1>6 DEF Steps, Copying
    <2> QED BY <1>1, <2>1, BufferFields DEF Buffers
  <1> HIDE DEF b
  <1>9. MemoryOf(b, pictures')
    BY <1>2, <1>6, <1>8 DEF MemoryOf, Without, pos
  <1>10. InPlaceOf(b.pos, b.step) /\ MayDo(t, b.step)
    <2>1. pos \in DOMAIN Path[layout] /\ MayDo(t, step)
      BY DEF pos, step
    <2> QED BY <1>4, <1>6, <1>8, <2>1 DEF InPlaceOf, Without, Copying, InSink
  <1>11. Swapped(t, b)
    BY DEF Swapped
  <1>12. Balanced(t, b)
    BY <1>6, <1>8 DEF Balanced, Has
  <1>13. t \in {"R", "Q"} /\ b.step \in {"copied", "make"} => b.picture \in copied'
    BY <1>6, <1>8 DEF pos
  <1>14. Turn(t, b)
    <2>1. b.step # "create" /\ b.step # "flushing"
      BY <1>6, <1>8
    <2> QED BY <1>7, <1>8, <1>9, <1>10, <1>11, <1>12, <1>13, <2>1 DEF Turn
  <1> QED BY <1>14

\* What a thread drops is not its any more.
LEMMA FreeCount ==
    ASSUME TypeOK, NEW t, NEW mem \in Memory \cup {System}, Free(t, mem)
    PROVE  /\ \A m \in Memory : refs'[m] + (IF mem = m THEN 1 ELSE 0) = refs[m]
           /\ refs' \in [Memory -> Int]
  <1>1. refs \in [Memory -> 0..3] /\ System \notin Memory
    BY Numbers DEF TypeOK
  <1>2. CASE mem = System
    BY <1>1, <1>2 DEF Free
  <1>3. CASE mem # System
    <2>1. refs' = [refs EXCEPT ![mem] = @ - 1]
      BY <1>3 DEF Free
    <2> QED BY <1>1, <1>3, <2>1
  <1> QED BY <1>2, <1>3

\* A thread lets go of its buffer.
LEMMA DropTurn ==
    ASSUME IInv, NEW t \in Threads, NEW b, b = Idle \/ b = [Idle EXCEPT !.step = "flush"],
           job' = [job EXCEPT ![t] = b], MayDo(t, b.step),
           UNCHANGED <<queue, pictures, copied, lastSample>>,
           \A m \in Memory : refs'[m] + Has(job[t], m) = refs[m]
    PROVE  \E c : Turn(t, c)
  <1>1. b.pos = 0 /\ b.picture = 0 /\ b.mem = System /\ b.step \in {"idle", "flush"}
        /\ b = [pos |-> b.pos, step |-> b.step, picture |-> b.picture, mem |-> b.mem]
    BY DEF Idle
  <1>2. b \in Buffers
    BY <1>1, PipelineAssumption DEF Buffers, Steps, Without, System
  <1>3. MemoryOf(b, pictures')
    BY <1>1, Numbers DEF MemoryOf, Without, IInv
  <1>4. InPlaceOf(b.pos, b.step)
    BY <1>1 DEF InPlaceOf, Without, Copying, InSink
  <1>5. Swapped(t, b)
    BY <1>1 DEF Swapped
  <1>6. System \notin Memory
    BY DEF System, Memory
  <1>7. Balanced(t, b)
    <2>1. refs \in [Memory -> 0..3]
      BY DEF IInv, TypeOK
    <2> QED BY <1>1, <1>6, <2>1 DEF Balanced, Has
  <1>8. Turn(t, b)
    BY <1>1, <1>2, <1>3, <1>4, <1>5, <1>7 DEF Turn
  <1> QED BY <1>8

\* Buffers of different pictures have different memory.
LEMMA OtherMemory ==
    ASSUME NEW b \in Buffers, NEW c \in Buffers, NEW m, NEW count,
           MemoryOf(c, count), b.picture # 0, b.picture # c.picture,
           m \in {b.picture, MaxFrames + b.picture}
    PROVE  c.mem # m
  <1>1. /\ MaxFrames \in Nat
        /\ b.picture \in Int /\ b.picture > 0 /\ b.picture <= MaxFrames
        /\ c.picture \in Int /\ c.picture >= 0 /\ c.picture <= MaxFrames
    BY Sizes DEF Buffers
  <1>2. CASE c.picture = 0
    <2>1. c.mem = 0
      BY <1>2, Sizes DEF MemoryOf
    <2> QED BY <1>1, <2>1
  <1>3. CASE c.picture # 0
    <2>1. c.mem \in {0, c.picture, MaxFrames + c.picture}
      BY Sizes DEF MemoryOf
    <2> QED BY <1>1, <1>3, <2>1
  <1> QED BY <1>2, <1>3

\* A VideoFrame that is being made has no reference.
LEMMA Fresh ==
    ASSUME IInv, NEW t \in Threads, NEW m \in Memory, job[t].picture # 0,
           m \in {job[t].picture, MaxFrames + job[t].picture},
           job[t].step \notin Kept, Has(job[t], m) = 0
    PROVE  refs[m] = 0
  <1>1. TypeOK /\ ShapeInv /\ PathInv /\ MemoryInv /\ DistinctInv /\ LastInv /\ CountInv
    BY DEF IInv
  <1>2. \A u \in Threads : job[u] \in Buffers
    BY <1>1 DEF ShapeInv
  <1>3. ASSUME NEW u \in Threads PROVE Has(job[u], m) = 0
    <2>1. CASE u = t
      BY <2>1
    <2>2. CASE u # t
      <3>1. job[t].picture # job[u].picture
        BY <1>1, <2>2 DEF DistinctInv
      <3>2. job[u].mem # m
        BY <1>1, <1>2, <3>1, OtherMemory DEF MemoryInv
      <3> QED BY <3>2 DEF Has
    <2> QED BY <2>1, <2>2
  <1>4. Positions(queue, m) = {}
    <2> SUFFICES ASSUME NEW i \in DOMAIN queue PROVE queue[i].mem # m
      BY DEF Positions
    <2>1. queue[i] \in Buffers
      BY <1>1, ElementOfSeq, LenProperties DEF ShapeInv
    <2>2. job[t].picture # queue[i].picture
      BY <1>1 DEF DistinctInv
    <2> QED BY <1>1, <1>2, <2>1, <2>2, OtherMemory DEF MemoryInv
  <1>5. Cardinality(Positions(queue, m)) = 0
    BY <1>4, FS_EmptySet
  <1>6. Keeps(lastSample, m) = 0
    BY <1>1 DEF Keeps, LastInv
  <1>7. Holders(m) = 0
    <2>1. "R" \in Threads /\ "Q" \in Threads /\ "S" \in Threads
      BY DEF Threads
    <2>2. Has(job["R"], m) = 0 /\ Has(job["Q"], m) = 0 /\ Has(job["S"], m) = 0
      BY <1>3, <2>1
    <2>3. Shares(job, queue, lastSample, m) = 0
      BY <1>5, <1>6, <2>2 DEF Shares
    <2> QED BY <1>1, <2>3, HoldersAre
  <1> QED BY <1>1, <1>7 DEF CountInv

LEMMA WrapCount ==
    ASSUME IInv, NEW t \in Threads, NEW mem \in Memory, Wrap(t, mem), job[t].picture # 0,
           mem \in {job[t].picture, MaxFrames + job[t].picture},
           job[t].step = "wrap" \/ job[t].mem = System, job[t].step \notin Kept
    PROVE  /\ \A m \in Memory :
                  refs'[m] + Has(job[t], m) = refs[m] + (IF mem = m THEN 1 ELSE 0)
           /\ refs' \in [Memory -> Int]
  <1>1. \A m \in Memory : Has(job[t], m) = 0
    BY Numbers DEF Has, IInv
  <1>2. refs[mem] = 0
    BY <1>1, Fresh
  <1>3. refs \in [Memory -> 0..3]
    BY DEF IInv, TypeOK
  <1>4. refs' = [refs EXCEPT ![mem] = 1]
    BY DEF Wrap
  <1> QED BY <1>1, <1>2, <1>3, <1>4

\* What is known of a thread that has a buffer in its hands.
LEMMA AtWork ==
    ASSUME IInv, NEW t \in Threads, job[t].step \notin Without
    PROVE  /\ TypeOK /\ job[t] \in Buffers /\ job \in [Threads -> Buffers]
           /\ layout \in DOMAIN Path
           /\ InPlaceOf(job[t].pos, job[t].step)
           /\ MemoryOf(job[t], pictures)
           /\ job[t].picture # 0 /\ job[t].picture \in Int
           /\ job[t].picture > 0 /\ job[t].picture <= MaxFrames
           /\ \A step \in Copying \cup Kept \cup {"make", "swap", "idle"} : MayDo(t, step)
           /\ t = "Q" => MayDo(t, "flush")
  <1>1. TypeOK /\ job[t] \in Buffers /\ job \in [Threads -> Buffers]
        /\ MemoryOf(job[t], pictures)
        /\ InPlaceOf(job[t].pos, job[t].step) /\ MayDo(t, job[t].step)
    BY DEF IInv, ShapeInv, MemoryInv, PathInv
  <1>2. layout \in DOMAIN Path
    BY <1>1, PipelineAssumption DEF TypeOK
  <1>3. job[t].picture # 0
    BY <1>1 DEF MemoryOf
  <1>4. job[t].picture \in Int /\ job[t].picture > 0 /\ job[t].picture <= MaxFrames
    BY <1>1, <1>3, Numbers DEF Buffers
  <1>5. job[t].step # "idle"
    BY DEF Without
  <1>6. \A step \in Copying \cup Kept \cup {"make", "swap", "idle"} : MayDo(t, step)
    BY <1>1, <1>5 DEF MayDo, Copying, Kept
  <1>7. t = "Q" => MayDo(t, "flush")
    BY <1>1, <1>5 DEF MayDo
  <1> QED BY <1>1, <1>2, <1>3, <1>4, <1>6, <1>7

\* Each step of a thread with a buffer is a turn.
LEMMA ThreadTurn ==
    ASSUME IInv, NEW t \in Threads, ThreadStep(t)
    PROVE  (\E b : Turn(t, b)) /\ refs' \in [Memory -> Int]
  <1> USE DEF appVars, queueVars, srcVars
  <1>1. TypeOK /\ CopiedInv /\ StopInv /\ refs \in [Memory -> 0..3]
    BY DEF IInv, TypeOK
  <1>2. CASE Download(t)
    <2>1. job[t].step = "copy" /\ Go(t, "copying")
      BY <1>2 DEF Download, At, CopyTo
    <2>2. InPlaceOf(job[t].pos, "copying") /\ MayDo(t, "copying")
      BY <2>1, AtWork DEF InPlaceOf, Without, Copying, InSink
    <2>3. UNCHANGED <<queue, pictures, lastSample, refs, copied>>
      BY <1>2 DEF Download
    <2>4. \E b : Turn(t, b)
      BY <2>1, <2>2, <2>3, GoTurn DEF Without, Steps, Copying, Kept
    <2> QED BY <1>1, <2>3, <2>4
  <1>3. CASE DownloadCopied(t)
    <2>1. /\ job[t].step = "copying" /\ Go(t, "copied")
          /\ copied' = copied \cup {job[t].picture}
      BY <1>3 DEF DownloadCopied, At
    <2>2. InPlaceOf(job[t].pos, "copied") /\ MayDo(t, "copied")
      BY <2>1, AtWork DEF InPlaceOf, Without, Copying, InSink
    <2>3. UNCHANGED <<queue, pictures, lastSample, refs>>
      BY <1>3 DEF DownloadCopied
    <2>4. \E b : Turn(t, b)
      BY <2>1, <2>2, <2>3, GoTurn DEF Without, Steps, Copying, Kept
    <2> QED BY <1>1, <2>3, <2>4
  <1>4. CASE DownloadReturn(t)
    <2>1. job[t].step = "copied" /\ Free(t, job[t].mem) /\ Push(t, System)
      BY <1>4 DEF DownloadReturn, At
    <2>2. UNCHANGED <<queue, pictures, copied, lastSample>>
      BY <1>4 DEF DownloadReturn
    <2>3. job[t].step \notin Without /\ job[t].step \notin Kept
      BY <2>1 DEF Without, Kept
    <2>4. /\ job[t].pos + 1 \in DOMAIN Path[layout]
          /\ Path[layout][job[t].pos + 1] = "upload"
      <3>1. job[t].pos # 0 /\ job[t].pos \in DOMAIN Path[layout]
            /\ Path[layout][job[t].pos] = "download"
        BY <2>1, <2>3, AtWork DEF InPlaceOf, Copying, Without
      <3> QED BY <2>3, <3>1, Along, AtWork
    <2>5. MayDo(t, First[Path[layout][job[t].pos + 1]])
      BY <2>3, <2>4, AtWork DEF First
    <2>6. /\ refs' \in [Memory -> Int]
          /\ \A m \in Memory : refs'[m] + (IF job[t].mem = m THEN 1 ELSE 0) = refs[m]
      BY <1>1, <2>1, <2>3, AtWork, FreeCount DEF Buffers
    <2>7. \A m \in Memory :
              refs'[m] + Has(job[t], m) = refs[m] + (IF System = m THEN 1 ELSE 0)
      BY <1>1, <2>1, <2>6, Numbers DEF Has
    <2>8. t \in {"R", "Q"} => job[t].picture \in copied
      BY <1>1, <2>1 DEF CopiedInv
    <2>9. \E b : Turn(t, b)
      BY <2>1, <2>2, <2>3, <2>4, <2>5, <2>7, <2>8, AtWork, PushTurn
    <2> QED BY <2>6, <2>9
  <1>5. CASE Upload(t)
    <2> DEFINE mem == MaxFrames + job[t].picture
    <2>1. job[t].step = "make" /\ Wrap(t, mem) /\ Push(t, mem)
      BY <1>5 DEF Upload, At
    <2>2. UNCHANGED <<queue, pictures, copied, lastSample>>
      BY <1>5 DEF Upload
    <2>3. job[t].step \notin Without /\ job[t].step \notin Kept
      BY <2>1 DEF Without, Kept
    <2>4. mem \in Memory /\ job[t].mem = System
      <3>1. job[t].mem = System
        BY <2>1, <2>3, AtWork DEF MemoryOf
      <3> QED BY <1>1, <2>3, <3>1, AtWork, Numbers
    <2> HIDE DEF mem
    <2>5. mem = MaxFrames + job[t].picture
      BY DEF mem
    <2>6. /\ job[t].pos + 1 \in DOMAIN Path[layout]
          /\ Path[layout][job[t].pos + 1] = "sink"
      <3>1. job[t].pos # 0 /\ job[t].pos \in DOMAIN Path[layout]
            /\ Path[layout][job[t].pos] = "upload"
        BY <2>1, <2>3, AtWork DEF InPlaceOf, Without
      <3> QED BY <2>3, <3>1, Along, AtWork
    <2>7. MayDo(t, First[Path[layout][job[t].pos + 1]])
      BY <2>3, <2>6, AtWork DEF First
    <2>8. /\ refs' \in [Memory -> Int]
          /\ \A m \in Memory :
                 refs'[m] + Has(job[t], m) = refs[m] + (IF mem = m THEN 1 ELSE 0)
      BY <2>1, <2>3, <2>4, <2>5, AtWork, WrapCount
    <2>9. \E b : Turn(t, b)
      BY <2>1, <2>2, <2>3, <2>4, <2>5, <2>6, <2>7, <2>8, AtWork, PushTurn
    <2> QED BY <2>8, <2>9
  <1>6. CASE KeepSample(t)
    <2>1. job[t].step = "swap" /\ job[t].step \notin Without
      BY <1>6 DEF KeepSample, At, Without
    <2>2. UNCHANGED <<queue, pictures, copied>>
      BY <1>6 DEF KeepSample
    <2>3. CASE "sink" \in flushing
      <3>1. Go(t, "drop") /\ UNCHANGED <<refs, lastSample>>
        BY <1>6, <2>3 DEF KeepSample
      <3>2. InPlaceOf(job[t].pos, "drop") /\ MayDo(t, "drop")
        BY <2>1, AtWork DEF InPlaceOf, Without, Copying, InSink, Kept
      <3>3. \E b : Turn(t, b)
        BY <2>1, <2>2, <3>1, <3>2, GoTurn DEF Without, Steps, Copying, Kept
      <3> QED BY <1>1, <3>1, <3>3
    <2>4. CASE "sink" \notin flushing
      <3> DEFINE step == IF app = "paused" THEN "predraw" ELSE "draw"
                 b    == [job[t] EXCEPT !.step = step]
      <3>1. /\ lastSample' = job[t].mem
            /\ refs' = [m \in Memory |-> refs[m] + (IF m = job[t].mem THEN 1 ELSE 0)
                                                 - (IF m = lastSample THEN 1 ELSE 0)]
            /\ job' = [job EXCEPT ![t] = b]
        BY <1>6, <2>4 DEF KeepSample, Go
      <3>2. step \in {"predraw", "draw"}
        OBVIOUS
      <3> HIDE DEF step
      <3>3. InPlaceOf(job[t].pos, step) /\ MayDo(t, step)
        BY <2>1, <3>2, AtWork DEF InPlaceOf, Without, Copying, InSink, Kept
      <3>4. b \in Buffers /\ b.pos = job[t].pos /\ b.step = step
            /\ b.picture = job[t].picture /\ b.mem = job[t].mem
        <4>1. job[t] \in Buffers
          BY <2>1, AtWork
        <4> QED BY <3>2, <4>1 DEF Buffers, Steps, Kept
      <3> HIDE DEF b
      <3>5. MemoryOf(b, pictures')
        BY <2>1, <2>2, <3>2, <3>4, AtWork DEF MemoryOf, Without
      <3>6. Swapped(t, b)
        BY <3>1, <3>2, <3>4 DEF Swapped, Kept
      <3>7. Balanced(t, b)
        BY <1>1, <2>1, <3>1, <3>2, <3>4 DEF Balanced, Has, Keeps
      <3>8. Turn(t, b)
        BY <2>2, <3>1, <3>2, <3>3, <3>4, <3>5, <3>6, <3>7 DEF Turn
      <3>9. refs' \in [Memory -> Int]
        BY <1>1, <3>1
      <3> QED BY <3>8, <3>9
    <2> QED BY <2>3, <2>4
  <1>7. CASE ShowFrame(t)
    <2>1. job[t].step \in {"predraw", "draw"}
      BY <1>7 DEF ShowFrame, At
    <2>2. UNCHANGED <<queue, pictures, copied, lastSample, refs>>
      BY <1>7 DEF ShowFrame, DrawVideoFrame
    <2>3. PICK step \in {"drawing", "predrawing", "preroll", "release"} : Go(t, step)
      BY <1>7 DEF ShowFrame, Drawn
    <2>4. InPlaceOf(job[t].pos, step) /\ MayDo(t, step)
      BY <2>1, AtWork DEF InPlaceOf, Without, Copying, InSink, Kept
    <2>5. \E b : Turn(t, b)
      BY <2>1, <2>2, <2>3, <2>4, GoTurn DEF Without, Steps, Copying, Kept
    <2> QED BY <1>1, <2>2, <2>5
  <1>8. CASE DrawRaw(t)
    <2>1. job[t].step \in {"predrawing", "drawing"}
      BY <1>8 DEF DrawRaw, At
    <2>2. UNCHANGED <<queue, pictures, copied, lastSample, refs>>
      BY <1>8 DEF DrawRaw
    <2>3. PICK step \in {"preroll", "release"} : Go(t, step)
      BY <1>8 DEF DrawRaw, Drawn
    <2>4. InPlaceOf(job[t].pos, step) /\ MayDo(t, step)
      BY <2>1, AtWork DEF InPlaceOf, Without, Copying, InSink, Kept
    <2>5. \E b : Turn(t, b)
      BY <2>1, <2>2, <2>3, <2>4, GoTurn DEF Without, Steps, Copying, Kept
    <2> QED BY <1>1, <2>2, <2>5
  <1>9. CASE Preroll(t)
    <2>1. job[t].step = "preroll"
      BY <1>9 DEF Preroll, At
    <2>2. UNCHANGED <<queue, pictures, copied, lastSample, refs>>
      BY <1>9 DEF Preroll
    <2>3. PICK step \in {"draw", "drop"} : Go(t, step)
      BY <1>9 DEF Preroll
    <2>4. InPlaceOf(job[t].pos, step) /\ MayDo(t, step)
      BY <2>1, AtWork DEF InPlaceOf, Without, Copying, InSink, Kept
    <2>5. \E b : Turn(t, b)
      BY <2>1, <2>2, <2>3, <2>4, GoTurn DEF Without, Steps, Copying, Kept
    <2> QED BY <1>1, <2>2, <2>5
  <1>10. CASE Return(t)
    <2>1. job[t].step \in {"release", "drop"} /\ job[t].step \notin Without
      BY <1>10 DEF Return, At, Without
    <2>2. UNCHANGED <<queue, pictures, copied, lastSample>> /\ Free(t, job[t].mem)
      BY <1>10 DEF Return
    <2>3. PICK b \in {Idle, [Idle EXCEPT !.step = "flush"]} :
              job' = [job EXCEPT ![t] = b] /\ (b # Idle => t = "Q")
      BY <1>10 DEF Return
    <2>4. MayDo(t, b.step)
      BY <2>1, <2>3, AtWork DEF Idle
    <2>5. /\ refs' \in [Memory -> Int]
          /\ \A m \in Memory : refs'[m] + (IF job[t].mem = m THEN 1 ELSE 0) = refs[m]
      BY <1>1, <2>1, <2>2, AtWork, FreeCount DEF Buffers
    <2>6. \A m \in Memory : refs'[m] + Has(job[t], m) = refs[m]
      BY <2>1, <2>5 DEF Has
    <2>7. \E c : Turn(t, c)
      BY <2>2, <2>3, <2>4, <2>6, DropTurn
    <2> QED BY <2>5, <2>7
  <1> QED BY <1>2, <1>3, <1>4, <1>5, <1>6, <1>7, <1>8, <1>9, <1>10 DEF ThreadStep

LEMMA OutputTurn ==
    ASSUME IInv, Output
    PROVE  (\E b : Turn("R", b)) \/ Rests
  <1> USE DEF appVars, queueVars, srcVars
  <1>1. TypeOK /\ job \in [Threads -> Buffers] /\ "R" \in Threads
    BY DEF IInv, ShapeInv, Threads
  <1>2. UNCHANGED <<queue, refs, lastSample, copied>> /\ Decoded /\ pictures < MaxFrames
    BY DEF Output
  <1>3. CASE UNCHANGED <<job, pictures>>
    BY <1>2, <1>3 DEF Rests
  <1>4. CASE ~UNCHANGED <<job, pictures>>
    <2> DEFINE b == [pos |-> 0, step |-> "wrap", picture |-> pictures + 1,
                     mem |-> pictures + 1]
    <2>1. /\ job["R"].step = "idle" /\ pictures' = pictures + 1
          /\ job' = [job EXCEPT !["R"] = b]
      BY <1>4 DEF Output
    <2>2. pictures + 1 \in Memory /\ pictures + 1 \in 0..MaxFrames /\ pictures + 1 # 0
      BY <1>1, <1>2, Numbers
    <2>3. b \in Buffers /\ b.pos = 0 /\ b.step = "wrap"
          /\ b.picture = pictures + 1 /\ b.mem = pictures + 1
      BY <2>2 DEF Buffers, Steps
    <2> HIDE DEF b
    <2>4. MemoryOf(job["R"], pictures)
      BY <1>1 DEF IInv, MemoryInv
    <2>5. job["R"].picture = 0
      BY <2>1, <2>4 DEF MemoryOf, Without
    <2>6. MemoryOf(b, pictures')
      BY <1>1, <2>1, <2>2, <2>3, Numbers DEF MemoryOf, Without
    <2>7. InPlaceOf(b.pos, b.step) /\ MayDo("R", b.step)
      BY <1>2, <2>3 DEF InPlaceOf, MayDo, Without, Copying, InSink
    <2>8. Swapped("R", b)
      BY <1>2, <2>1 DEF Swapped, Kept
    <2>9. Balanced("R", b)
      <3>1. job["R"].mem = System
        BY <2>1, <2>4 DEF MemoryOf, Without
      <3>2. \A m \in Memory : Has(job["R"], m) = 0 /\ Has(b, m) = 0
        BY <1>1, <2>3, <3>1, Numbers DEF Has
      <3> QED BY <1>2, <3>2 DEF Balanced
    <2>10. b.step \notin {"copied", "make"}
      BY <2>3
    <2>11. Turn("R", b)
      BY <1>2, <2>1, <2>3, <2>5, <2>6, <2>7, <2>8, <2>9, <2>10 DEF Turn
    <2> QED BY <2>11
  <1> QED BY <1>3, <1>4

LEMMA WrapTurn ==
    ASSUME IInv, WrapOutput
    PROVE  (\E b : Turn("R", b)) /\ refs' \in [Memory -> Int]
  <1> DEFINE mem == job["R"].mem
             pos == job["R"].pos + 1
  <1>1. job["R"].step = "wrap" /\ Wrap("R", mem) /\ Push("R", mem)
        /\ UNCHANGED <<queue, pictures, copied, lastSample>>
    BY DEF WrapOutput, At, queueVars
  <1>2. job["R"].step \notin Without /\ job["R"].step \notin Kept /\ "R" \in Threads
    BY <1>1 DEF Without, Kept, Threads
  <1>3. mem = job["R"].picture
    BY <1>1, <1>2, AtWork DEF MemoryOf
  <1>4. mem \in Memory
    <2>1. /\ TypeOK /\ job["R"].picture \in Int
          /\ job["R"].picture > 0 /\ job["R"].picture <= MaxFrames
      BY <1>2, AtWork
    <2> QED BY <1>3, <2>1, Numbers
  <1>5. Decoded
    <2>1. MayDo("R", "wrap")
      BY <1>1, <1>2 DEF IInv, PathInv
    <2> QED BY <2>1 DEF MayDo
  <1>6. /\ pos \in DOMAIN Path[layout]
        /\ Path[layout][pos] \in {"queue", "download", "sink"}
    <2>1. job["R"].pos = 0
      BY <1>1, <1>2, AtWork DEF InPlaceOf
    <2> QED BY <1>2, <1>5, <2>1, AtWork, Along
  <1>7. MayDo("R", First[Path[layout][pos]])
    <2>1. First[Path[layout][pos]] \in {"enter", "copy", "swap"}
      BY <1>6 DEF First
    <2> QED BY <1>5, <2>1 DEF MayDo
  <1> HIDE DEF mem
  <1>8. /\ refs' \in [Memory -> Int]
        /\ \A m \in Memory :
               refs'[m] + Has(job["R"], m) = refs[m] + (IF mem = m THEN 1 ELSE 0)
    BY <1>1, <1>2, <1>3, <1>4, AtWork, WrapCount
  <1>9. \E b : Turn("R", b)
    BY <1>1, <1>2, <1>3, <1>4, <1>6, <1>7, <1>8, AtWork, PushTurn
  <1> QED BY <1>8, <1>9

LEMMA CreateTurn ==
    ASSUME IInv, Create
    PROVE  \E b : Turn("S", b)
  <1>1. Go("S", "create") /\ job["S"] = Idle /\ ~Decoded /\ "S" \in Threads
        /\ pictures < MaxFrames
        /\ UNCHANGED <<queue, pictures, lastSample, refs, copied>>
    BY DEF Create, queueVars, Threads
  <1>2. job["S"].step = "idle" /\ job["S"].pos = 0
    BY <1>1 DEF Idle
  <1>3. InPlaceOf(job["S"].pos, "create") /\ MayDo("S", "create")
    BY <1>1, <1>2 DEF InPlaceOf, MayDo, Without, Copying, InSink
  <1> QED BY <1>1, <1>2, <1>3, GoTurn DEF Without, Steps, Kept

LEMMA CaptureTurn ==
    ASSUME IInv, Capture
    PROVE  (\E b : Turn("S", b)) \/ Rests
  <1> DEFINE b == [job["S"] EXCEPT !.step = "created", !.picture = pictures + 1]
  <1>1. TypeOK /\ job["S"] \in Buffers /\ "S" \in Threads
        /\ MemoryOf(job["S"], pictures) /\ InPlaceOf(job["S"].pos, job["S"].step)
        /\ MayDo("S", job["S"].step)
        /\ (job["S"].step = "create" => pictures < MaxFrames)
    BY DEF IInv, ShapeInv, MemoryInv, PathInv, Threads
  <1>2. job["S"].step = "create"
        /\ UNCHANGED <<queue, refs, lastSample, copied>>
    BY DEF Capture, At
  <1>3. ~Decoded /\ job["S"].picture = 0 /\ job["S"].mem = System /\ job["S"].pos = 0
    BY <1>1, <1>2 DEF MayDo, MemoryOf, InPlaceOf, Without
  <1>4. \A m \in Memory : Has(job["S"], m) = 0
    BY <1>1, <1>3, Numbers DEF Has
  <1>5. CASE UNCHANGED <<job, pictures>>
    BY <1>2, <1>5 DEF Rests
  <1>6. CASE pictures' = pictures + 1 /\ job' = [job EXCEPT !["S"] = b]
    <2>1. pictures' \in 0..MaxFrames /\ pictures + 1 # 0
      BY <1>1, <1>2, <1>6, Numbers
    <2>2. b \in Buffers /\ b.pos = 0 /\ b.step = "created"
          /\ b.picture = pictures + 1 /\ b.mem = System
      BY <1>1, <1>3, <1>6, <2>1 DEF Buffers, Steps
    <2> HIDE DEF b
    <2>3. MemoryOf(b, pictures')
      BY <1>6, <2>1, <2>2 DEF MemoryOf, Without
    <2>4. InPlaceOf(b.pos, b.step) /\ MayDo("S", b.step)
      BY <1>3, <2>2 DEF InPlaceOf, MayDo, Without, Copying, InSink
    <2>5. Swapped("S", b)
      BY <1>2 DEF Swapped, Kept
    <2>6. Balanced("S", b)
      <3>1. \A m \in Memory : Has(b, m) = 0
        BY <1>1, <2>2, Numbers DEF Has
      <3> QED BY <1>2, <1>4, <3>1 DEF Balanced
    <2>7. Turn("S", b)
      BY <1>2, <1>3, <1>6, <2>2, <2>3, <2>4, <2>5, <2>6 DEF Turn
    <2> QED BY <2>7
  <1>7. CASE pictures' = pictures /\ job' = [job EXCEPT !["S"] = Idle]
    <2>1. MayDo("S", Idle.step)
      BY DEF MayDo, Idle
    <2>2. \A m \in Memory : refs'[m] + Has(job["S"], m) = refs[m]
      <3>1. refs \in [Memory -> 0..3]
        BY <1>1 DEF TypeOK
      <3> QED BY <1>2, <1>4, <3>1
    <2>3. \E c : Turn("S", c)
      BY <1>1, <1>2, <1>7, <2>1, <2>2, DropTurn
    <2> QED BY <2>3
  <1>8. \/ UNCHANGED <<job, pictures>>
        \/ pictures' = pictures + 1 /\ job' = [job EXCEPT !["S"] = b]
        \/ pictures' = pictures /\ job' = [job EXCEPT !["S"] = Idle]
    BY <1>1 DEF Capture, ShapeInv, IInv
  <1> QED BY <1>5, <1>6, <1>7, <1>8

LEMMA CapturedTurn ==
    ASSUME IInv, Captured
    PROVE  \E b : Turn("S", b)
  <1>1. job["S"].step = "created" /\ UNCHANGED <<queue, refs, lastSample, copied, pictures>>
        /\ "S" \in Threads /\ job["S"].step \notin Without /\ job["S"].step \notin Kept
    BY DEF Captured, At, Threads, Without, Kept
  <1>2. job["S"].mem = System
    BY <1>1, AtWork DEF MemoryOf
  <1>3. refs \in [Memory -> 0..3] /\ \A m \in Memory : Has(job["S"], m) = 0
    BY <1>2, Numbers DEF Has, IInv, TypeOK
  <1>4. CASE Push("S", System)
    <2>1. /\ job["S"].pos + 1 \in DOMAIN Path[layout]
          /\ Path[layout][job["S"].pos + 1] \in {"upload", "sink"}
      <3>1. ~Decoded
        <4>1. MayDo("S", "created")
          BY <1>1 DEF IInv, PathInv
        <4> QED BY <4>1 DEF MayDo
      <3>2. job["S"].pos = 0
        BY <1>1, AtWork DEF InPlaceOf
      <3> QED BY <1>1, <3>1, <3>2, AtWork, Along
    <2>2. MayDo("S", First[Path[layout][job["S"].pos + 1]])
      BY <1>1, <2>1, AtWork DEF First
    <2>3. \A m \in Memory :
              refs'[m] + Has(job["S"], m) = refs[m] + (IF System = m THEN 1 ELSE 0)
      BY <1>1, <1>3, AtWork, Numbers
    <2> QED BY <1>1, <1>4, <2>1, <2>2, <2>3, AtWork, PushTurn
  <1>5. CASE job' = [job EXCEPT !["S"] = Idle]
    <2>1. MayDo("S", Idle.step)
      BY DEF MayDo, Idle
    <2>2. \A m \in Memory : refs'[m] + Has(job["S"], m) = refs[m]
      BY <1>1, <1>3
    <2> QED BY <1>1, <1>5, <2>1, <2>2, DropTurn
  <1> QED BY <1>4, <1>5 DEF Captured

LEMMA EnterQueueStep ==
    ASSUME IInv, EnterQueue
    PROVE  (\E b : Turn("R", b)) \/ Enters
  <1>1. job["R"].step = "enter" /\ "R" \in Threads
        /\ job["R"].step \notin Without /\ job["R"].step \notin Kept
        /\ UNCHANGED <<refs, lastSample, copied, pictures>>
    BY DEF EnterQueue, At, Threads, Without, Kept
  <1>2. CASE "queue" \in flushing
    <2>1. Go("R", "drop") /\ UNCHANGED queue
      BY <1>2 DEF EnterQueue
    <2>2. InPlaceOf(job["R"].pos, "drop") /\ MayDo("R", "drop")
      BY <1>1, AtWork DEF InPlaceOf, Without, Copying, InSink, Kept
    <2>3. \E b : Turn("R", b)
      BY <1>1, <2>1, <2>2, GoTurn DEF Without, Steps, Copying, Kept
    <2> QED BY <2>3
  <1>3. CASE "queue" \notin flushing
    BY <1>1, <1>3 DEF EnterQueue, Enters
  <1> QED BY <1>2, <1>3

LEMMA FlushQueueTurn ==
    ASSUME IInv, FlushQueue
    PROVE  \E b : Turn("Q", b)
  <1>1. job["Q"].step \in {"idle", "flush"} /\ Go("Q", "flushing") /\ "Q" \in Threads
        /\ "queue" \in flushing'
        /\ UNCHANGED <<queue, refs, lastSample, copied, pictures>>
    BY DEF FlushQueue, At, Threads
  <1>2. InPlaceOf(job["Q"].pos, job["Q"].step) /\ MayDo("Q", job["Q"].step)
    BY <1>1 DEF IInv, PathInv
  <1>3. Queued
    BY <1>1, <1>2 DEF FlushQueue, At, MayDo
  <1>4. InPlaceOf(job["Q"].pos, "flushing") /\ MayDo("Q", "flushing")
    BY <1>1, <1>2, <1>3 DEF InPlaceOf, MayDo, Without, Copying, InSink
  <1> QED BY <1>1, <1>4, GoTurn DEF Without, Steps, Copying, Kept

LEMMA FlushBufferStep ==
    ASSUME IInv, FlushBuffer
    PROVE  ((\E b : Turn("Q", b)) \/ Drains) /\ refs' \in [Memory -> Int]
  <1>1. job["Q"].step = "flushing" /\ "Q" \in Threads
        /\ UNCHANGED <<lastSample, copied, pictures>>
    BY DEF FlushBuffer, At, Threads
  <1>2. TypeOK /\ queue \in Seq(Buffers) /\ refs \in [Memory -> 0..3]
    BY DEF IInv, ShapeInv, TypeOK
  <1>3. CASE queue = <<>>
    <2>1. Go("Q", "idle") /\ UNCHANGED <<queue, refs>>
      BY <1>3 DEF FlushBuffer
    <2>2. InPlaceOf(job["Q"].pos, "flushing")
      BY <1>1 DEF IInv, PathInv
    <2>3. InPlaceOf(job["Q"].pos, "idle") /\ MayDo("Q", "idle")
      BY <2>2 DEF InPlaceOf, MayDo, Without, Copying, InSink
    <2>4. \E b : Turn("Q", b)
      BY <1>1, <2>1, <2>3, GoTurn DEF Without, Steps, Copying, Kept
    <2> QED BY <1>2, <2>1, <2>4
  <1>4. CASE queue # <<>>
    <2>1. Free("Q", Head(queue).mem) /\ queue' = Tail(queue) /\ UNCHANGED job
      BY <1>4 DEF FlushBuffer
    <2>2. Head(queue).mem \in Memory \cup {System}
      BY <1>2, <1>4, TailIs DEF Buffers
    <2>3. /\ refs' \in [Memory -> Int]
          /\ \A m \in Memory :
                 refs'[m] + (IF Head(queue).mem = m THEN 1 ELSE 0) = refs[m]
      BY <1>2, <2>1, <2>2, FreeCount
    <2> QED BY <1>1, <1>4, <2>1, <2>3 DEF Drains
  <1> QED BY <1>3, <1>4

LEMMA StopSinkRests ==
    ASSUME IInv, StopSink
    PROVE  Rests /\ refs' \in [Memory -> Int]
  <1>1. Free("A", lastSample) /\ lastSample' = System
        /\ UNCHANGED <<job, queue, pictures, copied>>
    BY DEF StopSink
  <1>2. TypeOK /\ lastSample \in Memory \cup {System}
    BY DEF IInv, TypeOK
  <1>3. /\ refs' \in [Memory -> Int]
        /\ \A m \in Memory : refs'[m] + (IF lastSample = m THEN 1 ELSE 0) = refs[m]
    BY <1>1, <1>2, FreeCount
  <1>4. \A m \in Memory : refs'[m] + Keeps(lastSample, m) = refs[m] + Keeps(lastSample', m)
    <2>1. refs \in [Memory -> 0..3] /\ System \notin Memory
      BY <1>2, Numbers DEF TypeOK
    <2> QED BY <1>1, <1>3, <2>1 DEF Keeps
  <1> QED BY <1>1, <1>3, <1>4 DEF Rests

LEMMA StepCases ==
    ASSUME IInv, [Next]_vars
    PROVE  /\ (\E t \in Threads, b \in Buffers : Turn(t, b)) \/ Enters \/ Leaves \/ Drains \/ Rests
           /\ refs' \in [Memory -> Int]
  <1> USE DEF Turn
  <1>1. refs \in [Memory -> Int] /\ \A t \in {"R", "Q", "S"} : t \in Threads
    <2>1. refs \in [Memory -> 0..3]
      BY DEF IInv, TypeOK
    <2> QED BY <2>1 DEF Threads
  <1>2. CASE Output
    BY <1>1, <1>2, OutputTurn DEF Output
  <1>3. CASE Create
    BY <1>1, <1>3, CreateTurn DEF Create
  <1>4. CASE RunnerStep
    BY <1>1, <1>4, WrapTurn, EnterQueueStep, ThreadTurn DEF RunnerStep, EnterQueue
  <1>5. CASE QueueStep
    <2>1. CASE LeaveQueue
      <3>1. Leaves
        BY <2>1 DEF LeaveQueue, Leaves, At, Onward
      <3> QED BY <1>1, <2>1, <3>1 DEF LeaveQueue
    <2>2. CASE FlushQueue
      BY <1>1, <2>2, FlushQueueTurn DEF FlushQueue
    <2>3. CASE FlushBuffer
      BY <1>1, <2>3, FlushBufferStep
    <2>4. CASE ThreadStep("Q")
      BY <1>1, <2>4, ThreadTurn
    <2> QED BY <1>5, <2>1, <2>2, <2>3, <2>4 DEF QueueStep
  <1>6. CASE SourceStep
    BY <1>1, <1>6, CaptureTurn, CapturedTurn, ThreadTurn DEF SourceStep, Capture, Captured
  <1>7. CASE StopSink
    BY <1>7, StopSinkRests
  <1>8. CASE Play \/ Stop \/ StopQueue \/ StopSource \/ Restart \/ UNCHANGED vars
    <2>1. UNCHANGED <<job, queue, refs, lastSample, pictures, copied>>
      BY <1>8 DEF Play, Stop, StopQueue, StopSource, Restart, vars, queueVars
    <2> QED BY <1>1, <2>1 DEF Rests
  <1> QED BY <1>2, <1>3, <1>4, <1>5, <1>6, <1>7, <1>8 DEF Next, StopStep

--------------------------------------------------------------------------------
(* Each part of the invariant is kept *)

LEMMA LayoutKept ==
    ASSUME [Next]_vars
    PROVE  layout' = layout
  <1> USE DEF appVars, vars
  <1>1. CASE Output \/ Create \/ Play \/ Stop \/ StopStep \/ Restart
    BY <1>1 DEF Output, Create, Play, Stop, StopStep, StopSink, StopQueue, StopSource, Restart
  <1>2. CASE \E t : ThreadStep(t)
    BY <1>2 DEF ThreadStep, Download, DownloadCopied, DownloadReturn, Upload, KeepSample,
                ShowFrame, DrawRaw, Preroll, Return
  <1>3. CASE WrapOutput \/ EnterQueue \/ LeaveQueue \/ FlushQueue \/ FlushBuffer
             \/ Capture \/ Captured
    BY <1>3 DEF WrapOutput, EnterQueue, LeaveQueue, FlushQueue, FlushBuffer, Capture, Captured
  <1> QED BY <1>1, <1>2, <1>3 DEF Next, RunnerStep, QueueStep, SourceStep

LEMMA IdleIs ==
    /\ Idle \in Buffers /\ Idle.pos = 0 /\ Idle.step = "idle"
    /\ Idle.picture = 0 /\ Idle.mem = System
  BY PipelineAssumption DEF Idle, Buffers, Steps, Without, System

\* The buffer that the thread of the queue takes.
LEMMA OnwardIs ==
    ASSUME IInv, queue # <<>>
    PROVE  LET b == Onward(Head(queue))
           IN /\ Head(queue) \in Buffers /\ Head(queue).step = "enter"
              /\ b \in Buffers /\ b.picture = Head(queue).picture
              /\ b.mem = Head(queue).mem
              /\ b.step \in {"copy", "swap"}
              /\ InPlaceOf(b.pos, b.step) /\ MayDo("Q", b.step)
              /\ MemoryOf(b, pictures)
  <1> DEFINE a    == Head(queue)
             pos  == a.pos + 1
             step == First[Path[layout][pos]]
             b    == [a EXCEPT !.pos = pos, !.step = step]
  <1>1. /\ queue \in Seq(Buffers) /\ layout \in DOMAIN Path
        /\ a = queue[1] /\ a \in Buffers /\ 1 \in DOMAIN queue
    BY TailIs, PipelineAssumption DEF IInv, ShapeInv, TypeOK
  <1>2. a.step = "enter" /\ InPlaceOf(a.pos, "enter") /\ MemoryOf(a, pictures) /\ Queued
    BY <1>1 DEF IInv, PathInv, MemoryInv
  <1> HIDE DEF a
  <1>3. a.pos # 0 /\ a.pos \in DOMAIN Path[layout] /\ Path[layout][a.pos] = "queue"
    BY <1>2 DEF InPlaceOf, Without
  <1>4. /\ pos \in DOMAIN Path[layout]
        /\ Path[layout][pos] \in {"download", "sink"}
    BY <1>1, <1>3, Along
  <1>5. pos \in 0..4 /\ pos # 0
    <2>1. pos \in 0..4
      BY <1>1, <1>4, Along
    <2> QED BY <1>1, <2>1 DEF Buffers
  <1>6. /\ step \in {"copy", "swap"}
        /\ step = "copy" <=> Path[layout][pos] = "download"
        /\ step = "swap" <=> Path[layout][pos] = "sink"
    BY <1>4 DEF First
  <1> HIDE DEF pos, step
  <1>7. b \in Buffers /\ b.pos = pos /\ b.step = step
        /\ b.picture = a.picture /\ b.mem = a.mem
    BY <1>1, <1>5, <1>6 DEF Buffers, Steps, Copying
  <1>8. Onward(Head(queue)) = b
    BY DEF Onward, a, pos, step
  <1> HIDE DEF b
  <1>9. InPlaceOf(b.pos, b.step) /\ MayDo("Q", b.step)
    BY <1>2, <1>4, <1>5, <1>6, <1>7 DEF InPlaceOf, MayDo, Without, Copying, InSink
  <1>10. MemoryOf(b, pictures)
    BY <1>2, <1>6, <1>7 DEF MemoryOf, Without
  <1> QED BY <1>1, <1>2, <1>6, <1>7, <1>8, <1>9, <1>10 DEF a

LEMMA ShapeNext ==
    ASSUME IInv, [Next]_vars
    PROVE  ShapeInv'
  <1>1. /\ job \in [Threads -> Buffers] /\ queue \in Seq(Buffers)
        /\ "R" \in Threads /\ "Q" \in Threads
    BY DEF IInv, ShapeInv, Threads
  <1>2. CASE \E t \in Threads, b \in Buffers : Turn(t, b)
    BY <1>1, <1>2 DEF Turn, ShapeInv
  <1>3. CASE Enters
    <2>1. Append(queue, job["R"]) \in Seq(Buffers)
      BY <1>1, AppendProperties
    <2> QED BY <1>1, <1>3, <2>1, IdleIs DEF Enters, ShapeInv
  <1>4. CASE Leaves
    <2>1. Tail(queue) \in Seq(Buffers)
      BY <1>1, <1>4, TailIs DEF Leaves
    <2>2. Onward(Head(queue)) \in Buffers
      BY <1>4, OnwardIs DEF Leaves
    <2> QED BY <1>1, <1>4, <2>1, <2>2 DEF Leaves, ShapeInv
  <1>5. CASE Drains
    <2>1. Tail(queue) \in Seq(Buffers)
      BY <1>1, <1>5, TailIs DEF Drains
    <2> QED BY <1>1, <1>5, <2>1 DEF Drains, ShapeInv
  <1>6. CASE Rests
    BY <1>1, <1>6 DEF Rests, ShapeInv
  <1> QED BY <1>2, <1>3, <1>4, <1>5, <1>6, StepCases

\* The queue with one more buffer in it, and without its head.
LEMMA EnterPlaces ==
    ASSUME IInv, Enters
    PROVE  /\ DOMAIN queue' = DOMAIN queue \cup {Len(queue) + 1}
           /\ Len(queue) + 1 \notin DOMAIN queue
           /\ queue'[Len(queue) + 1] = job["R"]
           /\ \A i \in DOMAIN queue : queue'[i] = queue[i]
  <1>1. queue \in Seq(Buffers) /\ job["R"] \in Buffers
    BY DEF IInv, ShapeInv, Threads
  <1>2. Len(queue) \in Nat /\ DOMAIN queue = 1..Len(queue)
    BY <1>1, LenProperties
  <1>3. /\ queue' \in Seq(Buffers) /\ Len(queue') = Len(queue) + 1
        /\ \A i \in 1..Len(queue) : queue'[i] = queue[i]
        /\ queue'[Len(queue) + 1] = job["R"]
    BY <1>1, AppendProperties DEF Enters
  <1>4. DOMAIN queue' = 1..Len(queue')
    BY <1>3, LenProperties
  <1> QED BY <1>2, <1>3, <1>4

LEMMA LeavePlaces ==
    ASSUME IInv, Leaves \/ Drains
    PROVE  /\ 1 \in DOMAIN queue /\ Head(queue) = queue[1]
           /\ \A i \in DOMAIN queue' :
                 i + 1 \in DOMAIN queue /\ i + 1 # 1 /\ queue'[i] = queue[i + 1]
           /\ \A i, j \in DOMAIN queue' : i # j => i + 1 # j + 1
           /\ queue' # <<>> => queue # <<>>
  <1>1. queue \in Seq(Buffers) /\ queue # <<>> /\ queue' = Tail(queue)
    BY DEF IInv, ShapeInv, Leaves, Drains
  <1>2. /\ Len(queue) \in Nat \ {0} /\ DOMAIN queue = 1..Len(queue)
        /\ Head(queue) = queue[1] /\ 1 \in DOMAIN queue
        /\ DOMAIN queue' = 1..(Len(queue) - 1)
        /\ \A i \in DOMAIN queue' : i + 1 \in DOMAIN queue /\ queue'[i] = queue[i + 1]
    BY <1>1, TailIs
  <1>3. \A i, j \in 1..(Len(queue) - 1) : i + 1 # 1 /\ (i # j => i + 1 # j + 1)
    BY <1>2
  <1> QED BY <1>1, <1>2, <1>3

LEMMA PathNext ==
    ASSUME IInv, [Next]_vars
    PROVE  PathInv'
  <1>1. PathInv /\ ShapeInv /\ layout' = layout /\ "R" \in Threads /\ "Q" \in Threads
    BY LayoutKept DEF IInv, Threads
  <1>2. ASSUME \A u \in Threads :
                   InPlaceOf(job'[u].pos, job'[u].step) /\ MayDo(u, job'[u].step),
               \A i \in DOMAIN queue' :
                   queue'[i].step = "enter" /\ InPlaceOf(queue'[i].pos, "enter"),
               queue' # <<>> => Queued
        PROVE  PathInv'
    BY <1>1, <1>2 DEF PathInv, InPlaceOf, MayDo, Decoded, Queued
  <1>3. job \in [Threads -> Buffers]
    BY <1>1 DEF ShapeInv
  <1>4. CASE \E t \in Threads, b \in Buffers : Turn(t, b)
    <2>1. PICK t \in Threads, b \in Buffers : Turn(t, b)
      BY <1>4
    <2>2. /\ job' = [job EXCEPT ![t] = b] /\ queue' = queue
          /\ InPlaceOf(b.pos, b.step) /\ MayDo(t, b.step)
      BY <2>1 DEF Turn
    <2>3. \A u \in Threads : job'[u] = IF u = t THEN b ELSE job[u]
      BY <1>3, <2>2
    <2> QED BY <1>1, <1>2, <2>2, <2>3 DEF PathInv
  <1>5. CASE Enters
    <2>1. \A u \in Threads : job'[u] = IF u = "R" THEN Idle ELSE job[u]
      BY <1>1, <1>3, <1>5 DEF Enters
    <2>2. InPlaceOf(Idle.pos, Idle.step) /\ MayDo("R", Idle.step)
      BY IdleIs DEF InPlaceOf, MayDo, Without, Copying, InSink
    <2>3. job["R"].step = "enter" /\ InPlaceOf(job["R"].pos, "enter")
      BY <1>1, <1>5 DEF Enters, PathInv
    <2>4. Queued
      <3>1. layout \in DOMAIN Path
        BY <1>1, PipelineAssumption DEF IInv, TypeOK
      <3>2. job["R"].pos # 0 /\ job["R"].pos \in DOMAIN Path[layout]
            /\ Path[layout][job["R"].pos] = "queue"
        BY <2>3 DEF InPlaceOf, Without
      <3>3. layout \in {"direct", "queued", "copied", "buffered", "captured", "raw"}
        BY <3>1 DEF Path
      <3> QED BY <3>2, <3>3 DEF Path, Queued
    <2>5. \A i \in DOMAIN queue' :
              queue'[i].step = "enter" /\ InPlaceOf(queue'[i].pos, "enter")
      BY <1>1, <1>5, <2>3, EnterPlaces DEF PathInv
    <2> QED BY <1>1, <1>2, <2>1, <2>2, <2>4, <2>5 DEF PathInv
  <1>6. CASE Leaves \/ Drains
    <2>1. \A i \in DOMAIN queue' :
              queue'[i].step = "enter" /\ InPlaceOf(queue'[i].pos, "enter")
      BY <1>1, <1>6, LeavePlaces DEF PathInv
    <2>2. queue' # <<>> => Queued
      BY <1>1, <1>6, LeavePlaces DEF PathInv
    <2>3. CASE Leaves
      <3> DEFINE b == Onward(Head(queue))
      <3>1. job' = [job EXCEPT !["Q"] = b]
        BY <2>3 DEF Leaves
      <3>2. InPlaceOf(b.pos, b.step) /\ MayDo("Q", b.step)
        BY <2>3, OnwardIs DEF Leaves
      <3> HIDE DEF b
      <3>3. \A u \in Threads : job'[u] = IF u = "Q" THEN b ELSE job[u]
        BY <1>1, <1>3, <3>1
      <3> QED BY <1>1, <1>2, <2>1, <2>2, <3>2, <3>3 DEF PathInv
    <2>4. CASE Drains
      <3>1. job' = job
        BY <2>4 DEF Drains
      <3> QED BY <1>1, <1>2, <2>1, <2>2, <3>1 DEF PathInv
    <2> QED BY <1>6, <2>3, <2>4
  <1>7. CASE Rests
    BY <1>1, <1>2, <1>7 DEF Rests, PathInv
  <1> QED BY <1>4, <1>5, <1>6, <1>7, StepCases

LEMMA CopiedNext ==
    ASSUME IInv, [Next]_vars
    PROVE  CopiedInv'
  <1>1. CopiedInv /\ job \in [Threads -> Buffers] /\ {"R", "Q"} \subseteq Threads
    BY DEF IInv, ShapeInv, Threads
  <1>2. CASE \E t \in Threads, b \in Buffers : Turn(t, b)
    <2>1. PICK t \in Threads, b \in Buffers : Turn(t, b)
      BY <1>2
    <2>2. /\ job' = [job EXCEPT ![t] = b] /\ copied \subseteq copied'
          /\ t \in {"R", "Q"} /\ b.step \in {"copied", "make"} => b.picture \in copied'
      BY <2>1 DEF Turn
    <2>3. \A u \in Threads : job'[u] = IF u = t THEN b ELSE job[u]
      BY <1>1, <2>2
    <2> QED BY <1>1, <2>2, <2>3 DEF CopiedInv
  <1>3. CASE Enters
    <2>1. \A u \in Threads : job'[u] = IF u = "R" THEN Idle ELSE job[u]
      BY <1>1, <1>3 DEF Enters
    <2> QED BY <1>1, <1>3, <2>1, IdleIs DEF CopiedInv, Enters
  <1>4. CASE Leaves
    <2>1. \A u \in Threads : job'[u] = IF u = "Q" THEN Onward(Head(queue)) ELSE job[u]
      BY <1>1, <1>4 DEF Leaves
    <2>2. Onward(Head(queue)).step \in {"copy", "swap"}
      BY <1>4, OnwardIs DEF Leaves
    <2> QED BY <1>1, <1>4, <2>1, <2>2 DEF CopiedInv, Leaves
  <1>5. CASE Drains \/ Rests
    BY <1>1, <1>5 DEF Drains, Rests, CopiedInv
  <1> QED BY <1>2, <1>3, <1>4, <1>5, StepCases

LEMMA MemoryNext ==
    ASSUME IInv, [Next]_vars
    PROVE  MemoryInv'
  <1>1. /\ MemoryInv /\ TypeOK /\ job \in [Threads -> Buffers] /\ queue \in Seq(Buffers)
        /\ "R" \in Threads /\ "Q" \in Threads /\ "S" \in Threads
    BY DEF IInv, ShapeInv, Threads
  <1>2. ASSUME \A u \in Threads : MemoryOf(job'[u], pictures'),
               \A i \in DOMAIN queue' : MemoryOf(queue'[i], pictures'),
               job'["S"].step = "create" => pictures' < MaxFrames
        PROVE  MemoryInv'
    BY <1>2 DEF MemoryInv, MemoryOf
  <1>3. \A c \in Buffers : MemoryOf(c, pictures) => MemoryOf(c, pictures + 1)
    <2>1. pictures \in Int
      BY <1>1, Numbers
    <2>2. \A c \in Buffers : c.picture \in Int
      BY Numbers, <1>1 DEF Buffers
    <2> QED BY <2>1, <2>2 DEF MemoryOf
  <1>4. \A i \in DOMAIN queue : queue[i] \in Buffers
    BY <1>1, ElementOfSeq, LenProperties
  <1>5. CASE \E t \in Threads, b \in Buffers : Turn(t, b)
    <2>1. PICK t \in Threads, b \in Buffers : Turn(t, b)
      BY <1>5
    <2>2. /\ job' = [job EXCEPT ![t] = b] /\ queue' = queue
          /\ MemoryOf(b, pictures') /\ pictures' \in {pictures, pictures + 1}
          /\ b.step = "create" => pictures' < MaxFrames
      BY <2>1 DEF Turn
    <2>3. \A u \in Threads : job'[u] = IF u = t THEN b ELSE job[u]
      BY <1>1, <2>2
    <2>4. \A u \in Threads : MemoryOf(job'[u], pictures')
      BY <1>1, <1>3, <2>2, <2>3 DEF MemoryInv
    <2>5. \A i \in DOMAIN queue' : MemoryOf(queue'[i], pictures')
      BY <1>1, <1>3, <1>4, <2>2 DEF MemoryInv
    <2>6. job'["S"].step = "create" => pictures' < MaxFrames
      <3>1. CASE t = "S"
        BY <1>1, <2>2, <2>3, <3>1
      <3>2. CASE t # "S" /\ pictures' = pictures
        BY <1>1, <2>3, <3>2 DEF MemoryInv
      <3>3. CASE t # "S" /\ pictures' # pictures
        <4>1. b.step \in {"wrap", "created"} /\ MayDo(t, b.step)
          BY <2>1, <3>3 DEF Turn
        <4>2. Decoded
          BY <3>3, <4>1 DEF MayDo
        <4>3. MayDo("S", job["S"].step)
          BY <1>1 DEF IInv, PathInv
        <4> QED BY <1>1, <2>3, <3>3, <4>2, <4>3 DEF MayDo
      <3> QED BY <3>1, <3>2, <3>3
    <2> QED BY <1>2, <2>4, <2>5, <2>6
  <1>6. CASE Enters
    <2>1. \A u \in Threads : job'[u] = IF u = "R" THEN Idle ELSE job[u]
      BY <1>1, <1>6 DEF Enters
    <2>2. pictures' = pictures /\ MemoryOf(Idle, pictures)
      BY <1>1, <1>6, IdleIs, Numbers DEF Enters, MemoryOf, Without
    <2>3. \A i \in DOMAIN queue' : MemoryOf(queue'[i], pictures)
      BY <1>1, <1>6, EnterPlaces DEF MemoryInv
    <2> QED BY <1>1, <1>2, <2>1, <2>2, <2>3 DEF MemoryInv
  <1>7. CASE Leaves \/ Drains
    <2>1. \A i \in DOMAIN queue' : MemoryOf(queue'[i], pictures)
      BY <1>1, <1>7, LeavePlaces DEF MemoryInv
    <2>2. CASE Leaves
      <3>1. \A u \in Threads : job'[u] = IF u = "Q" THEN Onward(Head(queue)) ELSE job[u]
        BY <1>1, <2>2 DEF Leaves
      <3>2. MemoryOf(Onward(Head(queue)), pictures) /\ pictures' = pictures
        BY <2>2, OnwardIs DEF Leaves
      <3> QED BY <1>1, <1>2, <2>1, <3>1, <3>2 DEF MemoryInv
    <2>3. CASE Drains
      BY <1>1, <1>2, <2>1, <2>3 DEF MemoryInv, Drains
    <2> QED BY <1>7, <2>2, <2>3
  <1>8. CASE Rests
    BY <1>1, <1>2, <1>8 DEF MemoryInv, Rests
  <1> QED BY <1>5, <1>6, <1>7, <1>8, StepCases

\* The pictures that are on their way, and that of the last sample, are numbers
\* up to that of the last picture.
LEMMA PictureNumbers ==
    ASSUME IInv
    PROVE  /\ pictures \in Nat /\ MaxFrames \in Nat /\ pictures <= MaxFrames
           /\ \A t \in Threads :
                 job[t].picture \in Nat /\ job[t].picture <= pictures
           /\ \A i \in DOMAIN queue :
                 /\ queue[i] \in Buffers
                 /\ queue[i].picture \in Nat \ {0} /\ queue[i].picture <= pictures
  <1>1. TypeOK /\ ShapeInv /\ MemoryInv /\ PathInv
    BY DEF IInv
  <1>2. pictures \in Nat /\ MaxFrames \in Nat /\ pictures <= MaxFrames
    BY <1>1, Numbers
  <1>3. \A b \in Buffers : b.picture \in Nat
    BY DEF Buffers
  <1>4. \A t \in Threads : job[t].picture \in Nat /\ job[t].picture <= pictures
    BY <1>1, <1>3 DEF ShapeInv, MemoryInv, MemoryOf
  <1>5. \A i \in DOMAIN queue : queue[i] \in Buffers
    BY <1>1, ElementOfSeq, LenProperties DEF ShapeInv
  <1>6. ASSUME NEW i \in DOMAIN queue
        PROVE  queue[i].picture # 0 /\ queue[i].picture <= pictures
    <2>1. queue[i].step = "enter" /\ MemoryOf(queue[i], pictures)
      BY <1>1 DEF PathInv, MemoryInv
    <2> QED BY <2>1 DEF MemoryOf, Without
  <1> QED BY <1>2, <1>3, <1>4, <1>5, <1>6

LEMMA DistinctNext ==
    ASSUME IInv, [Next]_vars
    PROVE  DistinctInv'
  <1>1. /\ DistinctInv /\ job \in [Threads -> Buffers]
        /\ "R" \in Threads /\ "Q" \in Threads
    BY DEF IInv, ShapeInv, Threads
  <1>2. CASE \E t \in Threads, b \in Buffers : Turn(t, b)
    <2>1. PICK t \in Threads, b \in Buffers : Turn(t, b)
      BY <1>2
    <2>2. /\ job' = [job EXCEPT ![t] = b] /\ queue' = queue
          /\ b.picture \in {0, job[t].picture, pictures + 1}
      BY <2>1 DEF Turn
    <2>3. \A u \in Threads : job'[u].picture = IF u = t THEN b.picture ELSE job[u].picture
      BY <1>1, <2>2
    <2>4. \A u \in Threads : u # t /\ job[u].picture # 0 => b.picture # job[u].picture
      <3> SUFFICES ASSUME NEW u \in Threads, u # t, job[u].picture # 0
                   PROVE  b.picture # job[u].picture
        OBVIOUS
      <3>1. job[u].picture # pictures + 1
        BY PictureNumbers
      <3> QED BY <1>1, <2>2, <3>1 DEF DistinctInv
    <2>5. \A i \in DOMAIN queue : b.picture # queue[i].picture
      <3> SUFFICES ASSUME NEW i \in DOMAIN queue
                   PROVE  b.picture # queue[i].picture
        OBVIOUS
      <3>1. queue[i].picture # pictures + 1 /\ queue[i].picture # 0
        BY PictureNumbers
      <3> QED BY <1>1, <2>2, <3>1 DEF DistinctInv
    <2> QED BY <1>1, <2>2, <2>3, <2>4, <2>5 DEF DistinctInv
  <1>3. CASE Enters
    <2>1. \A u \in Threads : job'[u].picture = IF u = "R" THEN 0 ELSE job[u].picture
      BY <1>1, <1>3, IdleIs DEF Enters
    <2>2. \A i \in DOMAIN queue' :
              \/ i = Len(queue) + 1 /\ queue'[i] = job["R"]
              \/ i \in DOMAIN queue /\ queue'[i] = queue[i]
      BY <1>3, EnterPlaces
    <2>3. job["R"].picture # 0
      <3>1. job["R"].step \notin Without
        BY <1>3 DEF Enters, Without
      <3> QED BY <1>1, <3>1, AtWork
    <2>4. \A i \in DOMAIN queue : queue[i].picture # 0 /\ queue[i].picture # job["R"].picture
      BY <1>1, PictureNumbers DEF DistinctInv
    <2> QED BY <1>1, <2>1, <2>2, <2>3, <2>4 DEF DistinctInv
  <1>4. CASE Leaves \/ Drains
    <2>1. /\ 1 \in DOMAIN queue /\ Head(queue) = queue[1]
          /\ \A i \in DOMAIN queue' :
                i + 1 \in DOMAIN queue /\ i + 1 # 1 /\ queue'[i] = queue[i + 1]
          /\ \A i, j \in DOMAIN queue' : i # j => i + 1 # j + 1
      BY <1>4, LeavePlaces
    <2>2. CASE Drains
      <3>1. job' = job
        BY <2>2 DEF Drains
      <3> QED BY <1>1, <2>1, <3>1 DEF DistinctInv
    <2>3. CASE Leaves
      <3>1. \A u \in Threads :
                job'[u].picture = IF u = "Q" THEN queue[1].picture ELSE job[u].picture
        <4>1. Onward(Head(queue)).picture = queue[1].picture
          BY <2>1, <2>3, OnwardIs DEF Leaves
        <4>2. job' = [job EXCEPT !["Q"] = Onward(Head(queue))]
          BY <2>3 DEF Leaves
        <4> HIDE DEF Onward
        <4> QED BY <1>1, <4>1, <4>2
      <3> QED BY <1>1, <2>1, <3>1 DEF DistinctInv
    <2> QED BY <1>4, <2>2, <2>3
  <1>5. CASE Rests
    BY <1>1, <1>5 DEF Rests, DistinctInv
  <1> QED BY <1>2, <1>3, <1>4, <1>5, StepCases

\* One VideoFrame is that of one picture.
LEMMA OnePicture ==
    ASSUME IInv, NEW p \in Nat \ {0}, NEW q \in Nat \ {0}, p # q,
           p <= MaxFrames, q <= MaxFrames, NEW m, m \in {p, MaxFrames + p}
    PROVE  m \notin {q, MaxFrames + q}
  BY PictureNumbers

LEMMA LastNext ==
    ASSUME IInv, [Next]_vars
    PROVE  LastInv'
  <1>1. /\ LastInv /\ DistinctInv /\ PathInv /\ TypeOK /\ job \in [Threads -> Buffers]
        /\ "R" \in Threads /\ "Q" \in Threads
    BY DEF IInv, ShapeInv, Threads
  <1> DEFINE Of(l, p) == l \in {p, MaxFrames + p}
  <1>2. LastInv' <=>
            /\ lastSample' # System => \E p \in 1..pictures' : Of(lastSample', p)
            /\ \A u \in Threads :
                  job'[u].picture # 0 /\ Of(lastSample', job'[u].picture)
                  => job'[u].step \in Kept
            /\ \A i \in DOMAIN queue' : ~Of(lastSample', queue'[i].picture)
    BY DEF LastInv
  <1>3. \A i \in DOMAIN queue : ~Of(System, queue[i].picture)
    BY <1>1, PictureNumbers, Numbers
  <1>4. CASE \E t \in Threads, b \in Buffers : Turn(t, b)
    <2>1. PICK t \in Threads, b \in Buffers : Turn(t, b)
      BY <1>4
    <2>2. /\ job' = [job EXCEPT ![t] = b] /\ queue' = queue
          /\ Swapped(t, b) /\ MemoryOf(b, pictures')
          /\ \/ b.picture \in {0, job[t].picture} /\ pictures' = pictures
             \/ b.picture = pictures + 1 /\ pictures' = pictures + 1
      BY <2>1 DEF Turn
    <2>3. \A u \in Threads : job'[u] = IF u = t THEN b ELSE job[u]
      BY <1>1, <2>2
    <2>4. pictures' \in Nat /\ pictures <= pictures'
      BY <2>2, PictureNumbers
    <2>5. CASE lastSample' = lastSample /\ (job[t].step \in Kept /\ b.picture # 0 => b.step \in Kept)
      <3>1. lastSample # System => \E p \in 1..pictures' : Of(lastSample, p)
        <4> SUFFICES ASSUME lastSample # System
                     PROVE  \E p \in 1..pictures' : Of(lastSample, p)
          OBVIOUS
        <4>1. PICK p \in 1..pictures : Of(lastSample, p)
          BY <1>1 DEF LastInv
        <4>2. p \in 1..pictures'
          BY <2>4, PictureNumbers
        <4> QED BY <4>1, <4>2
      <3>2. b.picture # 0 /\ Of(lastSample, b.picture) => b.step \in Kept
        <4>1. CASE b.picture = job[t].picture
          BY <1>1, <2>5, <4>1 DEF LastInv
        <4>2. CASE b.picture = pictures + 1
          <5>1. b.picture \in 0..MaxFrames
            BY DEF Buffers
          <5>2. CASE lastSample = System
            BY <1>1, <4>2, <5>2, PictureNumbers, Numbers
          <5>3. CASE lastSample # System
            <6>1. PICK p \in 1..pictures : Of(lastSample, p)
              BY <1>1, <5>3 DEF LastInv
            <6>2. p # b.picture /\ p <= MaxFrames /\ b.picture <= MaxFrames
                  /\ p \in Nat \ {0} /\ b.picture \in Nat \ {0}
              BY <4>2, <5>1, PictureNumbers
            <6> QED BY <6>1, <6>2, OnePicture
          <5> QED BY <5>2, <5>3
        <4> QED BY <2>2, <4>1, <4>2
      <3> QED BY <1>1, <1>2, <2>2, <2>3, <2>5, <3>1, <3>2 DEF LastInv
    <2>6. CASE lastSample' = job[t].mem /\ b.picture = job[t].picture /\ b.step \in Kept
      <3> DEFINE p == b.picture
      <3>1. p # 0
        BY <2>2, <2>6 DEF MemoryOf, Kept, Without
      <3>2. p \in Nat \ {0} /\ p <= pictures /\ pictures <= MaxFrames /\ pictures' = pictures
        <4>1. job[t].picture \in Nat /\ job[t].picture <= pictures /\ pictures \in Nat
              /\ pictures <= MaxFrames
          BY PictureNumbers
        <4>2. b.picture # pictures + 1
          BY <2>6, <4>1
        <4> QED BY <2>2, <2>6, <3>1, <4>1, <4>2
      <3>3. lastSample' = System \/ Of(lastSample', p)
        <4>1. MemoryOf(job[t], pictures)
          BY DEF IInv, MemoryInv
        <4> QED BY <2>6, <4>1 DEF MemoryOf
      <3> HIDE DEF p
      <3>4. lastSample' # System => \E q \in 1..pictures' : Of(lastSample', q)
        <4>1. p \in 1..pictures'
          BY <3>2, PictureNumbers
        <4> QED BY <3>3, <4>1
      <3>5. \A q \in Nat \ {0} : q <= pictures /\ q # p => ~Of(lastSample', q)
        <4> SUFFICES ASSUME NEW q \in Nat \ {0}, q <= pictures, q # p
                     PROVE  ~Of(lastSample', q)
          OBVIOUS
        <4>1. q <= MaxFrames /\ p <= MaxFrames
          BY <3>2, PictureNumbers
        <4>2. CASE lastSample' = System
          BY <1>1, <4>1, <4>2, Numbers
        <4>3. CASE Of(lastSample', p)
          BY <3>2, <4>1, <4>3, OnePicture
        <4> QED BY <3>3, <4>2, <4>3
      <3>6. \A u \in Threads :
                job'[u].picture # 0 /\ Of(lastSample', job'[u].picture) => job'[u].step \in Kept
        <4> SUFFICES ASSUME NEW u \in Threads, u # t,
                            job[u].picture # 0, Of(lastSample', job[u].picture)
                     PROVE  FALSE
          BY <2>3, <2>6
        <4>1. job[u].picture # p
          BY <1>1, <2>6 DEF DistinctInv, p
        <4> QED BY <3>5, <4>1, PictureNumbers
      <3>7. \A i \in DOMAIN queue : ~Of(lastSample', queue[i].picture)
        <4> SUFFICES ASSUME NEW i \in DOMAIN queue
                     PROVE  ~Of(lastSample', queue[i].picture)
          OBVIOUS
        <4>1. queue[i].picture # p
          BY <1>1, <2>6 DEF DistinctInv, p
        <4> QED BY <3>5, <4>1, PictureNumbers
      <3> QED BY <1>2, <2>2, <3>4, <3>6, <3>7
    <2> QED BY <2>2, <2>5, <2>6 DEF Swapped
  <1>5. CASE Enters
    <2>1. \A u \in Threads : job'[u] = IF u = "R" THEN Idle ELSE job[u]
      BY <1>1, <1>5 DEF Enters
    <2>2. ~Of(lastSample, job["R"].picture)
      <3>1. job["R"].step \notin Without /\ job["R"].step \notin Kept
        BY <1>5 DEF Enters, Without, Kept
      <3>2. job["R"].picture # 0
        BY <1>1, <3>1, AtWork
      <3> QED BY <1>1, <3>1, <3>2 DEF LastInv
    <2>3. \A i \in DOMAIN queue' : ~Of(lastSample, queue'[i].picture)
      BY <1>1, <1>5, <2>2, EnterPlaces DEF LastInv
    <2>4. lastSample' = lastSample /\ pictures' = pictures
      BY <1>5 DEF Enters
    <2> QED BY <1>1, <1>2, <2>1, <2>3, <2>4, IdleIs DEF LastInv
  <1>6. CASE Leaves \/ Drains
    <2>1. lastSample' = lastSample /\ pictures' = pictures
      BY <1>6 DEF Leaves, Drains
    <2>2. \A i \in DOMAIN queue' : ~Of(lastSample, queue'[i].picture)
      BY <1>1, <1>6, LeavePlaces DEF LastInv
    <2>3. CASE Drains
      BY <1>1, <1>2, <2>1, <2>2, <2>3 DEF LastInv, Drains
    <2>4. CASE Leaves
      <3> DEFINE b == Onward(Head(queue))
      <3>1. job' = [job EXCEPT !["Q"] = b]
        BY <2>4 DEF Leaves
      <3>2. b.picture = queue[1].picture /\ 1 \in DOMAIN queue
        BY <2>4, OnwardIs, LeavePlaces DEF Leaves
      <3> HIDE DEF b
      <3>3. \A u \in Threads : job'[u] = IF u = "Q" THEN b ELSE job[u]
        BY <1>1, <3>1
      <3> QED BY <1>1, <1>2, <2>1, <2>2, <3>2, <3>3 DEF LastInv
    <2> QED BY <1>6, <2>3, <2>4
  <1>7. CASE Rests
    <2>1. CASE lastSample' = lastSample
      BY <1>1, <1>2, <1>7, <2>1 DEF Rests, LastInv
    <2>2. CASE lastSample' = System
      <3>1. \A u \in Threads : job[u].picture # 0 => ~Of(System, job[u].picture)
        BY <1>1, PictureNumbers, Numbers
      <3> QED BY <1>2, <1>3, <1>7, <2>2, <3>1 DEF Rests
    <2> QED BY <1>7, <2>1, <2>2 DEF Rests
  <1> QED BY <1>4, <1>5, <1>6, <1>7, StepCases

LEMMA CountNext ==
    ASSUME IInv, [Next]_vars, ShapeInv'
    PROVE  CountInv'
  <1> SUFFICES ASSUME NEW m \in Memory PROVE refs'[m] = Holders(m)'
    BY DEF CountInv
  <1> DEFINE r == Has(job["R"], m)                     newR == Has(job'["R"], m)
             q == Has(job["Q"], m)                     newQ == Has(job'["Q"], m)
             s == Has(job["S"], m)                     newS == Has(job'["S"], m)
             p == Cardinality(Positions(queue, m))     newP == Cardinality(Positions(queue', m))
             l == Keeps(lastSample, m)                 newL == Keeps(lastSample', m)
             n == refs[m]                              newN == refs'[m]
             H == IF Head(queue).mem = m THEN 1 ELSE 0
  <1>1. /\ TypeOK /\ ShapeInv /\ CountInv /\ PathInv /\ MemoryInv
        /\ job \in [Threads -> Buffers] /\ queue \in Seq(Buffers)
        /\ "R" \in Threads /\ "Q" \in Threads /\ "S" \in Threads
        /\ m # System /\ refs \in [Memory -> 0..3]
    BY Sizes DEF IInv, ShapeInv, Threads, TypeOK
  <1>2. n = r + q + s + p + l
    BY <1>1, HoldersAre DEF CountInv, Shares
  <1>3. /\ r \in Nat /\ q \in Nat /\ s \in Nat /\ l \in Nat
        /\ newR \in Nat /\ newQ \in Nat /\ newS \in Nat /\ newL \in Nat
    BY DEF Has, Keeps
  <1>4. p \in Nat /\ newP \in Nat /\ n \in Int /\ newN \in Int
    BY <1>1, StepCases, PositionsFinite DEF ShapeInv
  <1>5. ASSUME newN = newR + newQ + newS + newP + newL
        PROVE  refs'[m] = Holders(m)'
    BY <1>5, HoldersAfter DEF Shares
  <1>6. CASE \E t \in Threads, b \in Buffers : Turn(t, b)
    <2>1. PICK t \in Threads, b \in Buffers : Turn(t, b)
      BY <1>6
    <2>2. job' = [job EXCEPT ![t] = b] /\ queue' = queue /\ Balanced(t, b)
      BY <2>1 DEF Turn
    <2>3. newN + Has(job[t], m) + l = n + Has(job'[t], m) + newL
      BY <1>1, <2>2 DEF Balanced
    <2>4. newP = p /\ \A u \in Threads \ {t} : Has(job'[u], m) = Has(job[u], m)
      BY <1>1, <2>2
    <2>5. CASE t = "R"
      <3>1. newN + r + l = n + newR + newL /\ newQ = q /\ newS = s
        BY <1>1, <2>3, <2>4, <2>5
      <3> HIDE DEF r, q, s, p, l, n, newR, newQ, newS, newP, newL, newN
      <3> QED BY <1>2, <1>3, <1>4, <1>5, <2>4, <3>1
    <2>6. CASE t = "Q"
      <3>1. newN + q + l = n + newQ + newL /\ newR = r /\ newS = s
        BY <1>1, <2>3, <2>4, <2>6
      <3> HIDE DEF r, q, s, p, l, n, newR, newQ, newS, newP, newL, newN
      <3> QED BY <1>2, <1>3, <1>4, <1>5, <2>4, <3>1
    <2>7. CASE t = "S"
      <3>1. newN + s + l = n + newS + newL /\ newR = r /\ newQ = q
        BY <1>1, <2>3, <2>4, <2>7
      <3> HIDE DEF r, q, s, p, l, n, newR, newQ, newS, newP, newL, newN
      <3> QED BY <1>2, <1>3, <1>4, <1>5, <2>4, <3>1
    <2> QED BY <2>5, <2>6, <2>7 DEF Threads
  <1>7. CASE Enters
    <2>1. job' = [job EXCEPT !["R"] = Idle] /\ UNCHANGED <<refs, lastSample>>
          /\ queue' = Append(queue, job["R"]) /\ job["R"].step = "enter"
      BY <1>7 DEF Enters
    <2>2. newN = n /\ newL = l /\ newQ = q /\ newS = s
      BY <1>1, <2>1
    <2>3. newR = 0
      BY <1>1, <2>1, IdleIs DEF Has
    <2>4. r = IF job["R"].mem = m THEN 1 ELSE 0
      BY <2>1 DEF Has
    <2>5. newP = p + r
      BY <1>1, <2>1, <2>4, AppendPositions
    <2> HIDE DEF r, q, s, p, l, n, newR, newQ, newS, newP, newL, newN
    <2> QED BY <1>2, <1>3, <1>4, <1>5, <2>2, <2>3, <2>5
  <1>8. CASE Leaves
    <2> DEFINE b == Onward(Head(queue))
    <2>1. /\ queue # <<>> /\ queue' = Tail(queue) /\ job["Q"].step = "idle"
          /\ job' = [job EXCEPT !["Q"] = b] /\ UNCHANGED <<refs, lastSample>>
      BY <1>8 DEF Leaves
    <2>2. b.mem = Head(queue).mem /\ b.step # "wrap"
      BY <2>1, OnwardIs
    <2> HIDE DEF b
    <2>3. newN = n /\ newL = l /\ newR = r /\ newS = s
      BY <1>1, <2>1
    <2>4. newQ = H
      BY <1>1, <2>1, <2>2 DEF Has
    <2>5. q = 0
      <3>1. MemoryOf(job["Q"], pictures)
        BY <1>1 DEF MemoryInv
      <3>2. job["Q"].mem = System
        BY <2>1, <3>1 DEF MemoryOf, Without
      <3> QED BY <1>1, <3>2 DEF Has
    <2>6. p = newP + H
      BY <1>1, <2>1, TailPositions
    <2> HIDE DEF r, q, s, p, l, n, newR, newQ, newS, newP, newL, newN, H
    <2> QED BY <1>2, <1>3, <1>4, <1>5, <2>3, <2>4, <2>5, <2>6
  <1>9. CASE Drains
    <2>1. /\ queue # <<>> /\ queue' = Tail(queue) /\ UNCHANGED <<job, lastSample>>
          /\ newN + H = n
      BY <1>9 DEF Drains
    <2>2. newR = r /\ newQ = q /\ newS = s /\ newL = l /\ H \in {0, 1}
      BY <2>1
    <2>3. p = newP + H
      BY <1>1, <2>1, TailPositions
    <2> HIDE DEF r, q, s, p, l, n, newR, newQ, newS, newP, newL, newN, H
    <2> QED BY <1>2, <1>3, <1>4, <1>5, <2>1, <2>2, <2>3
  <1>10. CASE Rests
    <2>1. newN + l = n + newL /\ newR = r /\ newQ = q /\ newS = s /\ newP = p
      BY <1>10 DEF Rests
    <2> HIDE DEF r, q, s, p, l, n, newR, newQ, newS, newP, newL, newN, H
    <2> QED BY <1>2, <1>3, <1>4, <1>5, <2>1
  <1> QED BY <1>6, <1>7, <1>8, <1>9, <1>10, StepCases

\* At most a thread, a place in the queue and the last sample hold a VideoFrame.
LEMMA FewHolders ==
    ShapeInv /\ PathInv /\ MemoryInv /\ DistinctInv =>
        \A m \in Memory : Holders(m) \in 0..3
  <1> SUFFICES ASSUME ShapeInv, PathInv, MemoryInv, DistinctInv, NEW m \in Memory
               PROVE  Shares(job, queue, lastSample, m) \in 0..3
    BY HoldersAre
  <1>1. m # System /\ m # 0 /\ MaxFrames \in Nat
    BY Sizes
  <1>2. \A t \in Threads : job[t] \in Buffers
    BY DEF ShapeInv
  <1>3. ASSUME NEW t \in Threads, NEW u \in Threads, t # u, Has(job[t], m) = 1
        PROVE  Has(job[u], m) = 0
    <2>1. job[t].mem = m /\ MemoryOf(job[t], pictures) /\ MemoryOf(job[u], pictures)
      BY <1>3 DEF Has, MemoryInv
    <2>2. job[t].picture # 0 /\ m \in {job[t].picture, MaxFrames + job[t].picture}
      BY <1>1, <2>1 DEF MemoryOf
    <2>3. job[t].picture # job[u].picture
      BY <1>3, <2>2 DEF DistinctInv
    <2>4. job[u].mem # m
      BY <1>2, <2>1, <2>2, <2>3, OtherMemory
    <2> QED BY <2>4 DEF Has
  <1>4. \A t \in Threads : Has(job[t], m) \in {0, 1}
    BY DEF Has
  <1>5. Has(job["R"], m) + Has(job["Q"], m) + Has(job["S"], m) \in {0, 1}
    <2>1. "R" \in Threads /\ "Q" \in Threads /\ "S" \in Threads
      BY DEF Threads
    <2> QED BY <1>3, <1>4, <2>1
  <1>6. \A i, j \in Positions(queue, m) : i = j
    <2> SUFFICES ASSUME NEW i \in DOMAIN queue, NEW j \in DOMAIN queue,
                        queue[i].mem = m, queue[j].mem = m, i # j
                 PROVE  FALSE
      BY DEF Positions
    <2>1. queue[i] \in Buffers /\ queue[j] \in Buffers
          /\ MemoryOf(queue[i], pictures) /\ MemoryOf(queue[j], pictures)
      BY ElementOfSeq, LenProperties DEF ShapeInv, MemoryInv
    <2>2. queue[i].picture # 0 /\ m \in {queue[i].picture, MaxFrames + queue[i].picture}
      BY <1>1, <2>1 DEF MemoryOf
    <2>3. queue[i].picture # queue[j].picture
      BY DEF DistinctInv
    <2> QED BY <2>1, <2>2, <2>3, OtherMemory
  <1>7. Cardinality(Positions(queue, m)) \in {0, 1}
    <2>1. CASE Positions(queue, m) = {}
      BY <2>1, FS_EmptySet
    <2>2. CASE Positions(queue, m) # {}
      <3>1. PICK i : i \in Positions(queue, m)
        BY <2>2
      <3>2. Positions(queue, m) = {i}
        BY <1>6, <3>1
      <3> QED BY <3>2, FS_Singleton
    <2> QED BY <2>1, <2>2
  <1>8. Keeps(lastSample, m) \in {0, 1}
    BY DEF Keeps
  <1>9. Has(job["R"], m) \in {0, 1} /\ Has(job["Q"], m) \in {0, 1} /\ Has(job["S"], m) \in {0, 1}
    BY DEF Has
  <1> QED BY <1>5, <1>7, <1>8, <1>9 DEF Shares

LEMMA RefsNext ==
    ASSUME IInv, [Next]_vars
    PROVE  refs' \in [Memory -> 0..3]
  <1>1. (ShapeInv /\ PathInv /\ MemoryInv /\ DistinctInv =>
            \A m \in Memory : Holders(m) \in 0..3)'
    BY FewHolders, PTL
  <1>2. ShapeInv' /\ PathInv' /\ MemoryInv' /\ DistinctInv' /\ CountInv'
    BY ShapeNext, PathNext, MemoryNext, DistinctNext, CountNext
  <1>3. \A m \in Memory : refs'[m] \in 0..3
    BY <1>1, <1>2 DEF CountInv
  <1>4. refs' \in [Memory -> Int]
    BY StepCases
  <1> QED BY <1>3, <1>4

LEMMA StopNext ==
    ASSUME IInv, [Next]_vars
    PROVE  StopInv'
  <1> USE DEF appVars, queueVars, srcVars
  <1>1. /\ StopInv /\ PathInv /\ ShapeInv /\ job \in [Threads -> Buffers]
        /\ "R" \in Threads /\ "Q" \in Threads /\ "S" \in Threads
        /\ layout' = layout /\ (Queued' <=> Queued)
    BY LayoutKept DEF IInv, ShapeInv, Threads, Queued
  <1>2. ASSUME NEW t \in Threads, ThreadStep(t)
        PROVE  StopInv'
    <2>1. UNCHANGED <<app, queue, flushing>>
      BY <1>2 DEF ThreadStep, Download, DownloadCopied, DownloadReturn, Upload, KeepSample,
                  ShowFrame, DrawRaw, Preroll, Return
    <2>2. lastSample' # lastSample => "sink" \notin flushing
      BY <1>2 DEF ThreadStep, Download, DownloadCopied, DownloadReturn, Upload, KeepSample,
                  ShowFrame, DrawRaw, Preroll, Return
    <2>3. job[t].step \notin Without
      BY <1>2 DEF ThreadStep, Download, DownloadCopied, DownloadReturn, Upload, KeepSample,
                  ShowFrame, DrawRaw, Preroll, Return, At, Without
    <2>4. halted' = halted \/ (t = "S" /\ halted' = halted \cup {t})
      BY <1>2 DEF Threads, ThreadStep, Download, DownloadCopied, DownloadReturn, Upload,
                  KeepSample, ShowFrame, DrawRaw, Preroll, Return
    <2>5. PICK b : Turn(t, b)
      BY <1>2, ThreadTurn
    <2>6. /\ \A u \in Threads : job'[u] = IF u = t THEN b ELSE job[u]
          /\ b.step = "flushing" => "queue" \in flushing
      BY <1>1, <2>1, <2>5 DEF Turn
    <2>7. app = "stopped" => t # "S"
      BY <1>1, <2>3 DEF StopInv, Without, Idle
    <2>8. "Q" \in halted => t # "Q"
      BY <1>1, <2>3 DEF StopInv, Without
    <2> QED BY <1>1, <2>1, <2>2, <2>4, <2>6, <2>7, <2>8 DEF StopInv
  <1>3. CASE Output \/ WrapOutput
    <2>1. UNCHANGED <<app, queue, flushing, halted, lastSample>>
      BY <1>3 DEF Output, WrapOutput
    <2>2. \A u \in Threads \ {"R"} : job'[u] = job[u]
      BY <1>1, <1>3 DEF Output, WrapOutput, Push
    <2> QED BY <1>1, <2>1, <2>2 DEF StopInv
  <1>4. CASE EnterQueue
    <2>1. UNCHANGED <<app, flushing, halted, lastSample>>
          /\ (queue' = queue \/ "queue" \notin flushing)
      BY <1>4 DEF EnterQueue
    <2>2. \A u \in Threads \ {"R"} : job'[u] = job[u]
      BY <1>1, <1>4 DEF EnterQueue, Go
    <2> QED BY <1>1, <2>1, <2>2 DEF StopInv
  <1>5. CASE LeaveQueue
    <2>1. UNCHANGED <<app, flushing, halted, lastSample>> /\ "Q" \notin halted
      BY <1>5 DEF LeaveQueue
    <2>2. queue # <<>> /\ job' = [job EXCEPT !["Q"] = Onward(Head(queue))]
      BY <1>5 DEF LeaveQueue, Onward
    <2>3. Onward(Head(queue)).step # "flushing"
      BY <2>2, OnwardIs
    <2>4. job'["S"] = job["S"] /\ job'["Q"].step # "flushing"
      BY <1>1, <2>2, <2>3
    <2> QED BY <1>1, <2>1, <2>4 DEF StopInv
  <1>6. CASE FlushQueue
    <2>1. UNCHANGED <<app, queue, halted, lastSample>>
          /\ flushing' = flushing \cup {"queue"} /\ Go("Q", "flushing")
      BY <1>6 DEF FlushQueue
    <2>2. "Q" \notin halted
      BY <1>1, <1>6 DEF FlushQueue, At, StopInv
    <2>3. job'["S"] = job["S"]
      BY <1>1, <2>1 DEF Go
    <2> QED BY <1>1, <2>1, <2>2, <2>3 DEF StopInv
  <1>7. CASE FlushBuffer
    <2>1. UNCHANGED <<app, flushing, lastSample>> /\ job["Q"].step = "flushing"
      BY <1>7 DEF FlushBuffer, At
    <2>2. "Q" \notin halted /\ "queue" \in flushing
      BY <1>1, <2>1 DEF StopInv
    <2>3. CASE queue = <<>>
      <3>1. queue' = <<>> /\ halted' = halted \cup {"Q"} /\ Go("Q", "idle")
        BY <1>7, <2>3 DEF FlushBuffer
      <3>2. job'["S"] = job["S"] /\ job'["Q"].step = "idle"
        BY <1>1, <3>1 DEF Go, Buffers
      <3> QED BY <1>1, <2>1, <2>2, <3>1, <3>2 DEF StopInv
    <2>4. CASE queue # <<>>
      <3>1. UNCHANGED <<halted, job>>
        BY <1>7, <2>4 DEF FlushBuffer
      <3> QED BY <1>1, <2>1, <2>2, <3>1 DEF StopInv
    <2> QED BY <2>3, <2>4
  <1>8. CASE Create \/ Capture \/ Captured
    <2>1. UNCHANGED <<app, queue, flushing, lastSample>>
          /\ halted' \in {halted, halted \cup {"S"}}
      BY <1>8 DEF Create, Capture, Captured
    <2>2. app # "stopped"
      BY <1>1, <1>8 DEF Create, Capture, Captured, At, StopInv, Idle
    <2>3. job'["Q"] = job["Q"]
      BY <1>1, <1>8 DEF Create, Capture, Captured, Go, Push
    <2> QED BY <1>1, <2>1, <2>2, <2>3 DEF StopInv
  <1>9. CASE Play \/ Stop \/ UNCHANGED vars
    BY <1>1, <1>9 DEF Play, Stop, vars, App, StopInv
  <1>10. CASE StopSink
    BY <1>1, <1>10 DEF StopSink, App, StopInv
  <1>11. CASE StopQueue
    BY <1>1, <1>11 DEF StopQueue, App, StopInv
  <1>12. CASE StopSource
    BY <1>1, <1>12 DEF StopSource, App, StopInv
  <1>13. CASE Restart
    <2>1. job["Q"].step # "flushing"
      <3>1. app = "stopped" /\ MayDo("Q", job["Q"].step)
        BY <1>1, <1>13 DEF Restart, App, PathInv
      <3> QED BY <1>1, <3>1 DEF StopInv, MayDo
    <2> QED BY <1>1, <1>13, <2>1 DEF Restart, App, StopInv
  <1> QED BY <1>1, <1>2, <1>3, <1>4, <1>5, <1>6, <1>7, <1>8, <1>9, <1>10, <1>11, <1>12,
             <1>13
          DEF Next, RunnerStep, QueueStep, SourceStep, StopStep

LEMMA TypeNext ==
    ASSUME IInv, [Next]_vars
    PROVE  TypeOK'
  <1> USE DEF appVars, queueVars, srcVars
  <1>1. /\ TypeOK /\ ShapeInv /\ job \in [Threads -> Buffers] /\ queue \in Seq(Buffers)
        /\ layout' = layout /\ ShapeInv' /\ refs' \in [Memory -> 0..3]
        /\ "R" \in Threads /\ "Q" \in Threads /\ "S" \in Threads
    BY LayoutKept, ShapeNext, RefsNext DEF IInv, ShapeInv, Threads
  <1>2. \A t \in {"R", "Q", "S"} :
            /\ job'[t].pos \in 0..4 /\ job'[t].picture \in 0..MaxFrames
            /\ job'[t].mem \in Memory \cup {System}
    BY <1>1 DEF ShapeInv, Threads, Buffers
  <1>3. pictures' \in 0..MaxFrames
    <2>1. CASE \E t \in Threads, b \in Buffers : Turn(t, b)
      <3>1. PICK b \in Buffers : pictures' = pictures \/ pictures' = b.picture
        BY <2>1 DEF Turn
      <3>2. b.picture \in 0..MaxFrames
        BY DEF Buffers
      <3> QED BY <1>1, <3>1, <3>2 DEF TypeOK
    <2>2. CASE Enters \/ Leaves \/ Drains \/ Rests
      BY <1>1, <2>2 DEF Enters, Leaves, Drains, Rests, TypeOK
    <2> QED BY <2>1, <2>2, StepCases
  <1>4. lastSample' \in Memory \cup {System}
    <2>1. CASE \E t \in Threads, b \in Buffers : Turn(t, b)
      <3>1. PICK t \in Threads : lastSample' = lastSample \/ lastSample' = job[t].mem
        BY <2>1 DEF Turn, Swapped
      <3>2. job[t].mem \in Memory \cup {System}
        BY <1>1 DEF Buffers
      <3> QED BY <1>1, <3>1, <3>2 DEF TypeOK
    <2>2. CASE Enters \/ Leaves \/ Drains \/ Rests
      BY <1>1, <2>2 DEF Enters, Leaves, Drains, Rests, TypeOK
    <2> QED BY <2>1, <2>2, StepCases
  <1>5. Len(queue') <= QueueSize
    <2>1. Len(queue) \in Nat /\ Len(queue) <= QueueSize /\ QueueSize \in Nat
      BY <1>1, LenProperties, PipelineAssumption DEF TypeOK
    <2>2. CASE EnterQueue
      <3>1. \/ queue' = queue
            \/ Len(queue) < QueueSize /\ queue' = Append(queue, job["R"])
        BY <2>2 DEF EnterQueue
      <3>2. Len(Append(queue, job["R"])) = Len(queue) + 1
        BY <1>1, AppendProperties
      <3> QED BY <2>1, <3>1, <3>2
    <2>3. CASE ~EnterQueue
      <3>1. queue' = queue \/ (queue # <<>> /\ queue' = Tail(queue))
        <4>1. CASE \E t \in Threads : ThreadStep(t)
          BY <4>1 DEF ThreadStep, Download, DownloadCopied, DownloadReturn, Upload,
                      KeepSample, ShowFrame, DrawRaw, Preroll, Return
        <4>2. CASE Output \/ Create \/ WrapOutput \/ LeaveQueue \/ FlushQueue
                   \/ FlushBuffer \/ Capture \/ Captured
          BY <4>2 DEF Output, Create, WrapOutput, LeaveQueue, FlushQueue, FlushBuffer,
                      Capture, Captured
        <4>3. CASE Play \/ Stop \/ StopStep \/ Restart \/ UNCHANGED vars
          BY <4>3 DEF Play, Stop, StopStep, StopSink, StopQueue, StopSource, Restart, vars
        <4> QED BY <1>1, <2>3, <4>1, <4>2, <4>3 DEF Next, RunnerStep, QueueStep, SourceStep
      <3>2. queue # <<>> => Len(Tail(queue)) = Len(queue) - 1
        BY <1>1, TailIs
      <3> QED BY <2>1, <3>1, <3>2
    <2> QED BY <2>2, <2>3
  <1>6. ASSUME /\ app' \in {"paused", "playing", "sink", "queue", "source", "stopped"}
               /\ awaiting' \in {"nobody", "R", "Q", "S"} /\ qlock' \in {"free", "Q"}
               /\ flushing' \subseteq {"sink", "queue", "source"}
               /\ halted' \subseteq {"Q", "S"} /\ copied' \subseteq Picture
               /\ srcCaps' \in BOOLEAN /\ padCaps' \in BOOLEAN /\ stops' \in 0..MaxStops
               /\ crashed' \in {"no", "two awaits", "assertion"}
        PROVE  TypeOK'
    BY <1>1, <1>2, <1>3, <1>4, <1>5, <1>6 DEF TypeOK, Picture, Memory, System
  <1>7. ASSUME NEW t \in Threads, ThreadStep(t)
        PROVE  TypeOK'
    <2>1. UNCHANGED <<app, qlock, flushing, stops, crashed, srcCaps, padCaps>>
      BY <1>7 DEF ThreadStep, Download, DownloadCopied, DownloadReturn, Upload, KeepSample,
                  ShowFrame, DrawRaw, Preroll, Return
    <2>2. awaiting' \in {"nobody", "R", "Q", "S"}
      BY <1>1, <1>7
         DEF ThreadStep, Download, CopyTo, DownloadCopied, Fulfilled, DownloadReturn, Upload,
             KeepSample, ShowFrame, DrawRaw, Preroll, Return, Threads, TypeOK
    <2>3. halted' \subseteq {"Q", "S"}
      BY <1>1, <1>7
         DEF ThreadStep, Download, DownloadCopied, DownloadReturn, Upload, KeepSample,
             ShowFrame, DrawRaw, Preroll, Return, Threads, TypeOK
    <2>4. copied' \subseteq Picture
      <3>1. copied' = copied \/ copied' = copied \cup {job[t].picture}
        BY <1>7 DEF ThreadStep, Download, DownloadCopied, DownloadReturn, Upload, KeepSample,
                    ShowFrame, DrawRaw, Preroll, Return
      <3>2. job[t].step \notin Without
        BY <1>7 DEF ThreadStep, Download, DownloadCopied, DownloadReturn, Upload, KeepSample,
                    ShowFrame, DrawRaw, Preroll, Return, At, Without
      <3>3. job[t].picture \in Picture
        <4>1. job[t].picture \in Int /\ job[t].picture > 0 /\ job[t].picture <= MaxFrames
          BY <3>2, AtWork
        <4> QED BY <4>1, Sizes DEF Picture
      <3> QED BY <1>1, <3>1, <3>3 DEF TypeOK
    <2> QED BY <1>1, <1>6, <2>1, <2>2, <2>3, <2>4 DEF TypeOK
  <1>8. CASE Output \/ Create \/ WrapOutput \/ EnterQueue \/ LeaveQueue
    <2>1. /\ UNCHANGED <<app, awaiting, qlock, flushing, halted, copied, srcCaps, padCaps,
                         stops>>
          /\ crashed' \in {crashed, "two awaits"}
      BY <1>8 DEF Output, Create, WrapOutput, EnterQueue, LeaveQueue
    <2> QED BY <1>1, <1>6, <2>1 DEF TypeOK
  <1>9. CASE FlushQueue \/ FlushBuffer
    <2>1. /\ UNCHANGED <<app, awaiting, copied, srcCaps, padCaps, stops, crashed>>
          /\ qlock' \in {qlock, "free", "Q"}
          /\ flushing' \in {flushing, flushing \cup {"queue"}}
          /\ halted' \in {halted, halted \cup {"Q"}}
      BY <1>9 DEF FlushQueue, FlushBuffer
    <2>2. flushing' \subseteq {"sink", "queue", "source"} /\ halted' \subseteq {"Q", "S"}
      BY <1>1, <2>1 DEF TypeOK
    <2> QED BY <1>1, <1>6, <2>1, <2>2 DEF TypeOK
  <1>10. CASE Capture \/ Captured
    <2>1. /\ UNCHANGED <<app, awaiting, qlock, flushing, copied, stops>>
          /\ halted' \in {halted, halted \cup {"S"}}
          /\ crashed' \in {crashed, "assertion"}
      BY <1>10 DEF Capture, Captured
    <2>2. srcCaps' \in BOOLEAN /\ padCaps' \in BOOLEAN
      <3>1. srcCaps \in BOOLEAN /\ padCaps \in BOOLEAN
        BY <1>1 DEF TypeOK
      <3>2. CASE Captured
        BY <3>1, <3>2 DEF Captured
      <3>3. CASE Capture
        BY <3>1, <3>3 DEF Capture
      <3> QED BY <1>10, <3>2, <3>3
    <2> QED BY <1>1, <1>6, <2>1, <2>2 DEF TypeOK
  <1>11. CASE Play \/ Stop
    <2>1. stops' \in 0..MaxStops
      <3>1. stops \in 0..MaxStops /\ MaxStops \in Nat
        BY <1>1, PipelineAssumption DEF TypeOK
      <3> QED BY <1>11, <3>1 DEF Play, Stop
    <2> QED BY <1>1, <1>6, <1>11, <2>1 DEF Play, Stop, App, TypeOK
  <1>12. CASE StopStep
    BY <1>1, <1>6, <1>12 DEF StopStep, StopSink, StopQueue, StopSource, App, TypeOK
  <1>13. CASE Restart \/ UNCHANGED vars
    <2>1. /\ app' = app \/ app' = "paused"
          /\ flushing' \subseteq flushing /\ halted' \subseteq halted
          /\ UNCHANGED <<awaiting, qlock, copied, srcCaps, padCaps, stops, crashed>>
      BY <1>13 DEF Restart, vars, App
    <2> QED BY <1>1, <1>6, <2>1 DEF TypeOK
  <1>14. \/ \E t \in Threads : ThreadStep(t)
         \/ Output \/ Create \/ WrapOutput \/ EnterQueue \/ LeaveQueue
         \/ FlushQueue \/ FlushBuffer \/ Capture \/ Captured
         \/ Play \/ Stop \/ StopStep \/ Restart \/ UNCHANGED vars
    BY <1>1, Zenon DEF Next, RunnerStep, QueueStep, SourceStep
  <1> QED BY <1>7, <1>8, <1>9, <1>10, <1>11, <1>12, <1>13, <1>14, Zenon

--------------------------------------------------------------------------------
(* The theorems *)

LEMMA Start ==
    ASSUME Init
    PROVE  IInv
  <1>1. \A t \in Threads : job[t] = Idle
    BY DEF Init, Threads
  <1>2. MaxFrames \in Nat /\ MaxStops \in Nat /\ QueueSize \in Nat
    BY PipelineAssumption
  <1>3. DOMAIN queue = {} /\ queue = <<>> /\ Len(queue) = 0
    BY DEF Init
  <1>4. ShapeInv
    BY <1>3, IdleIs, EmptySeq DEF Init, ShapeInv, Threads
  <1>5. PathInv /\ CopiedInv
    BY <1>1, <1>3, IdleIs DEF PathInv, CopiedInv, InPlaceOf, MayDo, Without, Copying, InSink,
                              Threads
  <1>6. MemoryInv /\ DistinctInv /\ LastInv /\ StopInv
    <2>1. pictures = 0 /\ lastSample = System /\ app = "paused" /\ halted = {} /\ System = 0
      BY Sizes DEF Init
    <2> QED BY <1>1, <1>2, <1>3, <2>1, IdleIs
            DEF MemoryInv, MemoryOf, DistinctInv, LastInv, StopInv, Without, Threads
  <1>7. CountInv
    <2> SUFFICES ASSUME NEW m \in Memory PROVE refs[m] = Shares(job, queue, lastSample, m)
      BY <1>4, HoldersAre DEF CountInv
    <2>1. m # System /\ lastSample = System /\ refs[m] = 0
      BY Sizes DEF Init
    <2>2. \A t \in Threads : Has(job[t], m) = 0
      BY <1>1, <2>1, IdleIs DEF Has
    <2>3. Positions(queue, m) = {} /\ Keeps(lastSample, m) = 0
      BY <1>3, <2>1 DEF Positions, Keeps
    <2>4. Cardinality(Positions(queue, m)) = 0
      BY <2>3, FS_EmptySet
    <2> QED BY <2>1, <2>2, <2>3, <2>4 DEF Shares, Threads
  <1>8. TypeOK
    <2>1. refs \in [Memory -> 0..3]
      BY DEF Init
    <2>2. \A t \in {"R", "Q", "S"} :
              job[t].pos = 0 /\ job[t].picture = 0 /\ job[t].mem = System
      BY <1>1, IdleIs DEF Threads
    <2>3. /\ lastSample = System /\ pictures = 0 /\ stops = 0
          /\ layout \in Layouts /\ app = "paused" /\ awaiting = "nobody"
          /\ qlock = "free" /\ flushing = {} /\ halted = {} /\ copied = {}
          /\ srcCaps = FALSE /\ padCaps = FALSE /\ crashed = "no"
      BY DEF Init
    <2>4. 0 \in 0..4 /\ 0 \in 0..MaxFrames /\ 0 \in 0..MaxStops /\ 0 <= QueueSize
      BY <1>2
    <2>5. \A t \in {"R", "Q", "S"} :
              /\ job[t].pos \in 0..4 /\ job[t].picture \in 0..MaxFrames
              /\ job[t].mem \in Memory \cup {System}
      BY <2>2, <2>4
    <2>6. Len(queue) <= QueueSize
      BY <1>3, <2>4
    <2> QED BY <2>1, <2>3, <2>4, <2>5, <2>6, Zenon DEF TypeOK
  <1> QED BY <1>4, <1>5, <1>6, <1>7, <1>8 DEF IInv

\* The invariant holds in every state.
THEOREM Invariance == Spec => []IInv
  <1>1. Init => IInv
    BY Start
  <1>2. IInv /\ [Next]_vars => IInv'
    BY TypeNext, ShapeNext, PathNext, CopiedNext, MemoryNext, DistinctNext, LastNext,
       StopNext, CountNext DEF IInv
  <1> QED BY <1>1, <1>2, PTL DEF Spec

\* In every pipeline a VideoFrame is open exactly as long as a thread, the queue
\* or the last sample holds it, whoever drops it, and after a stop at most the
\* one that is coming out of the decoder is open (GstWebVideoFrame memory, the
\* queue, webdownload, webupload and the base class of webcanvassink).
THEOREM FramesCorrect == Spec => []FramesConserved
  <1>1. IInv => FramesConserved
    <2> SUFFICES ASSUME IInv PROVE FramesConserved
      OBVIOUS
    <2>1. TypeOK /\ ShapeInv /\ PathInv /\ MemoryInv /\ StopInv /\ CountInv
      BY DEF IInv
    <2>2. ASSUME app = "stopped", NEW m \in Memory, refs[m] > 0
          PROVE  job["R"].mem = m
      <3>1. m # System /\ lastSample = System /\ job["S"] = Idle /\ (Queued => "Q" \in halted)
        BY <2>1, <2>2, Sizes DEF StopInv
      <3>2. job["Q"].step = "idle" /\ queue = <<>>
        BY <2>1, <3>1 DEF StopInv, PathInv, MayDo, Threads
      <3>3. job["Q"].mem = System
        <4>1. MemoryOf(job["Q"], pictures)
          BY <2>1 DEF MemoryInv, Threads
        <4> QED BY <3>2, <4>1 DEF MemoryOf, Without
      <3>4. Has(job["Q"], m) = 0 /\ Has(job["S"], m) = 0 /\ Keeps(lastSample, m) = 0
        BY <3>1, <3>3, IdleIs DEF Has, Keeps
      <3>5. Positions(queue, m) = {}
        BY <3>2 DEF Positions
      <3>6. Cardinality(Positions(queue, m)) = 0
        BY <3>5, FS_EmptySet
      <3>7. refs[m] = Has(job["R"], m) + 0 + 0 + 0 + 0
        BY <2>1, <3>4, <3>6, HoldersAre DEF CountInv, Shares
      <3> QED BY <2>2, <3>7 DEF Has
    <2> QED BY <2>1, <2>2 DEF FramesConserved, CountInv
  <1> QED BY <1>1, Invariance, PTL

\* webdownload hands on whole pictures: their copyTo has ended.
THEOREM PicturesCorrect == Spec => []WholePictures
  <1>1. IInv => WholePictures
    BY DEF IInv, CopiedInv, WholePictures
  <1> QED BY <1>1, Invariance, PTL

================================================================================
