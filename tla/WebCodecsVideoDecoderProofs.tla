----------------------- MODULE WebCodecsVideoDecoderProofs ----------------------
(***************************************************************************)
(* Theorems about WebCodecsVideoDecoder, for every limit of the queue and  *)
(* every number of frames, changes of format, flushes and stops; and, in   *)
(* the second half, about WebCodecs: that the scan registers such decoders *)
(* for what the browser decodes, and that the conversions which they and   *)
(* the other elements make are right for every number of channels and      *)
(* frames.                                                                 *)
(***************************************************************************)
EXTENDS WebCodecsVideoDecoder, WebCodecs, FiniteSetTheorems, SequenceTheorems, TLAPS

(***************************************************************************)
(* The inductive invariant.                                                *)
(***************************************************************************)

\* A VideoDecoder that was not made yet has nothing, and the one that is being made
\* is configured once.
FormatInv ==
    /\ \A g \in Decoders : g > cur =>
          /\ jsState[g] = "none" /\ ~jsEvent[g]
          /\ jsQueue[g] = <<>> /\ jsOutputs[g] = <<>>
    /\ formatMsg = "ctor" => chain = "format_ctor" /\ cur < MaxFormats
    /\ formatMsg = "configure" => chain = "format_configure"
    /\ formatMsg = "configure" \/ (chain = "format_ctor" /\ formatMsg = "none") =>
          cur # 0 /\ jsState[cur] = "unconfigured"

\* What is in the hands of a VideoDecoder was decoded.
DecodedInv ==
    /\ decoded <= handled
    /\ \A g \in Decoders :
          /\ \A i \in 1..Len(jsQueue[g]) : jsQueue[g][i] \in 1..decoded
          /\ \A i \in 1..Len(jsOutputs[g]) : jsOutputs[g][i] \in 1..decoded
    /\ runner = "output" => item.output \in 1..decoded

\* No frame is in two places, of one VideoDecoder or of two.
DistinctInv ==
    \A g, h \in Decoders :
        /\ \A i \in 1..Len(jsQueue[g]) : \A j \in 1..Len(jsQueue[h]) :
              jsQueue[g][i] = jsQueue[h][j] => g = h /\ i = j
        /\ \A i \in 1..Len(jsOutputs[g]) : \A j \in 1..Len(jsOutputs[h]) :
              jsOutputs[g][i] = jsOutputs[h][j] => g = h /\ i = j
        /\ \A i \in 1..Len(jsQueue[g]) : \A j \in 1..Len(jsOutputs[h]) :
              jsQueue[g][i] # jsOutputs[h][j]

\* ... nor in a queue and in the hands of on_output.
ItemInv ==
    runner = "output" =>
        \A g \in Decoders :
            /\ \A i \in 1..Len(jsQueue[g]) : jsQueue[g][i] # item.output
            /\ \A i \in 1..Len(jsOutputs[g]) : jsOutputs[g][i] # item.output

\* The pending frames are among those handled, and enough for what is owed until the
\* first flush or stop.
CountInv ==
    /\ frames \subseteq 1..handled
    /\ element = "started" \/ resets # 0
    /\ resets = 0 => Cardinality(frames) >= Cardinality(Owed)

\* With one VideoDecoder that outputs in order: after k frames were finished, frame
\* k + 1 is the oldest pending one and the next to come out, and the others follow it
\* through the decoder without a gap.
InHand == IF runner = "output" THEN 1 ELSE 0

Follows(k) ==
    /\ frames = k + 1 .. handled
    /\ runner = "output" => item.output = k + 1
    /\ \A i \in 1..Len(jsOutputs[1]) : jsOutputs[1][i] = k + InHand + i
    /\ \A i \in 1..Len(jsQueue[1]) :
          jsQueue[1][i] = k + InHand + Len(jsOutputs[1]) + i
    /\ jsState[1] # "closed" =>
          decoded = k + InHand + Len(jsOutputs[1]) + Len(jsQueue[1])

OrderInv ==
    ~reordered /\ cur <= 1 /\ resets = 0 /\ runner # "dead" => \E k \in 0..handled : Follows(k)

IInv ==
    /\ TypeOK
    /\ FormatInv
    /\ DecodedInv
    /\ DistinctInv
    /\ ItemInv
    /\ CountInv
    /\ OrderInv

--------------------------------------------------------------------------------
(* The queues of all decoders, one of which changes *)

Queues == [Decoders -> Seq(Nat)]

\* r is s after n joined its queue g.
MoreOf(r, s, g, n) ==
    /\ r \in Queues
    /\ \A h \in Decoders : h # g => r[h] = s[h]
    /\ Len(r[g]) = Len(s[g]) + 1 /\ Len(s[g]) \in Nat
    /\ \A h \in Decoders : \A i \in 1..Len(r[h]) :
          \/ i \in 1..Len(s[h]) /\ r[h][i] = s[h][i]
          \/ h = g /\ i = Len(s[g]) + 1 /\ r[h][i] = n

LEMMA Appended ==
    ASSUME NEW s \in Queues, NEW g \in Decoders, NEW n \in Nat,
           NEW r, r = [s EXCEPT ![g] = Append(s[g], n)]
    PROVE  MoreOf(r, s, g, n)
<1>1. s[g] \in Seq(Nat) /\ Len(s[g]) \in Nat
    BY LenProperties DEF Queues
<1>2. /\ Append(s[g], n) \in Seq(Nat)
      /\ Len(Append(s[g], n)) = Len(s[g]) + 1
      /\ \A i \in 1..Len(s[g]) : Append(s[g], n)[i] = s[g][i]
      /\ Append(s[g], n)[Len(s[g]) + 1] = n
    BY <1>1, AppendProperties
<1>3. r[g] = Append(s[g], n) /\ r \in Queues /\ \A h \in Decoders : h # g => r[h] = s[h]
    BY <1>2 DEF Queues
<1>4. ASSUME NEW h \in Decoders, NEW i \in 1..Len(r[h])
      PROVE  \/ i \in 1..Len(s[h]) /\ r[h][i] = s[h][i]
             \/ h = g /\ i = Len(s[g]) + 1 /\ r[h][i] = n
    <2>1. CASE h = g
        <3>1. i \in 1..Len(s[g]) \/ i = Len(s[g]) + 1
            BY <1>1, <1>2, <1>3, <2>1
        <3>. QED
            BY <1>2, <1>3, <2>1, <3>1
    <2>2. CASE h # g
        BY <1>3, <2>2
    <2>. QED
        BY <2>1, <2>2
<1>. QED
    BY <1>1, <1>2, <1>3, <1>4 DEF MoreOf

\* r is s after its queue g lost its head.
TailOf(r, s, g) ==
    /\ r \in Queues
    /\ Head(s[g]) = s[g][1] /\ Head(s[g]) \in Nat /\ 1 \in 1..Len(s[g])
    /\ \A h \in Decoders : h # g => r[h] = s[h]
    /\ Len(r[g]) = Len(s[g]) - 1 /\ Len(s[g]) \in Nat
    /\ \A i \in 1..Len(r[g]) : i + 1 \in 1..Len(s[g]) /\ r[g][i] = s[g][i + 1]

LEMMA Tailed ==
    ASSUME NEW s \in Queues, NEW g \in Decoders, s[g] # <<>>,
           NEW r, r = [s EXCEPT ![g] = Tail(s[g])]
    PROVE  TailOf(r, s, g)
<1>1. s[g] \in Seq(Nat) /\ Len(s[g]) \in Nat \ {0}
    BY EmptySeq DEF Queues
<1>2. /\ Head(s[g]) \in Nat /\ Tail(s[g]) \in Seq(Nat) /\ Len(Tail(s[g])) = Len(s[g]) - 1
      /\ \A i \in 1..Len(Tail(s[g])) : Tail(s[g])[i] = s[g][i + 1]
    BY <1>1, HeadTailProperties
<1>3. Head(s[g]) = s[g][1]
    BY <1>1
<1>4. r[g] = Tail(s[g]) /\ r \in Queues /\ \A h \in Decoders : h # g => r[h] = s[h]
    BY <1>2 DEF Queues
<1>5. \A i \in 1..Len(s[g]) - 1 : i + 1 \in 1..Len(s[g])
    BY <1>1
<1>6. Len(r[g]) = Len(s[g]) - 1
    BY <1>2, <1>4
<1>8. 1 \in 1..Len(s[g])
    BY <1>1
<1>7. \A i \in 1..Len(r[g]) : i + 1 \in 1..Len(s[g]) /\ r[g][i] = s[g][i + 1]
    BY <1>2, <1>4, <1>5, <1>6
<1>. QED
    BY <1>1, <1>2, <1>3, <1>4, <1>6, <1>7, <1>8 DEF TailOf

\* A sequence without its i-th element.
Without(s, i) == SubSeq(s, 1, i - 1) \o SubSeq(s, i + 1, Len(s))

LEMMA RemovedAt ==
    ASSUME NEW s \in Seq(Nat), NEW i \in 1..Len(s)
    PROVE  /\ Without(s, i) \in Seq(Nat)
           /\ Len(Without(s, i)) = Len(s) - 1 /\ Len(s) \in Nat
           /\ \A j \in 1..Len(s) - 1 :
                 /\ j < i => j \in 1..Len(s) /\ Without(s, i)[j] = s[j]
                 /\ j >= i => j + 1 \in 1..Len(s) /\ Without(s, i)[j] = s[j + 1]
<1>1. Len(s) \in Nat /\ \A j \in 1..Len(s) : s[j] \in Nat
    BY LenProperties, ElementOfSeq
<1>0. Len(s) \in Nat /\ i \in Nat /\ 1 <= i /\ i <= Len(s)
    BY <1>1
<1>. DEFINE a == SubSeq(s, 1, i - 1)
            b == SubSeq(s, i + 1, Len(s))
<1>2. a \in Seq(Nat) /\ Len(a) = i - 1 /\ \A j \in 1..i - 1 : a[j] = s[j]
    <2>1. \A j \in 1..i - 1 : s[j] \in Nat
        BY <1>1
    <2>2. /\ a \in Seq(Nat)
          /\ Len(a) = IF 1 <= i - 1 THEN i - 1 - 1 + 1 ELSE 0
          /\ \A j \in 1..i - 1 - 1 + 1 : a[j] = s[1 + j - 1]
        BY <1>1, <2>1, SubSeqProperties
    <2>. QED
        BY <1>1, <2>2
<1>3. b \in Seq(Nat) /\ Len(b) = Len(s) - i /\ \A j \in 1..Len(s) - i : b[j] = s[i + j]
    <2>1. \A j \in i + 1..Len(s) : s[j] \in Nat
        BY <1>1
    <2>2. /\ b \in Seq(Nat)
          /\ Len(b) = IF i + 1 <= Len(s) THEN Len(s) - (i + 1) + 1 ELSE 0
          /\ \A j \in 1..Len(s) - (i + 1) + 1 : b[j] = s[i + 1 + j - 1]
        BY <1>1, <2>1, SubSeqProperties
    <2>. QED
        BY <1>1, <2>2
<1>. HIDE DEF a, b
<1>4. /\ a \o b \in Seq(Nat) /\ Len(a \o b) = Len(a) + Len(b)
      /\ \A j \in 1..Len(a) + Len(b) :
            (a \o b)[j] = IF j <= Len(a) THEN a[j] ELSE b[j - Len(a)]
    BY <1>2, <1>3, ConcatProperties
<1>6. Len(a \o b) = Len(s) - 1
    <2>1. Len(a \o b) = (i - 1) + (Len(s) - i)
        BY <1>2, <1>3, <1>4
    <2>2. (i - 1) + (Len(s) - i) = Len(s) - 1
        BY <1>0
    <2>. QED
        BY <2>1, <2>2
<1>7. ASSUME NEW j \in 1..Len(s) - 1, j < i PROVE j \in 1..Len(s) /\ (a \o b)[j] = s[j]
    <2>1. j \in 1..i - 1 /\ j \in 1..Len(s) /\ j \in 1..(i - 1) + (Len(s) - i)
        BY <1>0, <1>7
    <2>2. (a \o b)[j] = a[j]
        BY <1>2, <1>3, <1>4, <1>7, <2>1
    <2>3. a[j] = s[j]
        BY <1>2, <2>1
    <2>. QED
        BY <2>1, <2>2, <2>3
<1>8. ASSUME NEW j \in 1..Len(s) - 1, j >= i
      PROVE  j + 1 \in 1..Len(s) /\ (a \o b)[j] = s[j + 1]
    <2>1. /\ j - (i - 1) \in 1..Len(s) - i /\ j \in 1..(i - 1) + (Len(s) - i)
          /\ ~(j <= i - 1) /\ j + 1 \in 1..Len(s) /\ i + (j - (i - 1)) = j + 1
        BY <1>0, <1>8
    <2>2. (a \o b)[j] = b[j - (i - 1)]
        BY <1>2, <1>3, <1>4, <2>1
    <2>3. b[j - (i - 1)] = s[i + (j - (i - 1))]
        BY <1>3, <2>1
    <2>. QED
        BY <2>1, <2>2, <2>3
<1>. QED
    BY <1>1, <1>4, <1>6, <1>7, <1>8 DEF a, b, Without

LEMMA Updated ==
    ASSUME NEW s \in Queues, NEW g \in Decoders, NEW x \in Seq(Nat)
    PROVE  /\ [s EXCEPT ![g] = x] \in Queues
           /\ [s EXCEPT ![g] = x][g] = x
           /\ \A h \in Decoders : h # g => [s EXCEPT ![g] = x][h] = s[h]
  BY DEF Queues

\* r is s after its queue g lost its i-th element.
RestOf(r, s, g, i) ==
    /\ r \in Queues /\ s[g][i] \in Nat
    /\ \A h \in Decoders : h # g => r[h] = s[h]
    /\ Len(r[g]) = Len(s[g]) - 1 /\ Len(s[g]) \in Nat
    /\ \A j \in 1..Len(s[g]) - 1 :
          /\ j < i => j \in 1..Len(s[g]) /\ r[g][j] = s[g][j]
          /\ j >= i => j + 1 \in 1..Len(s[g]) /\ r[g][j] = s[g][j + 1]

LEMMA Removed ==
    ASSUME NEW s \in Queues, NEW g \in Decoders, NEW i \in 1..Len(s[g]),
           NEW r, r = [s EXCEPT ![g] = Without(s[g], i)]
    PROVE  RestOf(r, s, g, i)
<1>1. s[g] \in Seq(Nat)
    BY DEF Queues
<1>2. s[g][i] \in Nat
    BY <1>1, ElementOfSeq
<1>3. /\ Without(s[g], i) \in Seq(Nat)
      /\ Len(Without(s[g], i)) = Len(s[g]) - 1 /\ Len(s[g]) \in Nat
      /\ \A j \in 1..Len(s[g]) - 1 :
            /\ j < i => j \in 1..Len(s[g]) /\ Without(s[g], i)[j] = s[g][j]
            /\ j >= i => j + 1 \in 1..Len(s[g]) /\ Without(s[g], i)[j] = s[g][j + 1]
    BY <1>1, RemovedAt
<1>4. r[g] = Without(s[g], i) /\ r \in Queues /\ \A h \in Decoders : h # g => r[h] = s[h]
    <2>1. Without(s[g], i) \in Seq(Nat)
        BY <1>3
    <2>2. r \in Queues
        BY <2>1, Updated
    <2>3. r[g] = Without(s[g], i)
        BY <2>1, Updated
    <2>4. \A h \in Decoders : h # g => r[h] = s[h]
        BY <2>1, Updated
    <2>. QED
        BY <2>2, <2>3, <2>4
<1>. QED
    BY <1>2, <1>3, <1>4 DEF RestOf

--------------------------------------------------------------------------------
(* Every step keeps the invariant *)

LEMMA InitInv == Init => IInv
<1>. SUFFICES ASSUME Init PROVE IInv
    OBVIOUS
<1>. USE DecoderAssumption DEF Init
<1>1. TypeOK
    <2>1. <<>> \in Seq(Nat)
        BY EmptySeq
    <2>2. jsQueue \in [Decoders -> Seq(Nat)] /\ jsOutputs \in [Decoders -> Seq(Nat)]
        BY <2>1
    <2>3. jsEvent \in [Decoders -> BOOLEAN] /\ hasFormat \in BOOLEAN /\ reordered \in BOOLEAN
        OBVIOUS
    <2>4. jsState \in [Decoders -> {"none", "unconfigured", "configured", "closed"}]
        OBVIOUS
    <2>5. item \in [gen : 0..MaxFormats, output : Nat] /\ 0 \in 0..MaxFormats
        BY DEF NoItem
    <2>. QED
        BY <2>2, <2>3, <2>4, <2>5 DEF TypeOK
<1>2. FormatInv /\ DecodedInv /\ DistinctInv /\ ItemInv
    BY EmptySeq DEF FormatInv, DecodedInv, DistinctInv, ItemInv, Decoders
<1>3. CountInv
    <2>1. Owed = {}
        BY DEF Owed, ToSet
    <2>2. Cardinality(Owed) = 0 /\ Cardinality(frames) = 0
        BY <2>1, FS_EmptySet
    <2>. QED
        BY <2>2 DEF CountInv
<1>4. OrderInv
    <2>1. 1 \in Decoders /\ 0 \in 0..handled
        BY DEF Decoders
    <2>2. Follows(0)
        BY <2>1 DEF Follows, InHand
    <2>. QED
        BY <2>1, <2>2 DEF OrderInv
<1>. QED
    BY <1>1, <1>2, <1>3, <1>4 DEF IInv

\* What each step does to the queues.
Kept == UNCHANGED <<jsQueue, jsOutputs>>

HandKept == (runner' = runner /\ item' = item) \/ runner' # "output"

Queued == \* decode
    /\ cur \in Decoders /\ runner = "idle" /\ decoded < handled
    /\ decoded' = decoded + 1
    /\ jsQueue' = [jsQueue EXCEPT ![cur] = Append(jsQueue[cur], decoded + 1)]
    /\ UNCHANGED <<jsOutputs, runner, jsState>>

Taken(g) == \* the codec
    /\ jsQueue[g] # <<>>
    /\ jsQueue' = [jsQueue EXCEPT ![g] = Tail(jsQueue[g])]
    /\ jsOutputs' = [jsOutputs EXCEPT ![g] = Append(jsOutputs[g], Head(jsQueue[g]))]
    /\ UNCHANGED <<decoded, runner, item, jsState>>

Emptied(g) == \* a decoding error
    /\ jsQueue' = [jsQueue EXCEPT ![g] = <<>>]
    /\ UNCHANGED <<jsOutputs, decoded, runner, item>>

Out(g, i) == \* on_output
    /\ i \in 1..Len(jsOutputs[g]) /\ runner = "idle" /\ runner' = "output"
    /\ item' = [gen |-> g, output |-> jsOutputs[g][i]]
    /\ jsOutputs' = [jsOutputs EXCEPT ![g] = Without(jsOutputs[g], i)]
    /\ UNCHANGED <<jsQueue, decoded, jsState>>

LEMMA QueueSteps ==
    ASSUME IInv, [Next]_vars
    PROVE  \/ Kept /\ decoded' = decoded /\ HandKept
           \/ Kept /\ RunDecode /\ runner' = "dead"
           \/ Queued /\ RunDecode
           \/ \E g \in Decoders : Taken(g) /\ CodecTake(g)
           \/ \E g \in Decoders : Emptied(g) /\ CodecError(g)
           \/ \E g \in Decoders : \E i \in 1..Len(jsOutputs[g]) : Out(g, i) /\ OnOutput(g, i)
<1>. USE DEF Kept, HandKept, jsVars, chainVars, negotVars, appVars
<1>1. CASE UNCHANGED vars
    BY <1>1 DEF vars
<1>2. CASE HandleFrame \/ SetFormat \/ ChainStep
    BY <1>2 DEF HandleFrame, SetFormat, ChainStep, Reserve, PostDecode, SetFormatConfigure,
            SetFormatReturn
<1>3. CASE RunDecode
    <2>1. decoded < handled
        BY <1>3 DEF RunDecode, Posted, IInv, TypeOK
    <2>2. cur # 0 => cur \in Decoders
        BY DecoderAssumption DEF IInv, TypeOK, Decoders
    <2>. QED
        BY <1>3, <2>1, <2>2 DEF RunDecode, Queued
<1>4. CASE RunCtor \/ RunConfigure
    BY <1>4 DEF RunCtor, RunConfigure
<1>5. ASSUME NEW g \in Decoders, OnDequeue(g) \/ CodecTake(g) \/ CodecError(g)
      PROVE  \/ Kept /\ decoded' = decoded /\ runner' = runner /\ item' = item
             \/ Taken(g) /\ CodecTake(g)
             \/ Emptied(g) /\ CodecError(g)
    BY <1>5 DEF OnDequeue, CodecTake, CodecError, Taken, Emptied
<1>6. ASSUME NEW g \in Decoders, NEW i \in Frame, OnOutput(g, i)
      PROVE  i \in 1..Len(jsOutputs[g]) /\ Out(g, i)
    BY <1>6 DEF OnOutput, Out, Without
<1>7. CASE FinishFrame \/ NullFrame \/ PushReturn
    BY <1>7 DEF FinishFrame, NullFrame, PushReturn
<1>8. CASE Flush \/ Stop \/ BaseReset \/ Start
    BY <1>8 DEF Flush, Stop, BaseReset, Start
<1>. QED
    BY <1>1, <1>2, <1>3, <1>4, <1>5, <1>6, <1>7, <1>8 DEF Next, RunnerStep, CodecStep

LEMMA QueuedIs == ASSUME IInv, Queued PROVE MoreOf(jsQueue', jsQueue, cur, decoded + 1)
<1>. DEFINE q == jsQueue'
<1>1. jsQueue \in Queues /\ decoded + 1 \in Nat
    BY DEF IInv, TypeOK, Queues
<1>2. cur \in Decoders /\ q = [jsQueue EXCEPT ![cur] = Append(jsQueue[cur], decoded + 1)]
    BY DEF Queued
<1>. HIDE DEF q
<1>3. MoreOf(q, jsQueue, cur, decoded + 1)
    BY <1>1, <1>2, Appended
<1>. QED
    BY <1>3 DEF q

LEMMA TakenIs ==
    ASSUME IInv, NEW g \in Decoders, Taken(g)
    PROVE  TailOf(jsQueue', jsQueue, g) /\ MoreOf(jsOutputs', jsOutputs, g, jsQueue[g][1])
<1>. DEFINE q == jsQueue'
            o == jsOutputs'
<1>1. jsQueue \in Queues /\ jsOutputs \in Queues
    BY DEF IInv, TypeOK, Queues
<1>2. /\ jsQueue[g] # <<>> /\ q = [jsQueue EXCEPT ![g] = Tail(jsQueue[g])]
      /\ o = [jsOutputs EXCEPT ![g] = Append(jsOutputs[g], Head(jsQueue[g]))]
    BY DEF Taken
<1>. HIDE DEF q, o
<1>3. TailOf(q, jsQueue, g)
    BY <1>1, <1>2, Tailed
<1>4. Head(jsQueue[g]) \in Nat /\ Head(jsQueue[g]) = jsQueue[g][1]
    BY <1>3 DEF TailOf
<1>5. MoreOf(o, jsOutputs, g, jsQueue[g][1])
    BY <1>1, <1>2, <1>4, Appended
<1>. QED
    BY <1>3, <1>5 DEF q, o

LEMMA EmptiedIs ==
    ASSUME IInv, NEW g \in Decoders, Emptied(g)
    PROVE  /\ jsQueue' \in Queues /\ jsQueue'[g] = <<>> /\ Len(jsQueue'[g]) = 0
           /\ \A h \in Decoders : h # g => jsQueue'[h] = jsQueue[h]
<1>1. <<>> \in Seq(Nat) /\ Len(<<>>) = 0 /\ jsQueue \in Queues
    BY EmptySeq DEF IInv, TypeOK, Queues
<1>2. jsQueue' = [jsQueue EXCEPT ![g] = <<>>]
    BY DEF Emptied
<1>3. jsQueue' \in Queues
    BY <1>1, <1>2, Updated
<1>4. jsQueue'[g] = <<>> /\ \A h \in Decoders : h # g => jsQueue'[h] = jsQueue[h]
    BY <1>1, <1>2 DEF Queues
<1>. QED
    BY <1>1, <1>3, <1>4

LEMMA OutIs ==
    ASSUME IInv, NEW g \in Decoders, NEW i \in 1..Len(jsOutputs[g]), Out(g, i)
    PROVE  /\ RestOf(jsOutputs', jsOutputs, g, i)
           /\ i \in Nat
           /\ \A j \in 1..Len(jsOutputs'[g]) :
                 /\ j \in Nat
                 /\ \/ /\ j < i /\ j \in 1..Len(jsOutputs[g])
                       /\ jsOutputs'[g][j] = jsOutputs[g][j]
                    \/ /\ j >= i /\ j + 1 \in 1..Len(jsOutputs[g])
                       /\ jsOutputs'[g][j] = jsOutputs[g][j + 1]
<1>. DEFINE o == jsOutputs'
<1>1. jsOutputs \in Queues
    BY DEF IInv, TypeOK, Queues
<1>2. o = [jsOutputs EXCEPT ![g] = Without(jsOutputs[g], i)]
    BY DEF Out
<1>. HIDE DEF o
<1>3. RestOf(o, jsOutputs, g, i)
    BY <1>1, <1>2, Removed
<1>4. ASSUME NEW j \in 1..Len(o[g])
      PROVE  /\ j \in Nat
             /\ \/ /\ j < i /\ j \in 1..Len(jsOutputs[g]) /\ o[g][j] = jsOutputs[g][j]
                \/ /\ j >= i /\ j + 1 \in 1..Len(jsOutputs[g])
                   /\ o[g][j] = jsOutputs[g][j + 1]
    <2>1. /\ Len(o[g]) = Len(jsOutputs[g]) - 1 /\ Len(jsOutputs[g]) \in Nat
          /\ \A l \in 1..Len(jsOutputs[g]) - 1 :
                /\ l < i => l \in 1..Len(jsOutputs[g]) /\ o[g][l] = jsOutputs[g][l]
                /\ l >= i => l + 1 \in 1..Len(jsOutputs[g]) /\ o[g][l] = jsOutputs[g][l + 1]
        BY <1>3 DEF RestOf
    <2>2. j \in 1..Len(jsOutputs[g]) - 1 /\ j \in Nat /\ (j < i \/ j >= i)
        BY <2>1
    <2>. QED
        BY <2>1, <2>2
<1>5. i \in Nat
    BY <1>3 DEF RestOf
<1>. QED
    BY <1>3, <1>4, <1>5 DEF o

LEMMA QueuesNext == ASSUME IInv, [Next]_vars PROVE jsQueue' \in Queues /\ jsOutputs' \in Queues
<1>. DEFINE Types == jsQueue' \in Queues /\ jsOutputs' \in Queues
<1>1. jsQueue \in Queues /\ jsOutputs \in Queues
    BY DEF IInv, TypeOK, Queues
<1>2. CASE Kept
    BY <1>1, <1>2 DEF Kept
<1>3. CASE Queued
    BY <1>1, <1>3, QueuedIs DEF Queued, MoreOf
<1>4. ASSUME NEW g \in Decoders, Taken(g) PROVE Types
    BY <1>4, TakenIs DEF TailOf, MoreOf
<1>5. ASSUME NEW g \in Decoders, Emptied(g) PROVE Types
    BY <1>1, <1>5, EmptiedIs DEF Emptied
<1>6. ASSUME NEW g \in Decoders, NEW i \in 1..Len(jsOutputs[g]), Out(g, i) PROVE Types
    BY <1>1, <1>6, OutIs DEF Out, RestOf
<1>. QED
    BY QueueSteps, <1>2, <1>3, <1>4, <1>5, <1>6

\* What a VideoDecoder that has a callback to run is.
LEMMA EventOfCurrent ==
    ASSUME IInv, NEW g \in Decoders, jsEvent[g] \/ jsOutputs[g] # <<>> \/ jsQueue[g] # <<>>
    PROVE  g <= cur /\ cur \in Decoders
<1>1. cur \in 0..MaxFormats /\ g \in 1..MaxFormats /\ MaxFormats \in Nat
    BY DecoderAssumption DEF IInv, TypeOK, Decoders
<1>2. ~(g > cur)
    BY DEF IInv, FormatInv
<1>. QED
    BY <1>1, <1>2 DEF Decoders

LEMMA TypeNext == ASSUME IInv, [Next]_vars PROVE TypeOK'
<1>. USE DecoderAssumption DEF jsVars, chainVars, negotVars, appVars
<1>1. jsQueue' \in [Decoders -> Seq(Nat)] /\ jsOutputs' \in [Decoders -> Seq(Nat)]
    BY QueuesNext DEF Queues
<1>2. TypeOK
    BY DEF IInv
<1>3. CASE UNCHANGED vars
    BY <1>2, <1>3 DEF TypeOK, vars
<1>4. CASE HandleFrame
    BY <1>1, <1>2, <1>4 DEF TypeOK, HandleFrame
<1>5. CASE SetFormat
    BY <1>1, <1>2, <1>5 DEF TypeOK, SetFormat
<1>6. CASE ChainStep
    <2>0. CASE Reserve
        <3>1. dequeueSize' \in Nat
            BY <1>2, <2>0 DEF TypeOK, Reserve
        <3>2. chain' \in {"wait", "post"}
            BY <2>0 DEF Reserve
        <3>. QED
            BY <1>1, <1>2, <2>0, <3>1, <3>2 DEF TypeOK, Reserve
    <2>1. CASE PostDecode
        BY <1>1, <1>2, <2>1 DEF TypeOK, PostDecode
    <2>2. CASE SetFormatConfigure
        BY <1>1, <1>2, <2>2 DEF TypeOK, SetFormatConfigure
    <2>3. CASE SetFormatReturn
        <3>1. hasFormat' \in BOOLEAN
            BY <2>3 DEF SetFormatReturn
        <3>. QED
            BY <1>1, <1>2, <2>3, <3>1 DEF TypeOK, SetFormatReturn
    <2>. QED
        BY <1>6, <2>0, <2>1, <2>2, <2>3 DEF ChainStep
<1>7. CASE RunDecode
    <2>1. runner' \in {"dead", runner}
        BY <1>7 DEF RunDecode
    <2>2. decoded' \in Nat
        BY <1>2, <1>7 DEF TypeOK, RunDecode
    <2>3. UNCHANGED <<streamLock, chain, hasFormat, handled, resets, frames, dequeueSize,
                      formatMsg, item, cur, jsState, jsEvent, outputState, caps, element, reordered>>
        BY <1>7 DEF RunDecode, chainVars, negotVars, appVars
    <2>. QED
        BY <1>1, <1>2, <2>1, <2>2, <2>3 DEF TypeOK
<1>8. CASE RunCtor
    <2>1. cur' \in 0..MaxFormats
        BY <1>2, <1>8 DEF TypeOK, RunCtor, RunFormat, IInv, FormatInv
    <2>2. jsState' \in [Decoders -> {"none", "unconfigured", "configured", "closed"}]
        BY <1>2, <1>8 DEF TypeOK, RunCtor
    <2>. QED
        BY <1>1, <1>2, <1>8, <2>1, <2>2 DEF TypeOK, RunCtor, RunFormat
<1>9. CASE RunConfigure
    <2>1. jsState' \in [Decoders -> {"none", "unconfigured", "configured", "closed"}]
        BY <1>2, <1>9 DEF TypeOK, RunConfigure
    <2>. QED
        BY <1>1, <1>2, <1>9, <2>1 DEF TypeOK, RunConfigure, RunFormat
<1>10. ASSUME NEW g \in Decoders, OnDequeue(g) PROVE TypeOK'
    <2>1. cur \in Decoders
        BY <1>10, EventOfCurrent DEF OnDequeue
    <2>2. dequeueSize' \in Nat
        BY <1>2, <1>10, <2>1, LenProperties DEF OnDequeue, DequeueSize, TypeOK
    <2>3. jsEvent' \in [Decoders -> BOOLEAN]
        BY <1>2, <1>10 DEF OnDequeue, TypeOK
    <2>. QED
        BY <1>1, <1>2, <1>10, <2>2, <2>3 DEF TypeOK, OnDequeue, SignalDequeue
<1>11. ASSUME NEW g \in Decoders, NEW i \in Frame, OnOutput(g, i) PROVE TypeOK'
    <2>1. jsOutputs[g][i] \in Nat
        BY <1>2, <1>11, ElementOfSeq DEF TypeOK, OnOutput
    <2>2. item' \in [gen : 0..MaxFormats, output : Nat]
        BY <1>11, <2>1 DEF OnOutput, Decoders
    <2>3. reordered' \in BOOLEAN
        BY <1>2, <1>11 DEF OnOutput, TypeOK
    <2>. QED
        BY <1>1, <1>2, <1>11, <2>2, <2>3 DEF TypeOK, OnOutput
<1>12. CASE FinishFrame
    BY <1>1, <1>2, <1>12 DEF TypeOK, FinishFrame, GetFormat
<1>13. CASE NullFrame
    BY <1>1, <1>2, <1>13 DEF TypeOK, NullFrame
<1>14. CASE PushReturn
    BY <1>1, <1>2, <1>14 DEF TypeOK, PushReturn, NoItem
<1>15. ASSUME NEW g \in Decoders, CodecTake(g) PROVE TypeOK'
    <2>1. jsEvent' \in [Decoders -> BOOLEAN]
        BY <1>2, <1>15 DEF CodecTake, TypeOK
    <2>. QED
        BY <1>1, <1>2, <1>15, <2>1 DEF TypeOK, CodecTake
<1>16. ASSUME NEW g \in Decoders, CodecError(g) PROVE TypeOK'
    <2>1. jsEvent' \in [Decoders -> BOOLEAN]
        <3>1. (jsEvent[g] \/ jsQueue[g] # <<>>) \in BOOLEAN
            OBVIOUS
        <3>. QED
            BY <1>2, <1>16, <3>1 DEF CodecError, TypeOK
    <2>2. jsState' \in [Decoders -> {"none", "unconfigured", "configured", "closed"}]
        BY <1>2, <1>16 DEF TypeOK, CodecError
    <2>. QED
        BY <1>1, <1>2, <1>16, <2>1, <2>2 DEF TypeOK, CodecError, OnError
<1>17. CASE Flush
    BY <1>1, <1>2, <1>17 DEF TypeOK, Flush
<1>18. CASE Stop
    <2>1. hasFormat' \in BOOLEAN
        BY <1>18 DEF Stop
    <2>. QED
        BY <1>1, <1>2, <1>18, <2>1 DEF TypeOK, Stop
<1>19. CASE BaseReset \/ Start
    <2>1. CASE BaseReset
        BY <1>1, <1>2, <2>1 DEF TypeOK, BaseReset
    <2>2. CASE Start
        BY <1>1, <1>2, <2>2 DEF TypeOK, Start
    <2>. QED
        BY <1>19, <2>1, <2>2
<1>20. CASE RunnerStep
    BY <1>7, <1>8, <1>9, <1>10, <1>11, <1>12, <1>13, <1>14, <1>20 DEF RunnerStep
<1>21. CASE CodecStep \/ \E g \in Decoders : CodecError(g)
    BY <1>15, <1>16, <1>21 DEF CodecStep
<1>. QED
    BY <1>3, <1>4, <1>5, <1>6, <1>17, <1>18, <1>19, <1>20, <1>21 DEF Next

LEMMA FormatNext == ASSUME IInv, [Next]_vars PROVE FormatInv'
<1>. USE DEF jsVars, chainVars, negotVars, appVars
<1>1. TypeOK /\ FormatInv /\ MaxFormats \in Nat
    BY DecoderAssumption DEF IInv
<1>2. cur \in 0..MaxFormats /\ \A g \in Decoders : g \in 1..MaxFormats
    BY <1>1 DEF TypeOK, Decoders
<1>3. CASE UNCHANGED <<formatMsg, chain, cur, jsVars>>
    BY <1>1, <1>3 DEF FormatInv
<1>4. CASE HandleFrame \/ SetFormat
    BY <1>1, <1>2, <1>4 DEF FormatInv, HandleFrame, SetFormat
<1>5. CASE ChainStep
    BY <1>1, <1>5 DEF FormatInv, ChainStep, Reserve, PostDecode, SetFormatConfigure,
            SetFormatReturn
<1>6. CASE RunDecode
    <2>1. \A g \in Decoders : g > cur => jsQueue'[g] = jsQueue[g]
        <3>1. ASSUME NEW g \in Decoders, g > cur PROVE g # cur
            BY <1>2, <3>1
        <3>. QED
            BY <1>1, <1>6, <3>1 DEF RunDecode, TypeOK
    <2>. QED
        BY <1>1, <1>6, <2>1 DEF FormatInv, RunDecode
<1>7. CASE RunCtor
    <2>1. cur + 1 \in Decoders /\ chain = "format_ctor"
        BY <1>1, <1>2, <1>7 DEF RunCtor, RunFormat, FormatInv, Decoders
    <2>2. cur' = cur + 1 /\ jsState'[cur + 1] = "unconfigured" /\ cur + 1 # 0
        BY <1>1, <1>2, <1>7, <2>1 DEF RunCtor, TypeOK
    <2>3. \A g \in Decoders : g > cur + 1 => g > cur /\ g # cur + 1
        BY <1>2
    <2>4. \A g \in Decoders : g # cur + 1 => jsState'[g] = jsState[g]
        BY <1>1, <1>7 DEF RunCtor, TypeOK
    <2>. QED
        BY <1>1, <1>7, <2>1, <2>2, <2>3, <2>4 DEF FormatInv, RunCtor, RunFormat
<1>8. CASE RunConfigure
    <2>1. \A g \in Decoders : g > cur => jsState'[g] = jsState[g]
        <3>1. ASSUME NEW g \in Decoders, g > cur PROVE g # cur
            BY <1>2, <3>1
        <3>. QED
            BY <1>1, <1>8, <3>1 DEF RunConfigure, TypeOK
    <2>. QED
        BY <1>1, <1>8, <2>1 DEF FormatInv, RunConfigure, RunFormat
<1>9. ASSUME NEW g \in Decoders, OnDequeue(g) PROVE FormatInv'
    <2>1. \A h \in Decoders : ~jsEvent[h] => ~jsEvent'[h]
        BY <1>1, <1>9 DEF OnDequeue, TypeOK
    <2>. QED
        BY <1>1, <1>9, <2>1 DEF FormatInv, OnDequeue, SignalDequeue
<1>10. ASSUME NEW g \in Decoders, OnOutput(g, 1) \/ \E i \in Frame : OnOutput(g, i)
       PROVE  FormatInv'
    <2>1. jsOutputs[g] # <<>>
        BY <1>10 DEF OnOutput
    <2>2. \A h \in Decoders : h > cur => h # g
        BY <1>2, <2>1, EventOfCurrent
    <2>3. \A h \in Decoders : h > cur => jsOutputs'[h] = jsOutputs[h]
        BY <1>1, <1>10, <2>2 DEF OnOutput, TypeOK
    <2>. QED
        BY <1>1, <1>10, <2>3 DEF FormatInv, OnOutput
<1>11. ASSUME NEW g \in Decoders, CodecTake(g) \/ CodecError(g) PROVE FormatInv'
    <2>1. ~(g > cur)
        BY <1>1, <1>11 DEF CodecTake, CodecError, FormatInv
    <2>2. \A h \in Decoders : h > cur => /\ jsQueue'[h] = jsQueue[h]
                                         /\ jsOutputs'[h] = jsOutputs[h]
                                         /\ jsState'[h] = jsState[h]
                                         /\ jsEvent'[h] = jsEvent[h]
        BY <1>1, <1>11, <2>1 DEF CodecTake, CodecError, TypeOK
    <2>3. cur # 0 /\ jsState[cur] = "unconfigured" => jsState'[cur] = "unconfigured"
        <3>1. cur # 0 => cur \in Decoders
            BY <1>2 DEF Decoders
        <3>. QED
            BY <1>1, <1>11, <3>1 DEF CodecTake, CodecError, TypeOK
    <2>. QED
        BY <1>1, <1>11, <2>2, <2>3 DEF FormatInv, CodecTake, CodecError
<1>12. CASE FinishFrame \/ NullFrame \/ PushReturn
    BY <1>3, <1>12 DEF FinishFrame, NullFrame, PushReturn
<1>13. CASE Flush \/ Stop \/ BaseReset \/ Start
    BY <1>3, <1>13 DEF Flush, Stop, BaseReset, Start
<1>14. CASE RunnerStep
    BY <1>6, <1>7, <1>8, <1>9, <1>10, <1>12, <1>14 DEF RunnerStep
<1>15. CASE CodecStep \/ \E g \in Decoders : CodecError(g)
    BY <1>11, <1>15 DEF CodecStep
<1>16. CASE UNCHANGED vars
    BY <1>3, <1>16 DEF vars
<1>. QED
    BY <1>4, <1>5, <1>13, <1>14, <1>15, <1>16 DEF Next

LEMMA HandledNext ==
    ASSUME IInv, [Next]_vars
    PROVE  /\ handled \in Nat /\ handled' \in Nat /\ decoded \in Nat
           /\ handled' = handled \/ handled' = handled + 1
<1>1. handled \in Nat /\ decoded \in Nat
    BY DEF IInv, TypeOK
<1>2. handled' = handled \/ handled' = handled + 1
    BY DEF Next, vars, chainVars, HandleFrame, SetFormat, ChainStep, Reserve, PostDecode,
           SetFormatConfigure, SetFormatReturn, RunnerStep, RunDecode, RunCtor, RunConfigure,
           OnDequeue, OnOutput, FinishFrame, NullFrame, PushReturn, CodecStep, CodecTake,
           CodecError, Flush, Stop, BaseReset, Start
<1>. QED
    BY <1>1, <1>2

LEMMA DecodedNext == ASSUME IInv, [Next]_vars PROVE DecodedInv'
<1>1. jsQueue \in Queues /\ jsOutputs \in Queues /\ DecodedInv /\ decoded \in Nat
    BY DEF IInv, TypeOK, Queues
<1>2. \A n : n \in 1..decoded => n \in 1..decoded + 1
    BY <1>1
<1>3. decoded <= handled' /\ (decoded < handled => decoded + 1 <= handled')
    BY <1>1, HandledNext DEF DecodedInv
<1>4. CASE Kept /\ decoded' = decoded /\ HandKept
    BY <1>1, <1>3, <1>4 DEF Kept, HandKept, DecodedInv
<1>5. CASE Kept /\ RunDecode /\ runner' = "dead"
    <2>1. decoded < handled
        BY <1>5, HandledNext DEF RunDecode, Posted
    <2>. QED
        BY <1>1, <1>2, <1>3, <1>5, <2>1 DEF Kept, DecodedInv, RunDecode
<1>6. CASE Queued
    <2>1. decoded + 1 \in 1..decoded + 1
        BY <1>1
    <2>2. \A h \in Decoders : \A i \in 1..Len(jsQueue'[h]) : jsQueue'[h][i] \in 1..decoded + 1
        BY <1>1, <1>2, <1>6, <2>1, QueuedIs DEF DecodedInv, MoreOf
    <2>. QED
        BY <1>1, <1>2, <1>3, <1>6, <2>2 DEF Queued, DecodedInv
<1>7. ASSUME NEW g \in Decoders, Taken(g) PROVE DecodedInv'
    <2>0. /\ \A h \in Decoders : h # g => jsQueue'[h] = jsQueue[h]
          /\ \A i \in 1..Len(jsQueue'[g]) :
                /\ i + 1 \in 1..Len(jsQueue[g])
                /\ jsQueue'[g][i] = jsQueue[g][i + 1]
          /\ 1 \in 1..Len(jsQueue[g])
        BY <1>7, TakenIs DEF TailOf
    <2>1. ASSUME NEW h \in Decoders, NEW i \in 1..Len(jsQueue'[h])
          PROVE  jsQueue'[h][i] \in 1..decoded
        <3>1. CASE h = g
            BY <1>1, <2>0, <3>1 DEF DecodedInv
        <3>2. CASE h # g
            BY <1>1, <2>0, <3>2 DEF DecodedInv
        <3>. QED
            BY <3>1, <3>2
    <2>2. jsQueue[g][1] \in 1..decoded
        BY <1>1, <2>0 DEF DecodedInv
    <2>a. \A h \in Decoders : \A i \in 1..Len(jsOutputs'[h]) :
             \/ i \in 1..Len(jsOutputs[h]) /\ jsOutputs'[h][i] = jsOutputs[h][i]
             \/ jsOutputs'[h][i] = jsQueue[g][1]
        BY <1>7, TakenIs DEF MoreOf
    <2>3. ASSUME NEW h \in Decoders, NEW i \in 1..Len(jsOutputs'[h])
          PROVE  jsOutputs'[h][i] \in 1..decoded
        <3>1. CASE i \in 1..Len(jsOutputs[h]) /\ jsOutputs'[h][i] = jsOutputs[h][i]
            BY <1>1, <3>1 DEF DecodedInv
        <3>2. CASE jsOutputs'[h][i] = jsQueue[g][1]
            BY <2>2, <3>2
        <3>. QED
            BY <2>a, <3>1, <3>2
    <2>. QED
        BY <1>1, <1>3, <1>7, <2>1, <2>3 DEF Taken, DecodedInv
<1>8. ASSUME NEW g \in Decoders, Emptied(g) PROVE DecodedInv'
    <2>1. \A h \in Decoders : \A i \in 1..Len(jsQueue'[h]) : jsQueue'[h][i] \in 1..decoded
        BY <1>1, <1>8, EmptiedIs DEF DecodedInv
    <2>. QED
        BY <1>1, <1>3, <1>8, <2>1 DEF Emptied, DecodedInv
<1>9. ASSUME NEW g \in Decoders, NEW i \in 1..Len(jsOutputs[g]), Out(g, i) PROVE DecodedInv'
    <2>1. \A n \in 1..Len(jsOutputs[g]) : jsOutputs[g][n] \in 1..decoded
        BY <1>1 DEF DecodedInv
    <2>2. \A j \in 1..Len(jsOutputs'[g]) : jsOutputs'[g][j] \in 1..decoded
        BY <1>9, <2>1, OutIs
    <2>a. \A h \in Decoders : h # g => jsOutputs'[h] = jsOutputs[h]
        BY <1>9, OutIs DEF RestOf
    <2>3. ASSUME NEW h \in Decoders, NEW j \in 1..Len(jsOutputs'[h])
          PROVE  jsOutputs'[h][j] \in 1..decoded
        <3>1. CASE h = g
            BY <2>2, <3>1
        <3>2. CASE h # g
            BY <1>1, <2>a, <3>2 DEF DecodedInv
        <3>. QED
            BY <3>1, <3>2
    <2>4. item'.output \in 1..decoded
        BY <1>9, <2>1 DEF Out
    <2>. QED
        BY <1>1, <1>3, <1>9, <2>3, <2>4 DEF Out, DecodedInv
<1>. QED
    BY QueueSteps, <1>4, <1>5, <1>6, <1>7, <1>8, <1>9

LEMMA DistinctNext == ASSUME IInv, [Next]_vars PROVE DistinctInv'
<1>1. DistinctInv /\ DecodedInv /\ decoded \in Nat
    BY DEF IInv, TypeOK
<1>2. CASE Kept
    BY <1>1, <1>2 DEF Kept, DistinctInv
<1>3. CASE Queued
    <2>1. \A n \in 1..decoded : n # decoded + 1
        BY <1>1
    <2>2. ASSUME NEW g \in Decoders, NEW h \in Decoders,
                 NEW i \in 1..Len(jsQueue'[g]), NEW j \in 1..Len(jsQueue'[h]),
                 jsQueue'[g][i] = jsQueue'[h][j]
          PROVE  g = h /\ i = j
        <3>1. \/ i \in 1..Len(jsQueue[g]) /\ jsQueue'[g][i] = jsQueue[g][i]
              \/ g = cur /\ i = Len(jsQueue[cur]) + 1 /\ jsQueue'[g][i] = decoded + 1
            BY <1>3, QueuedIs DEF MoreOf
        <3>2. \/ j \in 1..Len(jsQueue[h]) /\ jsQueue'[h][j] = jsQueue[h][j]
              \/ h = cur /\ j = Len(jsQueue[cur]) + 1 /\ jsQueue'[h][j] = decoded + 1
            BY <1>3, QueuedIs DEF MoreOf
        <3>3. i \in 1..Len(jsQueue[g]) => jsQueue[g][i] \in 1..decoded
            BY <1>1 DEF DecodedInv
        <3>4. j \in 1..Len(jsQueue[h]) => jsQueue[h][j] \in 1..decoded
            BY <1>1 DEF DecodedInv
        <3>5. CASE i \in 1..Len(jsQueue[g]) /\ j \in 1..Len(jsQueue[h])
                    /\ jsQueue[g][i] = jsQueue[h][j]
            BY <1>1, <3>5 DEF DistinctInv
        <3>. QED
            BY <2>1, <2>2, <3>1, <3>2, <3>3, <3>4, <3>5
    <2>3. ASSUME NEW g \in Decoders, NEW h \in Decoders,
                 NEW i \in 1..Len(jsQueue'[g]), NEW j \in 1..Len(jsOutputs[h])
          PROVE  jsQueue'[g][i] # jsOutputs[h][j]
        BY <1>1, <1>3, <2>1, QueuedIs DEF DistinctInv, DecodedInv, MoreOf
    <2>. QED
        BY <1>1, <1>3, <2>2, <2>3 DEF DistinctInv, Queued
<1>4. ASSUME NEW e \in Decoders, Taken(e) PROVE DistinctInv'
    <2>1. /\ \A g \in Decoders : g # e => jsQueue'[g] = jsQueue[g]
          /\ \A i \in 1..Len(jsQueue'[e]) :
                /\ i \in Nat /\ i + 1 \in 1..Len(jsQueue[e]) /\ i + 1 # 1
                /\ jsQueue'[e][i] = jsQueue[e][i + 1]
          /\ 1 \in 1..Len(jsQueue[e])
        BY <1>4, TakenIs DEF TailOf
    <2>2. ASSUME NEW g \in Decoders, NEW h \in Decoders,
                 NEW i \in 1..Len(jsQueue'[g]), NEW j \in 1..Len(jsQueue'[h]),
                 jsQueue'[g][i] = jsQueue'[h][j]
          PROVE  g = h /\ i = j
        <3>1. CASE g = e /\ h = e
            BY <1>1, <2>1, <2>2, <3>1 DEF DistinctInv
        <3>2. CASE g # e /\ h = e
            BY <1>1, <2>1, <2>2, <3>2 DEF DistinctInv
        <3>3. CASE g = e /\ h # e
            BY <1>1, <2>1, <2>2, <3>3 DEF DistinctInv
        <3>4. CASE g # e /\ h # e
            BY <1>1, <2>1, <2>2, <3>4 DEF DistinctInv
        <3>. QED
            BY <3>1, <3>2, <3>3, <3>4
    <2>3. ASSUME NEW g \in Decoders, NEW i \in 1..Len(jsQueue'[g])
          PROVE  jsQueue'[g][i] # jsQueue[e][1]
        <3>1. CASE g = e
            BY <1>1, <2>1, <3>1 DEF DistinctInv
        <3>2. CASE g # e
            BY <1>1, <2>1, <3>2 DEF DistinctInv
        <3>. QED
            BY <3>1, <3>2
    <2>4. ASSUME NEW g \in Decoders, NEW h \in Decoders,
                 NEW i \in 1..Len(jsQueue'[g]), NEW j \in 1..Len(jsOutputs[h])
          PROVE  jsQueue'[g][i] # jsOutputs[h][j]
        <3>1. CASE g = e
            BY <1>1, <2>1, <3>1 DEF DistinctInv
        <3>2. CASE g # e
            BY <1>1, <2>1, <3>2 DEF DistinctInv
        <3>. QED
            BY <3>1, <3>2
    <2>5. \A h \in Decoders : \A j \in 1..Len(jsOutputs[h]) : jsQueue[e][1] # jsOutputs[h][j]
        BY <1>1, <2>1 DEF DistinctInv
    <2>6. \A h \in Decoders : \A j \in 1..Len(jsOutputs'[h]) :
             \/ j \in 1..Len(jsOutputs[h]) /\ jsOutputs'[h][j] = jsOutputs[h][j]
             \/ h = e /\ j = Len(jsOutputs[e]) + 1 /\ jsOutputs'[h][j] = jsQueue[e][1]
        BY <1>4, TakenIs DEF MoreOf
    <2>7. ASSUME NEW g \in Decoders, NEW h \in Decoders,
                 NEW i \in 1..Len(jsQueue'[g]), NEW j \in 1..Len(jsOutputs'[h])
          PROVE  jsQueue'[g][i] # jsOutputs'[h][j]
        BY <2>3, <2>4, <2>6
    <2>8. ASSUME NEW g \in Decoders, NEW h \in Decoders,
                 NEW i \in 1..Len(jsOutputs'[g]), NEW j \in 1..Len(jsOutputs'[h]),
                 jsOutputs'[g][i] = jsOutputs'[h][j]
          PROVE  g = h /\ i = j
        BY <1>1, <2>5, <2>6, <2>8 DEF DistinctInv
    <2>. QED
        BY <2>2, <2>7, <2>8 DEF DistinctInv
<1>5. ASSUME NEW e \in Decoders, Emptied(e) PROVE DistinctInv'
    <2>1. \A g \in Decoders : \A i \in 1..Len(jsQueue'[g]) :
             i \in 1..Len(jsQueue[g]) /\ jsQueue'[g][i] = jsQueue[g][i]
        BY <1>5, EmptiedIs
    <2>2. jsOutputs' = jsOutputs
        BY <1>5 DEF Emptied
    <2>. QED
        BY <1>1, <2>1, <2>2 DEF DistinctInv
<1>6. ASSUME NEW e \in Decoders, NEW k \in 1..Len(jsOutputs[e]), Out(e, k) PROVE DistinctInv'
    <2>1. /\ k \in Nat
          /\ \A g \in Decoders : g # e => jsOutputs'[g] = jsOutputs[g]
          /\ \A i \in 1..Len(jsOutputs'[e]) :
                /\ i \in Nat
                /\ \/ i < k /\ i \in 1..Len(jsOutputs[e]) /\ jsOutputs'[e][i] = jsOutputs[e][i]
                   \/ /\ i >= k /\ i + 1 \in 1..Len(jsOutputs[e])
                      /\ jsOutputs'[e][i] = jsOutputs[e][i + 1]
        BY <1>6, OutIs DEF RestOf
    <2>2. ASSUME NEW g \in Decoders, NEW h \in Decoders,
                 NEW i \in 1..Len(jsOutputs'[g]), NEW j \in 1..Len(jsOutputs'[h]),
                 jsOutputs'[g][i] = jsOutputs'[h][j]
          PROVE  g = h /\ i = j
        <3>0. ASSUME NEW l \in Decoders, NEW n \in 1..Len(jsOutputs'[l])
              PROVE  \E m \in 1..Len(jsOutputs[l]) : jsOutputs'[l][n] = jsOutputs[l][m]
            <4>1. CASE l = e
                BY <2>1, <4>1
            <4>2. CASE l # e
                BY <2>1, <4>2
            <4>. QED
                BY <4>1, <4>2
        <3>1. g = h
            <4>1. PICK m \in 1..Len(jsOutputs[g]) : jsOutputs'[g][i] = jsOutputs[g][m]
                BY <3>0
            <4>2. PICK n \in 1..Len(jsOutputs[h]) : jsOutputs'[h][j] = jsOutputs[h][n]
                BY <3>0
            <4>3. jsOutputs[g][m] = jsOutputs[h][n]
                BY <2>2, <4>1, <4>2
            <4>4. jsOutputs[g][m] = jsOutputs[h][n] => g = h
                BY <1>1 DEF DistinctInv
            <4>. QED
                BY <4>3, <4>4
        <3>2. CASE g = e
            <4>1. \A m, n \in 1..Len(jsOutputs[e]) :
                     jsOutputs[e][m] = jsOutputs[e][n] => m = n
                BY <1>1 DEF DistinctInv
            <4>2. i \in 1..Len(jsOutputs'[e]) /\ j \in 1..Len(jsOutputs'[e])
                  /\ jsOutputs'[e][i] = jsOutputs'[e][j]
                BY <2>2, <3>1, <3>2
            <4>. QED
                BY <2>1, <3>1, <4>1, <4>2
        <3>3. CASE g # e
            BY <1>1, <2>1, <2>2, <3>1, <3>3 DEF DistinctInv
        <3>. QED
            BY <3>1, <3>2, <3>3
    <2>3. ASSUME NEW g \in Decoders, NEW h \in Decoders,
                 NEW i \in 1..Len(jsQueue[g]), NEW j \in 1..Len(jsOutputs'[h])
          PROVE  jsQueue[g][i] # jsOutputs'[h][j]
        BY <1>1, <2>1 DEF DistinctInv
    <2>. QED
        BY <1>1, <1>6, <2>2, <2>3 DEF DistinctInv, Out
<1>. QED
    BY QueueSteps, <1>2, <1>3, <1>4, <1>5, <1>6

LEMMA ItemNext == ASSUME IInv, [Next]_vars PROVE ItemInv'
<1>1. ItemInv /\ DistinctInv /\ DecodedInv /\ decoded \in Nat
    BY DEF IInv, TypeOK
<1>2. CASE Kept /\ decoded' = decoded /\ HandKept
    BY <1>1, <1>2 DEF Kept, HandKept, ItemInv
<1>3. CASE (Kept /\ RunDecode /\ runner' = "dead") \/ Queued
    BY <1>3 DEF ItemInv, Queued
<1>4. ASSUME NEW e \in Decoders, Taken(e) PROVE ItemInv'
    <2>1. SUFFICES ASSUME runner = "output" PROVE ItemInv'
        BY <1>4 DEF Taken, ItemInv
    <2>2. \A g \in Decoders : \A i \in 1..Len(jsQueue'[g]) : jsQueue'[g][i] # item.output
        BY <1>1, <1>4, <2>1, TakenIs DEF ItemInv, TailOf
    <2>3. jsQueue[e][1] # item.output
        BY <1>1, <1>4, <2>1, TakenIs DEF ItemInv, TailOf
    <2>4. \A g \in Decoders : \A i \in 1..Len(jsOutputs'[g]) : jsOutputs'[g][i] # item.output
        BY <1>1, <1>4, <2>1, <2>3, TakenIs DEF ItemInv, MoreOf
    <2>. QED
        BY <1>4, <2>2, <2>4 DEF ItemInv, Taken
<1>5. ASSUME NEW e \in Decoders, Emptied(e) PROVE ItemInv'
    <2>1. \A g \in Decoders : \A i \in 1..Len(jsQueue'[g]) :
             i \in 1..Len(jsQueue[g]) /\ jsQueue'[g][i] = jsQueue[g][i]
        BY <1>5, EmptiedIs
    <2>. QED
        BY <1>1, <1>5, <2>1 DEF ItemInv, Emptied
<1>6. ASSUME NEW e \in Decoders, NEW k \in 1..Len(jsOutputs[e]), Out(e, k) PROVE ItemInv'
    <2>1. item'.output = jsOutputs[e][k] /\ jsQueue' = jsQueue /\ k \in Nat
        BY <1>6 DEF Out
    <2>2. \A g \in Decoders : \A i \in 1..Len(jsQueue'[g]) : jsQueue'[g][i] # item'.output
        BY <1>1, <2>1 DEF DistinctInv
    <2>3. /\ \A g \in Decoders : g # e => jsOutputs'[g] = jsOutputs[g]
          /\ \A i \in 1..Len(jsOutputs'[e]) :
                /\ i \in Nat
                /\ \/ i < k /\ i \in 1..Len(jsOutputs[e]) /\ jsOutputs'[e][i] = jsOutputs[e][i]
                   \/ /\ i >= k /\ i + 1 \in 1..Len(jsOutputs[e])
                      /\ jsOutputs'[e][i] = jsOutputs[e][i + 1]
        BY <1>6, OutIs DEF RestOf
    <2>4. \A i \in 1..Len(jsOutputs'[e]) : jsOutputs'[e][i] # item'.output
        BY <1>1, <2>1, <2>3 DEF DistinctInv
    <2>5. \A g \in Decoders : g # e =>
             \A i \in 1..Len(jsOutputs'[g]) : jsOutputs'[g][i] # item'.output
        BY <1>1, <2>1, <2>3 DEF DistinctInv
    <2>. QED
        BY <2>2, <2>4, <2>5 DEF ItemInv
<1>. QED
    BY QueueSteps, <1>2, <1>3, <1>4, <1>5, <1>6

--------------------------------------------------------------------------------
(* What is owed *)

LEMMA InQueues ==
    ASSUME NEW q \in Queues, NEW o \in Queues, NEW n
    PROVE  n \in UNION {ToSet(q[g]) \cup ToSet(o[g]) : g \in Decoders} <=>
              \/ \E g \in Decoders : \E i \in 1..Len(q[g]) : n = q[g][i]
              \/ \E g \in Decoders : \E i \in 1..Len(o[g]) : n = o[g][i]
<1>1. \A g \in Decoders : q[g] \in Seq(Nat) /\ o[g] \in Seq(Nat)
    BY DEF Queues
<1>2. \A g \in Decoders : /\ n \in ToSet(q[g]) <=> \E i \in 1..Len(q[g]) : n = q[g][i]
                          /\ n \in ToSet(o[g]) <=> \E i \in 1..Len(o[g]) : n = o[g][i]
    BY <1>1, LenProperties DEF ToSet
<1>3. n \in UNION {ToSet(q[g]) \cup ToSet(o[g]) : g \in Decoders} <=>
         \E g \in Decoders : n \in ToSet(q[g]) \/ n \in ToSet(o[g])
    OBVIOUS
<1>. QED
    BY <1>2, <1>3

LEMMA OwedIs ==
    ASSUME IInv
    PROVE  \A n : n \in Owed <=>
              \/ n \in decoded + 1 .. handled
              \/ \E g \in Decoders : \E i \in 1..Len(jsQueue[g]) : n = jsQueue[g][i]
              \/ \E g \in Decoders : \E i \in 1..Len(jsOutputs[g]) : n = jsOutputs[g][i]
              \/ runner = "output" /\ n = item.output
<1>1. jsQueue \in Queues /\ jsOutputs \in Queues
    BY DEF IInv, TypeOK, Queues
<1>. DEFINE U == UNION {ToSet(jsQueue[g]) \cup ToSet(jsOutputs[g]) : g \in Decoders}
<1>2. Owed = (decoded + 1 .. handled) \cup U \cup (IF runner = "output" THEN {item.output} ELSE {})
    BY DEF Owed
<1>3. \A n : n \in U <=>
         \/ \E g \in Decoders : \E i \in 1..Len(jsQueue[g]) : n = jsQueue[g][i]
         \/ \E g \in Decoders : \E i \in 1..Len(jsOutputs[g]) : n = jsOutputs[g][i]
    BY <1>1, InQueues
<1>. HIDE DEF U
<1>4. \A n : n \in Owed <=> \/ n \in decoded + 1 .. handled \/ n \in U
                            \/ runner = "output" /\ n = item.output
    BY <1>2
<1>. QED
    BY <1>3, <1>4

LEMMA OwedNext ==
    ASSUME IInv, [Next]_vars
    PROVE  \A n : n \in Owed' <=>
              \/ n \in decoded' + 1 .. handled'
              \/ \E g \in Decoders : \E i \in 1..Len(jsQueue'[g]) : n = jsQueue'[g][i]
              \/ \E g \in Decoders : \E i \in 1..Len(jsOutputs'[g]) : n = jsOutputs'[g][i]
              \/ runner' = "output" /\ n = item'.output
<1>1. jsQueue' \in Queues /\ jsOutputs' \in Queues
    BY QueuesNext
<1>. DEFINE U == UNION {ToSet(jsQueue'[g]) \cup ToSet(jsOutputs'[g]) : g \in Decoders}
<1>2. Owed' = (decoded' + 1 .. handled') \cup U
                 \cup (IF runner' = "output" THEN {item'.output} ELSE {})
    BY DEF Owed
<1>3. \A n : n \in U <=>
         \/ \E g \in Decoders : \E i \in 1..Len(jsQueue'[g]) : n = jsQueue'[g][i]
         \/ \E g \in Decoders : \E i \in 1..Len(jsOutputs'[g]) : n = jsOutputs'[g][i]
    BY <1>1, InQueues
<1>. HIDE DEF U
<1>4. \A n : n \in Owed' <=> \/ n \in decoded' + 1 .. handled' \/ n \in U
                             \/ runner' = "output" /\ n = item'.output
    BY <1>2
<1>. QED
    BY <1>3, <1>4

LEMMA OwedFinite == ASSUME IInv PROVE IsFiniteSet(Owed) /\ IsFiniteSet(frames)
<1>1. /\ decoded \in Nat /\ handled \in Nat /\ decoded <= handled
      /\ \A n \in 1..decoded : n \in 1..handled
      /\ \A n \in decoded + 1 .. handled : n \in 1..handled
    BY DEF IInv, TypeOK, DecodedInv
<1>2. Owed \subseteq 1..handled
    BY <1>1, OwedIs DEF IInv, DecodedInv
<1>3. IsFiniteSet(1..handled)
    BY <1>1, FS_Interval
<1>. QED
    BY <1>2, <1>3, FS_Subset DEF IInv, CountInv

\* Nothing is owed anew but the frame handle_frame took.
LEMMA OwedStep ==
    ASSUME IInv, [Next]_vars
    PROVE  /\ Owed' \subseteq Owed \cup (IF handled' = handled THEN {} ELSE {handled + 1})
           /\ runner = "output" /\ runner' # "output" => item.output \notin Owed'
<1>. DEFINE Old == Owed \cup (IF handled' = handled THEN {} ELSE {handled + 1})
<1>1. /\ decoded \in Nat /\ handled \in Nat /\ handled' \in Nat /\ decoded <= handled
      /\ handled' = handled \/ handled' = handled + 1
      /\ DecodedInv /\ ItemInv
    BY HandledNext DEF IInv, DecodedInv
<1>2. \A n \in decoded + 1 .. handled' : n \in decoded + 1 .. handled \/ n = handled'
    BY <1>1
<1>3. decoded + 1 .. handled' \subseteq Old
    BY <1>1, <1>2, OwedIs
<1>4. \A n \in decoded + 2 .. handled' : n \in decoded + 1 .. handled'
    BY <1>1
<1>5. ASSUME NEW n \in Owed' PROVE n \in Old
    <2>1. CASE decoded' = decoded /\ Kept
               /\ HandKept
        BY <1>3, <1>5, <2>1, OwedIs, OwedNext DEF Kept, HandKept
    <2>2. CASE Kept /\ RunDecode /\ runner' = "dead"
        <3>1. decoded' = decoded + 1
            BY <2>2 DEF RunDecode
        <3>2. decoded + 1 + 1 = decoded + 2
            BY <1>1
        <3>. QED
            BY <1>3, <1>4, <1>5, <2>2, <3>1, <3>2, OwedIs, OwedNext DEF Kept
    <2>3. CASE Queued
        <3>1. decoded' = decoded + 1 /\ runner' = "idle" /\ jsOutputs' = jsOutputs
            BY <2>3 DEF Queued
        <3>2. decoded + 1 + 1 = decoded + 2 /\ decoded + 1 \in decoded + 1 .. handled
            BY <1>1, <2>3 DEF Queued
        <3>3. \A g \in Decoders : \A i \in 1..Len(jsQueue'[g]) : jsQueue'[g][i] \in Owed
            BY <2>3, <3>2, QueuedIs, OwedIs DEF MoreOf
        <3>. QED
            BY <1>3, <1>4, <1>5, <3>1, <3>2, <3>3, OwedIs, OwedNext
    <2>4. ASSUME NEW e \in Decoders, Taken(e) PROVE n \in Old
        <3>1. decoded' = decoded /\ runner' = runner /\ item' = item
            BY <2>4 DEF Taken
        <3>2. \A g \in Decoders : \A i \in 1..Len(jsQueue'[g]) : jsQueue'[g][i] \in Owed
            BY <2>4, TakenIs, OwedIs DEF TailOf
        <3>3. jsQueue[e][1] \in Owed
            BY <2>4, TakenIs, OwedIs DEF TailOf
        <3>4. \A g \in Decoders : \A i \in 1..Len(jsOutputs'[g]) : jsOutputs'[g][i] \in Owed
            BY <2>4, <3>3, TakenIs, OwedIs DEF MoreOf
        <3>. QED
            BY <1>3, <1>5, <3>1, <3>2, <3>4, OwedIs, OwedNext
    <2>5. ASSUME NEW e \in Decoders, Emptied(e) PROVE n \in Old
        <3>1. decoded' = decoded /\ runner' = runner /\ item' = item /\ jsOutputs' = jsOutputs
            BY <2>5 DEF Emptied
        <3>2. \A g \in Decoders : \A i \in 1..Len(jsQueue'[g]) : jsQueue'[g][i] \in Owed
            BY <2>5, EmptiedIs, OwedIs
        <3>. QED
            BY <1>3, <1>5, <3>1, <3>2, OwedIs, OwedNext
    <2>6. ASSUME NEW e \in Decoders, NEW k \in 1..Len(jsOutputs[e]), Out(e, k) PROVE n \in Old
        <3>1. decoded' = decoded /\ jsQueue' = jsQueue /\ item'.output = jsOutputs[e][k]
            BY <2>6 DEF Out
        <3>2. \A g \in Decoders : \A i \in 1..Len(jsOutputs'[g]) : jsOutputs'[g][i] \in Owed
            <4>1. \A i \in 1..Len(jsOutputs'[e]) : jsOutputs'[e][i] \in Owed
                BY <2>6, OutIs, OwedIs
            <4>2. \A g \in Decoders : g # e => jsOutputs'[g] = jsOutputs[g]
                BY <2>6, OutIs DEF RestOf
            <4>. QED
                BY <4>1, <4>2, OwedIs
        <3>3. jsOutputs[e][k] \in Owed
            BY OwedIs
        <3>. QED
            BY <1>3, <1>5, <3>1, <3>2, <3>3, OwedIs, OwedNext
    <2>. QED
        BY QueueSteps, <2>1, <2>2, <2>3, <2>4, <2>5, <2>6
<1>6. ASSUME runner = "output", runner' # "output" PROVE item.output \notin Owed'
    <2>1. decoded' = decoded /\ Kept
        BY <1>6, QueueSteps DEF Queued, Taken, Emptied, Out, RunDecode
    <2>2. item.output \in 1..decoded /\ \A n \in 1..decoded : n \notin decoded + 1 .. handled'
        BY <1>1, <1>6 DEF DecodedInv
    <2>. QED
        BY <1>1, <1>6, <2>1, <2>2, OwedNext DEF ItemInv, Kept
<1>. QED
    BY <1>5, <1>6

LEMMA CountNext == ASSUME IInv, [Next]_vars PROVE CountInv'
<1>1. /\ IsFiniteSet(Owed) /\ IsFiniteSet(frames)
      /\ Cardinality(Owed) \in Nat /\ Cardinality(frames) \in Nat
      /\ frames \subseteq 1..handled /\ handled \in Nat /\ resets \in Nat
      /\ element = "started" \/ resets # 0
      /\ resets = 0 => Cardinality(frames) >= Cardinality(Owed)
    BY OwedFinite, FS_CardinalityType DEF IInv, CountInv, TypeOK
<1>. USE DEF chainVars, negotVars, appVars, jsVars
<1>2. CASE HandleFrame
    <2>1. /\ handled' = handled + 1 /\ frames' = frames \cup {handled + 1}
          /\ resets' = resets /\ element' = element
        BY <1>2 DEF HandleFrame
    <2>2. /\ handled + 1 \notin frames /\ handled' # handled
          /\ \A n \in 1..handled : n \in 1..handled + 1
          /\ handled + 1 \in 1..handled + 1
        BY <1>1, <2>1
    <2>3. frames' \subseteq 1..handled'
        BY <1>1, <2>1, <2>2
    <2>4. Cardinality(frames') = Cardinality(frames) + 1
        BY <1>1, <2>1, <2>2, FS_AddElement
    <2>5. Owed' \subseteq Owed \cup {handled + 1}
        BY <2>2, OwedStep
    <2>6. /\ IsFiniteSet(Owed \cup {handled + 1})
          /\ Cardinality(Owed \cup {handled + 1}) <= Cardinality(Owed) + 1
        <3>1. /\ IsFiniteSet(Owed \cup {handled + 1})
              /\ \/ Cardinality(Owed \cup {handled + 1}) = Cardinality(Owed)
                 \/ Cardinality(Owed \cup {handled + 1}) = Cardinality(Owed) + 1
            BY <1>1, FS_AddElement, Zenon
        <3>. QED
            BY <1>1, <3>1
    <2>7. Cardinality(Owed') <= Cardinality(Owed \cup {handled + 1})
          /\ IsFiniteSet(Owed')
        BY <2>5, <2>6, FS_Subset
    <2>8. Cardinality(Owed') \in Nat /\ Cardinality(Owed \cup {handled + 1}) \in Nat
        BY <2>6, <2>7, FS_CardinalityType
    <2>9. resets' = 0 => Cardinality(frames') >= Cardinality(Owed')
        BY <1>1, <2>1, <2>4, <2>6, <2>7, <2>8
    <2>. QED
        BY <1>1, <2>1, <2>3, <2>9 DEF CountInv
<1>3. CASE FinishFrame
    <2>1. /\ handled' = handled /\ frames' = frames \ {Oldest} /\ runner = "output"
          /\ runner' = "push" /\ resets' = resets /\ element' = element
        BY <1>3 DEF FinishFrame
    <2>2. Cardinality(frames') >= Cardinality(frames) - 1
        <3>1. \/ Cardinality(frames \ {Oldest}) = Cardinality(frames)
              \/ Cardinality(frames \ {Oldest}) = Cardinality(frames) - 1
            BY <1>1, FS_RemoveElement, Zenon
        <3>. QED
            BY <1>1, <2>1, <3>1
    <2>3. item.output \in Owed
        BY <2>1, OwedIs
    <2>4. Owed' \subseteq Owed \ {item.output}
        BY <2>1, OwedStep
    <2>5. /\ IsFiniteSet(Owed \ {item.output})
          /\ Cardinality(Owed \ {item.output}) = Cardinality(Owed) - 1
        BY <1>1, <2>3, FS_RemoveElement
    <2>6. Cardinality(Owed') <= Cardinality(Owed \ {item.output}) /\ IsFiniteSet(Owed')
        BY <2>4, <2>5, FS_Subset
    <2>7. IsFiniteSet(frames')
        BY <1>1, <2>1, FS_Subset
    <2>8. Cardinality(Owed') \in Nat /\ Cardinality(frames') \in Nat
        BY <2>6, <2>7, FS_CardinalityType
    <2>9. resets' = 0 => Cardinality(frames') >= Cardinality(Owed')
        BY <1>1, <2>1, <2>2, <2>5, <2>6, <2>8
    <2>. QED
        BY <1>1, <2>1, <2>9 DEF CountInv
<1>4. CASE handled' = handled /\ frames' = frames /\ resets' = resets
           /\ (element' = element \/ element' = "started" \/ element # "started")
    <2>1. Owed' \subseteq Owed
        BY <1>4, OwedStep
    <2>2. Cardinality(Owed') <= Cardinality(Owed) /\ IsFiniteSet(Owed')
        BY <1>1, <2>1, FS_Subset
    <2>3. Cardinality(Owed') \in Nat
        BY <2>2, FS_CardinalityType
    <2>4. resets' = 0 => Cardinality(frames') >= Cardinality(Owed')
        BY <1>1, <1>4, <2>2, <2>3
    <2>. QED
        BY <1>1, <1>4, <2>4 DEF CountInv
<1>5. CASE Flush \/ Stop \/ BaseReset
    <2>1. /\ handled' = handled /\ (frames' = {} \/ frames' = frames)
          /\ resets' = resets + 1 \/ (resets' = resets /\ element = "stopping")
        BY <1>5 DEF Flush, Stop, BaseReset
    <2>2. resets' # 0
        BY <1>1, <2>1
    <2>. QED
        BY <1>1, <2>1, <2>2 DEF CountInv
<1>6. CASE Start
    BY <1>4, <1>6 DEF Start
<1>7. CASE SetFormat \/ ChainStep
    BY <1>4, <1>7 DEF SetFormat, ChainStep, Reserve, PostDecode, SetFormatConfigure,
            SetFormatReturn
<1>8. CASE RunnerStep
    BY <1>3, <1>4, <1>8 DEF RunnerStep, RunDecode, RunCtor, RunConfigure, OnDequeue, OnOutput,
            NullFrame, PushReturn
<1>9. CASE CodecStep \/ \E g \in Decoders : CodecError(g)
    BY <1>4, <1>9 DEF CodecStep, CodecTake, CodecError, OnError
<1>10. CASE UNCHANGED vars
    BY <1>4, <1>10 DEF vars
<1>. QED
    BY <1>2, <1>5, <1>6, <1>7, <1>8, <1>9, <1>10 DEF Next

--------------------------------------------------------------------------------
(* The order of one VideoDecoder *)

LEMMA OrderNext == ASSUME IInv, [Next]_vars PROVE OrderInv'
<1>. DEFINE Premise == ~reordered /\ cur <= 1 /\ resets = 0 /\ runner # "dead"
<1>. USE DEF jsVars, chainVars, negotVars, appVars
<1>1. /\ TypeOK /\ FormatInv /\ handled \in Nat /\ decoded \in Nat /\ decoded <= handled
      /\ cur \in Nat /\ resets \in Nat /\ 1 \in Decoders
    BY DecoderAssumption DEF IInv, TypeOK, DecodedInv, Decoders
<1>2. \A g \in Decoders : g \in Nat \ {0} /\ (g <= cur /\ cur <= 1 => g = 1)
    BY <1>1 DEF Decoders
<1>3. Premise => \E k \in 0..handled : Follows(k)
    BY DEF IInv, OrderInv
<1>hand. InHand \in Nat
    BY DEF InHand
<1>out. PICK lo \in Nat : Len(jsOutputs[1]) = lo
    BY <1>1, LenProperties DEF TypeOK
<1>queue. PICK lq \in Nat : Len(jsQueue[1]) = lq
    BY <1>1, LenProperties DEF TypeOK
<1>k. \A k \in 0..handled : k \in Nat
    BY <1>1
<1>5. CASE /\ Premise' => Premise
           /\ UNCHANGED <<handled, frames, item, decoded, jsQueue, jsOutputs>>
           /\ runner' = "output" <=> runner = "output"
           /\ Premise /\ jsState'[1] # "closed" => jsState[1] # "closed"
    BY <1>3, <1>5 DEF OrderInv, Follows, InHand
<1>6. CASE HandleFrame
    <2>1. SUFFICES ASSUME Premise, NEW k \in 0..handled, Follows(k)
                   PROVE  OrderInv'
        BY <1>3, <1>6 DEF HandleFrame, OrderInv
    <2>2. /\ handled' = handled + 1 /\ frames' = frames \cup {handled + 1}
          /\ UNCHANGED <<runner, item, decoded, jsVars>>
        BY <1>6 DEF HandleFrame
    <2>3. k \in 0..handled + 1 /\ (k + 1 .. handled) \cup {handled + 1} = k + 1 .. handled + 1
        BY <1>1
    <2>4. frames' = k + 1 .. handled'
        BY <2>1, <2>2, <2>3 DEF Follows
    <2>5. Follows(k)'
        BY <2>1, <2>2, <2>4 DEF Follows, InHand
    <2>. QED
        BY <2>2, <2>3, <2>5 DEF OrderInv
<1>7. CASE RunDecode
    <2>1. SUFFICES ASSUME Premise, Premise', NEW k \in 0..handled, Follows(k)
                   PROVE  Follows(k)'
        BY <1>3, <1>7 DEF RunDecode, OrderInv
    <2>2. /\ cur # 0 /\ jsState[cur] = "configured" /\ decoded' = decoded + 1
          /\ jsQueue' = [jsQueue EXCEPT ![cur] = Append(@, decoded + 1)]
          /\ UNCHANGED <<handled, frames, runner, item, jsState, jsOutputs>>
        BY <1>7, <2>1 DEF RunDecode
    <2>3. cur = 1
        BY <1>1, <2>1, <2>2
    <2>4. Queued
        BY <1>1, <1>7, <2>2, <2>3 DEF Queued, RunDecode, Posted
    <2>5. /\ Len(jsQueue'[1]) = Len(jsQueue[1]) + 1
          /\ \A i \in 1..Len(jsQueue'[1]) :
                \/ i \in 1..Len(jsQueue[1]) /\ jsQueue'[1][i] = jsQueue[1][i]
                \/ i = Len(jsQueue[1]) + 1 /\ jsQueue'[1][i] = decoded + 1
        BY <1>1, <2>3, <2>4, QueuedIs DEF MoreOf
    <2>6. decoded = k + InHand + Len(jsOutputs[1]) + Len(jsQueue[1])
        BY <2>1, <2>2, <2>3 DEF Follows
    <2>7. \A i \in 1..Len(jsQueue[1]) : jsQueue[1][i] = k + InHand + Len(jsOutputs[1]) + i
        BY <2>1 DEF Follows
    <2>8. /\ decoded' = k + InHand + Len(jsOutputs[1]) + Len(jsQueue'[1])
          /\ decoded + 1 = k + InHand + Len(jsOutputs[1]) + (Len(jsQueue[1]) + 1)
        <3>1. k \in Nat
            BY <1>k
        <3>2. decoded' = decoded + 1
            BY <2>2
        <3>3. Len(jsQueue'[1]) = lq + 1
            BY <1>queue, <2>5
        <3>4. decoded = k + InHand + lo + lq
            BY <1>out, <1>queue, <2>6
        <3>. QED
            BY <1>hand, <1>out, <1>queue, <3>1, <3>2, <3>3, <3>4
    <2>9. \A i \in 1..Len(jsQueue'[1]) : jsQueue'[1][i] = k + InHand + Len(jsOutputs[1]) + i
        BY <2>5, <2>7, <2>8
    <2>10. InHand' = InHand
        BY <2>2 DEF InHand
    <2>. QED
        BY <2>1, <2>2, <2>8, <2>9, <2>10 DEF Follows
<1>8. CASE RunCtor
    <2>1. cur' = cur + 1 /\ UNCHANGED <<handled, frames, runner, item, decoded, jsQueue,
                                       jsOutputs, reordered, resets>>
        BY <1>8 DEF RunCtor
    <2>2. Premise' => Premise /\ cur = 0
        BY <1>1, <2>1
    <2>3. cur = 0 => jsState[1] # "closed"
        BY <1>1 DEF FormatInv
    <2>4. SUFFICES ASSUME Premise', NEW k \in 0..handled, Follows(k) PROVE Follows(k)'
        BY <1>3, <2>1, <2>2 DEF OrderInv
    <2>. QED
        BY <2>1, <2>2, <2>3, <2>4 DEF Follows, InHand
<1>9. CASE RunConfigure
    <2>1. UNCHANGED <<handled, frames, runner, item, decoded, jsQueue, jsOutputs, reordered,
                      resets, cur>>
        BY <1>9 DEF RunConfigure
    <2>2. cur # 0 /\ jsState[cur] = "unconfigured"
        BY <1>1, <1>9 DEF RunConfigure, RunFormat, FormatInv
    <2>3. Premise => jsState[1] # "closed"
        BY <1>1, <2>2
    <2>. QED
        BY <1>5, <2>1, <2>3
<1>10. ASSUME NEW g \in Decoders, NEW i \in Frame, OnOutput(g, i) PROVE OrderInv'
    <2>1. SUFFICES ASSUME Premise, Premise', NEW k \in 0..handled, Follows(k)
                   PROVE  Follows(k)'
        BY <1>3, <1>10 DEF OnOutput, OrderInv
    <2>2. i \in 1..Len(jsOutputs[g]) /\ Out(g, i)
        BY <1>10 DEF OnOutput, Out, Without
    <2>3. i = 1 /\ jsOutputs[g] # <<>>
        <3>1. i \in 1..MaxFrames /\ MaxFrames \in Nat /\ ~(i > 1)
            BY <1>10, <2>1, DecoderAssumption DEF OnOutput, Frame
        <3>2. jsOutputs[g] # <<>>
            BY <2>2
        <3>. QED
            BY <3>1, <3>2
    <2>4. g = 1
        BY <1>1, <1>2, <2>1, <2>3, EventOfCurrent
    <2>5. /\ UNCHANGED <<handled, frames, decoded, jsQueue, jsState>>
          /\ item'.output = jsOutputs[1][1] /\ InHand = 0 /\ InHand' = 1
          /\ runner' = "output"
        BY <1>10, <2>3, <2>4 DEF OnOutput, InHand
    <2>6. /\ Len(jsOutputs'[1]) = Len(jsOutputs[1]) - 1 /\ 1 \in 1..Len(jsOutputs[1])
          /\ \A j \in 1..Len(jsOutputs'[1]) :
                /\ j \in Nat /\ j + 1 \in 1..Len(jsOutputs[1])
                /\ jsOutputs'[1][j] = jsOutputs[1][j + 1]
        <3>1. /\ RestOf(jsOutputs', jsOutputs, 1, 1)
              /\ \A j \in 1..Len(jsOutputs'[1]) :
                    /\ j \in Nat
                    /\ \/ j < 1
                       \/ /\ j >= 1 /\ j + 1 \in 1..Len(jsOutputs[1])
                          /\ jsOutputs'[1][j] = jsOutputs[1][j + 1]
            BY <1>1, <2>2, <2>3, <2>4, OutIs
        <3>2. \A j \in 1..Len(jsOutputs'[1]) : ~(j < 1)
            OBVIOUS
        <3>. QED
            BY <2>2, <2>3, <2>4, <3>1, <3>2 DEF RestOf
    <2>7. item'.output = k + 1
        BY <1>hand, <1>out, <1>queue, <2>1, <2>5, <2>6 DEF Follows
    <2>8. \A j \in 1..Len(jsOutputs'[1]) : jsOutputs'[1][j] = k + InHand' + j
        <3>1. \A j \in 1..Len(jsOutputs'[1]) : jsOutputs[1][j + 1] = k + 0 + (j + 1)
            BY <2>1, <2>5, <2>6 DEF Follows
        <3>2. \A j \in Nat : k + 0 + (j + 1) = k + 1 + j
            OBVIOUS
        <3>. QED
            BY <2>5, <2>6, <3>1, <3>2
    <2>9. k + InHand' + Len(jsOutputs'[1]) = k + InHand + Len(jsOutputs[1])
        <3>1. k \in Nat
            BY <1>k
        <3>. QED
            BY <1>hand, <1>out, <1>queue, <2>5, <2>6, <3>1
    <2>. QED
        BY <2>1, <2>5, <2>7, <2>8, <2>9 DEF Follows
<1>11. CASE FinishFrame
    <2>1. SUFFICES ASSUME Premise, Premise', NEW k \in 0..handled, Follows(k)
                   PROVE  k + 1 \in 0..handled' /\ Follows(k + 1)'
        BY <1>3, <1>11 DEF FinishFrame, OrderInv
    <2>2. /\ runner = "output" /\ runner' = "push" /\ frames' = frames \ {Oldest}
          /\ UNCHANGED <<handled, item, decoded, jsVars>>
        BY <1>11 DEF FinishFrame
    <2>3. item.output = k + 1 /\ k + 1 \in 1..handled
        <3>1. item.output = k + 1 /\ item.output \in 1..decoded
            BY <2>1, <2>2 DEF Follows, IInv, DecodedInv
        <3>. QED
            BY <1>1, <3>1
    <2>4. Oldest = k + 1
        <3>1. frames = k + 1 .. handled
            BY <2>1 DEF Follows
        <3>2. k + 1 \in frames /\ \A e \in frames : k + 1 <= e
            BY <2>3, <3>1
        <3>3. \A f \in frames : (\A e \in frames : f <= e) => f = k + 1
            BY <3>1, <3>2
        <3>. QED
            BY <3>2, <3>3 DEF Oldest
    <2>5. frames' = (k + 1) + 1 .. handled
        BY <1>1, <2>1, <2>2, <2>4 DEF Follows
    <2>6. InHand = 1 /\ InHand' = 0 /\ (k + 1) + 0 = k + 1
        BY <2>2 DEF InHand
    <2>7. Follows(k + 1)'
        BY <2>1, <2>2, <2>5, <2>6 DEF Follows
    <2>. QED
        BY <2>2, <2>3, <2>7
<1>12. CASE NullFrame
    BY <1>12 DEF NullFrame, OrderInv
<1>13. CASE PushReturn
    <2>1. SUFFICES ASSUME Premise, Premise', NEW k \in 0..handled, Follows(k)
                   PROVE  Follows(k)'
        BY <1>3, <1>13 DEF PushReturn, OrderInv
    <2>2. /\ runner = "push" /\ runner' = "idle" /\ InHand' = InHand
          /\ UNCHANGED <<handled, frames, decoded, jsVars>>
        BY <1>13 DEF PushReturn, InHand
    <2>. QED
        BY <2>1, <2>2 DEF Follows
<1>14. ASSUME NEW g \in Decoders, CodecTake(g) PROVE OrderInv'
    <2>1. SUFFICES ASSUME Premise, Premise', NEW k \in 0..handled, Follows(k)
                   PROVE  Follows(k)'
        BY <1>3, <1>14 DEF CodecTake, OrderInv
    <2>2. g = 1 /\ Taken(1)
        <3>1. jsQueue[g] # <<>> /\ Taken(g)
            BY <1>14 DEF CodecTake, Taken
        <3>. QED
            BY <1>1, <1>2, <2>1, <3>1, EventOfCurrent
    <2>3. UNCHANGED <<handled, frames, decoded, runner, item, jsState>> /\ InHand' = InHand
        BY <1>14 DEF CodecTake, InHand
    <2>4. /\ TailOf(jsQueue', jsQueue, 1)
          /\ MoreOf(jsOutputs', jsOutputs, 1, jsQueue[1][1])
        BY <1>1, <2>2, TakenIs
    <2>5. jsQueue[1][1] = k + InHand + Len(jsOutputs[1]) + 1
        BY <2>1, <2>4 DEF Follows, TailOf
    <2>6. \A i \in 1..Len(jsOutputs'[1]) : jsOutputs'[1][i] = k + InHand + i
        <3>1. \A i \in 1..Len(jsOutputs'[1]) :
                 \/ i \in 1..Len(jsOutputs[1]) /\ jsOutputs'[1][i] = jsOutputs[1][i]
                 \/ i = Len(jsOutputs[1]) + 1 /\ jsOutputs'[1][i] = jsQueue[1][1]
            BY <1>1, <2>4 DEF MoreOf
        <3>0. k \in Nat
            BY <1>k
        <3>2. k + InHand + Len(jsOutputs[1]) + 1 = k + InHand + (Len(jsOutputs[1]) + 1)
            BY <1>hand, <1>out, <1>queue, <3>0
        <3>3. \A i \in 1..Len(jsOutputs[1]) : jsOutputs[1][i] = k + InHand + i
            BY <2>1 DEF Follows
        <3>. QED
            BY <2>5, <3>1, <3>2, <3>3
    <2>7. /\ Len(jsOutputs'[1]) = Len(jsOutputs[1]) + 1
          /\ Len(jsQueue'[1]) = Len(jsQueue[1]) - 1
        BY <2>4 DEF TailOf, MoreOf
    <2>8. \A i \in 1..Len(jsQueue'[1]) :
             jsQueue'[1][i] = k + InHand + Len(jsOutputs'[1]) + i
        <3>1. \A i \in 1..Len(jsQueue'[1]) :
                 i + 1 \in 1..Len(jsQueue[1]) /\ jsQueue'[1][i] = jsQueue[1][i + 1]
            BY <2>4 DEF TailOf
        <3>2. \A i \in 1..Len(jsQueue'[1]) :
                 jsQueue'[1][i] = k + InHand + Len(jsOutputs[1]) + (i + 1)
            BY <2>1, <3>1 DEF Follows
        <3>0. k \in Nat
            BY <1>k
        <3>3. \A i \in Nat : k + InHand + Len(jsOutputs[1]) + (i + 1)
                                = k + InHand + (Len(jsOutputs[1]) + 1) + i
            BY <1>hand, <1>out, <1>queue, <3>0
        <3>4. \A i \in 1..Len(jsQueue'[1]) : i \in Nat
            OBVIOUS
        <3>. QED
            BY <2>7, <3>2, <3>3, <3>4
    <2>9. k + InHand + Len(jsOutputs'[1]) + Len(jsQueue'[1])
              = k + InHand + Len(jsOutputs[1]) + Len(jsQueue[1])
        <3>1. k \in Nat
            BY <1>k
        <3>. QED
            BY <1>hand, <1>out, <1>queue, <2>7, <3>1
    <2>. QED
        BY <2>1, <2>3, <2>6, <2>8, <2>9 DEF Follows
<1>15. ASSUME NEW g \in Decoders, CodecError(g) PROVE OrderInv'
    <2>1. SUFFICES ASSUME Premise, Premise', NEW k \in 0..handled, Follows(k)
                   PROVE  Follows(k)'
        BY <1>3, <1>15 DEF CodecError, OrderInv
    <2>2. g = 1
        <3>1. ~(g > cur)
            BY <1>1, <1>15 DEF CodecError, FormatInv
        <3>. QED
            BY <1>1, <1>2, <2>1, <3>1
    <2>3. /\ UNCHANGED <<handled, frames, runner, item, jsOutputs>>
          /\ InHand' = InHand /\ jsState'[1] = "closed"
        BY <1>1, <1>15, <2>2 DEF CodecError, OnError, InHand, TypeOK
    <2>4. Emptied(1)
        BY <1>15, <2>2 DEF CodecError, Emptied
    <2>5. Len(jsQueue'[1]) = 0
        BY <1>1, <2>4, EmptiedIs
    <2>. QED
        BY <2>1, <2>3, <2>5 DEF Follows
<1>16. CASE Flush \/ Stop
    <2>1. resets' # 0
        BY <1>1, <1>16 DEF Flush, Stop
    <2>. QED
        BY <2>1 DEF OrderInv
<1>17. CASE BaseReset
    <2>1. resets' # 0
        BY <1>17 DEF BaseReset, IInv, CountInv
    <2>. QED
        BY <2>1 DEF OrderInv
<1>18. CASE UNCHANGED <<handled, frames, item, decoded, jsQueue, jsOutputs, runner, jsState,
                        reordered, cur, resets>>
    BY <1>5, <1>18
<1>19. CASE Start \/ SetFormat \/ ChainStep \/ UNCHANGED vars
    BY <1>18, <1>19 DEF Start, SetFormat, ChainStep, Reserve, PostDecode, SetFormatConfigure,
            SetFormatReturn, vars
<1>20. ASSUME NEW g \in Decoders, OnDequeue(g) PROVE OrderInv'
    BY <1>18, <1>20 DEF OnDequeue
<1>21. CASE RunnerStep
    BY <1>7, <1>8, <1>9, <1>10, <1>11, <1>12, <1>13, <1>20, <1>21 DEF RunnerStep
<1>22. CASE CodecStep \/ \E g \in Decoders : CodecError(g)
    BY <1>14, <1>15, <1>22 DEF CodecStep
<1>. QED
    BY <1>6, <1>16, <1>17, <1>19, <1>21, <1>22 DEF Next

--------------------------------------------------------------------------------
(* The theorems *)

\* The inductive invariant, of every step of the four parties.
THEOREM Invariance == Spec => []IInv
<1>1. Init => IInv
    BY InitInv
<1>2. IInv /\ [Next]_vars => IInv'
    BY TypeNext, FormatNext, DecodedNext, DistinctNext, ItemNext, CountNext, OrderNext DEF IInv
<1>. QED
    BY <1>1, <1>2, PTL DEF Spec

\* Until the first flush or stop, on_output finds a pending frame for every VideoFrame,
\* in any order and of any VideoDecoder: gst_video_decoder_get_oldest_frame is not NULL.
THEOREM OutputHasFrame == Spec => []EveryOutputHasFrame
<1>1. IInv => EveryOutputHasFrame
    BY DEF IInv, CountInv, EveryOutputHasFrame
<1>. QED
    BY <1>1, Invariance, PTL

\* The frame that on_output takes for a VideoFrame is the one it was decoded from, with
\* one VideoDecoder that outputs in order.
THEOREM OutputMatches == Spec => []OutputMatchesFrame
<1>1. IInv => OutputMatchesFrame
    <2>1. SUFFICES ASSUME IInv, runner = "output", ~reordered, cur = 1, resets = 0
                   PROVE  frames # {} /\ Oldest = item.output
        BY DEF OutputMatchesFrame
    <2>2. PICK k \in 0..handled : Follows(k)
        BY <2>1 DEF IInv, OrderInv
    <2>3. handled \in Nat /\ decoded \in Nat /\ decoded <= handled
        BY <2>1 DEF IInv, TypeOK, DecodedInv
    <2>4. frames = k + 1 .. handled /\ item.output = k + 1 /\ item.output \in 1..decoded
        BY <2>1, <2>2 DEF Follows, IInv, DecodedInv
    <2>5. k + 1 \in frames /\ \A e \in frames : k + 1 <= e
        BY <2>3, <2>4
    <2>6. \A f \in frames : (\A e \in frames : f <= e) => f = k + 1
        BY <2>4, <2>5
    <2>. QED
        BY <2>4, <2>5, <2>6 DEF Oldest
<1>. QED
    BY <1>1, Invariance, PTL

--------------------------------------------------------------------------------
(* Samples *)

\* A multiple divided by its factor: the number of samples of a buffer is its
\* size over the size of a frame.
LEMMA DivMultiple ==
    ASSUME NEW a \in Nat, NEW b \in Nat \ {0}
    PROVE  (a * b) \div b = a
  BY SMT

LEMMA DivMultipleLeft ==
    ASSUME NEW a \in Nat, NEW b \in Nat \ {0}
    PROVE  (b * a) \div b = a
  BY DivMultiple, SMT

\* The total size of an AudioData: its planes together hold the frames of all
\* channels.
LEMMA TotalSizeIs ==
    ASSUME NEW f \in SampleFormats, NEW c \in Channels, NEW n \in Frames
    PROVE  /\ Width(f) \in Nat \ {0} /\ c \in Nat \ {0} /\ n \in Nat \ {0}
           /\ TotalSize(f, c, n) = n * (c * Width(f))
  <1>1. Width(f) \in {1, 2, 4} /\ c \in Nat \ {0} /\ n \in Nat \ {0}
    BY CodecsAssumption DEF SampleFormats, Width
  <1>2. CASE Planar(f)
    <2>1. TotalSize(f, c, n) = c * (n * Width(f))
      BY <1>2 DEF TotalSize, Planes, PlaneSize
    <2> QED BY <1>1, <2>1, SMT
  <1>3. CASE ~Planar(f)
    <2>1. TotalSize(f, c, n) = 1 * (n * c * Width(f))
      BY <1>3 DEF TotalSize, Planes, PlaneSize
    <2> QED BY <1>1, <2>1, SMT
  <1> QED BY <1>1, <1>2, <1>3

\* The output_info of an AudioData, if it is its own.
InfoOf(f, c) == [format |-> f, channels |-> c]

\* on_output tells the GstAudioMeta the number of frames that the AudioData has, if
\* output_info is its own.
LEMMA SamplesAreFrames ==
    ASSUME NEW f \in SampleFormats, NEW c \in Channels, NEW n \in Frames
    PROVE  Samples(InfoOf(f, c), TotalSize(f, c, n)) = n
  <1> DEFINE b == c * Width(f)
  <1>1. b \in Nat \ {0} /\ n \in Nat
    BY TotalSizeIs, SMT
  <1>2. Samples(InfoOf(f, c), TotalSize(f, c, n)) = (n * b) \div b
    <2>1. InfoOf(f, c).channels = c /\ InfoOf(f, c).format = f
      BY DEF InfoOf
    <2> QED BY <2>1, TotalSizeIs DEF Samples
  <1> HIDE DEF b
  <1> QED BY <1>1, <1>2, DivMultiple

\* Every plane begins where the GstAudioMeta looks for it, with its own output_info,
\* and ends within the buffer.
LEMMA PlaneInPlace ==
    ASSUME NEW f \in SampleFormats, NEW c \in Channels, NEW n \in Frames,
           NEW p \in 0..Planes(f, c) - 1
    PROVE  /\ CopyOffset(f, c, n, p) = MetaOffset(InfoOf(f, c), n, p)
           /\ CopyOffset(f, c, n, p) + PlaneSize(f, c, n) <= TotalSize(f, c, n)
  <1> DEFINE s == PlaneSize(f, c, n)
             k == Planes(f, c)
  <1>1. Width(f) \in Nat \ {0} /\ c \in Nat \ {0} /\ n \in Nat \ {0}
    BY TotalSizeIs
  <1>2. k \in Nat \ {0} /\ p \in 0..k - 1
    BY <1>1 DEF Planes
  <1>3. s \in Nat
    BY <1>1, SMT DEF PlaneSize
  <1>4. CopyOffset(f, c, n, p) = p * s /\ TotalSize(f, c, n) = k * s
    BY DEF CopyOffset, TotalSize
  <1>5. MetaOffset(InfoOf(f, c), n, p) = p * n * Width(f)
    BY DEF MetaOffset, InfoOf
  <1>6. p * s = p * n * Width(f)
    <2>1. CASE Planar(f)
      <3>1. s = n * Width(f)
        BY <2>1 DEF PlaneSize
      <3> QED BY <1>1, <1>2, <3>1, SMT
    <2>2. CASE ~Planar(f)
      <3>1. p = 0
        BY <2>2, <1>2 DEF Planes
      <3> QED BY <1>1, <1>3, <3>1, SMT
    <2> QED BY <2>1, <2>2
  <1>7. p * s + s <= k * s
    <2> HIDE DEF s, k
    <2>1. p * s + s = (p + 1) * s /\ p + 1 <= k /\ p \in Nat
      BY <1>2, <1>3, SMT
    <2>2. (p + 1) * s <= k * s
      BY <1>2, <1>3, <2>1, SMT
    <2> QED BY <2>1, <2>2
  <1> QED BY <1>4, <1>5, <1>6, <1>7

\* The positions are those of GStreamer's order, or none.
LEMMA PositionsOrdered ==
    ASSUME NEW c \in Channels
    PROVE  \/ \A i, j \in DOMAIN Positions(c) : i < j => Positions(c)[i] < Positions(c)[j]
           \/ \A i \in DOMAIN Positions(c) : Positions(c)[i] = None
  <1>1. c \in Nat \ {0}
    BY CodecsAssumption
  <1>2. CASE c = 1
    <2>1. Positions(c) = <<Mono>>
      BY <1>2 DEF Positions
    <2>2. DOMAIN Positions(c) = {1}
      BY <2>1
    <2> QED BY <2>2, SMT
  <1>3. CASE c \in {2, 6}
    <2>1. Positions(c) = [i \in 1..c |-> i - 1]
      BY <1>3 DEF Positions
    <2> QED BY <1>1, <2>1, SMT
  <1>4. CASE c \notin {1, 2, 6}
    <2>1. Positions(c) = [i \in 1..c |-> None]
      BY <1>4 DEF Positions
    <2> QED BY <2>1
  <1> QED BY <1>2, <1>3, <1>4

--------------------------------------------------------------------------------
(* The scan *)

\* How many profiles and levels are asked for.
LEMMA Counts == NProfiles = 21 /\ NLevels = 19
  BY DEF NProfiles, NLevels, ProfileNames, LevelNames

\* The questions before profile i and level j are asked for.
Before(i, j, p, l) == i < p \/ (i = p /\ j < l)

\* One of them was answered by yes, for the codec that has this name.
AnsweredBefore(name, p, l) ==
    \E i \in 1..NProfiles, j \in 1..NLevels :
        Before(i, j, p, l) /\ CodecString(i, j) \in decodes[name]

\* When the loops are through, all of them were asked.
AnsweredAtAll(name) ==
    \E i \in 1..NProfiles, j \in 1..NLevels : CodecString(i, j) \in decodes[name]

Registered(name) == \E e \in elements : e.name = name

\* The inductive invariant of the scan.
ScanInv ==
    /\ CodecsTypeOK
    /\ codec \in {"H264SW", "H264HW"} => (supported <=> AnsweredBefore(codec, profile, level))
    /\ codec = "H264SW" => ~Registered("H264SW")
    /\ codec # "H264SW" => (Registered("H264SW") <=> AnsweredAtAll("H264SW"))
    /\ codec \in {"H264SW", "H264HW"} => ~Registered("H264HW")
    /\ codec \in {"AACSW", "done"} => (Registered("H264HW") <=> AnsweredAtAll("H264HW"))

\* Nothing is asked before the first question.
LEMMA NothingBefore == \A name : ~AnsweredBefore(name, 1, 1)
  BY Counts DEF AnsweredBefore, Before

\* One more question.
LEMMA OneMore ==
    ASSUME NEW name, NEW p \in 1..NProfiles, NEW l \in 1..NLevels, NEW p1, NEW l1,
           IF l < NLevels THEN p1 = p /\ l1 = l + 1 ELSE p1 = p + 1 /\ l1 = 1
    PROVE  AnsweredBefore(name, p1, l1) <=>
              AnsweredBefore(name, p, l) \/ CodecString(p, l) \in decodes[name]
  <1>1. ASSUME NEW i \in 1..NProfiles, NEW j \in 1..NLevels
        PROVE  Before(i, j, p1, l1) <=> Before(i, j, p, l) \/ (i = p /\ j = l)
    BY Counts DEF Before
  <1> QED BY <1>1 DEF AnsweredBefore

\* After the last one all are answered.
LEMMA AllBefore ==
    ASSUME NEW name, NEW p \in Nat, NEW l, p > NProfiles
    PROVE  AnsweredBefore(name, p, l) <=> AnsweredAtAll(name)
  <1>1. ASSUME NEW i \in 1..NProfiles, NEW j \in 1..NLevels
        PROVE  Before(i, j, p, l)
    BY Counts DEF Before
  <1> QED BY <1>1 DEF AnsweredBefore, AnsweredAtAll

\* The profiles and levels of the tables that are asked for: of the others the codec
\* string has a profile or a level of zero.
LEMMA ProfileTable ==
    /\ SpsProfile(ProfileNames[1]) = <<66, 64>> /\ SpsProfile(ProfileNames[2]) = <<66, 0>>
    /\ SpsProfile(ProfileNames[3]) = <<77, 0>> /\ SpsProfile(ProfileNames[4]) = <<88, 0>>
    /\ \A i \in 5..NProfiles : SpsProfile(ProfileNames[i]) = <<0, 0>>
  <1>1. /\ ProfileNames[1] = "constrained-baseline" /\ ProfileNames[2] = "baseline"
        /\ ProfileNames[3] = "main" /\ ProfileNames[4] = "extended"
    BY DEF ProfileNames
  <1>2. ASSUME NEW i \in 5..NProfiles
        PROVE  ProfileNames[i] \notin {"constrained-baseline", "baseline", "main", "extended"}
    BY Counts DEF ProfileNames
  <1> QED BY <1>1, <1>2 DEF SpsProfile

LEMMA LevelTable ==
    {LevelIdc[j] : j \in 1..NLevels} =
        {0, 10, 11, 12, 13, 20, 21, 22, 30, 31, 32, 40, 41, 42, 50, 51, 60, 61}
  BY Counts DEF LevelIdc

LEMMA AppendThird ==
    ASSUME NEW a \in Nat, NEW b \in Nat, NEW x \in Nat
    PROVE  Append(<<a, b>>, x) = <<a, b, x>>
  <1> DEFINE s == <<a, b>>
  <1>1. s \in Seq(Nat) /\ Len(s) = 2 /\ s[1] = a /\ s[2] = b
    OBVIOUS
  <1> HIDE DEF s
  <1>2. PICK t : /\ t = Append(s, x)
                 /\ t \in Seq(Nat) /\ Len(t) = Len(s) + 1
                 /\ \A i \in 1..Len(s) : t[i] = s[i]
                 /\ t[Len(s) + 1] = x
    BY <1>1, AppendProperties, ZenonT(40)
  <1>3. t \in Seq(Nat) /\ Len(t) = 3 /\ t[1] = a /\ t[2] = b /\ t[3] = x
    BY <1>1, <1>2
  <1>4. t = <<a, b, x>>
    BY <1>3
  <1> QED BY <1>2, <1>4 DEF s

\* What the tables leave to be asked for.
LEMMA AskedIsAskable ==
    ASSUME NEW c \in Configs
    PROVE  (\E i \in 1..NProfiles, j \in 1..NLevels : CodecString(i, j) = c) <=> c \in Askable
  <1>1. PICK q \in {<<66, 64>>, <<66, 0>>, <<77, 0>>, <<88, 0>>, <<100, 0>>}, l \in Levels :
            c = <<q[1], q[2], l>>
    BY DEF Configs
  <1>2. l # 0
    BY CodecsAssumption
  <1>3. c \in Askable <=>
            /\ q # <<100, 0>>
            /\ l \in {10, 11, 12, 13, 20, 21, 22, 30, 31, 32, 40, 41, 42, 50, 51, 60, 61}
    BY <1>1 DEF Askable
  <1>4. ASSUME NEW i \in 1..NProfiles, NEW j \in 1..NLevels
        PROVE  CodecString(i, j) = c <=> SpsProfile(ProfileNames[i]) = q /\ LevelIdc[j] = l
    <2>1. PICK a \in Nat, b \in Nat : SpsProfile(ProfileNames[i]) = <<a, b>>
      <3>1. i \in {1, 2, 3, 4} \/ i \in 5..NProfiles
        BY Counts
      <3> QED BY <3>1, ProfileTable
    <2>2. CodecString(i, j) = <<a, b, LevelIdc[j]>>
      <3>1. PICK x \in Nat : x = LevelIdc[j]
        BY LevelTable
      <3>2. Append(<<a, b>>, x) = <<a, b, x>>
        BY AppendThird
      <3> QED BY <2>1, <3>1, <3>2 DEF CodecString
    <2>3. PICK q1 \in Nat, q2 \in Nat : q = <<q1, q2>>
      OBVIOUS
    <2>4. c = <<q1, q2, l>>
      BY <1>1, <2>3
    <2>5. CodecString(i, j) = c <=> a = q1 /\ b = q2 /\ LevelIdc[j] = l
      BY <2>2, <2>4
    <2>6. <<a, b>> = <<q1, q2>> <=> a = q1 /\ b = q2
      OBVIOUS
    <2> QED BY <2>1, <2>3, <2>5, <2>6
  <1>5. (\E i \in 1..NProfiles : SpsProfile(ProfileNames[i]) = q) <=> q # <<100, 0>>
    <2>1. {1, 2, 3, 4} \subseteq 1..NProfiles
      BY Counts
    <2>2. ASSUME NEW i \in 1..NProfiles, SpsProfile(ProfileNames[i]) = q
          PROVE  q # <<100, 0>>
      <3>1. i \in {1, 2, 3, 4} \/ i \in 5..NProfiles
        BY Counts
      <3>2. <<0, 0>> # <<100, 0>> /\ <<66, 64>> # <<100, 0>> /\ <<66, 0>> # <<100, 0>>
            /\ <<77, 0>> # <<100, 0>> /\ <<88, 0>> # <<100, 0>>
        OBVIOUS
      <3> QED BY <2>2, <3>1, <3>2, ProfileTable
    <2> QED BY <2>1, <2>2, ProfileTable
  <1>6. (\E j \in 1..NLevels : LevelIdc[j] = l) <=>
            l \in {10, 11, 12, 13, 20, 21, 22, 30, 31, 32, 40, 41, 42, 50, 51, 60, 61}
    <2>1. (\E j \in 1..NLevels : LevelIdc[j] = l) <=> l \in {LevelIdc[j] : j \in 1..NLevels}
      OBVIOUS
    <2> QED BY <1>2, <2>1, LevelTable
  <1> QED BY <1>3, <1>4, <1>5, <1>6

LEMMA AnsweredIsAskable ==
    ASSUME NEW name, decodes[name] \subseteq Configs
    PROVE  AnsweredAtAll(name) <=> decodes[name] \cap Askable # {}
  <1>1. AnsweredAtAll(name) <=> \E c \in decodes[name] :
            \E i \in 1..NProfiles, j \in 1..NLevels : CodecString(i, j) = c
    BY DEF AnsweredAtAll
  <1> QED BY <1>1, AskedIsAskable

LEMMA ScanInit == CodecsInit => ScanInv
  <1> SUFFICES ASSUME CodecsInit PROVE ScanInv
    OBVIOUS
  <1>1. CodecsTypeOK
    <2>1. decodes \in [{"H264SW", "H264HW"} -> SUBSET Configs]
      BY DEF CodecsInit
    <2>2. supported \in BOOLEAN
      BY DEF CodecsInit
    <2>3. data.kind = "none"
      BY DEF CodecsInit
    <2>4. profile \in 1..NProfiles + 1 /\ level \in 1..NLevels
      BY Counts DEF CodecsInit
    <2>5. changed \in BOOLEAN /\ outputInfo = NoInfo
      BY DEF CodecsInit
    <2> QED BY <2>1, <2>2, <2>3, <2>4, <2>5 DEF CodecsInit, CodecsTypeOK
  <1>2. ~AnsweredBefore(codec, profile, level)
    BY NothingBefore DEF CodecsInit
  <1> QED BY <1>1, <1>2 DEF CodecsInit, ScanInv, Registered

\* What a conversion leaves behind, of audio the first time and then again.
LEMMA ConversionTypes ==
    ASSUME CodecsTypeOK, ConvertPixels \/ ConvertSamples \/ StopAudio \/ ConvertCaps
    PROVE  (/\ data.kind \in {"none", "pixels", "samples", "refused", "caps"}
            /\ outputInfo \in {NoInfo} \cup [format : SampleFormats, channels : Channels]
            /\ changed \in BOOLEAN)'
  <1>1. /\ outputInfo \in {NoInfo} \cup [format : SampleFormats, channels : Channels]
        /\ changed \in BOOLEAN
    BY DEF CodecsTypeOK
  <1>2. CASE ConvertPixels
    BY <1>1, <1>2 DEF ConvertPixels, audioInfo
  <1>3. CASE ConvertSamples
    <2>1. data'.kind \in {"samples", "refused"}
      BY <1>3 DEF ConvertSamples, Converted, Refused
    <2>2. outputInfo' \in {NoInfo} \cup [format : SampleFormats, channels : Channels]
      BY <1>1, <1>3 DEF ConvertSamples, MakeInfo
    <2>3. changed' \in BOOLEAN
      BY <1>3 DEF ConvertSamples
    <2> QED BY <2>1, <2>2, <2>3
  <1>4. CASE StopAudio
    BY <1>4 DEF StopAudio
  <1>5. CASE ConvertCaps
    BY <1>1, <1>5 DEF ConvertCaps, audioInfo
  <1> QED BY <1>2, <1>3, <1>4, <1>5

LEMMA ScanStep == ScanInv /\ [CodecsNext]_codecsVars => ScanInv'
  <1> SUFFICES ASSUME ScanInv, [CodecsNext]_codecsVars PROVE ScanInv'
    OBVIOUS
  <1>1. CodecsTypeOK
    BY DEF ScanInv
  <1>2. CASE Ask
    <2>1. /\ codec \in {"H264SW", "H264HW"} /\ UNCHANGED <<decodes, codec, elements, data, outputInfo, changed>>
          /\ profile \in 1..NProfiles /\ level \in 1..NLevels
      BY <1>1, <1>2, Counts DEF Ask, CodecsTypeOK, audioInfo
    <2>2. IF level < NLevels THEN profile' = profile /\ level' = level + 1
                             ELSE profile' = profile + 1 /\ level' = 1
      BY <1>2 DEF Ask
    <2>3. supported' <=> supported \/ CodecString(profile, level) \in decodes[codec]
      BY <1>2, Zenon DEF Ask, Answer
    <2>4. AnsweredBefore(codec, profile', level') <=>
             AnsweredBefore(codec, profile, level) \/ CodecString(profile, level) \in decodes[codec]
      BY <2>1, <2>2, OneMore
    <2>5. supported' <=> AnsweredBefore(codec, profile', level')
      BY <2>1, <2>3, <2>4 DEF ScanInv
    <2>6. AnsweredBefore(codec, profile, level)' <=> AnsweredBefore(codec, profile', level')
      BY <2>1 DEF AnsweredBefore
    <2>7. \A name : AnsweredAtAll(name)' <=> AnsweredAtAll(name)
      BY <2>1 DEF AnsweredAtAll
    <2>8. supported' \in BOOLEAN
      BY <1>2 DEF Ask, Answer
    <2>9. CodecsTypeOK'
      BY <1>1, <2>1, <2>2, <2>8, Counts DEF CodecsTypeOK
    <2> QED BY <2>1, <2>5, <2>6, <2>7, <2>9 DEF ScanInv, Registered
  <1>3. CASE RegisterH264
    <2>1. /\ codec \in {"H264SW", "H264HW"} /\ UNCHANGED <<decodes, data, outputInfo, changed>>
          /\ profile \in Nat /\ profile > NProfiles
          /\ codec' = IF codec = "H264SW" THEN "H264HW" ELSE "AACSW"
          /\ profile' = 1 /\ level' = 1 /\ supported' = FALSE
      BY <1>1, <1>3, Counts DEF RegisterH264, CodecsTypeOK, audioInfo
    <2>2. supported <=> AnsweredAtAll(codec)
      BY <2>1, AllBefore DEF ScanInv
    <2>3. \/ ~supported /\ elements' = elements
          \/ /\ supported
             /\ \E rank \in {"primary", "secondary"} :
                   elements' = elements \cup {[name |-> codec, rank |-> rank]}
      BY <1>3 DEF RegisterH264, Register
    <2>4. \A name : AnsweredAtAll(name)' <=> AnsweredAtAll(name)
      BY <2>1 DEF AnsweredAtAll
    <2>5. CodecsTypeOK'
      <3>1. (elements \subseteq [name : {"H264SW", "H264HW", "AACSW"},
                                 rank : {"primary", "secondary"}])'
        BY <1>1, <2>1, <2>3 DEF CodecsTypeOK
      <3>2. supported' \in BOOLEAN
        BY <2>1
      <3>3. profile' \in 1..NProfiles + 1 /\ level' \in 1..NLevels
        BY <2>1, Counts
      <3> QED BY <1>1, <2>1, <3>1, <3>2, <3>3 DEF CodecsTypeOK
    <2>6. ~AnsweredBefore(codec, profile, level)'
      BY <2>1, Counts DEF AnsweredBefore, Before
    <2>7. \A name : Registered(name)' <=> Registered(name) \/ (name = codec /\ supported)
      <3>1. CASE ~supported
        BY <2>3, <3>1 DEF Registered
      <3>2. CASE supported
        <4>1. PICK rank \in {"primary", "secondary"} :
                 elements' = elements \cup {[name |-> codec, rank |-> rank]}
          BY <2>3, <3>2
        <4> DEFINE r == [name |-> codec, rank |-> rank]
        <4>2. r.name = codec
          OBVIOUS
        <4>3. elements' = elements \cup {r}
          BY <4>1
        <4> HIDE DEF r
        <4> QED BY <3>2, <4>2, <4>3 DEF Registered
      <3> QED BY <3>1, <3>2
    <2>8. CASE codec = "H264SW"
      BY <2>1, <2>2, <2>4, <2>5, <2>6, <2>7, <2>8 DEF ScanInv
    <2>9. CASE codec = "H264HW"
      BY <2>1, <2>2, <2>4, <2>5, <2>6, <2>7, <2>9 DEF ScanInv
    <2> QED BY <2>1, <2>8, <2>9
  <1>4. CASE RegisterAudio
    <2>1. /\ codec = "AACSW" /\ codec' = "done"
          /\ \/ elements' = elements \cup {[name |-> "AACSW", rank |-> "secondary"]}
             \/ elements' = elements
          /\ UNCHANGED <<decodes, profile, level, supported, data, outputInfo, changed>>
      BY <1>4 DEF RegisterAudio, Register, audioInfo
    <2>2. CodecsTypeOK'
      BY <1>1, <2>1 DEF CodecsTypeOK
    <2>3. \A name \in {"H264SW", "H264HW"} :
             /\ AnsweredAtAll(name)' <=> AnsweredAtAll(name)
             /\ Registered(name)' <=> Registered(name)
      BY <2>1 DEF AnsweredAtAll, Registered
    <2> QED BY <2>1, <2>2, <2>3 DEF ScanInv
  <1>5. ASSUME UNCHANGED <<decodes, codec, profile, level, supported, elements>>,
               CodecsTypeOK'
        PROVE  ScanInv'
    BY <1>5 DEF ScanInv, AnsweredBefore, AnsweredAtAll, Registered
  <1>6. CASE ConvertPixels \/ ConvertSamples \/ StopAudio \/ ConvertCaps
    <2>1. UNCHANGED <<decodes, codec, profile, level, supported, elements>>
      BY <1>6 DEF ConvertPixels, ConvertSamples, StopAudio, ConvertCaps, BeginConvert
    <2>2. (/\ data.kind \in {"none", "pixels", "samples", "refused", "caps"}
           /\ outputInfo \in {NoInfo} \cup [format : SampleFormats, channels : Channels]
           /\ changed \in BOOLEAN)'
      BY <1>1, <1>6, ConversionTypes
    <2>3. CodecsTypeOK'
      BY <1>1, <2>1, <2>2 DEF CodecsTypeOK
    <2> QED BY <1>5, <2>1, <2>3
  <1>7. CASE UNCHANGED codecsVars
    <2>1. CodecsTypeOK'
      BY <1>1, <1>7 DEF CodecsTypeOK, codecsVars, audioInfo
    <2> QED BY <1>5, <1>7, <2>1 DEF codecsVars
  <1> QED BY <1>2, <1>3, <1>4, <1>6, <1>7 DEF CodecsNext

\* Whatever a browser decodes, in software and in hardware, and whatever order the
\* answers come in, scan_video_decoders registers an element exactly if one of the profiles
\* and levels that the tables of utils/h264.cpp make it ask for is decoded.
THEOREM ScanCorrect == CodecsSpec => []DecodersFound
  <1>1. ScanInv => DecodersFound
    <2> SUFFICES ASSUME ScanInv, codec = "done", NEW name \in {"H264SW", "H264HW"}
                 PROVE  Registered(name) <=> decodes[name] \cap Askable # {}
      BY DEF ScanInv, DecodersFound, Registered
    <2>1. decodes[name] \subseteq Configs
      BY DEF ScanInv, CodecsTypeOK
    <2>2. Registered(name) <=> AnsweredAtAll(name)
      BY DEF ScanInv
    <2> QED BY <2>1, <2>2, AnsweredIsAskable
  <1> QED BY <1>1, ScanInit, ScanStep, PTL DEF CodecsSpec

--------------------------------------------------------------------------------
(* The conversions of the elements *)

\* Only the conversions change data, and what is known of audio.
LEMMA OtherSteps ==
    ASSUME [CodecsNext]_codecsVars, ~ConvertPixels, ~ConvertSamples, ~StopAudio, ~ConvertCaps
    PROVE  UNCHANGED <<data, audioInfo>>
  BY DEF CodecsNext, codecsVars, Ask, RegisterH264, RegisterAudio

\* Until an AudioData is unlike the one before, output_info is that of all since the
\* start, the last one included.
InfoInv ==
    /\ outputInfo \in {NoInfo} \cup [format : SampleFormats, channels : Channels]
    /\ data.kind \notin {"samples", "refused"} => outputInfo = NoInfo /\ ~changed
    /\ data.kind \in {"samples", "refused"} =>
          outputInfo # NoInfo /\ (~changed => outputInfo = InfoOf(data.format, data.channels))

LEMMA InfoKnown ==
    ASSUME NEW f \in SampleFormats, NEW c \in Channels
    PROVE  /\ InfoOf(f, c) \in [format : SampleFormats, channels : Channels]
           /\ InfoOf(f, c) # NoInfo
  <1>1. InfoOf(f, c).channels = c /\ NoInfo.channels = 0 /\ c # 0
    BY CodecsAssumption DEF InfoOf, NoInfo
  <1> QED BY <1>1 DEF InfoOf

\* An AudioData comes, and is converted with the output_info that is there then.
LEMMA SamplesStep ==
    ASSUME InfoInv, ConvertSamples
    PROVE  \E f \in SampleFormats, c \in Channels, n \in Frames :
              /\ outputInfo' \in [format : SampleFormats, channels : Channels]
              /\ outputInfo' # NoInfo
              /\ ~changed' => outputInfo' = InfoOf(f, c)
              /\ \/ data' = Refused(f, c)
                 \/ data' = Converted(f, c, n, outputInfo',
                                      Samples(outputInfo', TotalSize(f, c, n)))
  <1>1. PICK f \in SampleFormats, c \in Channels, n \in Frames :
           /\ MakeInfo(f, c)
           /\ changed' = (\/ changed
                          \/ data.kind # "none" /\ <<f, c>> # <<data.format, data.channels>>)
           /\ \/ data' = Refused(f, c)
              \/ data' = Converted(f, c, n, outputInfo',
                                   Samples(outputInfo', TotalSize(f, c, n)))
    BY DEF ConvertSamples
  <1>2. outputInfo' = IF outputInfo = NoInfo THEN InfoOf(f, c) ELSE outputInfo
    BY <1>1 DEF MakeInfo, InfoOf
  <1>3. outputInfo' \in [format : SampleFormats, channels : Channels] /\ outputInfo' # NoInfo
    BY <1>2, InfoKnown DEF InfoInv
  <1>4. ASSUME ~changed' PROVE outputInfo' = InfoOf(f, c)
    <2>1. CASE data.kind = "none"
      BY <1>2, <2>1 DEF InfoInv
    <2>2. CASE data.kind # "none"
      <3>1. ~changed /\ f = data.format /\ c = data.channels
        BY <1>1, <1>4, <2>2
      <3>2. data.kind \in {"samples", "refused"}
        BY <2>2 DEF ConvertSamples
      <3> QED BY <1>2, <3>1, <3>2 DEF InfoInv
    <2> QED BY <2>1, <2>2
  <1> QED BY <1>1, <1>3, <1>4

LEMMA InfoNext == InfoInv /\ [CodecsNext]_codecsVars => InfoInv'
  <1> SUFFICES ASSUME InfoInv, [CodecsNext]_codecsVars PROVE InfoInv'
    OBVIOUS
  <1>1. CASE ConvertSamples
    <2>1. PICK f \in SampleFormats, c \in Channels, n \in Frames :
              /\ outputInfo' \in [format : SampleFormats, channels : Channels]
              /\ outputInfo' # NoInfo
              /\ ~changed' => outputInfo' = InfoOf(f, c)
              /\ \/ data' = Refused(f, c)
                 \/ data' = Converted(f, c, n, outputInfo',
                                      Samples(outputInfo', TotalSize(f, c, n)))
      BY <1>1, SamplesStep
    <2>2. data'.kind \in {"samples", "refused"} /\ data'.format = f /\ data'.channels = c
      BY <2>1 DEF Refused, Converted
    <2> QED BY <2>1, <2>2 DEF InfoInv
  <1>2. CASE ConvertPixels
    BY <1>2 DEF ConvertPixels, audioInfo, InfoInv
  <1>3. CASE ConvertCaps
    BY <1>3 DEF ConvertCaps, audioInfo, InfoInv
  <1>4. CASE StopAudio
    BY <1>4 DEF StopAudio, InfoInv
  <1>5. CASE UNCHANGED <<data, audioInfo>>
    BY <1>5 DEF audioInfo, InfoInv
  <1> QED BY <1>1, <1>2, <1>3, <1>4, <1>5, OtherSteps

\* For every channel count and number of frames, the planes of an AudioData fit the
\* buffer, and as long as the format stays, audio planes are copied to where the
\* GstAudioMeta of the buffer says they are: audio_data_to_buffer and
\* gst_buffer_add_audio_meta, which computes from the first output_info, agree.
THEOREM SamplesCorrect == CodecsSpec => []PlanesInPlace
  <1>1. CodecsInit => PlanesInPlace /\ InfoInv
    BY DEF CodecsInit, PlanesInPlace, InfoInv
  <1>2. PlanesInPlace /\ InfoInv /\ [CodecsNext]_codecsVars => PlanesInPlace'
    <2> SUFFICES ASSUME PlanesInPlace, InfoInv, [CodecsNext]_codecsVars PROVE PlanesInPlace'
      OBVIOUS
    <2>1. CASE ConvertSamples
      <3>1. PICK f \in SampleFormats, c \in Channels, n \in Frames :
              /\ outputInfo' \in [format : SampleFormats, channels : Channels]
              /\ ~changed' => outputInfo' = InfoOf(f, c)
              /\ \/ data' = Refused(f, c)
                 \/ data' = Converted(f, c, n, outputInfo',
                                      Samples(outputInfo', TotalSize(f, c, n)))
        BY <2>1, SamplesStep
      <3>2. CASE data' = Refused(f, c)
        BY <3>2 DEF Refused, PlanesInPlace
      <3>3. CASE data' = Converted(f, c, n, outputInfo',
                                   Samples(outputInfo', TotalSize(f, c, n)))
        <4> DEFINE info == outputInfo'
                   samples == Samples(info, TotalSize(f, c, n))
        <4>1. /\ data'.format = f /\ data'.channels = c /\ data'.frames = n
              /\ data'.positions = Positions(info.channels) /\ data'.size = TotalSize(f, c, n)
              /\ data'.samples = samples
              /\ data'.copied = [p \in 0..Planes(f, c) - 1 |-> CopyOffset(f, c, n, p)]
              /\ data'.meta = [p \in 0..Planes(info.format, info.channels) - 1 |->
                                  MetaOffset(info, samples, p)]
          BY <3>3 DEF Converted
        <4>2. ASSUME NEW p \in DOMAIN data'.copied
              PROVE  data'.copied[p] + PlaneSize(f, c, n) <= data'.size
          BY <4>1, PlaneInPlace
        <4>3. ASSUME ~changed' PROVE data'.meta = data'.copied /\ data'.samples = data'.frames
          <5>1. info = InfoOf(f, c) /\ info.format = f /\ info.channels = c
            BY <3>1, <4>3 DEF InfoOf
          <5>2. samples = n
            BY <5>1, SamplesAreFrames
          <5>3. ASSUME NEW p \in 0..Planes(f, c) - 1
                PROVE  CopyOffset(f, c, n, p) = MetaOffset(info, samples, p)
            BY <5>1, <5>2, PlaneInPlace
          <5> HIDE DEF info, samples
          <5> QED BY <4>1, <5>1, <5>2, <5>3
        <4>4. info.channels \in Channels
          BY <3>1
        <4> HIDE DEF info, samples
        <4> QED BY <4>1, <4>2, <4>3, <4>4, PositionsOrdered DEF PlanesInPlace
      <3> QED BY <3>1, <3>2, <3>3
    <2>2. CASE ConvertPixels
      BY <2>2 DEF ConvertPixels, PlanesInPlace
    <2>3. CASE ConvertCaps
      BY <2>3 DEF ConvertCaps, PlanesInPlace
    <2>4. CASE StopAudio
      BY <2>4 DEF StopAudio, PlanesInPlace
    <2>5. CASE UNCHANGED <<data, audioInfo>>
      BY <2>5 DEF PlanesInPlace, audioInfo
    <2> QED BY <2>1, <2>2, <2>3, <2>4, <2>5, OtherSteps
  <1> QED BY <1>1, <1>2, InfoNext, PTL DEF CodecsSpec

\* The three tables of pixel formats agree, whichever decoder is registered: a
\* frame that goes to the browser again is of the format it came in.
THEOREM FormatsCorrect == CodecsSpec => []FormatsInverse
  <1>1. CodecsInit => FormatsInverse
    BY DEF CodecsInit, FormatsInverse
  <1>2. FormatsInverse /\ [CodecsNext]_codecsVars => FormatsInverse'
    <2> SUFFICES ASSUME FormatsInverse, [CodecsNext]_codecsVars PROVE FormatsInverse'
      OBVIOUS
    <2>1. CASE ConvertPixels
      <3>1. PICK f \in DOMAIN DecoderFormat :
               data' = [kind |-> "pixels", web |-> f, gst |-> DecoderFormat[f],
                        back |-> ToWebFormat[DecoderFormat[f]]]
        BY <2>1 DEF ConvertPixels
      <3>2. DecoderFormat[f] = FromWebFormat[f]
        BY DEF DecoderFormat, FromWebFormat
      <3>3. ToWebFormat[DecoderFormat[f]] = f
        BY DEF DecoderFormat, ToWebFormat
      <3> QED BY <3>1, <3>2, <3>3 DEF FormatsInverse
    <2>2. CASE ConvertSamples
      BY <2>2 DEF ConvertSamples, Converted, Refused, FormatsInverse
    <2>3. CASE ConvertCaps
      BY <2>3 DEF ConvertCaps, FormatsInverse
    <2>4. CASE UNCHANGED data
      BY <2>4 DEF FormatsInverse
    <2>5. CASE StopAudio
      BY <2>5 DEF StopAudio, FormatsInverse
    <2> QED BY <2>1, <2>2, <2>3, <2>4, <2>5, OtherSteps
  <1> QED BY <1>1, <1>2, PTL DEF CodecsSpec

\* What webdownload and webupload make of caps reads the same from both pads.
THEOREM CapsCorrect == CodecsSpec => []CapsAgree
  <1>1. CodecsInit => CapsAgree
    BY DEF CodecsInit, CapsAgree
  <1>2. CapsAgree /\ [CodecsNext]_codecsVars => CapsAgree'
    <2> SUFFICES ASSUME CapsAgree, [CodecsNext]_codecsVars PROVE CapsAgree'
      OBVIOUS
    <2>1. CASE ConvertCaps
      <3>1. PICK f \in Features :
               data' = [kind |-> "caps", feature |-> f, download |-> DownloadCaps("sink", {f}),
                        upload |-> UploadCaps("sink", {f})]
        BY <2>1 DEF ConvertCaps
      <3> QED BY <3>1 DEF CapsAgree, Features, DownloadCaps, UploadCaps
    <2>2. CASE ConvertSamples
      BY <2>2 DEF ConvertSamples, Converted, Refused, CapsAgree
    <2>3. CASE ConvertPixels
      BY <2>3 DEF ConvertPixels, CapsAgree
    <2>4. CASE UNCHANGED data
      BY <2>4 DEF CapsAgree
    <2>5. CASE StopAudio
      BY <2>5 DEF StopAudio, CapsAgree
    <2> QED BY <2>1, <2>2, <2>3, <2>4, <2>5, OtherSteps
  <1> QED BY <1>1, <1>2, PTL DEF CodecsSpec

================================================================================
