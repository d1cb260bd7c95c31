------------------------------ MODULE SDL2SinkProofs ------------------------------
(***************************************************************************)
(* Proofs about SDL2Sink: for pools of every size and any number of        *)
(* frames, caps, starts and flushes, no surface is lost or handed out      *)
(* twice, a frame goes into a surface of its size, and the screen only     *)
(* moves forward.                                                          *)
(*                                                                         *)
(* The order on the screen rests on the place of every surface: the frame  *)
(* that is copied overwrites none that still waits, because the surface it *)
(* goes to is in the hands of the streaming thread and hence nowhere else. *)
(***************************************************************************)
EXTENDS SDL2Sink, FiniteSetTheorems, SequenceTheorems, TLAPS

--------------------------------------------------------------------------------
(* The inductive invariant *)

\* The streaming thread has a frame.
Busy == {"arrived", "prepare", "asleep", "prepared", "show", "copy", "push"}

\* What the two threads hold, and where the streaming thread is out of the sink.
ThreadInv ==
    /\ main = "aborted" <=> chain = "aborted"
    /\ chainSurf # None <=> chain \in {"copy", "push"}
    /\ main # "aborted" => (mainSurf # None <=> main \in {"render", "return"})
    /\ element \in {"null", "ready"} => chain \in {"idle", "aborted"}
    /\ main = "stop" => element = "ready"
    /\ main \in {"unlock", "flushing"} => element \in {"flush", "deactivate"}

\* There is at most one pool for each start: the callback makes one with the
\* window, and only between setcaps and stop.
WindowInv ==
    /\ pool <= starts /\ starts <= MaxStarts
    /\ slot => element # "null" /\ main # "stop"
    /\ target => slot \/ main = "stop"
    /\ element # "null" /\ ~target => pool < starts
    /\ main = "pool" => target /\ pool < starts

\* The pool a frame gets its surface from was made for the current caps.
FitInv ==
    /\ chain \in Busy => caps # 0
    /\ chain \in {"prepared", "show"} => target
    /\ chain \notin {"setcaps", "aborted"} /\ caps # 0 => info = caps
    /\ chain = "setcaps" /\ ~raced => ~target
    /\ ~raced /\ target /\ main \notin {"pool", "aborted"} =>
           pool # 0 /\ made[pool] = info
    /\ chain = "copy" => chainSurf[1] <= pool

\* The number of a frame on its way: none is later than the one that reached the
\* sink last, and earlier while that one is not queued yet.
Bounded(n) == n <= frame /\ (chain \in Busy => n < frame)

\* The frames on their way to the screen are in order.
OrderInv ==
    /\ Bounded(screen)
    /\ \A i \in DOMAIN queue :
           screen < content[queue[i]] /\ Bounded(content[queue[i]])
    /\ \A i, j \in DOMAIN queue :
           i < j => content[queue[i]] < content[queue[j]]
    /\ chain = "push" => content[chainSurf] = frame
    /\ main = "render" =>
           /\ screen < content[mainSurf] /\ Bounded(content[mainSurf])
           /\ \A i \in DOMAIN queue : content[mainSurf] < content[queue[i]]

IInv ==
    /\ SurfacesConserved
    /\ ThreadInv
    /\ WindowInv
    /\ FitInv
    /\ OrderInv

--------------------------------------------------------------------------------
(* Counting *)

\* The positions of an element.
Places(e, seq) == {i \in DOMAIN seq : seq[i] = e}

\* The occurrences of an element are counted by its positions, of which there
\* are finitely many.
LEMMA Counted ==
    ASSUME NEW T, NEW seq \in Seq(T), NEW e
    PROVE  /\ Occurrences(e, seq) = Cardinality(Places(e, seq))
           /\ IsFiniteSet(Places(e, seq))
           /\ Occurrences(e, seq) \in Nat
  <1>1. Len(seq) \in Nat /\ DOMAIN seq = 1..Len(seq)
    BY LenProperties
  <1>2. IsFiniteSet(DOMAIN seq)
    BY <1>1, FS_Interval, SMT
  <1>3. Places(e, seq) \in SUBSET DOMAIN seq
    BY DEF Places
  <1>4. IsFiniteSet(Places(e, seq))
    BY <1>2, <1>3, FS_Subset
  <1>5. Cardinality(Places(e, seq)) \in Nat
    BY <1>4, FS_CardinalityType
  <1>6. Occurrences(e, seq) = Cardinality(Places(e, seq))
    BY DEF Occurrences, Quantify, Places
  <1> QED BY <1>4, <1>5, <1>6

\* What does not occur is nowhere in the sequence.
LEMMA Absent ==
    ASSUME NEW T, NEW seq \in Seq(T), NEW e
    PROVE  Occurrences(e, seq) = 0 <=> \A i \in DOMAIN seq : seq[i] # e
  <1>1. Occurrences(e, seq) = 0 <=> Places(e, seq) = {}
    BY Counted, FS_EmptySet
  <1> QED BY <1>1 DEF Places

LEMMA EmptyCount == \A e : Occurrences(e, <<>>) = 0
  <1>1. \A e : Places(e, <<>>) = {}
    BY DEF Places
  <1>2. \A e : Occurrences(e, <<>>) = Cardinality(Places(e, <<>>))
    BY DEF Occurrences, Quantify, Places
  <1> QED BY <1>1, <1>2, FS_EmptySet

\* One element was added at one of the ends of a sequence.
Inserted(new, old, x, at) ==
    /\ at \in {1, Len(old) + 1}
    /\ Len(new) = Len(old) + 1
    /\ new[at] = x
    /\ \A i \in 1..Len(old) : new[IF at = 1 THEN i + 1 ELSE i] = old[i]

\* The positions are then those of before, shifted, and the new one.
LEMMA OneMore ==
    ASSUME NEW T, NEW old \in Seq(T), NEW new \in Seq(T), NEW x, NEW e, NEW at,
           Inserted(new, old, x, at)
    PROVE  Occurrences(e, new) = Occurrences(e, old) + (IF x = e THEN 1 ELSE 0)
  <1> DEFINE shift(i) == IF at = 1 THEN i + 1 ELSE i
             moved == {shift(i) : i \in Places(e, old)}
             move == [i \in Places(e, old) |-> shift(i)]
  <1>1. /\ Len(old) \in Nat /\ DOMAIN old = 1..Len(old)
        /\ DOMAIN new = 1..(Len(old) + 1)
    BY LenProperties DEF Inserted
  <1>2. Places(e, old) \subseteq 1..Len(old)
    BY <1>1 DEF Places
  <1>3. move \in Bijection(Places(e, old), moved)
    <2>1. move \in [Places(e, old) -> moved]
      OBVIOUS
    <2>2. ASSUME NEW i \in Places(e, old), NEW j \in Places(e, old), move[i] = move[j]
          PROVE  i = j
      <3>1. i \in Int /\ j \in Int
        BY <1>1, <1>2
      <3>2. shift(i) = shift(j)
        BY <2>2
      <3> QED BY <3>1, <3>2, SMT
    <2>3. IsInjective(move)
      BY <2>2 DEF IsInjective
    <2>4. \A t \in moved : \E i \in Places(e, old) : move[i] = t
      OBVIOUS
    <2> QED BY <2>1, <2>3, <2>4 DEF Bijection, Injection, Surjection
  <1>4. IsFiniteSet(moved) /\ Cardinality(moved) = Cardinality(Places(e, old))
    BY <1>3, Counted, FS_Bijection DEF ExistsBijection
  <1>5. at \notin moved
    <2>1. \A i \in 1..Len(old) : shift(i) # at
      BY <1>1, SMT DEF Inserted
    <2> QED BY <1>2, <2>1
  <1>6. Places(e, new) = moved \cup (IF x = e THEN {at} ELSE {})
    <2>1. \A i \in 1..(Len(old) + 1) :
              i = at \/ \E j \in 1..Len(old) : i = shift(j)
      <3> SUFFICES ASSUME NEW i \in 1..(Len(old) + 1), i # at
                   PROVE  \E j \in 1..Len(old) : i = shift(j)
        OBVIOUS
      <3>1. CASE at = 1
        <4>1. i - 1 \in 1..Len(old) /\ i = shift(i - 1)
          BY <1>1, <3>1, SMT
        <4> QED BY <4>1
      <3>2. CASE at # 1
        <4>1. i \in 1..Len(old) /\ i = shift(i)
          BY <1>1, <3>2, SMT DEF Inserted
        <4> QED BY <4>1
      <3> QED BY <3>1, <3>2
    <2>2. /\ \A j \in 1..Len(old) : new[shift(j)] = old[j]
          /\ \A j \in 1..Len(old) : shift(j) \in DOMAIN new
          /\ at \in DOMAIN new
          /\ new[at] = x
      BY <1>1, SMT DEF Inserted
    <2> HIDE DEF shift
    <2>3. ASSUME NEW i \in DOMAIN new
          PROVE  new[i] = e <=> (i \in moved \/ (i = at /\ x = e))
      <3>1. CASE i = at
        BY <1>5, <2>2, <3>1
      <3>2. CASE i # at
        <4>1. PICK j \in 1..Len(old) : i = shift(j)
          BY <1>1, <2>1, <3>2
        <4>2. new[i] = old[j] /\ j \in DOMAIN old
          BY <1>1, <2>2, <4>1
        <4>3. ASSUME i \in moved PROVE old[j] = e
          <5>1. PICK k \in Places(e, old) : i = shift(k)
            BY <4>3
          <5>2. new[i] = old[k] /\ old[k] = e
            BY <1>2, <2>2, <5>1 DEF Places
          <5> QED BY <4>2, <5>2
        <4>4. ASSUME old[j] = e PROVE i \in moved
          BY <4>1, <4>2, <4>4 DEF Places
        <4> QED BY <3>2, <4>2, <4>3, <4>4
      <3> QED BY <3>1, <3>2
    <2>4. moved \subseteq DOMAIN new
      BY <1>2, <2>2
    <2> QED BY <2>2, <2>3, <2>4, Zenon DEF Places
  <1>7. /\ Occurrences(e, new) = Cardinality(Places(e, new))
        /\ Occurrences(e, old) = Cardinality(Places(e, old))
        /\ Occurrences(e, old) \in Nat
    BY Counted
  <1> HIDE DEF moved
  <1>8. CASE x = e
    <2>1. Places(e, new) = moved \cup {at}
      BY <1>6, <1>8
    <2>2. Cardinality(moved \cup {at}) = Cardinality(moved) + 1
      BY <1>4, <1>5, FS_AddElement
    <2> QED BY <1>4, <1>7, <1>8, <2>1, <2>2
  <1>9. CASE x # e
    <2>1. Places(e, new) = moved
      BY <1>6, <1>9
    <2> QED BY <1>4, <1>7, <1>9, <2>1
  <1> QED BY <1>8, <1>9

\* The surface that the streaming thread appends to the queue.
LEMMA AppendCount ==
    ASSUME NEW T, NEW seq \in Seq(T), NEW x \in T, NEW e
    PROVE  Occurrences(e, Append(seq, x)) =
               Occurrences(e, seq) + (IF x = e THEN 1 ELSE 0)
  <1>1. /\ Append(seq, x) \in Seq(T)
        /\ Len(Append(seq, x)) = Len(seq) + 1
        /\ \A i \in 1..Len(seq) : Append(seq, x)[i] = seq[i]
        /\ Append(seq, x)[Len(seq) + 1] = x
    BY AppendProperties
  <1>2. Len(seq) \in Nat
    BY LenProperties
  <1>3. \A i \in 1..Len(seq) :
            Append(seq, x)[IF Len(seq) + 1 = 1 THEN i + 1 ELSE i] = seq[i]
    <2> SUFFICES ASSUME NEW i \in 1..Len(seq)
                 PROVE  (IF Len(seq) + 1 = 1 THEN i + 1 ELSE i) = i
      BY <1>1
    <2> QED BY <1>2, SMT
  <1>4. Inserted(Append(seq, x), seq, x, Len(seq) + 1)
    BY <1>1, <1>3 DEF Inserted
  <1> DEFINE new == Append(seq, x)
  <1>5. new \in Seq(T) /\ Inserted(new, seq, x, Len(seq) + 1)
    BY <1>1, <1>4
  <1> HIDE DEF new
  <1>6. Occurrences(e, new) = Occurrences(e, seq) + (IF x = e THEN 1 ELSE 0)
    BY <1>5, OneMore
  <1> QED BY <1>6 DEF new

\* The surface that goes back to the front of its pool.
InFront(x, seq) == <<x>> \o seq

LEMMA FrontCount ==
    ASSUME NEW T, NEW seq \in Seq(T), NEW x \in T, NEW e
    PROVE  /\ InFront(x, seq) \in Seq(T)
           /\ Occurrences(e, InFront(x, seq)) =
                  Occurrences(e, seq) + (IF x = e THEN 1 ELSE 0)
  <1>1. <<x>> \in Seq(T) /\ Len(<<x>>) = 1 /\ <<x>>[1] = x
    OBVIOUS
  <1>2. Len(seq) \in Nat
    BY LenProperties
  <1>3. /\ <<x>> \o seq \in Seq(T)
        /\ Len(<<x>> \o seq) = 1 + Len(seq)
        /\ \A i \in 1..(1 + Len(seq)) :
               (<<x>> \o seq)[i] = IF i <= 1 THEN <<x>>[i] ELSE seq[i - 1]
    BY <1>1, ConcatProperties
  <1> DEFINE new == <<x>> \o seq
  <1>4. /\ new \in Seq(T)
        /\ Len(new) = Len(seq) + 1
        /\ \A i \in 1..(1 + Len(seq)) :
               new[i] = IF i <= 1 THEN <<x>>[i] ELSE seq[i - 1]
    BY <1>2, <1>3
  <1> HIDE DEF new
  <1>5. new[1] = x
    BY <1>1, <1>2, <1>4, SMT
  <1>6. \A i \in 1..Len(seq) : new[IF 1 = 1 THEN i + 1 ELSE i] = seq[i]
    <2> SUFFICES ASSUME NEW i \in 1..Len(seq) PROVE new[i + 1] = seq[i]
      OBVIOUS
    <2>1. i + 1 \in 1..(1 + Len(seq)) /\ ~(i + 1 <= 1) /\ (i + 1) - 1 = i
      BY <1>2, SMT
    <2> QED BY <1>4, <2>1
  <1>7. Inserted(new, seq, x, 1)
    BY <1>4, <1>5, <1>6 DEF Inserted
  <1>8. Occurrences(e, new) = Occurrences(e, seq) + (IF x = e THEN 1 ELSE 0)
    BY <1>4, <1>7, OneMore
  <1> QED BY <1>4, <1>8 DEF new, InFront

\* The surface at the head of the queue, or of a pool, that is taken from it.
LEMMA TailCount ==
    ASSUME NEW T, NEW seq \in Seq(T), seq # <<>>, NEW e
    PROVE  /\ Head(seq) \in T /\ Tail(seq) \in Seq(T)
           /\ Occurrences(e, seq) =
                  Occurrences(e, Tail(seq)) + (IF Head(seq) = e THEN 1 ELSE 0)
  <1>1. Len(seq) \in Nat \ {0}
    BY EmptySeq
  <1>2. /\ Head(seq) \in T /\ Tail(seq) \in Seq(T)
        /\ Len(Tail(seq)) = Len(seq) - 1
        /\ \A i \in 1..Len(Tail(seq)) : Tail(seq)[i] = seq[i + 1]
        /\ Head(seq) = seq[1]
    BY HeadTailProperties
  <1>3. Len(seq) = Len(Tail(seq)) + 1
    BY <1>1, <1>2
  <1>4. \A i \in 1..Len(Tail(seq)) :
            seq[IF 1 = 1 THEN i + 1 ELSE i] = Tail(seq)[i]
    BY <1>2
  <1> DEFINE x == Head(seq)
             rest == Tail(seq)
  <1>5. x \in T /\ rest \in Seq(T) /\ Inserted(seq, rest, x, 1)
    BY <1>2, <1>3, <1>4 DEF Inserted
  <1> HIDE DEF x, rest
  <1>6. Occurrences(e, seq) = Occurrences(e, rest) + (IF x = e THEN 1 ELSE 0)
    BY <1>5, OneMore
  <1> QED BY <1>5, <1>6 DEF x, rest

\* The two surfaces that the threads work on.
LEMMA PairCount ==
    ASSUME NEW a, NEW b, NEW e
    PROVE  Occurrences(e, <<a, b>>) =
               (IF a = e THEN 1 ELSE 0) + (IF b = e THEN 1 ELSE 0)
  <1>1. PICK T : a \in T /\ b \in T
    <2>1. a \in {a, b} /\ b \in {a, b}
      OBVIOUS
    <2> QED BY <2>1, Zenon
  <1>2. <<a>> \in Seq(T) /\ <<a, b>> \in Seq(T)
    BY <1>1
  <1>3. Occurrences(e, <<a>>) = IF a = e THEN 1 ELSE 0
    <2>1. Places(e, <<a>>) = IF a = e THEN {1} ELSE {}
      BY DEF Places
    <2> QED BY <1>2, <2>1, Counted, FS_EmptySet, FS_Singleton
  <1>4. Inserted(<<a, b>>, <<a>>, b, 2)
    BY DEF Inserted
  <1>5. Occurrences(e, <<a, b>>) =
            Occurrences(e, <<a>>) + (IF b = e THEN 1 ELSE 0)
    BY <1>2, <1>4, OneMore
  <1> QED BY <1>3, <1>5

\* A new pool holds each of its surfaces once.
LEMMA FullCount ==
    ASSUME NEW e \in 1..PoolSize
    PROVE  FullPool \in Seq(1..PoolSize) /\ Occurrences(e, FullPool) = 1
  <1>1. PoolSize \in Nat
    BY SinkAssumption
  <1>2. FullPool \in Seq(1..PoolSize)
    BY <1>1, IsASeq DEF FullPool
  <1>3. Places(e, FullPool) = {e}
    BY DEF Places, FullPool
  <1> QED BY <1>2, <1>3, Counted, FS_Singleton

--------------------------------------------------------------------------------
(* Types *)

\* A surface in the hands of a thread is one; None is not.
LEMMA Held ==
    ASSUME IInv
    PROVE  /\ None \notin Surface
           /\ chain \in {"copy", "push"} => chainSurf \in Surface
           /\ main \in {"render", "return"} => mainSurf \in Surface
  <1>1. None \notin Surface
    BY SinkAssumption DEF None, Surface, Pools
  <1> QED BY <1>1 DEF IInv, SurfacesConserved, TypeOK, ThreadInv

\* A surface is a number in a pool.
LEMMA SurfaceIs ==
    ASSUME NEW s \in Surface
    PROVE  /\ s[1] \in Pools /\ s[2] \in 1..PoolSize
           /\ \A p, i : <<p, i>> = s <=> p = s[1] /\ i = s[2]
  BY DEF Surface

\* Giving a surface back puts it into its pool once more, and changes no other.
LEMMA ReturnedIs ==
    ASSUME TypeOK, NEW x \in Surface
    PROVE  /\ Returned(x) \in [Pools -> Seq(1..PoolSize)]
           /\ \A s \in Surface :
                  Occurrences(s[2], Returned(x)[s[1]]) =
                      Occurrences(s[2], free[s[1]]) + (IF x = s THEN 1 ELSE 0)
  <1>1. x[1] \in Pools /\ x[2] \in 1..PoolSize
    BY SurfaceIs
  <1>2. free \in [Pools -> Seq(1..PoolSize)]
    BY DEF TypeOK
  <1>3. free[x[1]] \in Seq(1..PoolSize)
    BY <1>1, <1>2
  <1>4. Returned(x) = [free EXCEPT ![x[1]] = InFront(x[2], free[x[1]])]
    BY DEF Returned, InFront
  <1>5. Returned(x) \in [Pools -> Seq(1..PoolSize)]
    <2>1. InFront(x[2], free[x[1]]) \in Seq(1..PoolSize)
      BY <1>1, <1>3, FrontCount
    <2> QED BY <1>2, <1>4, <2>1
  <1>6. ASSUME NEW s \in Surface
        PROVE  Occurrences(s[2], Returned(x)[s[1]]) =
                   Occurrences(s[2], free[s[1]]) + (IF x = s THEN 1 ELSE 0)
    <2>1. s[1] \in Pools /\ s[2] \in 1..PoolSize
      BY SurfaceIs
    <2>2. Occurrences(s[2], free[s[1]]) \in Nat
      BY <1>2, <2>1, Counted
    <2>3. x = s <=> x[1] = s[1] /\ x[2] = s[2]
      BY SurfaceIs DEF Surface
    <2>4. CASE s[1] = x[1]
      <3>1. Returned(x)[s[1]] = InFront(x[2], free[s[1]])
        BY <1>2, <1>4, <2>1, <2>4
      <3>2. Occurrences(s[2], InFront(x[2], free[s[1]])) =
                Occurrences(s[2], free[s[1]]) + (IF x[2] = s[2] THEN 1 ELSE 0)
        <4> DEFINE i == x[2]
                   e == s[2]
                   seq == free[s[1]]
        <4>1. i \in 1..PoolSize /\ seq \in Seq(1..PoolSize)
          BY <1>1, <1>3, <2>4
        <4> HIDE DEF i, e, seq
        <4>2. PICK T : i \in T /\ seq \in Seq(T)
          BY <4>1, Zenon
        <4>3. Occurrences(e, InFront(i, seq)) =
                  Occurrences(e, seq) + (IF i = e THEN 1 ELSE 0)
          BY <4>2, FrontCount
        <4> QED BY <4>3 DEF i, e, seq
      <3>3. (IF x = s THEN 1 ELSE 0) = (IF x[2] = s[2] THEN 1 ELSE 0)
        BY <2>3, <2>4
      <3> QED BY <3>1, <3>2, <3>3, Zenon
    <2>5. CASE s[1] # x[1]
      <3>1. Returned(x)[s[1]] = free[s[1]]
        BY <1>2, <1>4, <2>1, <2>5
      <3> QED BY <2>2, <2>3, <2>5, <3>1
    <2> QED BY <2>4, <2>5
  <1> QED BY <1>5, <1>6

\* In the initial state nothing has been made.
LEMMA InitInv == Init => IInv
  <1> SUFFICES ASSUME Init PROVE IInv
    OBVIOUS
  <1> USE SinkAssumption
  <1>1. <<>> \in Seq(Surface) /\ <<>> \in Seq(1..PoolSize)
    BY EmptySeq
  <1>2. TypeOK
    <2>1. free \in [Pools -> Seq(1..PoolSize)]
      BY <1>1 DEF Init
    <2>2. content \in [Surface -> Nat] /\ made \in [Pools -> 0..MaxCaps]
      BY DEF Init
    <2>3. /\ info \in 0..MaxCaps /\ caps \in 0..MaxCaps /\ pool \in 0..MaxStarts
          /\ frame \in Nat /\ screen \in Nat /\ starts \in Nat /\ flushes \in Nat
      BY DEF Init
    <2>4. queue \in Seq(Surface)
      BY <1>1 DEF Init
    <2> QED BY <2>1, <2>2, <2>3, <2>4 DEF Init, TypeOK
  <1>3. FramesFit
    BY DEF Init, FramesFit
  <1>4. InOnePlace
    <2> SUFFICES ASSUME NEW s \in Surface
                 PROVE  Occurrences(s, queue) + Occurrences(s[2], free[s[1]])
                            + Occurrences(s, <<chainSurf, mainSurf>>)
                        = IF s[1] <= pool THEN 1 ELSE 0
      BY DEF InOnePlace
    <2>1. s[1] \in Pools /\ s[2] \in 1..PoolSize /\ ~(s[1] <= pool)
      BY SurfaceIs DEF Init, Pools
    <2>2. Occurrences(s, queue) = 0
      BY EmptyCount DEF Init
    <2>3. Occurrences(s[2], free[s[1]]) = 0
      <3>1. free[s[1]] = <<>>
        BY <2>1 DEF Init
      <3> QED BY <3>1, EmptyCount
    <2>4. Occurrences(s, <<chainSurf, mainSurf>>) = 0
      <3>1. None # s
        BY DEF None, Surface, Pools
      <3> QED BY <3>1, PairCount DEF Init
    <2> QED BY <2>1, <2>2, <2>3, <2>4
  <1>5. ThreadInv
    BY DEF Init, ThreadInv
  <1>6. WindowInv
    BY DEF Init, WindowInv
  <1>7. FitInv
    BY DEF Init, FitInv, Busy
  <1>8. OrderInv
    BY DEF Init, OrderInv, Bounded, Busy
  <1> QED BY <1>2, <1>3, <1>4, <1>5, <1>6, <1>7, <1>8 DEF IInv, SurfacesConserved

\* The types.
LEMMA TypeNext == ASSUME IInv, [Next]_vars PROVE TypeOK'
  <1> USE DEF TypeOK
  <1>1. TypeOK /\ ThreadInv /\ WindowInv
    BY DEF IInv, SurfacesConserved
  <1>2. CASE UNCHANGED vars
    BY <1>1, <1>2 DEF vars
  <1>3. ASSUME NEW c \in 1..MaxCaps, SetCaps(c) PROVE TypeOK'
    <2>1. c \in 0..MaxCaps
      BY SinkAssumption
    <2>2. CASE queueMade \/ slot
      BY <1>1, <1>3, <2>2 DEF SetCaps, Abort, queueVars, poolVars, appVars
    <2>3. CASE ~(queueMade \/ slot)
      BY <1>1, <1>3, <2>1, <2>3 DEF SetCaps, AttachCallback, queueVars, poolVars,
                                    appVars, mainVars
    <2> QED BY <2>2, <2>3
  <1>4. CASE Arrive
    BY <1>1, <1>4 DEF Arrive, queueVars, poolVars, appVars, mainVars
  <1>5. CASE SetCapsInfo
    BY <1>1, <1>5 DEF SetCapsInfo, queueVars, poolVars, appVars, mainVars
  <1>6. CASE SetCapsQueue
    BY <1>1, <1>6 DEF SetCapsQueue, queueVars, poolVars, appVars, mainVars
  <1>7. CASE BeginPrepare \/ Prepare \/ Synchronized \/ ShowFrameNoSurface
    BY <1>1, <1>7 DEF BeginPrepare, Prepare, Synchronized, ShowFrameNoSurface,
                      queueVars, poolVars, appVars, mainVars
  <1>8. CASE ShowFrame
    <2>1. pool \in Pools /\ free[pool] \in Seq(1..PoolSize) /\ free[pool] # <<>>
      BY <1>1, <1>8, SinkAssumption DEF ShowFrame, Pools
    <2>2. Head(free[pool]) \in 1..PoolSize /\ Tail(free[pool]) \in Seq(1..PoolSize)
      BY <2>1, TailCount
    <2>3. chainSurf' \in Surface
      BY <1>8, <2>1, <2>2 DEF ShowFrame, Surface
    <2>4. free' \in [Pools -> Seq(1..PoolSize)]
      BY <1>1, <1>8, <2>2 DEF ShowFrame
    <2> QED BY <1>1, <1>8, <2>3, <2>4 DEF ShowFrame, queueVars, mainVars, appVars
  <1>9. CASE Copy
    <2>1. chainSurf \in Surface
      BY <1>9, Held DEF Copy
    <2> QED BY <1>1, <1>9, <2>1 DEF Copy, queueVars, poolVars, mainVars, appVars
  <1>10. CASE PushSurface
    <2>1. chainSurf \in Surface
      BY <1>10, Held DEF PushSurface
    <2>2. queue' \in Seq(Surface)
      BY <1>1, <1>10, <2>1, AppendProperties DEF PushSurface
    <2> QED BY <1>1, <1>10, <2>2 DEF PushSurface, poolVars, mainVars, appVars
  <1>11. CASE Iterate
    BY <1>1, <1>11 DEF Iterate, RenderMainloop, queueVars, poolVars, chainVars, appVars
  <1>12. CASE WindowReady
    BY <1>1, <1>12 DEF WindowReady, SignalReady, queueVars, poolVars, appVars
  <1>13. CASE PopNothing
    BY <1>1, <1>13 DEF PopNothing, queueVars, poolVars, chainVars, appVars
  <1>26. CASE UnlockStop
    BY <1>1, <1>26, ZenonT(60) DEF UnlockStop, queueVars, poolVars, chainVars, appVars
  <1>14. CASE CreatePool
    <2>1. pool + 1 \in Pools /\ pool' \in 0..MaxStarts
      BY <1>1, <1>14, SinkAssumption, SMT DEF CreatePool, WindowInv, Pools
    <2>2. FullPool \in Seq(1..PoolSize)
      <3>1. 1 \in 1..PoolSize
        BY SinkAssumption
      <3> QED BY <3>1, FullCount
    <2>3. free' \in [Pools -> Seq(1..PoolSize)] /\ made' \in [Pools -> 0..MaxCaps]
      BY <1>1, <1>14, <2>1, <2>2 DEF CreatePool
    <2> QED BY <1>1, <1>14, <2>1, <2>3 DEF CreatePool, queueVars, chainVars, appVars
  <1>15. CASE Pop
    <2>1. Head(queue) \in Surface /\ Tail(queue) \in Seq(Surface)
      BY <1>1, <1>15, TailCount DEF Pop
    <2> QED BY <1>1, <1>15, <2>1 DEF Pop, poolVars, chainVars, appVars
  <1>16. CASE Render
    <2>1. content[mainSurf] \in Nat
      BY <1>1, <1>16, Held DEF Render
    <2> QED BY <1>1, <1>16, <2>1 DEF Render, queueVars, poolVars, chainVars, appVars
  <1>17. CASE ReturnSurface
    <2>1. free' \in [Pools -> Seq(1..PoolSize)]
      BY <1>1, <1>17, Held, ReturnedIs DEF ReturnSurface
    <2> QED BY <1>1, <1>17, <2>1 DEF ReturnSurface, queueVars, chainVars, appVars
  <1>18. CASE Flushed
    <2>1. caps' \in 0..MaxCaps /\ element' \in {"paused", "ready"}
      BY <1>1, <1>18, SinkAssumption DEF Flushed
    <2> QED BY <1>1, <1>18, <2>1 DEF Flushed, queueVars, poolVars
  <1>19. CASE NullToReady
    BY <1>1, <1>19 DEF NullToReady, queueVars, poolVars, chainVars, mainVars
  <1>20. CASE ReadyToPaused
    BY <1>1, <1>20 DEF ReadyToPaused, queueVars, poolVars, chainVars, mainVars
  <1>21. CASE Stopped
    BY <1>1, <1>21 DEF Stopped, poolVars, chainVars
  <1>22. CASE Unlock("flush")
    BY <1>1, <1>22 DEF Unlock, SignalReady, queueVars, poolVars
  <1>23. CASE Unlock("deactivate")
    BY <1>1, <1>23 DEF Unlock, SignalReady, queueVars, poolVars
  <1>24. CASE ReadyToNull
    BY <1>1, <1>24 DEF ReadyToNull, Abort, RemoveCallback, queueVars, poolVars,
                       chainVars, appVars
  <1>25. CASE FreeQueued
    <2>1. Head(queue) \in Surface /\ Tail(queue) \in Seq(Surface)
      BY <1>1, <1>25, TailCount DEF FreeQueued
    <2>2. free' \in [Pools -> Seq(1..PoolSize)]
      BY <1>1, <1>25, <2>1, ReturnedIs DEF FreeQueued
    <2> QED BY <1>1, <1>25, <2>1, <2>2 DEF FreeQueued, chainVars, mainVars, appVars
    <1> QED BY <1>2, <1>3, <1>4, <1>5, <1>6, <1>7, <1>8, <1>9, <1>10, <1>11, <1>12,
             <1>13, <1>14, <1>15, <1>16, <1>17, <1>18, <1>19, <1>20, <1>21, <1>22,
             <1>23, <1>24, <1>25, <1>26
          DEF Next, ChainStep, MainStep

--------------------------------------------------------------------------------
(* The two threads, and the window *)

LEMMA ThreadNext == ASSUME IInv, [Next]_vars PROVE ThreadInv'
  <1> USE DEF ThreadInv, queueVars, poolVars, chainVars, mainVars, appVars
  <1>1. /\ ThreadInv
        /\ None \notin Surface
        /\ chain \in {"copy", "push"} => chainSurf \in Surface
        /\ main \in {"render", "return"} => mainSurf \in Surface
    BY Held DEF IInv
  <1>2. CASE UNCHANGED vars
    BY <1>1, <1>2 DEF vars
  <1>3. ASSUME NEW c \in 1..MaxCaps, SetCaps(c) PROVE ThreadInv'
    BY <1>1, <1>3 DEF SetCaps, Abort
  <1>4. CASE Arrive \/ SetCapsInfo \/ SetCapsQueue \/ ShowFrameNoSurface
    BY <1>1, <1>4 DEF Arrive, SetCapsInfo, SetCapsQueue, ShowFrameNoSurface
  <1>5. CASE BeginPrepare \/ Prepare \/ Synchronized
    BY <1>1, <1>5 DEF BeginPrepare, Prepare, Synchronized
  <1>6. CASE ShowFrame
    <2>1. pool # 0
      BY <1>6 DEF ShowFrame
    <2>2. chainSurf' # None
      BY <1>6, <2>1 DEF ShowFrame, None
    <2> QED BY <1>1, <1>6, <2>2 DEF ShowFrame
  <1>7. CASE Copy \/ PushSurface
    BY <1>1, <1>7 DEF Copy, PushSurface
  <1>8. CASE Iterate \/ CreatePool \/ PopNothing \/ UnlockStop \/ FreeQueued
    BY <1>1, <1>8 DEF Iterate, RenderMainloop, CreatePool, PopNothing, UnlockStop,
                      FreeQueued
  <1>9. CASE WindowReady
    BY <1>1, <1>9 DEF WindowReady, SignalReady
  <1>10. CASE Pop
    <2>1. Head(queue) \in Surface
      BY <1>10, TailCount DEF Pop, IInv, SurfacesConserved, TypeOK
    <2> QED BY <1>1, <1>10, <2>1 DEF Pop
  <1>11. CASE Render \/ ReturnSurface
    BY <1>1, <1>11 DEF Render, ReturnSurface
  <1>12. CASE NullToReady \/ ReadyToPaused \/ Flushed \/ Stopped
    BY <1>1, <1>12 DEF NullToReady, ReadyToPaused, Flushed, Stopped
  <1>13. CASE Unlock("flush") \/ Unlock("deactivate")
    BY <1>1, <1>13 DEF Unlock, SignalReady
  <1>14. CASE ReadyToNull
    BY <1>1, <1>14 DEF ReadyToNull, Abort
  <1> QED BY <1>2, <1>3, <1>4, <1>5, <1>6, <1>7, <1>8, <1>9, <1>10, <1>11, <1>12,
             <1>13, <1>14 DEF Next, ChainStep, MainStep

LEMMA WindowNext == ASSUME IInv, [Next]_vars PROVE WindowInv'
  <1> USE DEF WindowInv, queueVars, poolVars, chainVars, mainVars, appVars
  <1>1. /\ WindowInv
        /\ pool \in Nat /\ starts \in Nat /\ MaxStarts \in Nat
        /\ main = "stop" => element = "ready"
        /\ main = "flushing" => element # "null"
    BY SinkAssumption DEF IInv, SurfacesConserved, TypeOK, ThreadInv
  <1>2. CASE UNCHANGED vars
    BY <1>1, <1>2 DEF vars
  <1>3. ASSUME NEW c \in 1..MaxCaps, SetCaps(c) PROVE WindowInv'
    BY <1>1, <1>3 DEF SetCaps, Abort, AttachCallback
  <1>4. CASE Arrive \/ SetCapsInfo \/ SetCapsQueue \/ ShowFrameNoSurface
    BY <1>1, <1>4 DEF Arrive, SetCapsInfo, SetCapsQueue, ShowFrameNoSurface
  <1>5. CASE BeginPrepare \/ Prepare \/ Synchronized
    BY <1>1, <1>5 DEF BeginPrepare, Prepare, Synchronized
  <1>6. CASE ShowFrame \/ Copy \/ PushSurface
    BY <1>1, <1>6 DEF ShowFrame, Copy, PushSurface
  <1>7. CASE Iterate
    BY <1>1, <1>7 DEF Iterate, RenderMainloop
  <1>8. CASE CreatePool
    BY <1>1, <1>8 DEF CreatePool
  <1>9. CASE WindowReady \/ Pop \/ PopNothing \/ Render \/ ReturnSurface
    BY <1>1, <1>9 DEF WindowReady, Pop, PopNothing, Render, ReturnSurface
  <1>10. CASE UnlockStop \/ FreeQueued
    BY <1>1, <1>10 DEF UnlockStop, FreeQueued
  <1>15. CASE Flushed
    BY <1>1, <1>15 DEF Flushed
  <1>11. CASE NullToReady \/ ReadyToPaused
    BY <1>1, <1>11 DEF NullToReady, ReadyToPaused
  <1>12. CASE Unlock("flush") \/ Unlock("deactivate")
    BY <1>1, <1>12 DEF Unlock
  <1>13. CASE ReadyToNull
    BY <1>1, <1>13 DEF ReadyToNull, Abort, RemoveCallback
  <1>14. CASE Stopped
    BY <1>1, <1>14 DEF Stopped
  <1> QED BY <1>2, <1>3, <1>4, <1>5, <1>6, <1>7, <1>8, <1>9, <1>10, <1>11, <1>12,
             <1>13, <1>14, <1>15 DEF Next, ChainStep, MainStep

--------------------------------------------------------------------------------
(* The sizes *)

LEMMA FitNext == ASSUME IInv, [Next]_vars PROVE (FitInv /\ FramesFit)'
  <1> USE DEF FitInv, FramesFit, queueVars, poolVars, chainVars, mainVars, appVars,
              Busy
  <1>1. /\ FitInv /\ FramesFit
        /\ pool \in Nat /\ made \in [Pools -> 0..MaxCaps]
        /\ chain = "copy" => chainSurf[1] \in Nat
        /\ element \in {"null", "ready"} => chain \in {"idle", "aborted"}
        /\ main = "stop" => element = "ready"
        /\ target => slot \/ main = "stop"
        /\ main = "pool" => pool + 1 \in Pools
    <2>1. chain = "copy" => chainSurf[1] \in Nat
      BY Held, SurfaceIs DEF Pools
    <2>2. main = "pool" => pool + 1 \in Pools
      BY SinkAssumption, SMT DEF IInv, WindowInv, SurfacesConserved, TypeOK, Pools
    <2> QED
      BY <2>1, <2>2 DEF IInv, SurfacesConserved, TypeOK, ThreadInv, WindowInv
  <1>2. CASE UNCHANGED vars
    BY <1>1, <1>2 DEF vars
  <1>3. ASSUME NEW c \in 1..MaxCaps, SetCaps(c) PROVE (FitInv /\ FramesFit)'
    BY <1>1, <1>3 DEF SetCaps, Abort, AttachCallback
  <1>4. CASE Arrive
    BY <1>1, <1>4 DEF Arrive
  <1>5. CASE SetCapsInfo \/ SetCapsQueue
    BY <1>1, <1>5 DEF SetCapsInfo, SetCapsQueue
  <1>6. CASE BeginPrepare \/ Prepare \/ Synchronized \/ ShowFrameNoSurface
    BY <1>1, <1>6 DEF BeginPrepare, Prepare, Synchronized, ShowFrameNoSurface
  <1>7. CASE ShowFrame
    <2>1. chainSurf'[1] = pool
      BY <1>7 DEF ShowFrame
    <2>2. ~raced' => made[pool] = caps
      BY <1>1, <1>7, Held DEF ShowFrame, IInv, ThreadInv
    <2> QED BY <1>1, <1>7, <2>1, <2>2 DEF ShowFrame
  <1>8. CASE Copy \/ PushSurface
    BY <1>1, <1>8 DEF Copy, PushSurface
  <1>9. CASE Iterate
    BY <1>1, <1>9 DEF Iterate, RenderMainloop
  <1>10. CASE CreatePool
    <2>1. made'[pool'] = info' /\ pool' # 0
      BY <1>1, <1>10 DEF CreatePool
    <2>2. chain = "copy" =>
              made'[chainSurf[1]] = made[chainSurf[1]] /\ chainSurf[1] <= pool'
      BY <1>1, <1>10 DEF CreatePool
    <2> QED BY <1>1, <1>10, <2>1, <2>2 DEF CreatePool
  <1>11. CASE WindowReady \/ Pop \/ PopNothing \/ Render \/ ReturnSurface
    BY <1>1, <1>11 DEF WindowReady, SignalReady, Pop, PopNothing, Render, ReturnSurface
  <1>12. CASE UnlockStop \/ FreeQueued \/ NullToReady \/ ReadyToPaused
    BY <1>1, <1>12 DEF UnlockStop, FreeQueued, NullToReady, ReadyToPaused
  <1>13. CASE Flushed
    BY <1>1, <1>13 DEF Flushed
  <1>14. CASE Unlock("flush") \/ Unlock("deactivate")
    BY <1>1, <1>14 DEF Unlock, SignalReady
  <1>15. CASE ReadyToNull
    BY <1>1, <1>15 DEF ReadyToNull, Abort, RemoveCallback
  <1>16. CASE Stopped
    BY <1>1, <1>16 DEF Stopped
  <1> QED BY <1>2, <1>3, <1>4, <1>5, <1>6, <1>7, <1>8, <1>9, <1>10, <1>11, <1>12,
             <1>13, <1>14, <1>15, <1>16 DEF Next, ChainStep, MainStep

--------------------------------------------------------------------------------
(* The places *)

\* The places of a surface are counted in the queue, in its pool, and in the
\* hands of the two threads.
LEMMA CountedPlaces ==
    ASSUME IInv, NEW s \in Surface
    PROVE  /\ s[1] \in Pools /\ s[2] \in 1..PoolSize
           /\ free[s[1]] \in Seq(1..PoolSize)
           /\ Occurrences(s, queue) \in Nat
           /\ Occurrences(s[2], free[s[1]]) \in Nat
           /\ Occurrences(s, queue) + Occurrences(s[2], free[s[1]])
                  + (IF chainSurf = s THEN 1 ELSE 0) + (IF mainSurf = s THEN 1 ELSE 0)
              = IF s[1] <= pool THEN 1 ELSE 0
  <1>1. s[1] \in Pools /\ s[2] \in 1..PoolSize
    BY SurfaceIs
  <1>2. free[s[1]] \in Seq(1..PoolSize) /\ queue \in Seq(Surface)
    BY <1>1 DEF IInv, SurfacesConserved, TypeOK
  <1>3. Occurrences(s, queue) \in Nat
    BY <1>2, Counted
  <1>4. Occurrences(s[2], free[s[1]]) \in Nat
    BY <1>2, Counted
  <1>5. Occurrences(s, queue) + Occurrences(s[2], free[s[1]])
            + Occurrences(s, <<chainSurf, mainSurf>>)
        = IF s[1] <= pool THEN 1 ELSE 0
    BY DEF IInv, SurfacesConserved, InOnePlace
  <1>6. Occurrences(s, <<chainSurf, mainSurf>>) =
            (IF chainSurf = s THEN 1 ELSE 0) + (IF mainSurf = s THEN 1 ELSE 0)
    BY PairCount
  <1> DEFINE q == Occurrences(s, queue)
             f == Occurrences(s[2], free[s[1]])
             pair == Occurrences(s, <<chainSurf, mainSurf>>)
             held == IF chainSurf = s THEN 1 ELSE 0
             rendered == IF mainSurf = s THEN 1 ELSE 0
             total == IF s[1] <= pool THEN 1 ELSE 0
  <1>7. /\ q \in Nat /\ f \in Nat /\ held \in Nat /\ rendered \in Nat
        /\ q + f + pair = total /\ pair = held + rendered
    BY <1>3, <1>4, <1>5, <1>6
  <1> HIDE DEF q, f, pair, held, rendered, total
  <1>8. q + f + held + rendered = total
    BY <1>7, SMT
  <1> QED BY <1>1, <1>2, <1>3, <1>4, <1>8 DEF q, f, held, rendered, total

\* The surface that a thread holds is nowhere else.
LEMMA HeldIsNowhereElse ==
    ASSUME IInv
    PROVE  /\ chain \in {"copy", "push"} =>
                  /\ mainSurf # chainSurf
                  /\ \A i \in DOMAIN queue : queue[i] # chainSurf
           /\ main \in {"render", "return"} =>
                  \A i \in DOMAIN queue : queue[i] # mainSurf
  <1>1. ASSUME NEW s \in Surface, s = chainSurf \/ s = mainSurf
        PROVE  /\ ~(s = chainSurf /\ s = mainSurf)
               /\ \A i \in DOMAIN queue : queue[i] # s
    <2>1. Occurrences(s, queue) = 0 /\ ~(s = chainSurf /\ s = mainSurf)
      BY <1>1, CountedPlaces
    <2>2. queue \in Seq(Surface)
      BY DEF IInv, SurfacesConserved, TypeOK
    <2> QED BY <2>1, <2>2, Absent
  <1> QED BY <1>1, Held

\* The steps that move no surface.
LEMMA OtherSteps ==
    ASSUME [Next]_vars
    PROVE  \/ ShowFrame \/ PushSurface \/ CreatePool \/ Pop \/ ReturnSurface
           \/ FreeQueued
           \/ UNCHANGED <<queue, free, chainSurf, mainSurf, pool>>
  <1> USE DEF queueVars, poolVars, chainVars, mainVars
  <1>1. CASE UNCHANGED vars
    BY <1>1 DEF vars
  <1>2. ASSUME NEW c \in 1..MaxCaps, SetCaps(c)
        PROVE  UNCHANGED <<queue, free, chainSurf, mainSurf, pool>>
    BY <1>2 DEF SetCaps, Abort
  <1>3. CASE Arrive \/ SetCapsInfo \/ SetCapsQueue \/ BeginPrepare \/ Prepare
             \/ Synchronized \/ ShowFrameNoSurface \/ Copy
    BY <1>3 DEF Arrive, SetCapsInfo, SetCapsQueue, BeginPrepare, Prepare,
                Synchronized, ShowFrameNoSurface, Copy
  <1>4. CASE Iterate \/ WindowReady \/ PopNothing \/ Render \/ UnlockStop
             \/ Flushed \/ Stopped \/ NullToReady \/ ReadyToPaused
    BY <1>4 DEF Iterate, WindowReady, PopNothing, Render, UnlockStop, Flushed, Stopped,
                NullToReady, ReadyToPaused
  <1>5. CASE Unlock("flush") \/ Unlock("deactivate") \/ ReadyToNull
    BY <1>5 DEF Unlock, ReadyToNull, Abort
  <1> QED BY <1>1, <1>2, <1>3, <1>4, <1>5 DEF Next, ChainStep, MainStep

\* It is enough to follow one surface.
LEMMA FollowOne ==
    ASSUME TypeOK',
           \A s \in Surface :
               Occurrences(s, queue') + Occurrences(s[2], free'[s[1]])
                   + (IF chainSurf' = s THEN 1 ELSE 0)
                   + (IF mainSurf' = s THEN 1 ELSE 0)
               = IF s[1] <= pool' THEN 1 ELSE 0
    PROVE  InOnePlace'
  <1> SUFFICES ASSUME NEW s \in Surface
               PROVE  Occurrences(s, queue') + Occurrences(s[2], free'[s[1]])
                          + Occurrences(s, <<chainSurf', mainSurf'>>)
                      = IF s[1] <= pool' THEN 1 ELSE 0
    BY DEF InOnePlace
  <1>1. s[1] \in Pools
    BY SurfaceIs
  <1>2. free'[s[1]] \in Seq(1..PoolSize) /\ queue' \in Seq(Surface)
    BY <1>1 DEF TypeOK
  <1>3. Occurrences(s, queue') \in Nat
    BY <1>2, Counted
  <1>4. Occurrences(s[2], free'[s[1]]) \in Nat
    BY <1>2, Counted
  <1>5. Occurrences(s, <<chainSurf', mainSurf'>>) =
            (IF chainSurf' = s THEN 1 ELSE 0) + (IF mainSurf' = s THEN 1 ELSE 0)
    BY PairCount
  <1> DEFINE q == Occurrences(s, queue')
             f == Occurrences(s[2], free'[s[1]])
             pair == Occurrences(s, <<chainSurf', mainSurf'>>)
             held == IF chainSurf' = s THEN 1 ELSE 0
             rendered == IF mainSurf' = s THEN 1 ELSE 0
             total == IF s[1] <= pool' THEN 1 ELSE 0
  <1>6. /\ q \in Nat /\ f \in Nat /\ held \in Nat /\ rendered \in Nat
        /\ q + f + held + rendered = total /\ pair = held + rendered
    BY <1>3, <1>4, <1>5
  <1> HIDE DEF q, f, pair, held, rendered, total
  <1>7. q + f + pair = total
    BY <1>6, SMT
  <1> QED BY <1>7 DEF q, f, pair, total

LEMMA PlaceNext == ASSUME IInv, [Next]_vars PROVE InOnePlace'
  <1>1. TypeOK' /\ ThreadInv' /\ TypeOK /\ ThreadInv
    BY TypeNext, ThreadNext DEF IInv, SurfacesConserved
  <1>2. CASE UNCHANGED <<queue, free, chainSurf, mainSurf, pool>>
    BY <1>2 DEF InOnePlace, IInv, SurfacesConserved
  <1> SUFFICES ASSUME NEW s \in Surface,
                      ShowFrame \/ PushSurface \/ CreatePool \/ Pop \/ ReturnSurface
                      \/ FreeQueued
               PROVE  Occurrences(s, queue') + Occurrences(s[2], free'[s[1]])
                          + (IF chainSurf' = s THEN 1 ELSE 0)
                          + (IF mainSurf' = s THEN 1 ELSE 0)
                      = IF s[1] <= pool' THEN 1 ELSE 0
    BY <1>1, <1>2, OtherSteps, FollowOne
  <1> USE DEF queueVars, poolVars, chainVars, mainVars
  <1>3. /\ s[1] \in Pools /\ s[2] \in 1..PoolSize
        /\ free[s[1]] \in Seq(1..PoolSize)
        /\ Occurrences(s, queue) \in Nat
        /\ Occurrences(s[2], free[s[1]]) \in Nat
        /\ Occurrences(s, queue) + Occurrences(s[2], free[s[1]])
               + (IF chainSurf = s THEN 1 ELSE 0) + (IF mainSurf = s THEN 1 ELSE 0)
           = IF s[1] <= pool THEN 1 ELSE 0
    BY CountedPlaces
  <1>4. None # s /\ queue \in Seq(Surface) /\ free \in [Pools -> Seq(1..PoolSize)]
    BY <1>1, Held DEF TypeOK
  <1>5. CASE ShowFrame
    <2>1. chainSurf = None /\ chainSurf' = <<pool, Head(free[pool])>>
          /\ UNCHANGED <<queue, mainSurf, pool>>
      BY <1>1, <1>5 DEF ShowFrame, ThreadInv
    <2>2. CASE s[1] = pool
      <3>1. free'[s[1]] = Tail(free[s[1]]) /\ free[s[1]] # <<>>
        BY <1>3, <1>4, <1>5, <2>2 DEF ShowFrame
      <3>2. Occurrences(s[2], free[s[1]]) =
                Occurrences(s[2], free'[s[1]])
                    + (IF Head(free[s[1]]) = s[2] THEN 1 ELSE 0)
        BY <1>3, <3>1, TailCount
      <3>3. Occurrences(s[2], free'[s[1]]) \in Nat
        <4>1. free'[s[1]] \in Seq(1..PoolSize)
          BY <1>1, <1>3 DEF TypeOK
        <4> QED BY <4>1, Counted
      <3>4. chainSurf' = s <=> Head(free[s[1]]) = s[2]
        BY <2>1, <2>2, SurfaceIs
      <3> QED BY <1>3, <1>4, <2>1, <3>2, <3>3, <3>4
    <2>3. CASE s[1] # pool
      <3>1. free'[s[1]] = free[s[1]]
        BY <1>3, <1>4, <1>5, <2>3 DEF ShowFrame
      <3>2. chainSurf' # s
        BY <2>1, <2>3, SurfaceIs
      <3> QED BY <1>3, <1>4, <2>1, <3>1, <3>2
    <2> QED BY <2>2, <2>3
  <1>6. CASE PushSurface
    <2>1. /\ chainSurf \in Surface /\ chainSurf' = None
          /\ queue' = Append(queue, chainSurf)
          /\ UNCHANGED <<free, mainSurf, pool>>
      BY <1>6, Held DEF PushSurface
    <2>2. Occurrences(s, queue') =
              Occurrences(s, queue) + (IF chainSurf = s THEN 1 ELSE 0)
      BY <1>4, <2>1, AppendCount
    <2> QED BY <1>3, <1>4, <2>1, <2>2
  <1>7. CASE CreatePool
    <2>1. /\ pool' = pool + 1 /\ pool \in Nat
          /\ UNCHANGED <<queue, chainSurf, mainSurf>>
          /\ s[1] \in Nat
      <3>1. s[1] \in Nat
        BY <1>3, SinkAssumption DEF Pools
      <3>2. pool \in Nat
        BY <1>1, SinkAssumption DEF TypeOK
      <3> QED BY <1>7, <3>1, <3>2 DEF CreatePool
    <2>2. CASE s[1] = pool + 1
      <3>1. free'[s[1]] = FullPool
        BY <1>3, <1>4, <1>7, <2>2 DEF CreatePool
      <3>2. Occurrences(s[2], free'[s[1]]) = 1
        BY <1>3, <3>1, FullCount
      <3>3. ~(s[1] <= pool) /\ s[1] <= pool'
        BY <2>1, <2>2
      <3> QED BY <1>3, <2>1, <3>2, <3>3
    <2>3. CASE s[1] # pool + 1
      <3>1. free'[s[1]] = free[s[1]]
        BY <1>3, <1>4, <1>7, <2>3 DEF CreatePool
      <3>2. s[1] <= pool <=> s[1] <= pool'
        BY <2>1, <2>3
      <3> QED BY <1>3, <2>1, <3>1, <3>2
    <2> QED BY <2>2, <2>3
  <1>8. CASE Pop
    <2>1. /\ mainSurf = None /\ mainSurf' = Head(queue)
          /\ queue # <<>> /\ queue' = Tail(queue)
          /\ UNCHANGED <<free, chainSurf, pool>>
      BY <1>1, <1>8 DEF Pop, ThreadInv
    <2>2. Occurrences(s, queue) =
              Occurrences(s, queue') + (IF Head(queue) = s THEN 1 ELSE 0)
      BY <1>4, <2>1, TailCount
    <2>3. Occurrences(s, queue') \in Nat
      BY <1>1, Counted DEF TypeOK
    <2> QED BY <1>3, <1>4, <2>1, <2>2, <2>3
  <1>9. CASE ReturnSurface
    <2>1. /\ mainSurf \in Surface /\ mainSurf' = None
          /\ free' = Returned(mainSurf)
          /\ UNCHANGED <<queue, chainSurf, pool>>
      BY <1>9, Held DEF ReturnSurface
    <2>2. Occurrences(s[2], free'[s[1]]) =
              Occurrences(s[2], free[s[1]]) + (IF mainSurf = s THEN 1 ELSE 0)
      BY <1>1, <2>1, ReturnedIs
    <2> QED BY <1>3, <1>4, <2>1, <2>2
  <1>10. CASE FreeQueued
    <2>1. /\ queue # <<>> /\ queue' = Tail(queue)
          /\ free' = Returned(Head(queue))
          /\ UNCHANGED <<chainSurf, mainSurf, pool>>
      BY <1>10 DEF FreeQueued
    <2>2. /\ Head(queue) \in Surface
          /\ Occurrences(s, queue) =
                 Occurrences(s, queue') + (IF Head(queue) = s THEN 1 ELSE 0)
      BY <1>4, <2>1, TailCount
    <2>3. Occurrences(s, queue') \in Nat
      BY <1>1, Counted DEF TypeOK
    <2>4. Occurrences(s[2], free'[s[1]]) =
              Occurrences(s[2], free[s[1]]) + (IF Head(queue) = s THEN 1 ELSE 0)
      BY <1>1, <2>1, <2>2, ReturnedIs
    <2> QED BY <1>3, <2>1, <2>2, <2>3, <2>4
  <1> QED BY <1>5, <1>6, <1>7, <1>8, <1>9, <1>10

--------------------------------------------------------------------------------
(* The order *)

\* What the order speaks of are numbers.
LEMMA NumbersIs ==
    ASSUME IInv
    PROVE  /\ frame \in Nat /\ screen \in Nat
           /\ Len(queue) \in Nat /\ DOMAIN queue = 1..Len(queue)
           /\ \A i \in DOMAIN queue :
                  queue[i] \in Surface /\ content[queue[i]] \in Nat
           /\ main \in {"render", "return"} => content[mainSurf] \in Nat
           /\ chain \in {"copy", "push"} => content[chainSurf] \in Nat
  <1>1. /\ frame \in Nat /\ screen \in Nat /\ queue \in Seq(Surface)
        /\ content \in [Surface -> Nat]
    BY DEF IInv, SurfacesConserved, TypeOK
  <1>2. Len(queue) \in Nat /\ DOMAIN queue = 1..Len(queue)
    BY <1>1, LenProperties
  <1>3. \A i \in DOMAIN queue : queue[i] \in Surface
    BY <1>1, <1>2, ElementOfSeq
  <1> QED BY <1>1, <1>2, <1>3, Held

\* Taking the head of the queue leaves the rest in order, behind what was taken.
LEMMA TailOrder ==
    ASSUME IInv, queue # <<>>, queue' = Tail(queue)
    PROVE  /\ Head(queue) = queue[1] /\ 1 \in DOMAIN queue
           /\ DOMAIN queue' = 1..(Len(queue) - 1)
           /\ \A i \in DOMAIN queue' : i + 1 \in DOMAIN queue /\ queue'[i] = queue[i + 1]
           /\ \A i \in DOMAIN queue' : content[queue[1]] < content[queue'[i]]
           /\ \A i, j \in DOMAIN queue' :
                  i < j => content[queue'[i]] < content[queue'[j]]
  <1>1. queue \in Seq(Surface) /\ Len(queue) \in Nat \ {0}
    BY EmptySeq DEF IInv, SurfacesConserved, TypeOK
  <1>2. /\ Head(queue) = queue[1] /\ Tail(queue) \in Seq(Surface)
        /\ Len(Tail(queue)) = Len(queue) - 1
        /\ \A i \in 1..Len(Tail(queue)) : Tail(queue)[i] = queue[i + 1]
    BY <1>1, HeadTailProperties
  <1>3. DOMAIN queue = 1..Len(queue) /\ DOMAIN queue' = 1..(Len(queue) - 1)
    BY <1>1, <1>2, LenProperties
  <1>4. \A i \in 1..(Len(queue) - 1) : i + 1 \in 1..Len(queue) /\ 1 < i + 1
    BY <1>1, SMT
  <1>5. \A i \in DOMAIN queue' : i + 1 \in DOMAIN queue /\ queue'[i] = queue[i + 1]
    BY <1>2, <1>3, <1>4
  <1>6. 1 \in DOMAIN queue
    BY <1>1, <1>3, SMT
  <1>7. \A i, j \in DOMAIN queue : i < j => content[queue[i]] < content[queue[j]]
    BY DEF IInv, OrderInv
  <1>8. \A i \in DOMAIN queue' : content[queue[1]] < content[queue'[i]]
    BY <1>3, <1>4, <1>5, <1>6, <1>7
  <1>9. ASSUME NEW i \in DOMAIN queue', NEW j \in DOMAIN queue', i < j
        PROVE  content[queue'[i]] < content[queue'[j]]
    <2>1. i + 1 < j + 1
      BY <1>1, <1>3, <1>9, SMT
    <2> QED BY <1>5, <1>7, <2>1
  <1> QED BY <1>2, <1>3, <1>5, <1>6, <1>8, <1>9

\* The steps that touch neither the queue nor the contents of the surfaces nor
\* what is rendered, and leave a frame on its way or take its way's end.
LEMMA QuietOrder ==
    ASSUME IInv, UNCHANGED <<queue, content, screen, mainSurf>>,
           \/ frame' = frame /\ (chain' \in Busy => chain \in Busy)
           \/ frame' = frame + 1 /\ chain \notin Busy,
           chain' = "push" => chain = "push" /\ UNCHANGED <<chainSurf, frame>>,
           main' = "render" => main = "render"
    PROVE  OrderInv'
  <1>1. OrderInv
    BY DEF IInv
  <1>2. \A n \in Nat : Bounded(n) => n <= frame' /\ (chain' \in Busy => n < frame')
    BY NumbersIs DEF Bounded
  <1>3. \A i \in DOMAIN queue : content[queue[i]] <= frame'
                             /\ (chain' \in Busy => content[queue[i]] < frame')
    BY <1>1, <1>2, NumbersIs DEF OrderInv
  <1>4. screen <= frame' /\ (chain' \in Busy => screen < frame')
    BY <1>1, <1>2, NumbersIs DEF OrderInv
  <1>5. main = "render" => content[mainSurf] <= frame'
                           /\ (chain' \in Busy => content[mainSurf] < frame')
    BY <1>1, <1>2, NumbersIs DEF OrderInv
  <1> QED BY <1>1, <1>3, <1>4, <1>5 DEF OrderInv, Bounded

LEMMA OrderNext == ASSUME IInv, [Next]_vars PROVE OrderInv'
  <1> USE DEF queueVars, poolVars, chainVars, mainVars, appVars
  <1>1. OrderInv /\ ThreadInv
    BY DEF IInv
  <1>2. /\ frame \in Nat /\ screen \in Nat
        /\ Len(queue) \in Nat /\ DOMAIN queue = 1..Len(queue)
        /\ \A i \in DOMAIN queue : queue[i] \in Surface /\ content[queue[i]] \in Nat
        /\ main \in {"render", "return"} => content[mainSurf] \in Nat
        /\ content \in [Surface -> Nat]
    BY NumbersIs DEF IInv, SurfacesConserved, TypeOK
  <1>3. CASE UNCHANGED vars
    BY <1>3, QuietOrder DEF vars
  <1>4. ASSUME NEW c \in 1..MaxCaps, SetCaps(c) PROVE OrderInv'
    BY <1>4, QuietOrder DEF SetCaps, Abort, Busy
  <1>5. CASE Arrive
    BY <1>5, QuietOrder DEF Arrive, Busy
  <1>6. CASE SetCapsInfo \/ SetCapsQueue
    BY <1>6, QuietOrder DEF SetCapsInfo, SetCapsQueue, Busy
  <1>7. CASE BeginPrepare \/ Prepare
    BY <1>7, QuietOrder DEF BeginPrepare, Prepare, Busy
  <1>8. CASE Synchronized \/ ShowFrameNoSurface
    BY <1>8, QuietOrder DEF Synchronized, ShowFrameNoSurface, Busy
  <1>9. CASE ShowFrame
    BY <1>9, QuietOrder DEF ShowFrame, Busy
  <1>10. CASE Iterate \/ CreatePool \/ PopNothing
    BY <1>10, QuietOrder DEF Iterate, RenderMainloop, CreatePool, PopNothing
  <1>11. CASE WindowReady
    BY <1>11, QuietOrder DEF WindowReady, SignalReady, Busy
  <1>12. CASE UnlockStop \/ NullToReady \/ ReadyToPaused \/ Stopped
    BY <1>12, QuietOrder DEF UnlockStop, NullToReady, ReadyToPaused, Stopped
  <1>13. CASE Flushed
    BY <1>13, QuietOrder DEF Flushed
  <1>14. CASE Unlock("flush") \/ Unlock("deactivate")
    BY <1>14, QuietOrder DEF Unlock, SignalReady, Busy
  <1>15. CASE ReadyToNull
    BY <1>15, QuietOrder DEF ReadyToNull, Abort, Busy
  <1>16. CASE Copy
    <2>1. /\ chain = "copy" /\ chain' = "push"
          /\ content' = [content EXCEPT ![chainSurf] = frame]
          /\ UNCHANGED <<queue, frame, chainSurf, main, mainSurf, screen>>
      BY <1>16 DEF Copy
    <2>2. chainSurf \in Surface /\ (main = "render" => mainSurf \in Surface)
      BY <2>1, Held
    <2>3. /\ \A i \in DOMAIN queue : content'[queue[i]] = content[queue[i]]
          /\ main = "render" => content'[mainSurf] = content[mainSurf]
          /\ content'[chainSurf] = frame
      BY <1>2, <2>1, <2>2, HeldIsNowhereElse
    <2>4. \A n : Bounded(n)' <=> Bounded(n)
      BY <2>1 DEF Bounded, Busy
    <2> QED BY <1>1, <2>1, <2>3, <2>4 DEF OrderInv
  <1>17. CASE PushSurface
    <2>1. /\ chain = "push" /\ chain' = "idle"
          /\ queue' = Append(queue, chainSurf)
          /\ UNCHANGED <<content, frame, main, mainSurf, screen>>
      BY <1>17 DEF PushSurface
    <2>2. chainSurf \in Surface /\ content[chainSurf] = frame
      BY <1>1, <2>1, Held DEF OrderInv
    <2>3. queue \in Seq(Surface)
      BY DEF IInv, SurfacesConserved, TypeOK
    <2>4. /\ DOMAIN queue' = 1..(Len(queue) + 1)
          /\ \A i \in DOMAIN queue : queue'[i] = queue[i]
          /\ queue'[Len(queue) + 1] = chainSurf
      <3>1. /\ Append(queue, chainSurf) \in Seq(Surface)
            /\ Len(Append(queue, chainSurf)) = Len(queue) + 1
            /\ \A i \in 1..Len(queue) : Append(queue, chainSurf)[i] = queue[i]
            /\ Append(queue, chainSurf)[Len(queue) + 1] = chainSurf
        BY <2>2, <2>3, AppendProperties
      <3> QED BY <1>2, <2>1, <3>1, LenProperties
    <2>5. \A i \in DOMAIN queue' : i \in DOMAIN queue \/ i = Len(queue) + 1
      BY <1>2, <2>4
    <2>6. /\ chain' \notin Busy /\ frame' = frame
          /\ \A n \in Nat : Bounded(n) => n < frame
      BY <1>2, <2>1 DEF Bounded, Busy
    <2>7. /\ screen < frame
          /\ \A i \in DOMAIN queue : content[queue[i]] < frame
          /\ main = "render" => content[mainSurf] < frame
      BY <1>1, <1>2, <2>6 DEF OrderInv
    <2>8. ASSUME NEW i \in DOMAIN queue'
          PROVE  /\ screen < content[queue'[i]] /\ content[queue'[i]] <= frame
                 /\ main = "render" => content[mainSurf] < content[queue'[i]]
      <3>1. CASE i \in DOMAIN queue
        BY <1>1, <1>2, <2>4, <2>7, <3>1 DEF OrderInv
      <3>2. CASE i = Len(queue) + 1
        BY <1>2, <2>2, <2>4, <2>7, <3>2
      <3> QED BY <2>5, <3>1, <3>2
    <2>9. ASSUME NEW i \in DOMAIN queue', NEW j \in DOMAIN queue', i < j
          PROVE  content[queue'[i]] < content[queue'[j]]
      <3>1. i \in DOMAIN queue
        BY <1>2, <2>4, <2>9, SMT
      <3>2. CASE j \in DOMAIN queue
        BY <1>1, <2>4, <2>9, <3>1, <3>2 DEF OrderInv
      <3>3. CASE j = Len(queue) + 1
        BY <2>2, <2>4, <2>7, <3>1, <3>3
      <3> QED BY <2>5, <3>2, <3>3
    <2>10. /\ screen <= frame
           /\ main = "render" => screen < content[mainSurf] /\ content[mainSurf] <= frame
      BY <1>1, <1>2, <2>7 DEF OrderInv
    <2> QED BY <2>1, <2>6, <2>8, <2>9, <2>10 DEF OrderInv, Bounded
  <1>18. CASE Pop
    <2>1. /\ main' = "render" /\ mainSurf' = Head(queue)
          /\ queue # <<>> /\ queue' = Tail(queue)
          /\ UNCHANGED <<content, frame, chain, chainSurf, screen>>
      BY <1>18 DEF Pop
    <2>2. \A n : Bounded(n)' <=> Bounded(n)
      BY <2>1 DEF Bounded
    <2> QED BY <1>1, <2>1, <2>2, TailOrder DEF OrderInv
  <1>19. CASE Render
    <2>1. /\ main = "render" /\ main' = "return"
          /\ screen' = screen \/ screen' = content[mainSurf]
          /\ UNCHANGED <<content, queue, frame, chain, chainSurf, mainSurf>>
      BY <1>19 DEF Render
    <2>2. \A n : Bounded(n)' <=> Bounded(n)
      BY <2>1 DEF Bounded
    <2> QED BY <1>1, <2>1, <2>2 DEF OrderInv
  <1>20. CASE ReturnSurface
    <2>1. /\ main' = "idle"
          /\ UNCHANGED <<content, queue, frame, chain, chainSurf, screen>>
      BY <1>20 DEF ReturnSurface
    <2>2. \A n : Bounded(n)' <=> Bounded(n)
      BY <2>1 DEF Bounded
    <2> QED BY <1>1, <2>1, <2>2 DEF OrderInv
  <1>21. CASE FreeQueued
    <2>1. /\ main' = "stop" /\ queue # <<>> /\ queue' = Tail(queue)
          /\ UNCHANGED <<content, frame, chain, chainSurf, screen>>
      BY <1>21 DEF FreeQueued
    <2>2. \A n : Bounded(n)' <=> Bounded(n)
      BY <2>1 DEF Bounded
    <2> QED BY <1>1, <2>1, <2>2, TailOrder DEF OrderInv
  <1> QED BY <1>3, <1>4, <1>5, <1>6, <1>7, <1>8, <1>9, <1>10, <1>11, <1>12, <1>13,
             <1>14, <1>15, <1>16, <1>17, <1>18, <1>19, <1>20, <1>21
          DEF Next, ChainStep, MainStep

--------------------------------------------------------------------------------
(* Theorems *)

LEMMA StepInv == IInv /\ [Next]_vars => IInv'
  <1> SUFFICES ASSUME IInv, [Next]_vars PROVE IInv'
    OBVIOUS
  <1>1. TypeOK' /\ ThreadInv' /\ WindowInv'
    BY TypeNext, ThreadNext, WindowNext
  <1>2. FitInv' /\ FramesFit' /\ InOnePlace' /\ OrderInv'
    BY FitNext, PlaceNext, OrderNext
  <1> QED BY <1>1, <1>2 DEF IInv, SurfacesConserved

\* The inductive invariant.
THEOREM Invariance == Spec => []IInv
  <1>1. Init => IInv
    BY InitInv
  <1>2. IInv /\ [Next]_vars => IInv'
    BY StepInv
  <1> QED BY <1>1, <1>2, PTL DEF Spec

\* For pools of every size, and any number of frames, caps, starts and flushes:
\* every surface is in one place, and a frame is copied to one of its size.
THEOREM SurfacesCorrect == Spec => []SurfacesConserved
  <1>1. IInv => SurfacesConserved
    BY DEF IInv
  <1> QED BY <1>1, Invariance, PTL

\* The screen never goes back: frames are rendered in the order in which they
\* reached the sink, whatever is dropped, flushed or fails to render.
THEOREM ScreenCorrect == Spec => RenderedInOrder
  <1>1. IInv /\ [Next]_vars => [screen' # screen => screen' > screen]_vars
    <2> SUFFICES ASSUME IInv, Next, screen' # screen PROVE screen' > screen
      OBVIOUS
    <2>1. Render
      <3> USE DEF queueVars, poolVars, chainVars, mainVars, appVars
      <3>1. ASSUME NEW c \in 1..MaxCaps, SetCaps(c) PROVE FALSE
        BY <3>1 DEF SetCaps, Abort
      <3>2. CASE \/ Arrive \/ SetCapsInfo \/ SetCapsQueue \/ BeginPrepare \/ Prepare
                 \/ Synchronized \/ ShowFrameNoSurface \/ ShowFrame \/ Copy
                 \/ PushSurface
        BY <3>2 DEF Arrive, SetCapsInfo, SetCapsQueue, BeginPrepare, Prepare,
                    Synchronized, ShowFrameNoSurface, ShowFrame, Copy, PushSurface
      <3>3. CASE \/ Iterate \/ CreatePool \/ WindowReady \/ PopNothing \/ Pop
                 \/ ReturnSurface \/ UnlockStop \/ Flushed \/ FreeQueued \/ Stopped
                 \/ NullToReady \/ ReadyToPaused
        BY <3>3 DEF Iterate, CreatePool, WindowReady, PopNothing, Pop, ReturnSurface,
                    UnlockStop, Flushed, FreeQueued, Stopped, NullToReady, ReadyToPaused
      <3>4. CASE Unlock("flush") \/ Unlock("deactivate") \/ ReadyToNull
        BY <3>4 DEF Unlock, ReadyToNull, Abort
      <3> QED BY <3>1, <3>2, <3>3, <3>4 DEF Next, ChainStep, MainStep
    <2>2. main = "render" /\ screen' = content[mainSurf]
      BY <2>1 DEF Render
    <2>3. screen < content[mainSurf]
      BY <2>2 DEF IInv, OrderInv
    <2> QED BY <2>2, <2>3, NumbersIs
  <1> QED BY <1>1, Invariance, PTL DEF Spec, RenderedInOrder

================================================================================
