---------------------------- MODULE WebRunnerProofs ----------------------------
(***************************************************************************)
(* The safety of GstWebRunner for any number of clients and of messages:   *)
(* the invariant IInv of WebRunner is inductive, and implies type          *)
(* correctness, the guarantee of synchronous messages, and the three       *)
(* properties of the life of the worker thread. In the second half, the    *)
(* safety of GstWebCodecsAudioDecoder, which has a runner of its own, for  *)
(* any number of buffers, calls of set_format and resets: the invariant    *)
(* AudioIInv is inductive, and implies that outputs meet their buffers.    *)
(***************************************************************************)
EXTENDS WebRunner, WebCodecsAudioDecoder, SequenceTheorems, TLAPS

States == {"attached", "run_wait", "run_woken", "ready", "sync_check", "sync_wait",
           "finalize", "fin_wait", "fin_woken", "freed", "gone"}

\* A signal moves at most one client, from the state that sleeps on the
\* condition to the one that re-checks.
LEMMA SignalMoves ==
    ASSUME NEW sleeping \in States, NEW woken \in States,
           client \in [Clients -> States], Signal(sleeping, woken)
    PROVE  /\ client' \in [Clients -> States]
           /\ \A c \in Clients :
                 client'[c] = client[c] \/ (client[c] = sleeping /\ client'[c] = woken)
BY DEF Signal, Asleep

\* The fields of a message.
LEMMA MessageFields ==
    ASSUME NEW m \in Message
    PROVE  /\ m.from \in Clients /\ m.n \in Nat
           /\ m.kind \in {"unlock", "async", "sync"}
BY RunnerAssumption DEF Message

\* A signal wakes somebody, if anybody sleeps.
LEMMA SignalWakes ==
    ASSUME NEW sleeping \in States, NEW woken \in States, sleeping # woken,
           client \in [Clients -> States], Signal(sleeping, woken),
           NEW c \in Clients, client[c] = sleeping
    PROVE  \E d \in Clients : client[d] = sleeping /\ client'[d] = woken
BY DEF Signal, Asleep

\* A broadcast moves every sleeper.
LEMMA BroadcastMoves ==
    ASSUME NEW sleeping \in States, NEW woken \in States,
           client \in [Clients -> States], Broadcast(sleeping, woken)
    PROVE  /\ client' \in [Clients -> States]
           /\ \A c \in Clients :
                 client'[c] = client[c] \/ (client[c] = sleeping /\ client'[c] = woken)
BY DEF Broadcast

--------------------------------------------------------------------------------
\* Every step keeps the types.
LEMMA TypeNext == TypeOK /\ [Next]_vars => TypeOK'
<1> SUFFICES ASSUME TypeOK, [Next]_vars
             PROVE  TypeOK'
  OBVIOUS
<1> USE RunnerAssumption
<1>1. client \in [Clients -> States]
  BY DEF TypeOK, States
<1>2. ASSUME NEW c \in Clients, Run(c) PROVE TypeOK'
  BY <1>2 DEF TypeOK, Run, lockVars, loopVars, msgVars
<1>3. ASSUME NEW c \in Clients, RunRecheck(c) PROVE TypeOK'
  BY <1>3 DEF TypeOK, RunRecheck, lockVars, loopVars, msgVars
<1>4. ASSUME NEW w \in Clients, WorkerStart(w) PROVE TypeOK'
  <2>1. Unlock(w) \in Message
    BY DEF Unlock, Message
  <2> QED
    BY <1>4, <2>1 DEF TypeOK, WorkerStart, loopVars, clientVars
<1>5. ASSUME NEW w \in Clients, EnterLoop(w) PROVE TypeOK'
  BY <1>5 DEF TypeOK, EnterLoop, lockVars, msgVars, clientVars
<1>6. ASSUME NEW w \in Clients, AwaitContext(w) PROVE TypeOK'
  BY <1>6 DEF TypeOK, AwaitContext, lockVars, msgVars, clientVars
<1>7. ASSUME NEW w \in Clients, Iterate(w) PROVE TypeOK'
  BY <1>7 DEF TypeOK, Iterate, lockVars, loopVars, clientVars
<1>8. ASSUME NEW w \in Clients, Dispatch(w) PROVE TypeOK'
  <2>1. Head(batch) \in Message /\ batch' \in Seq(Message) /\ executed' \in Seq(Message)
    BY <1>8 DEF TypeOK, Dispatch
  <2>2. CASE RunUnlock
    <3>1. client' \in [Clients -> States]
      BY <1>1, <2>2, SignalMoves DEF RunUnlock, States
    <3> QED
      BY <1>8, <2>1, <2>2, <3>1 DEF TypeOK, Dispatch, RunUnlock, loopVars, States
  <2>3. CASE RunSync(Head(batch))
    <3>1. client' \in [Clients -> States]
      BY <1>1, <2>3, BroadcastMoves DEF RunSync, States
    <3> QED
      BY <1>8, <2>1, <2>3, <3>1 DEF TypeOK, Dispatch, RunSync, loopVars, lockVars, States
  <2>4. CASE RunAsync
    BY <1>8, <2>1, <2>4 DEF TypeOK, Dispatch, RunAsync, loopVars, lockVars
  <2> QED
    BY <1>8, <2>2, <2>3, <2>4 DEF Dispatch
<1>9. ASSUME NEW w \in Clients, LeaveLoop(w) PROVE TypeOK'
  BY <1>9 DEF TypeOK, LeaveLoop, lockVars, msgVars, clientVars
<1>10. ASSUME NEW w \in Clients, WorkerExit(w) PROVE TypeOK'
  <2>1. client' \in [Clients -> States]
    BY <1>1, <1>10, SignalMoves DEF WorkerExit, States
  <2> QED
    BY <1>10, <2>1 DEF TypeOK, WorkerExit, loopVars, msgVars, States
<1>11. ASSUME NEW c \in Clients, SendAsync(c) PROVE TypeOK'
  <2>1. [from |-> c, kind |-> "async", n |-> sent[c] + 1] \in Message
    BY <1>11 DEF TypeOK, SendAsync, Message
  <2>2. queue' \in Seq(Message) /\ posted' \in Seq(Message)
    BY <1>11, <2>1 DEF TypeOK, SendAsync, Invoke
  <2>3. sent' \in [Clients -> 0..MaxSends]
    BY <1>11 DEF TypeOK, SendAsync
  <2> QED
    BY <1>11, <2>2, <2>3 DEF TypeOK, SendAsync, lockVars, loopVars
<1>12. ASSUME NEW c \in Clients, SendSync(c) PROVE TypeOK'
  <2>1. [from |-> c, kind |-> "sync", n |-> sent[c] + 1] \in Message
    BY <1>12 DEF TypeOK, SendSync, Message
  <2>2. queue' \in Seq(Message) /\ posted' \in Seq(Message)
    BY <1>12, <2>1 DEF TypeOK, SendSync, Invoke
  <2>3. sent' \in [Clients -> 0..MaxSends]
    BY <1>12 DEF TypeOK, SendSync
  <2> QED
    BY <1>12, <2>2, <2>3 DEF TypeOK, SendSync, lockVars, loopVars
<1>13. ASSUME NEW c \in Clients, SyncCheck(c) PROVE TypeOK'
  BY <1>13 DEF TypeOK, SyncCheck, lockVars, loopVars, msgVars
<1>14. ASSUME NEW c \in Clients, Unref(c) PROVE TypeOK'
  BY <1>14 DEF TypeOK, Unref, lockVars, loopVars, msgVars
<1>15. ASSUME NEW c \in Clients, Finalize(c) PROVE TypeOK'
  BY <1>15 DEF TypeOK, Finalize, lockVars, msgVars
<1>16. ASSUME NEW c \in Clients, FinalizeRecheck(c) PROVE TypeOK'
  BY <1>16 DEF TypeOK, FinalizeRecheck, lockVars, loopVars, msgVars
<1>17. CASE UNCHANGED vars
  BY <1>17 DEF TypeOK, vars
<1> QED
  BY <1>2, <1>3, <1>4, <1>5, <1>6, <1>7, <1>8, <1>9, <1>10, <1>11, <1>12, <1>13,
     <1>14, <1>15, <1>16, <1>17
     DEF Next, WorkerStep, ClientStep, ClientCall

--------------------------------------------------------------------------------
(* Messages *)

Waiting == {"sync_check", "sync_wait"}

\* A step that leaves the messages alone and lets no sender go keeps MsgInv.
LEMMA MsgStable ==
    ASSUME TypeOK, MsgInv, UNCHANGED <<msgVars, sent>>,
           \A c \in Clients : client[c] \in Waiting => client'[c] \in Waiting
    PROVE  MsgInv'
<1>1. Fifo' /\ Distinct' /\ FiredRan'
  BY DEF MsgInv, Fifo, Distinct, FiredRan, msgVars
<1>2. PendingHolds'
  <2>1. ASSUME NEW i \in 1..Len(posted), posted[i].kind = "sync", ~(i <= Len(executed))
        PROVE  /\ client'[posted[i].from] \in Waiting
               /\ posted[i] = Awaited(posted[i].from)
    <3>1. posted[i] \in Message
      BY DEF TypeOK
    <3>2. posted[i].from \in Clients
      BY <3>1 DEF Message
    <3>3. /\ client[posted[i].from] \in Waiting
          /\ posted[i] = Awaited(posted[i].from)
      BY <2>1 DEF MsgInv, PendingHolds, Waiting
    <3> QED
      BY <3>2, <3>3
  <2> QED
    BY <2>1 DEF PendingHolds, Awaited, Waiting, msgVars
<1> QED
  BY <1>1, <1>2 DEF MsgInv

\* Posting appends to both ends of the line at once.
LEMMA InvokeFifo ==
    ASSUME TypeOK, Fifo, NEW m \in Message, Invoke(m), UNCHANGED <<batch, executed>>
    PROVE  /\ Fifo'
           /\ Len(posted') = Len(posted) + 1
           /\ posted'[Len(posted) + 1] = m
           /\ \A i \in 1..Len(posted) : posted'[i] = posted[i]
<1>1. /\ Len(posted') = Len(posted) + 1
      /\ posted'[Len(posted) + 1] = m
      /\ \A i \in 1..Len(posted) : posted'[i] = posted[i]
  BY DEF TypeOK, Invoke
<1>2. /\ Len(queue') = Len(queue) + 1
      /\ queue'[Len(queue) + 1] = m
      /\ \A i \in 1..Len(queue) : queue'[i] = queue[i]
  BY DEF TypeOK, Invoke
<1>3. /\ Len(posted) \in Nat /\ Len(executed) \in Nat
      /\ Len(batch) \in Nat /\ Len(queue) \in Nat
  BY DEF TypeOK
<1>4. Len(posted') = Len(executed') + Len(batch') + Len(queue')
  <2>1. Len(posted) = Len(executed) + Len(batch) + Len(queue)
    BY DEF Fifo
  <2> QED
    BY <1>1, <1>2, <1>3, <2>1
<1>5. \A i \in 1..Len(executed) : executed[i] = posted'[i]
  BY <1>1, <1>3 DEF Fifo
<1>6. ASSUME NEW i \in 1..Len(batch)
      PROVE  batch[i] = posted'[Len(executed) + i]
  <2>1. Len(executed) + i \in 1..Len(posted)
    BY <1>3 DEF Fifo
  <2> QED
    BY <1>1, <2>1 DEF Fifo
<1>7. ASSUME NEW i \in 1..Len(queue')
      PROVE  queue'[i] = posted'[Len(executed) + Len(batch) + i]
  <2>1. CASE i \in 1..Len(queue)
    <3>1. Len(executed) + Len(batch) + i \in 1..Len(posted)
      BY <1>3, <2>1 DEF Fifo
    <3> QED
      BY <1>1, <1>2, <2>1, <3>1 DEF Fifo
  <2>2. CASE i = Len(queue) + 1
    <3>1. Len(executed) + Len(batch) + i = Len(posted) + 1
      BY <1>3, <2>2 DEF Fifo
    <3> QED
      BY <1>1, <1>2, <2>2, <3>1
  <2> QED
    BY <1>2, <1>3, <2>1, <2>2
<1> QED
  BY <1>1, <1>4, <1>5, <1>6, <1>7 DEF Fifo

\* The iteration takes the whole queue.
LEMMA IterateFifo ==
    ASSUME TypeOK, Fifo, NEW w \in Clients, Iterate(w)
    PROVE  Fifo'
BY DEF TypeOK, Fifo, Iterate

\* The message that is dispatched is the first that has not run.
LEMMA DispatchFifo ==
    ASSUME TypeOK, Fifo, NEW w \in Clients, Dispatch(w)
    PROVE  /\ Fifo'
           /\ Len(executed') = Len(executed) + 1
           /\ Len(executed) + 1 \in 1..Len(posted)
           /\ posted[Len(executed) + 1] = Head(batch)
           /\ executed'[Len(executed) + 1] = Head(batch)
           /\ \A i \in 1..Len(executed) : executed'[i] = executed[i]
<1>1. /\ Len(executed') = Len(executed) + 1
      /\ executed'[Len(executed) + 1] = Head(batch)
      /\ \A i \in 1..Len(executed) : executed'[i] = executed[i]
  BY DEF TypeOK, Dispatch
<1>2. /\ Len(batch) >= 1
      /\ Head(batch) = batch[1]
      /\ Len(batch') = Len(batch) - 1
      /\ \A i \in 1..Len(batch) - 1 : batch'[i] = batch[i + 1]
  BY DEF TypeOK, Dispatch
<1>3. /\ Len(posted) \in Nat /\ Len(executed) \in Nat
      /\ Len(batch) \in Nat /\ Len(queue) \in Nat
  BY DEF TypeOK
<1>4. queue' = queue /\ posted' = posted
  BY DEF Dispatch
<1>5. /\ Len(executed) + 1 \in 1..Len(posted)
      /\ posted[Len(executed) + 1] = Head(batch)
  BY <1>2, <1>3 DEF Fifo
<1>6. Len(posted') = Len(executed') + Len(batch') + Len(queue')
  <2>1. Len(posted) = Len(executed) + Len(batch) + Len(queue)
    BY DEF Fifo
  <2> QED
    BY <1>1, <1>2, <1>3, <1>4, <2>1
<1>7. \A i \in 1..Len(executed') : executed'[i] = posted'[i]
  BY <1>1, <1>3, <1>4, <1>5 DEF Fifo
<1>8. \A i \in 1..Len(batch') : batch'[i] = posted'[Len(executed') + i]
  BY <1>1, <1>2, <1>3, <1>4 DEF Fifo
<1>9. \A i \in 1..Len(queue') : queue'[i] = posted'[Len(executed') + Len(batch') + i]
  BY <1>1, <1>2, <1>3, <1>4 DEF Fifo
<1> QED
  BY <1>1, <1>5, <1>6, <1>7, <1>8, <1>9 DEF Fifo

\* A message that is posted is new, if it is a synchronous one.
LEMMA PostDistinct ==
    ASSUME TypeOK, Distinct, NEW m \in Message, sent' \in [Clients -> Nat],
           \A c \in Clients : sent[c] <= sent'[c],
           m.kind = "sync" => sent[m.from] < m.n /\ m.n <= sent'[m.from],
           posted' \in Seq(Message),
           Len(posted') = Len(posted) + 1,
           posted'[Len(posted) + 1] = m,
           \A i \in 1..Len(posted) : posted'[i] = posted[i]
    PROVE  Distinct'
<1>1. Len(posted) \in Nat
  BY DEF TypeOK
<1>2. m.from \in Clients /\ m.n \in Nat
  BY RunnerAssumption DEF Message
<1>3. ASSUME NEW i \in 1..Len(posted), posted[i].kind = "sync"
      PROVE  /\ posted[i].n <= sent'[posted[i].from]
             /\ posted[i] # m
             /\ \A j \in 1..Len(posted) : posted[j] = posted[i] => j = i
  <2>1. posted[i] \in Message
    BY DEF TypeOK
  <2>2. posted[i].from \in Clients /\ posted[i].n \in Nat
    BY <2>1, MessageFields
  <2>3. sent[posted[i].from] \in Nat
    BY <2>2, RunnerAssumption DEF TypeOK
  <2>4. /\ posted[i].n <= sent[posted[i].from]
        /\ \A j \in 1..Len(posted) : posted[j] = posted[i] => j = i
    BY <1>3 DEF Distinct
  <2>5. posted[i].n <= sent'[posted[i].from]
    BY <2>2, <2>3, <2>4
  <2>6. posted[i] # m
    BY <1>3, <2>2, <2>3, <2>4
  <2> QED
    BY <2>4, <2>5, <2>6
<1>4. ASSUME NEW i \in 1..Len(posted'), posted'[i].kind = "sync"
      PROVE  /\ posted'[i].n <= sent'[posted'[i].from]
             /\ \A j \in 1..Len(posted') : posted'[j] = posted'[i] => j = i
  <2>1. CASE i \in 1..Len(posted)
    <3>1. posted'[i] = posted[i]
      BY <2>1
    <3>2. /\ posted[i].n <= sent'[posted[i].from]
          /\ posted[i] # m
          /\ \A j \in 1..Len(posted) : posted[j] = posted[i] => j = i
      BY <1>3, <1>4, <2>1, <3>1
    <3>3. ASSUME NEW j \in 1..Len(posted'), posted'[j] = posted'[i] PROVE j = i
      <4>1. j # Len(posted) + 1
        BY <3>1, <3>2, <3>3
      <4>2. j \in 1..Len(posted)
        BY <1>1, <4>1
      <4> QED
        BY <3>1, <3>2, <3>3, <4>2
    <3> QED
      BY <3>1, <3>2, <3>3
  <2>2. CASE i = Len(posted) + 1
    <3>1. ASSUME NEW j \in 1..Len(posted'), posted'[j] = posted'[i] PROVE j = i
      BY <1>1, <1>3, <1>4, <2>2, <3>1
    <3> QED
      BY <1>4, <2>2, <3>1
  <2> QED
    BY <1>1, <2>1, <2>2
<1> QED
  BY <1>4 DEF Distinct

\* Posting a message keeps MsgInv, if the sender waits for it when it is a
\* synchronous one, and had nothing pending.
LEMMA PostMsgInv ==
    ASSUME TypeOK, MsgInv, TypeOK', NEW m \in Message, Invoke(m),
           UNCHANGED <<batch, executed, fired>>,
           \A c \in Clients : sent[c] <= sent'[c],
           m.kind = "sync" => /\ sent[m.from] < m.n
                              /\ client'[m.from] \in Waiting
                              /\ m = [from |-> m.from, kind |-> "sync",
                                      n |-> sent'[m.from]],
           \A c \in Clients : client[c] \in Waiting =>
                                 client'[c] = client[c] /\ sent'[c] = sent[c]
    PROVE  MsgInv'
<1>1. /\ Fifo'
      /\ Len(posted') = Len(posted) + 1
      /\ posted'[Len(posted) + 1] = m
      /\ \A i \in 1..Len(posted) : posted'[i] = posted[i]
  BY InvokeFifo DEF MsgInv
<1>2. Distinct'
  <2>1. sent' \in [Clients -> Nat] /\ posted' \in Seq(Message)
    BY RunnerAssumption DEF TypeOK
  <2>2. m.kind = "sync" => sent[m.from] < m.n /\ m.n <= sent'[m.from]
    <3>1. m.from \in Clients
      BY DEF Message
    <3> QED
      BY <2>1, <3>1
  <2> QED
    BY <1>1, <2>1, <2>2, PostDistinct DEF MsgInv
<1>3. FiredRan'
  BY DEF MsgInv, FiredRan
<1>4. PendingHolds'
  <2>1. Len(posted) \in Nat
    BY DEF TypeOK
  <2>2. ASSUME NEW i \in 1..Len(posted'), posted'[i].kind = "sync", ~(i <= Len(executed))
        PROVE  /\ client'[posted'[i].from] \in Waiting
               /\ posted'[i] = [from |-> posted'[i].from, kind |-> "sync",
                                n |-> sent'[posted'[i].from]]
    <3>1. CASE i \in 1..Len(posted)
      <4>1. posted'[i] = posted[i]
        BY <1>1, <3>1
      <4>2. posted[i] \in Message
        BY <3>1 DEF TypeOK
      <4>3. posted[i].from \in Clients
        BY <4>2 DEF Message
      <4>4. /\ client[posted[i].from] \in Waiting
            /\ posted[i] = Awaited(posted[i].from)
        BY <2>2, <3>1, <4>1 DEF MsgInv, PendingHolds, Waiting
      <4> QED
        BY <4>1, <4>3, <4>4 DEF Awaited
    <3>2. CASE i = Len(posted) + 1
      BY <1>1, <2>2, <3>2
    <3> QED
      BY <1>1, <2>1, <3>1, <3>2
  <2> QED
    BY <2>2 DEF PendingHolds, Awaited, Waiting
<1> QED
  BY <1>1, <1>2, <1>3, <1>4 DEF MsgInv

\* A dispatch keeps MsgInv: the message that runs was the first pending one.
LEMMA DispatchMsgInv ==
    ASSUME TypeOK, MsgInv, NEW w \in Clients, Dispatch(w)
    PROVE  MsgInv'
<1>1. /\ Fifo'
      /\ Len(executed') = Len(executed) + 1
      /\ executed'[Len(executed) + 1] = Head(batch)
      /\ \A i \in 1..Len(executed) : executed'[i] = executed[i]
  BY DispatchFifo DEF MsgInv
<1>2. posted' = posted /\ sent' = sent /\ Len(executed) \in Nat
  BY DEF Dispatch, TypeOK
<1>3. client \in [Clients -> States]
  BY DEF TypeOK, States
<1>4. \A c \in Clients : client[c] \in Waiting => client'[c] \in Waiting
  <2>1. CASE RunUnlock
    BY <1>3, <2>1, SignalMoves DEF RunUnlock, States, Waiting
  <2>2. CASE RunSync(Head(batch))
    BY <1>3, <2>2, BroadcastMoves DEF RunSync, States, Waiting
  <2>3. CASE RunAsync
    BY <2>3 DEF RunAsync
  <2> QED
    BY <2>1, <2>2, <2>3 DEF Dispatch
<1>5. FiredRan'
  <2>1. fired' = fired \/ (fired' = fired \cup {Head(batch)} /\ Head(batch).kind = "sync")
    BY DEF Dispatch, RunUnlock, RunSync, RunAsync
  <2> QED
    BY <1>1, <1>2, <2>1 DEF MsgInv, FiredRan
<1>6. Distinct'
  BY <1>2 DEF MsgInv, Distinct
<1>7. PendingHolds'
  <2>1. ASSUME NEW i \in 1..Len(posted), posted[i].kind = "sync", ~(i <= Len(executed'))
        PROVE  /\ client'[posted[i].from] \in Waiting
               /\ posted[i] = Awaited(posted[i].from)
    <3>1. posted[i] \in Message
      BY DEF TypeOK
    <3>2. posted[i].from \in Clients
      BY <3>1 DEF Message
    <3>3. ~(i <= Len(executed))
      BY <1>1, <1>2, <2>1
    <3>4. /\ client[posted[i].from] \in Waiting
          /\ posted[i] = Awaited(posted[i].from)
      BY <2>1, <3>3 DEF MsgInv, PendingHolds, Waiting
    <3> QED
      BY <1>4, <3>2, <3>4
  <2> QED
    BY <1>2, <2>1 DEF PendingHolds, Awaited, Waiting
<1> QED
  BY <1>1, <1>5, <1>6, <1>7 DEF MsgInv

\* A sender goes on only when its message has fired: nothing of it is pending.
LEMMA SyncCheckMsgInv ==
    ASSUME TypeOK, MsgInv, NEW c \in Clients, SyncCheck(c)
    PROVE  MsgInv'
<1>1. CASE Awaited(c) \notin fired
  BY <1>1, MsgStable DEF SyncCheck, TypeOK, Waiting, msgVars
<1>2. CASE Awaited(c) \in fired
  <2>1. UNCHANGED <<msgVars, sent>>
    BY DEF SyncCheck
  <2>2. Fifo' /\ Distinct' /\ FiredRan'
    BY <2>1 DEF MsgInv, Fifo, Distinct, FiredRan, msgVars
  <2>3. PICK k \in 1..Len(executed) : executed[k] = Awaited(c)
    BY <1>2 DEF MsgInv, FiredRan
  <2>4. k \in 1..Len(posted) /\ posted[k] = Awaited(c) /\ k <= Len(executed)
    <3>1. Len(executed) \in Nat /\ Len(batch) \in Nat /\ Len(queue) \in Nat
      BY DEF TypeOK
    <3> QED
      BY <2>3, <3>1 DEF MsgInv, Fifo
  <2>5. ASSUME NEW i \in 1..Len(posted), posted[i].kind = "sync", ~(i <= Len(executed))
        PROVE  /\ client'[posted[i].from] \in Waiting
               /\ posted[i] = Awaited(posted[i].from)
    <3>1. posted[i] \in Message
      BY DEF TypeOK
    <3>2. posted[i].from \in Clients
      BY <3>1 DEF Message
    <3>3. /\ client[posted[i].from] \in Waiting
          /\ posted[i] = Awaited(posted[i].from)
      BY <2>5 DEF MsgInv, PendingHolds, Waiting
    <3>4. posted[i].from # c
      BY <2>4, <2>5, <3>3 DEF MsgInv, Distinct
    <3> QED
      BY <3>2, <3>3, <3>4 DEF SyncCheck, TypeOK
  <2>6. PendingHolds'
    BY <2>1, <2>5 DEF PendingHolds, Awaited, Waiting, msgVars
  <2> QED
    BY <2>2, <2>6 DEF MsgInv
<1> QED
  BY <1>1, <1>2

\* Every step keeps MsgInv.
LEMMA MsgNext == TypeOK /\ TypeOK' /\ MsgInv /\ [Next]_vars => MsgInv'
<1> SUFFICES ASSUME TypeOK, TypeOK', MsgInv, [Next]_vars
             PROVE  MsgInv'
  OBVIOUS
<1>1. client \in [Clients -> States]
  BY DEF TypeOK, States
<1>2. ASSUME NEW c \in Clients, Run(c) \/ RunRecheck(c) PROVE MsgInv'
  BY <1>2, MsgStable DEF Run, RunRecheck, TypeOK, Waiting
<1>3. ASSUME NEW w \in Clients, WorkerStart(w) PROVE MsgInv'
  <2>1. Unlock(w) \in Message /\ Unlock(w).kind # "sync"
    BY RunnerAssumption DEF Unlock, Message
  <2>2. /\ Invoke(Unlock(w)) /\ client' = client /\ sent' = sent
        /\ UNCHANGED <<batch, executed, fired>>
    BY <1>3 DEF WorkerStart, Invoke, clientVars
  <2>3. \A c \in Clients : sent[c] <= sent'[c]
    BY <2>2, RunnerAssumption DEF TypeOK
  <2> QED
    BY <2>1, <2>2, <2>3, PostMsgInv
<1>4. ASSUME NEW w \in Clients, EnterLoop(w) \/ AwaitContext(w) \/ LeaveLoop(w)
      PROVE  MsgInv'
  BY <1>4, MsgStable DEF EnterLoop, AwaitContext, LeaveLoop, clientVars
<1>5. ASSUME NEW w \in Clients, Iterate(w) PROVE MsgInv'
  <2>1. Fifo'
    BY <1>5, IterateFifo DEF MsgInv
  <2>2. UNCHANGED <<client, sent, posted, executed, fired>>
    BY <1>5 DEF Iterate, clientVars
  <2>3. Distinct /\ FiredRan /\ PendingHolds
    BY DEF MsgInv
  <2>4. Distinct'
    BY <2>2, <2>3 DEF Distinct
  <2>5. FiredRan'
    BY <2>2, <2>3 DEF FiredRan
  <2>6. PendingHolds'
    BY <2>2, <2>3 DEF PendingHolds, Awaited
  <2> QED
    BY <2>1, <2>4, <2>5, <2>6 DEF MsgInv
<1>6. ASSUME NEW w \in Clients, Dispatch(w) PROVE MsgInv'
  BY <1>6, DispatchMsgInv
<1>7. ASSUME NEW w \in Clients, WorkerExit(w) PROVE MsgInv'
  <2>1. \A c \in Clients : client[c] \in Waiting => client'[c] \in Waiting
    BY <1>1, <1>7, SignalMoves DEF WorkerExit, States, Waiting
  <2> QED
    BY <1>7, <2>1, MsgStable DEF WorkerExit
<1>8. ASSUME NEW c \in Clients, SendAsync(c) PROVE MsgInv'
  <2> DEFINE m == [from |-> c, kind |-> "async", n |-> sent[c] + 1]
  <2>1. m \in Message /\ m.kind # "sync"
    BY <1>8 DEF TypeOK, SendAsync, Message
  <2>2. /\ Invoke(m) /\ client' = client /\ client[c] = "ready"
        /\ sent' = [sent EXCEPT ![c] = @ + 1]
        /\ UNCHANGED <<batch, executed, fired>>
    BY <1>8 DEF SendAsync
  <2>3. \A d \in Clients : /\ sent[d] <= sent'[d]
                           /\ client[d] \in Waiting => sent'[d] = sent[d]
    BY <2>2, RunnerAssumption DEF TypeOK, Waiting
  <2> HIDE DEF m
  <2> QED
    BY <2>1, <2>2, <2>3, PostMsgInv
<1>9. ASSUME NEW c \in Clients, SendSync(c) PROVE MsgInv'
  <2> DEFINE m == [from |-> c, kind |-> "sync", n |-> sent[c] + 1]
  <2>1. m \in Message
    BY <1>9 DEF TypeOK, SendSync, Message
  <2>2. /\ Invoke(m) /\ client[c] = "ready"
        /\ client' = [client EXCEPT ![c] = "sync_check"]
        /\ sent' = [sent EXCEPT ![c] = @ + 1]
        /\ UNCHANGED <<batch, executed, fired>>
    BY <1>9 DEF SendSync
  <2>3. \A d \in Clients : sent[d] <= sent'[d]
    BY <2>2, RunnerAssumption DEF TypeOK
  <2>4. /\ sent[m.from] < m.n
        /\ client'[m.from] \in Waiting
        /\ m = [from |-> m.from, kind |-> "sync", n |-> sent'[m.from]]
    BY <2>2, RunnerAssumption DEF TypeOK, Waiting
  <2>5. \A d \in Clients : client[d] \in Waiting =>
                              client'[d] = client[d] /\ sent'[d] = sent[d]
    BY <2>2 DEF TypeOK, Waiting
  <2> HIDE DEF m
  <2> QED
    BY <2>1, <2>2, <2>3, <2>4, <2>5, PostMsgInv
<1>10. ASSUME NEW c \in Clients, SyncCheck(c) PROVE MsgInv'
  BY <1>10, SyncCheckMsgInv
<1>11. ASSUME NEW c \in Clients, Unref(c) \/ Finalize(c) \/ FinalizeRecheck(c)
       PROVE  MsgInv'
  BY <1>11, MsgStable DEF Unref, Finalize, FinalizeRecheck, TypeOK, Waiting
<1>12. CASE UNCHANGED vars
  BY <1>12, MsgStable DEF vars, msgVars
<1> QED
  BY <1>2, <1>3, <1>4, <1>5, <1>6, <1>7, <1>8, <1>9, <1>10, <1>11, <1>12
     DEF Next, WorkerStep, ClientStep, ClientCall

--------------------------------------------------------------------------------
(* References *)

Holding == {"attached", "run_wait", "run_woken", "ready", "sync_check", "sync_wait"}
Ending == {"finalize", "fin_wait", "fin_woken", "freed"}

\* A client that is only woken or put to sleep keeps, or stays without, its
\* reference.
LEMMA RefStable ==
    ASSUME RefInv, UNCHANGED refs,
           \A c \in Clients :
               \/ client'[c] = client[c]
               \/ client[c] \in Holding /\ client'[c] \in Holding
               \/ client[c] \in Ending /\ client'[c] \in Ending
    PROVE  RefInv'
<1>1. \A c \in Clients : client'[c] \in Holding <=> c \in refs'
  BY DEF RefInv, Holding, Ending
<1>2. \A c \in Clients : client'[c] \in Ending => refs' = {}
  BY DEF RefInv, Holding, Ending
<1> QED
  BY <1>1, <1>2 DEF RefInv, Holding, Ending

\* Every step keeps RefInv: the last reference is dropped once.
LEMMA RefNext == TypeOK /\ RefInv /\ [Next]_vars => RefInv'
<1> SUFFICES ASSUME TypeOK, RefInv, [Next]_vars
             PROVE  RefInv'
  OBVIOUS
<1> USE DEF TypeOK, RefInv
<1>1. client \in [Clients -> States]
  BY DEF States
<1>2. ASSUME NEW c \in Clients, Run(c) \/ RunRecheck(c) PROVE RefInv'
  BY <1>2 DEF Run, RunRecheck
<1>3. ASSUME NEW w \in Clients,
             \/ WorkerStart(w) \/ EnterLoop(w) \/ AwaitContext(w)
             \/ Iterate(w) \/ LeaveLoop(w)
      PROVE  RefInv'
  <2>1. client' = client /\ refs' = refs
    BY <1>3 DEF WorkerStart, EnterLoop, AwaitContext, Iterate, LeaveLoop, clientVars
  <2> QED
    BY <2>1
<1>4. ASSUME NEW w \in Clients, Dispatch(w) PROVE RefInv'
  <2>1. refs' = refs
    BY <1>4 DEF Dispatch
  <2>2. CASE RunUnlock
    <3>1. \A c \in Clients :
              client'[c] = client[c] \/ (client[c] = "run_wait" /\ client'[c] = "run_woken")
      BY <1>1, <2>2, SignalMoves DEF RunUnlock, States
    <3> QED
      BY <2>1, <3>1, RefStable DEF Holding
  <2>3. CASE RunSync(Head(batch))
    <3>1. \A c \in Clients :
              client'[c] = client[c] \/ (client[c] = "sync_wait" /\ client'[c] = "sync_check")
      BY <1>1, <2>3, BroadcastMoves DEF RunSync, States
    <3> QED
      BY <2>1, <3>1, RefStable DEF Holding
  <2>4. CASE RunAsync
    BY <2>1, <2>4 DEF RunAsync
  <2> QED
    BY <1>4, <2>2, <2>3, <2>4 DEF Dispatch
<1>5. ASSUME NEW w \in Clients, WorkerExit(w) PROVE RefInv'
  <2>1. \A c \in Clients :
            client'[c] = client[c] \/ (client[c] = "fin_wait" /\ client'[c] = "fin_woken")
    BY <1>1, <1>5, SignalMoves DEF WorkerExit, States
  <2> QED
    BY <1>5, <2>1, RefStable DEF WorkerExit, Ending
<1>6. ASSUME NEW c \in Clients, SendAsync(c) \/ SendSync(c) \/ SyncCheck(c)
      PROVE  RefInv'
  BY <1>6 DEF SendAsync, SendSync, SyncCheck
<1>7. ASSUME NEW c \in Clients, Unref(c) PROVE RefInv'
  BY <1>7 DEF Unref
<1>8. ASSUME NEW c \in Clients, Finalize(c) \/ FinalizeRecheck(c) PROVE RefInv'
  BY <1>8 DEF Finalize, FinalizeRecheck
<1>9. CASE UNCHANGED vars
  BY <1>9 DEF vars
<1> QED
  BY <1>2, <1>3, <1>4, <1>5, <1>6, <1>7, <1>8, <1>9
     DEF Next, WorkerStep, ClientStep, ClientCall

--------------------------------------------------------------------------------
(* The life of the worker thread *)

\* Every step of a history without overlapping run() keeps ThreadInv.
LEMMA ThreadNext ==
    TypeOK /\ RefInv /\ (~overlapped => ThreadInv) /\ [Next]_vars
        => (~overlapped' => ThreadInv')
<1> SUFFICES ASSUME TypeOK, RefInv, ~overlapped => ThreadInv, [Next]_vars, ~overlapped'
             PROVE  ThreadInv'
  OBVIOUS
<1> USE RunnerAssumption
<1>1. ThreadInv
  <2>1. ASSUME NEW c \in Clients, Run(c) PROVE ~overlapped
    BY <2>1 DEF Run
  <2>2. CASE UNCHANGED overlapped
    BY <2>2
  <2>3. ASSUME NEW c \in Clients, WorkerStep(c) PROVE UNCHANGED overlapped
    BY <2>3 DEF WorkerStep, clientVars, WorkerStart, EnterLoop, AwaitContext, Iterate,
                Dispatch, LeaveLoop, WorkerExit
  <2>4. ASSUME NEW c \in Clients, ClientStep(c) PROVE UNCHANGED overlapped
    BY <2>4 DEF ClientStep, RunRecheck, SyncCheck, Finalize, FinalizeRecheck
  <2>5. ASSUME NEW c \in Clients, ClientCall(c), ~Run(c) PROVE UNCHANGED overlapped
    BY <2>5 DEF ClientCall, SendAsync, SendSync, Unref
  <2> QED
    BY <2>1, <2>2, <2>3, <2>4, <2>5 DEF Next, vars
<1>2. client \in [Clients -> States]
  BY DEF TypeOK, States
<1>3. ASSUME NEW c \in Clients, Run(c) PROVE ThreadInv'
  <2>1. \A d \in Clients : ~InRun(d)
    BY <1>3 DEF Run, Asleep, InRun
  <2>2. UNCHANGED <<createLock, created, alive, loopRunning, owner, refs>>
    BY <1>3 DEF Run, lockVars, loopVars
  <2>3. CASE created
    <3>1. client' = [client EXCEPT ![c] = "ready"] /\ worker' = worker
      BY <1>3, <2>3 DEF Run
    <3>2. OneWorker' /\ AtRest' /\ OneRun'
      BY <1>1, <1>2, <2>1, <2>2, <3>1
         DEF ThreadInv, OneWorker, AtRest, OneRun, InRun, Active
    <3>3. ASSUME NEW v \in Clients PROVE PhaseInv(v)'
      BY <1>1, <2>1, <2>2, <2>3, <3>1 DEF ThreadInv, PhaseInv, InRun
    <3>4. loopRunning /\ \E w \in Clients : worker[w] = "loop"
      <4>1. refs # {}
        BY <1>3 DEF Run, RefInv
      <4>2. PICK w \in Clients : Active(w)
        BY <1>1, <2>3 DEF ThreadInv, AtRest
      <4>3. worker[w] \in {"loop", "exited"}
        BY <1>1, <2>3, <4>2 DEF ThreadInv, PhaseInv, Active, TypeOK
      <4> QED
        BY <1>1, <4>1, <4>2, <4>3 DEF ThreadInv, PhaseInv
    <3>5. ASSUME NEW d \in Clients PROVE ClientInv(d)'
      BY <1>1, <1>2, <2>1, <2>2, <2>3, <3>1, <3>4 DEF ThreadInv, ClientInv, InRun, Active
    <3> QED
      BY <3>2, <3>3, <3>5 DEF ThreadInv
  <2>4. CASE ~created
    <3>1. /\ client' = [client EXCEPT ![c] = "run_wait"]
          /\ worker' = [worker EXCEPT ![c] = "start"]
      BY <1>3, <2>4 DEF Run
    <3>2. \A w \in Clients : ~Active(w)
      BY <1>1, <2>1, <2>4 DEF ThreadInv, PhaseInv, InRun, Active, TypeOK
    <3>3. createLock = None /\ owner = None /\ ~created /\ ~alive /\ ~loopRunning
      BY <1>1, <3>2 DEF ThreadInv, AtRest
    <3>4. OneWorker' /\ AtRest' /\ OneRun'
      BY <1>2, <2>1, <3>1, <3>2 DEF OneWorker, AtRest, OneRun, InRun, Active, TypeOK
    <3>5. ASSUME NEW v \in Clients PROVE PhaseInv(v)'
      BY <1>2, <2>2, <3>1, <3>2, <3>3 DEF PhaseInv, Active, TypeOK
    <3>6. ASSUME NEW d \in Clients PROVE ClientInv(d)'
      <4>1. client[c] = "attached" /\ refs # {}
        BY <1>3 DEF Run, RefInv
      <4>2. client[d] # "freed"
        BY <4>1 DEF RefInv
      <4> QED
        BY <1>1, <1>2, <2>1, <2>2, <3>1, <3>2, <3>3, <4>1, <4>2
           DEF ThreadInv, ClientInv, InRun, Active, TypeOK
    <3> QED
      BY <3>4, <3>5, <3>6 DEF ThreadInv
  <2> QED
    BY <2>3, <2>4
<1>4. ASSUME NEW c \in Clients, RunRecheck(c) PROVE ThreadInv'
  BY <1>1, <1>4 DEF RunRecheck, TypeOK, ThreadInv, OneWorker, PhaseInv, AtRest, OneRun, InRun, ClientInv, Active, lockVars, loopVars
<1>5. ASSUME NEW w \in Clients, WorkerStart(w) PROVE ThreadInv'
  BY <1>1, <1>5
     DEF WorkerStart, TypeOK, RefInv, ThreadInv, OneWorker, PhaseInv, AtRest, OneRun, InRun, ClientInv, Active, loopVars, clientVars
<1>6. ASSUME NEW w \in Clients, EnterLoop(w) PROVE ThreadInv'
  <2>1. OneWorker'
    BY <1>1, <1>6 DEF EnterLoop, TypeOK, ThreadInv, OneWorker, PhaseInv, Active
  <2>2. ASSUME NEW v \in Clients PROVE PhaseInv(v)'
    BY <1>1, <1>6 DEF EnterLoop, TypeOK, RefInv, lockVars, clientVars, ThreadInv, OneWorker, PhaseInv, AtRest, OneRun, InRun, ClientInv, Active
  <2>3. AtRest'
    BY <1>1, <1>6 DEF EnterLoop, TypeOK, RefInv, lockVars, clientVars, ThreadInv, OneWorker, PhaseInv, AtRest, OneRun, InRun, ClientInv, Active
  <2>4. OneRun'
    BY <1>1, <1>6 DEF EnterLoop, TypeOK, RefInv, lockVars, clientVars, ThreadInv, OneRun, InRun, ClientInv
  <2>5. ASSUME NEW d \in Clients PROVE ClientInv(d)'
    BY <1>1, <1>6 DEF EnterLoop, TypeOK, RefInv, lockVars, clientVars, ThreadInv, OneWorker, PhaseInv, AtRest, OneRun, InRun, ClientInv, Active
  <2> QED
    BY <2>1, <2>2, <2>3, <2>4, <2>5 DEF ThreadInv
<1>7. ASSUME NEW w \in Clients, AwaitContext(w) PROVE ThreadInv'
  BY <1>1, <1>7 DEF AwaitContext, ThreadInv, PhaseInv
<1>8. ASSUME NEW w \in Clients, Iterate(w) PROVE ThreadInv'
  BY <1>1, <1>8
     DEF Iterate, ThreadInv, OneWorker, PhaseInv, AtRest, OneRun, InRun, ClientInv, Active, lockVars, loopVars, clientVars
<1>9. ASSUME NEW w \in Clients, Dispatch(w) PROVE ThreadInv'
  <2>1. UNCHANGED <<loopVars, worker, refs>> /\ worker[w] = "loop"
    BY <1>9 DEF Dispatch
  <2>2. CASE RunUnlock
    BY <1>1, <1>2, <2>1, <2>2, SignalMoves, SignalWakes
       DEF RunUnlock, TypeOK, RefInv, ThreadInv, OneWorker, PhaseInv, AtRest, OneRun, InRun, ClientInv, Active, loopVars, States
  <2>3. CASE RunSync(Head(batch))
    <3>1. /\ UNCHANGED <<lockVars, loopVars, worker>>
          /\ \A c \in Clients :
                client'[c] = client[c] \/ (client[c] = "sync_wait" /\ client'[c] = "sync_check")
      BY <1>2, <2>1, <2>3, BroadcastMoves DEF RunSync, States
    <3>2. OneWorker' /\ AtRest' /\ OneRun'
      BY <1>1, <3>1 DEF ThreadInv, OneWorker, AtRest, OneRun, InRun, Active, lockVars, loopVars
    <3>3. ASSUME NEW v \in Clients PROVE PhaseInv(v)'
      BY <1>1, <2>1, <3>1 DEF ThreadInv, PhaseInv, lockVars, loopVars
    <3>4. ASSUME NEW d \in Clients PROVE ClientInv(d)'
      BY <1>1, <3>1 DEF ThreadInv, ClientInv, Active, lockVars, loopVars
    <3> QED
      BY <3>2, <3>3, <3>4 DEF ThreadInv
  <2>4. CASE RunAsync
    BY <1>1, <2>1, <2>4
       DEF RunAsync, ThreadInv, OneWorker, PhaseInv, AtRest, OneRun, InRun, ClientInv, Active, loopVars, lockVars
  <2> QED
    BY <1>9, <2>2, <2>3, <2>4 DEF Dispatch
<1>10. ASSUME NEW w \in Clients, LeaveLoop(w) PROVE ThreadInv'
  BY <1>1, <1>10
     DEF LeaveLoop, TypeOK, ThreadInv, OneWorker, PhaseInv, AtRest, OneRun, InRun, ClientInv, Active, lockVars, clientVars
<1>11. ASSUME NEW w \in Clients, WorkerExit(w) PROVE ThreadInv'
  <2>1. OneWorker'
    BY <1>1, <1>2, <1>11, SignalMoves DEF WorkerExit, TypeOK, loopVars, States, ThreadInv, OneWorker, PhaseInv, OneRun, InRun, ClientInv, Active
  <2>2. ASSUME NEW v \in Clients PROVE PhaseInv(v)'
    BY <1>1, <1>2, <1>11, SignalMoves DEF WorkerExit, TypeOK, loopVars, States, ThreadInv, OneWorker, PhaseInv, AtRest, OneRun, InRun, ClientInv, Active
  <2>3. AtRest'
    BY <1>1, <1>2, <1>11, SignalMoves DEF WorkerExit, TypeOK, loopVars, States, ThreadInv, OneWorker, PhaseInv, AtRest, OneRun, InRun, ClientInv, Active
  <2>4. OneRun'
    BY <1>1, <1>2, <1>11, SignalMoves DEF WorkerExit, TypeOK, loopVars, States, ThreadInv, OneRun, InRun, ClientInv
  <2>5. ASSUME NEW d \in Clients PROVE ClientInv(d)'
    BY <1>1, <1>2, <1>11, SignalMoves DEF WorkerExit, TypeOK, loopVars, States, ThreadInv, OneWorker, PhaseInv, AtRest, OneRun, InRun, ClientInv, Active
  <2> QED
    BY <2>1, <2>2, <2>3, <2>4, <2>5 DEF ThreadInv
<1>12. ASSUME NEW c \in Clients, SendAsync(c) PROVE ThreadInv'
  BY <1>1, <1>12 DEF SendAsync, ThreadInv, OneWorker, PhaseInv, AtRest, OneRun, InRun, ClientInv, Active, lockVars, loopVars
<1>13. ASSUME NEW c \in Clients, SendSync(c) \/ SyncCheck(c) PROVE ThreadInv'
  <2>1. OneWorker'
    BY <1>1, <1>13 DEF SendSync, SyncCheck, TypeOK, lockVars, loopVars, ThreadInv, OneWorker, PhaseInv, OneRun, InRun, ClientInv, Active
  <2>2. ASSUME NEW v \in Clients PROVE PhaseInv(v)'
    BY <1>1, <1>13 DEF SendSync, SyncCheck, TypeOK, lockVars, loopVars, ThreadInv, OneWorker, PhaseInv, AtRest, OneRun, InRun, ClientInv, Active
  <2>3. AtRest'
    BY <1>1, <1>13 DEF SendSync, SyncCheck, TypeOK, lockVars, loopVars, ThreadInv, OneWorker, PhaseInv, AtRest, OneRun, InRun, ClientInv, Active
  <2>4. OneRun'
    BY <1>1, <1>13 DEF SendSync, SyncCheck, TypeOK, lockVars, loopVars, ThreadInv, OneRun, InRun, ClientInv
  <2>5. ASSUME NEW d \in Clients PROVE ClientInv(d)'
    <3>1. UNCHANGED <<created, loopRunning, worker>>
      BY <1>13 DEF SendSync, SyncCheck, lockVars, loopVars
    <3>2. \/ client'[d] = client[d]
          \/ /\ client[d] \in {"ready", "sync_check", "sync_wait"}
             /\ client'[d] \in {"ready", "sync_check", "sync_wait"}
      BY <1>2, <1>13 DEF SendSync, SyncCheck, Invoke, Awaited
    <3>3. ClientInv(d)
      BY <1>1 DEF ThreadInv
    <3> QED
      BY <3>1, <3>2, <3>3 DEF ClientInv, Active
  <2> QED
    BY <2>1, <2>2, <2>3, <2>4, <2>5 DEF ThreadInv
<1>14. ASSUME NEW c \in Clients, Unref(c) PROVE ThreadInv'
  BY <1>1, <1>14 DEF Unref, TypeOK, ThreadInv, OneWorker, PhaseInv, AtRest, OneRun, InRun, ClientInv, Active, lockVars, loopVars
<1>15. ASSUME NEW c \in Clients, Finalize(c) PROVE ThreadInv'
  BY <1>1, <1>15
     DEF Finalize, TypeOK, RefInv, ThreadInv, OneWorker, PhaseInv, AtRest, OneRun, InRun, ClientInv, Active, lockVars
<1>16. ASSUME NEW c \in Clients, FinalizeRecheck(c) PROVE ThreadInv'
  BY <1>1, <1>16
     DEF FinalizeRecheck, TypeOK, RefInv, ThreadInv, OneWorker, PhaseInv, AtRest, OneRun, InRun, ClientInv, Active, lockVars, loopVars
<1>17. CASE UNCHANGED vars
  BY <1>1, <1>17 DEF vars, ThreadInv, OneWorker, PhaseInv, AtRest, OneRun, InRun, ClientInv, Active
<1> QED
  BY <1>3, <1>4, <1>5, <1>6, <1>7, <1>8, <1>9, <1>10, <1>11, <1>12, <1>13, <1>14,
     <1>15, <1>16, <1>17
     DEF Next, WorkerStep, ClientStep, ClientCall

--------------------------------------------------------------------------------
(* The theorems *)

LEMMA InitInv == Init => IInv
<1> SUFFICES ASSUME Init PROVE IInv
  OBVIOUS
<1>1. TypeOK
  <2>1. <<>> \in Seq(Message) /\ 0 \in 0..MaxSends
    BY RunnerAssumption
  <2> QED
    BY <2>1 DEF Init, TypeOK
<1>2. MsgInv
  BY DEF Init, MsgInv, Fifo, Distinct, FiredRan, PendingHolds
<1>3. RefInv
  BY DEF Init, RefInv
<1>4. ThreadInv
  BY DEF Init, ThreadInv, OneWorker, PhaseInv, AtRest, OneRun, InRun, ClientInv, Active
<1> QED
  BY <1>1, <1>2, <1>3, <1>4 DEF IInv

\* IInv holds in every state of a runner, whatever the number of its clients
\* and of their messages: posting, dispatch, reference counting and the
\* hand-over of create_lock preserve it together.
THEOREM Invariance == Spec => []IInv
<1>1. Init => IInv
  BY InitInv
<1>2. IInv /\ [Next]_vars => IInv'
  BY TypeNext, MsgNext, RefNext, ThreadNext DEF IInv
<1> QED
  BY <1>1, <1>2, PTL DEF Spec

\* Every variable keeps its type.
THEOREM TypeCorrect == Spec => []TypeOK
<1>1. IInv => TypeOK
  BY DEF IInv
<1> QED
  BY <1>1, Invariance, PTL

\* gst_web_runner_send_message returns only after its callback has run, even
\* if two run() overlapped.
THEOREM SyncCorrect == Spec => []SyncGuarantee
<1>1. IInv => SyncGuarantee
  <2> SUFFICES ASSUME IInv, NEW c \in Clients,
                      client[c] \notin {"sync_check", "sync_wait"},
                      NEW i \in 1..Len(posted),
                      posted[i].from = c, posted[i].kind = "sync"
               PROVE  \E j \in 1..Len(executed) : executed[j] = posted[i]
    BY DEF SyncGuarantee
  <2>1. i <= Len(executed)
    BY DEF IInv, MsgInv, PendingHolds
  <2>2. Len(executed) \in Nat
    BY DEF IInv, TypeOK
  <2> QED
    BY <2>1, <2>2 DEF IInv, MsgInv, Fifo
<1> QED
  BY <1>1, Invariance, PTL

\* The quit of finalize is not undone by a worker on its way into the loop.
THEOREM QuitCorrect == Spec => []QuitNotLost
<1>1. IInv => QuitNotLost
  BY DEF IInv, ThreadInv, ClientInv, QuitNotLost
<1> QED
  BY <1>1, Invariance, PTL

\* A client back from run() has a loop that serves it until it lets go.
THEOREM ServeCorrect == Spec => []RunServes
<1>1. IInv => RunServes
  BY RunnerAssumption DEF IInv, ThreadInv, PhaseInv, ClientInv, RunServes
<1> QED
  BY <1>1, Invariance, PTL

\* The locks are freed only when no worker can use them any more.
THEOREM FreeCorrect == Spec => []SafeFree
<1>1. IInv => SafeFree
  BY DEF IInv, TypeOK, ThreadInv, ClientInv, Active, SafeFree, JoinBeforeFree
<1> QED
  BY <1>1, Invariance, PTL

--------------------------------------------------------------------------------
(* The runner implements the executor *)

InSync == {c \in Clients : client[c] \in Waiting}

LEMMA InSyncIs ==
    /\ InSync = Asleep("sync_check") \cup Asleep("sync_wait")
    /\ InSync' = Asleep("sync_check")' \cup Asleep("sync_wait")'
BY DEF InSync, Asleep, Waiting

\* A step that moves no message and no sender stutters for the executor.
LEMMA RefineStutter ==
    ASSUME UNCHANGED <<posted, executed>>,
           \A c \in Clients : client'[c] \in Waiting <=> client[c] \in Waiting
    PROVE  UNCHANGED Promise!vars
<1>1. InSync' = InSync
  BY DEF InSync
<1> QED
  BY <1>1, InSyncIs DEF Promise!vars

LEMMA RefinePost ==
    ASSUME NEW m \in Message, Invoke(m), executed' = executed,
           InSync' = InSync \cup {c \in Clients : WaitsFor(c, m)}
    PROVE  Promise!Next
<1>1. Promise!Post(m)
  BY InSyncIs DEF Promise!Post, Invoke
<1> QED
  BY <1>1 DEF Promise!Next

LEMMA RefineStep == IInv /\ IInv' /\ [Next]_vars => [Promise!Next]_(Promise!vars)
<1> SUFFICES ASSUME IInv, IInv', [Next]_vars
             PROVE  Promise!Next \/ UNCHANGED Promise!vars
  OBVIOUS
<1>0. /\ TypeOK /\ MsgInv /\ TypeOK' /\ MsgInv'
      /\ client \in [Clients -> States] /\ client' \in [Clients -> States]
  BY DEF IInv, TypeOK, States
<1>1. ASSUME NEW c \in Clients,
             \/ Run(c) \/ RunRecheck(c) \/ Unref(c) \/ Finalize(c) \/ FinalizeRecheck(c)
      PROVE  UNCHANGED Promise!vars
  <2>1. UNCHANGED <<posted, executed>>
    BY <1>1 DEF Run, RunRecheck, Unref, Finalize, FinalizeRecheck, msgVars
  <2>2. \A d \in Clients : client'[d] \in Waiting <=> client[d] \in Waiting
    BY <1>0, <1>1 DEF Run, RunRecheck, Unref, Finalize, FinalizeRecheck, Waiting
  <2> QED
    BY <2>1, <2>2, RefineStutter
<1>2. ASSUME NEW w \in Clients,
             EnterLoop(w) \/ AwaitContext(w) \/ Iterate(w) \/ LeaveLoop(w)
      PROVE  UNCHANGED Promise!vars
  <2>1. UNCHANGED <<posted, executed, client>>
    BY <1>2 DEF EnterLoop, AwaitContext, Iterate, LeaveLoop, msgVars, clientVars
  <2> QED
    BY <2>1, RefineStutter
<1>3. ASSUME NEW w \in Clients, WorkerExit(w) PROVE UNCHANGED Promise!vars
  <2>1. \A d \in Clients : client'[d] \in Waiting <=> client[d] \in Waiting
    BY <1>0, <1>3, SignalMoves DEF WorkerExit, States, Waiting
  <2> QED
    BY <1>3, <2>1, RefineStutter DEF WorkerExit, msgVars
<1>4. ASSUME NEW w \in Clients, WorkerStart(w) PROVE Promise!Next
  <2>1. Unlock(w) \in Message /\ \A c \in Clients : ~WaitsFor(c, Unlock(w))
    BY RunnerAssumption DEF Unlock, Message, WaitsFor
  <2>2. Invoke(Unlock(w)) /\ executed' = executed /\ client' = client
    BY <1>4 DEF WorkerStart, Invoke, clientVars
  <2>3. InSync' = InSync \cup {c \in Clients : WaitsFor(c, Unlock(w))}
    BY <2>1, <2>2 DEF InSync
  <2> QED
    BY <2>1, <2>2, <2>3, RefinePost
<1>5. ASSUME NEW c \in Clients, SendAsync(c) PROVE Promise!Next
  <2> DEFINE m == [from |-> c, kind |-> "async", n |-> sent[c] + 1]
  <2>1. m \in Message /\ \A d \in Clients : ~WaitsFor(d, m)
    BY <1>0, <1>5 DEF TypeOK, SendAsync, Message, WaitsFor
  <2>2. Invoke(m) /\ executed' = executed /\ client' = client
    BY <1>5 DEF SendAsync
  <2> HIDE DEF m
  <2>3. InSync' = InSync \cup {d \in Clients : WaitsFor(d, m)}
    BY <2>1, <2>2 DEF InSync
  <2> QED
    BY <2>1, <2>2, <2>3, RefinePost
<1>6. ASSUME NEW c \in Clients, SendSync(c) PROVE Promise!Next
  <2> DEFINE m == [from |-> c, kind |-> "sync", n |-> sent[c] + 1]
  <2>1. m \in Message /\ \A d \in Clients : WaitsFor(d, m) <=> d = c
    BY <1>0, <1>6 DEF TypeOK, SendSync, Message, WaitsFor
  <2>2. /\ Invoke(m) /\ executed' = executed
        /\ client' = [client EXCEPT ![c] = "sync_check"]
    BY <1>6 DEF SendSync
  <2> HIDE DEF m
  <2>3. InSync' = InSync \cup {d \in Clients : WaitsFor(d, m)}
    BY <1>0, <2>1, <2>2 DEF InSync, Waiting
  <2> QED
    BY <2>1, <2>2, <2>3, RefinePost
<1>7. ASSUME NEW w \in Clients, Dispatch(w) PROVE Promise!Next
  <2>1. posted[Len(executed) + 1] = Head(batch) /\ Len(executed) + 1 \in 1..Len(posted)
    BY <1>0, <1>7, DispatchFifo DEF MsgInv
  <2>2. executed' = Append(executed, posted[Len(executed) + 1]) /\ posted' = posted
    BY <1>7, <2>1 DEF Dispatch
  <2>3. Len(executed) < Len(posted)
    BY <1>0, <2>1 DEF TypeOK
  <2>4. \A c \in Clients : client'[c] \in Waiting <=> client[c] \in Waiting
    <3>1. CASE RunUnlock
      BY <1>0, <3>1, SignalMoves DEF RunUnlock, States, Waiting
    <3>2. CASE RunSync(Head(batch))
      BY <1>0, <3>2, BroadcastMoves DEF RunSync, States, Waiting
    <3>3. CASE RunAsync
      BY <3>3 DEF RunAsync
    <3> QED
      BY <1>7, <3>1, <3>2, <3>3 DEF Dispatch
  <2>5. InSync' = InSync
    BY <2>4 DEF InSync
  <2>6. Promise!Execute
    BY <2>2, <2>3, <2>5, InSyncIs DEF Promise!Execute
  <2> QED
    BY <2>6 DEF Promise!Next
<1>8. ASSUME NEW c \in Clients, SyncCheck(c) PROVE Promise!Next \/ UNCHANGED Promise!vars
  <2>1. UNCHANGED <<posted, executed>> /\ client[c] = "sync_check"
    BY <1>8 DEF SyncCheck, msgVars
  <2>2. CASE client' = [client EXCEPT ![c] = "sync_wait"]
    BY <1>0, <2>1, <2>2, RefineStutter DEF Waiting
  <2>3. CASE client' = [client EXCEPT ![c] = "ready"]
    <3>1. c \in InSync /\ InSync' = InSync \ {c}
      BY <1>0, <2>1, <2>3 DEF InSync, Waiting
    <3>2. \A i \in 1..Len(posted) : WaitsFor(c, posted[i]) => i <= Len(executed)
      BY <1>0, <2>1, <2>3 DEF MsgInv, PendingHolds, WaitsFor
    <3>3. Promise!Return(c)
      BY <2>1, <3>1, <3>2, InSyncIs DEF Promise!Return
    <3> QED
      BY <3>3 DEF Promise!Next
  <2> QED
    BY <1>8, <2>2, <2>3 DEF SyncCheck
<1>9. CASE UNCHANGED vars
  BY <1>9, RefineStutter DEF vars
<1> QED
  BY <1>1, <1>2, <1>3, <1>4, <1>5, <1>6, <1>7, <1>8, <1>9
     DEF Next, WorkerStep, ClientStep, ClientCall

\* GstWebRunner is an executor: with its locks, its condition variables and
\* its main loop it still runs each message once, in the order of posting, and
\* holds the caller of a synchronous one until it has run.
THEOREM Refinement == Spec => ImplementsExecutor
<1>1. Init => Promise!Init
  BY DEF Init, Promise!Init, Asleep
<1>2. IInv /\ IInv' /\ [Next]_vars => [Promise!Next]_(Promise!vars)
  BY RefineStep
<1> QED
  BY <1>1, <1>2, Invariance, PTL DEF Spec, ImplementsExecutor, Promise!Spec

--------------------------------------------------------------------------------
(* The outputs of WebCodecsAudioDecoder: the inductive invariant           *)

\* The calls of the streaming thread in which a buffer is on its way to the runner,
\* and those in which a message of its own is waited for.
Sending == {"reserve", "wait", "post"}
Formats == {"ctor", "configure"}

\* Who has called set_format has an AudioDecoder, and one that was not made yet has
\* nothing.
MadeInv ==
    /\ \A g \in Decoders : g > cur =>
          jsState[g] = "none" /\ ~jsEvent[g] /\ jsQueue[g] = <<>> /\ jsOutputs[g] = <<>>
    /\ hasFormat \/ chain \in Sending \/ chain = "configure" => cur # 0
    /\ chain = "ctor" => IF box = <<>> THEN cur # 0 ELSE cur < MaxFormats
    /\ \A i \in 1..Len(box) : box[i].kind = "decode" => cur # 0

\* The runner has decode messages, and after them at most the one that set_format
\* waits for.
BoxInv ==
    /\ \A i \in 1..Len(box) :
          \/ box[i].kind = "decode"
          \/ box[i].kind = chain /\ i = Len(box)
    /\ chain \in Formats /\ box # <<>> => box[Len(box)].kind = chain

\* A stop is a reset, and leaves the streaming thread outside.
ResetInv ==
    /\ app # "started" => resets # 0
    /\ chain # "idle" => app = "started"

\* The buffers on their way through the element are numbered without a gap: from
\* the oldest pending one, over what is put out, what comes out, what is decoded, and
\* what is posted, to the last that was handed in. In a drain, none is handed in.
First        == handled - Len(frames)
AfterHand    == First + (IF runner = "output" THEN 1 ELSE 0)
AfterOutputs == AfterHand + Len(jsOutputs[1])
AfterQueue   == AfterOutputs + Len(jsQueue[1])
Decodes      == IF chain \in Formats /\ box # <<>> THEN Len(box) - 1 ELSE Len(box)

Entering     == IF chain \in Sending /\ drain # "running" THEN 1 ELSE 0

\* A sequence of consecutive numbers
Consecutive(seq, after) == \A i \in 1..Len(seq) : seq[i] = after + i

InOrder ==
    /\ Consecutive(frames, First)
    /\ runner = "output" => item = First + 1
    /\ Consecutive(jsOutputs[1], AfterHand)
    /\ Consecutive(jsQueue[1], AfterOutputs)
    /\ \A i \in 1..Decodes : box[i].frame = AfterQueue + i
    /\ handled = AfterQueue + Decodes + Entering

\* Until the first reset, the first end of a drain, output that is dropped and
\* change of caps, on a runner that lives
Quiet == ~dropped /\ resets = 0 /\ cur <= 1 /\ runner # "dead"

OrderInv == Quiet => InOrder

AudioIInv ==
    /\ AudioTypeOK
    /\ MadeInv
    /\ BoxInv
    /\ ResetInv
    /\ OrderInv

--------------------------------------------------------------------------------
(* Sequences *)

LEMMA AppendIs ==
    ASSUME NEW T, NEW seq \in Seq(T), NEW e \in T
    PROVE  /\ Append(seq, e) \in Seq(T)
           /\ Len(seq) \in Nat /\ Len(Append(seq, e)) = Len(seq) + 1
           /\ Append(seq, e) # <<>>
           /\ \A i \in 1..Len(seq) : Append(seq, e)[i] = seq[i]
           /\ Append(seq, e)[Len(seq) + 1] = e
    BY AppendProperties, LenProperties

LEMMA TailIs ==
    ASSUME NEW T, NEW seq \in Seq(T), seq # <<>>
    PROVE  /\ Tail(seq) \in Seq(T) /\ Head(seq) \in T /\ Head(seq) = seq[1]
           /\ Len(seq) \in Nat \ {0} /\ Len(Tail(seq)) = Len(seq) - 1
           /\ \A i \in 1..Len(Tail(seq)) : i + 1 \in 1..Len(seq) /\ Tail(seq)[i] = seq[i + 1]
<1>1. Len(seq) \in Nat /\ Len(seq) # 0
    BY LenProperties, EmptySeq
<1>2. /\ Tail(seq) \in Seq(T) /\ Head(seq) \in T /\ Head(seq) = seq[1]
      /\ Len(Tail(seq)) = Len(seq) - 1
      /\ \A i \in 1..Len(Tail(seq)) : Tail(seq)[i] = seq[i + 1]
    BY HeadTailProperties
<1>3. \A i \in 1..Len(seq) - 1 : i + 1 \in 1..Len(seq)
    BY <1>1
<1>. QED
    BY <1>1, <1>2, <1>3

\* A run goes on, and is begun later.
LEMMA RunAppend ==
    ASSUME NEW T, NEW seq \in Seq(T), NEW after \in Int, NEW e \in T,
           Consecutive(seq, after), e = after + Len(seq) + 1
    PROVE  Consecutive(Append(seq, e), after) /\ Len(Append(seq, e)) = Len(seq) + 1
<1>. DEFINE new == Append(seq, e)
<1>1. /\ Len(seq) \in Nat /\ Len(new) = Len(seq) + 1
      /\ \A i \in 1..Len(seq) : new[i] = seq[i]
      /\ new[Len(seq) + 1] = e
    BY AppendIs
<1>. HIDE DEF new
<1>2. ASSUME NEW i \in 1..Len(new) PROVE new[i] = after + i
    <2>1. CASE i = Len(seq) + 1
        BY <1>1, <2>1
    <2>2. CASE i # Len(seq) + 1
        <3>1. i \in 1..Len(seq)
            BY <1>1, <2>2
        <3>. QED
            BY <1>1, <3>1 DEF Consecutive
    <2>. QED
        BY <2>1, <2>2
<1>3. Consecutive(new, after)
    BY <1>2 DEF Consecutive
<1>. QED
    BY <1>1, <1>3 DEF new

\* So for the chunks and outputs of an AudioDecoder, where a drain leaves a 0.
LEMMA ChunksAppend ==
    ASSUME NEW seq \in Seq(0..MaxFrames), NEW after \in Int, NEW e \in 0..MaxFrames,
           Consecutive(seq, after), e = after + Len(seq) + 1
    PROVE  Consecutive(Append(seq, e), after) /\ Len(Append(seq, e)) = Len(seq) + 1
<1>. DEFINE T == 0..MaxFrames
<1>1. seq \in Seq(T) /\ e \in T
    OBVIOUS
<1>. HIDE DEF T
<1>. QED
    BY <1>1, RunAppend

LEMMA RunTail ==
    ASSUME NEW T, NEW seq \in Seq(T), NEW after \in Int, Consecutive(seq, after), seq # <<>>
    PROVE  /\ Consecutive(Tail(seq), after + 1) /\ Len(Tail(seq)) = Len(seq) - 1
           /\ Head(seq) = after + 1 /\ Len(seq) \in Nat \ {0}
<1>. DEFINE new == Tail(seq)
<1>1. /\ Head(seq) = seq[1] /\ Len(seq) \in Nat \ {0} /\ Len(new) = Len(seq) - 1
      /\ \A i \in 1..Len(new) : i + 1 \in 1..Len(seq) /\ new[i] = seq[i + 1]
    BY TailIs
<1>. HIDE DEF new
<1>2. Head(seq) = after + 1
    BY <1>1 DEF Consecutive
<1>3. ASSUME NEW i \in 1..Len(new) PROVE new[i] = after + 1 + i
    BY <1>1 DEF Consecutive
<1>4. Consecutive(new, after + 1)
    BY <1>3 DEF Consecutive
<1>. QED
    BY <1>1, <1>2, <1>4 DEF new

\* Arithmetic that the provers find by itself, and not among sequences.
LEMMA Moved == \A a \in Int, n \in Nat : (a + 1) + (n - 1) = a + n
    OBVIOUS

LEMMA AtLeast == \A a \in Int, n \in Nat : a + n \in Int /\ a + n >= a
    OBVIOUS

--------------------------------------------------------------------------------
(* What the messages are *)

AudioMessage == [kind : {"decode", "ctor", "configure"}, frame : 0..MaxFrames]

\* A message that is served: a buffer, or the only message of set_format.
LEMMA Received ==
    ASSUME AudioIInv, NEW kind \in {"decode", "ctor", "configure"}, Receive(kind)
    PROVE  /\ box # <<>> /\ box \in Seq(AudioMessage) /\ box' = Tail(box) /\ box' \in Seq(AudioMessage)
           /\ Len(box) \in Nat \ {0} /\ Len(box') = Len(box) - 1
           /\ \A i \in 1..Len(box') : i + 1 \in 1..Len(box) /\ box'[i] = box[i + 1]
           /\ Head(box) = box[1] /\ 1 \in 1..Len(box) /\ box[1].kind = kind
           /\ kind = "decode" => box[1].frame \in 0..MaxFrames /\ cur # 0
           /\ kind # "decode" => chain = kind /\ Len(box) = 1 /\ box' = <<>>
           /\ chain \in Formats /\ kind = "decode" => Len(box) > 1 /\ box' # <<>>
<1>1. box # <<>> /\ box \in Seq(AudioMessage) /\ box' = Tail(box) /\ Head(box).kind = kind
    BY DEF Receive, AudioIInv, AudioTypeOK, AudioMessage
<1>2. /\ box' \in Seq(AudioMessage) /\ Head(box) = box[1]
      /\ Len(box) \in Nat \ {0} /\ Len(box') = Len(box) - 1
      /\ \A i \in 1..Len(box') : i + 1 \in 1..Len(box) /\ box'[i] = box[i + 1]
    BY <1>1, TailIs
<1>3. 1 \in 1..Len(box) /\ box[1].kind = kind
    BY <1>1, <1>2
<1>4. kind = "decode" => box[1].frame \in 0..MaxFrames /\ cur # 0
    <2>1. kind = "decode" => cur # 0
        BY <1>3 DEF AudioIInv, MadeInv
    <2>2. box[1] \in AudioMessage
        BY <1>1, <1>3, ElementOfSeq
    <2>. QED
        BY <2>1, <2>2 DEF AudioMessage
<1>5. kind # "decode" => chain = kind /\ Len(box) = 1
    BY <1>3 DEF AudioIInv, BoxInv
<1>6. Len(box) = 1 => box' = <<>>
    BY <1>2, EmptySeq
<1>7. chain \in Formats /\ kind = "decode" => Len(box) > 1
    <2>1. chain \in Formats => box[Len(box)].kind = chain
        BY <1>1 DEF AudioIInv, BoxInv
    <2>2. chain \in Formats => chain # "decode"
        BY DEF Formats
    <2>. QED
        BY <1>2, <1>3, <2>1, <2>2
<1>8. Len(box) > 1 => box' # <<>>
    BY <1>2, EmptySeq
<1>. QED
    BY <1>1, <1>2, <1>3, <1>4, <1>5, <1>6, <1>7, <1>8

\* A message that is posted.
LEMMA Posts ==
    ASSUME AudioIInv, NEW m \in AudioMessage, box' = Append(box, m)
    PROVE  /\ box' \in Seq(AudioMessage) /\ box' # <<>>
           /\ Len(box) \in Nat /\ Len(box') = Len(box) + 1
           /\ \A i \in 1..Len(box) : box'[i] = box[i]
           /\ box'[Len(box')] = m
<1>1. box \in Seq(AudioMessage)
    BY DEF AudioIInv, AudioTypeOK, AudioMessage
<1>. QED
    BY <1>1, AppendIs

--------------------------------------------------------------------------------
(* Every step keeps it *)

LEMMA AudioStart == AudioInit => AudioIInv
<1>. SUFFICES ASSUME AudioInit PROVE AudioIInv
    OBVIOUS
<1>. USE AudioAssumption DEF AudioInit, Decoders, NoItem
<1>1. AudioTypeOK
    <2>1. jsQueue \in [Decoders -> Seq(0..MaxFrames)] /\ jsOutputs \in [Decoders -> Seq(0..MaxFrames)]
        BY EmptySeq
    <2>2. /\ jsState \in [Decoders -> {"none", "unconfigured", "configured", "closed"}]
          /\ jsEvent \in [Decoders -> BOOLEAN]
        OBVIOUS
    <2>3. frames \in Seq(1..MaxFrames) /\ drain \in {"done", "due", "running"} /\ box \in Seq(AudioMessage)
        BY EmptySeq
    <2>4. /\ streamLock \in {"free", "chain", "runner"}
          /\ chain \in {"idle", "reserve", "wait", "post", "ctor", "configure"}
          /\ runner \in {"none", "loop", "output", "push", "dead"}
          /\ app \in {"started", "joining", "reset", "stopped"}
        OBVIOUS
    <2>5. /\ handled \in 0..MaxFrames /\ dequeueSize \in Nat /\ item \in 0..MaxFrames
          /\ cur \in 0..MaxFormats /\ old \in 0..cur /\ outputCaps \in 0..MaxFormats
          /\ resets \in 0..MaxResets
        OBVIOUS
    <2>6. {hasFormat, fresh, dropped, overUnref, crashed} \subseteq BOOLEAN
        OBVIOUS
    <2>. QED
        BY <2>1, <2>2, <2>3, <2>4, <2>5, <2>6 DEF AudioTypeOK, AudioMessage
<1>2. Len(box) = 0 /\ Len(frames) = 0 /\ Len(jsQueue[1]) = 0 /\ Len(jsOutputs[1]) = 0
    BY EmptySeq
<1>3. MadeInv /\ BoxInv /\ ResetInv
    BY <1>2 DEF MadeInv, BoxInv, ResetInv, Sending, Formats
<1>4. InOrder
    BY <1>2 DEF InOrder, Consecutive, First, AfterHand, AfterOutputs, AfterQueue, Decodes, Entering, Sending
<1>. QED
    BY <1>1, <1>3, <1>4 DEF AudioIInv, OrderInv

\* The queues of the AudioDecoders.
LEMMA AudioQueuesNext ==
    ASSUME AudioIInv, [AudioNext]_audioVars
    PROVE  /\ jsQueue' \in [Decoders -> Seq(0..MaxFrames)]
           /\ jsOutputs' \in [Decoders -> Seq(0..MaxFrames)]
<1>1. jsQueue \in [Decoders -> Seq(0..MaxFrames)] /\ jsOutputs \in [Decoders -> Seq(0..MaxFrames)]
    BY DEF AudioIInv, AudioTypeOK
<1>2. CASE RunDecode
    <2>1. box[1].frame \in 0..MaxFrames /\ Head(box) = box[1] /\ cur # 0
        BY <1>2, Received DEF RunDecode
    <2>2. cur \in Decoders
        BY <2>1 DEF AudioIInv, AudioTypeOK, Decoders
    <2>3. Append(jsQueue[cur], box[1].frame) \in Seq(0..MaxFrames)
        BY <1>1, <2>1, <2>2, AppendIs
    <2>4. jsOutputs' = jsOutputs
        BY <1>2 DEF RunDecode
    <2>5. jsQueue' = jsQueue \/ jsQueue' = [jsQueue EXCEPT ![cur] = Append(@, box[1].frame)]
        BY <1>2, <2>1 DEF RunDecode
    <2>. QED
        BY <1>1, <2>2, <2>3, <2>4, <2>5
<1>3. ASSUME NEW g \in Decoders, OnOutput(g) \/ EmptyOutput(g)
      PROVE  /\ jsQueue' \in [Decoders -> Seq(0..MaxFrames)]
             /\ jsOutputs' \in [Decoders -> Seq(0..MaxFrames)]
    <2>1. /\ jsOutputs[g] # <<>> /\ jsQueue' = jsQueue
          /\ jsOutputs' = [jsOutputs EXCEPT ![g] = Tail(@)]
        BY <1>3 DEF OnOutput, EmptyOutput, jsVars
    <2>2. Tail(jsOutputs[g]) \in Seq(0..MaxFrames)
        BY <1>1, <2>1, TailIs
    <2>. QED
        BY <1>1, <2>1, <2>2
<1>4. ASSUME NEW g \in Decoders, CodecTake(g)
      PROVE  /\ jsQueue' \in [Decoders -> Seq(0..MaxFrames)]
             /\ jsOutputs' \in [Decoders -> Seq(0..MaxFrames)]
    <2>1. /\ jsQueue[g] # <<>> /\ jsQueue' = [jsQueue EXCEPT ![g] = Tail(@)]
          /\ jsOutputs' = [jsOutputs EXCEPT ![g] = Append(@, Head(jsQueue[g]))]
        BY <1>4 DEF CodecTake
    <2>2. Tail(jsQueue[g]) \in Seq(0..MaxFrames) /\ Head(jsQueue[g]) \in 0..MaxFrames
        BY <1>1, <2>1, TailIs
    <2>3. Append(jsOutputs[g], Head(jsQueue[g])) \in Seq(0..MaxFrames)
        BY <1>1, <2>2, AppendIs
    <2>. QED
        BY <1>1, <2>1, <2>2, <2>3
<1>5. ASSUME NEW g \in Decoders, CodecError(g)
      PROVE  /\ jsQueue' \in [Decoders -> Seq(0..MaxFrames)]
             /\ jsOutputs' \in [Decoders -> Seq(0..MaxFrames)]
    BY <1>1, <1>5, EmptySeq DEF CodecError
<1>6. CASE UNCHANGED <<jsQueue, jsOutputs>>
    BY <1>1, <1>6
<1>7. HandleFrame \/ Drain \/ SetFormat \/ ChainStep \/ RunCtor \/ RunConfigure \/ DropOutput \/ FinishFrame
         \/ PushReturn => UNCHANGED <<jsQueue, jsOutputs>>
    BY DEF HandleFrame, Drain, SetFormat, ChainStep, Reserve, PostDecode, PostDrain, SetFormatConfigure,
           SetFormatReturn, RunCtor, RunConfigure, DropOutput, FinishFrame, PushReturn, jsVars
<1>8. (\E g \in Decoders : OnDequeue(g) \/ StrayCallback(g)) \/ Flush \/ Stop \/ StopStep \/ Start
         \/ UNCHANGED audioVars => UNCHANGED <<jsQueue, jsOutputs>>
    BY DEF OnDequeue, StrayCallback, Flush, Stop, StopStep, RunnerEnds, BaseReset, Start, jsVars,
           audioVars
<1>. QED
    BY <1>2, <1>3, <1>4, <1>5, <1>6, <1>7, <1>8 DEF AudioNext, RunnerStep, CodecStep

\* What is posted and pending.
LEMMA AudioBoxNext ==
    ASSUME AudioIInv, [AudioNext]_audioVars
    PROVE  box' \in Seq(AudioMessage) /\ frames' \in Seq(1..MaxFrames)
<1>1. box \in Seq(AudioMessage) /\ frames \in Seq(1..MaxFrames) /\ handled \in 0..MaxFrames
    BY DEF AudioIInv, AudioTypeOK, AudioMessage
<1>2. CASE HandleFrame
    <2>1. handled + 1 \in 1..MaxFrames
        BY <1>1, <1>2, AudioAssumption DEF HandleFrame
    <2>2. Append(frames, handled + 1) \in Seq(1..MaxFrames)
        BY <1>1, <2>1, AppendIs
    <2>. QED
        BY <1>1, <1>2, <2>2 DEF HandleFrame
<1>3. CASE PostDecode
    <2>1. [kind |-> "decode", frame |-> handled] \in AudioMessage
        BY <1>1 DEF AudioMessage
    <2>. QED
        BY <1>1, <1>3, <2>1, AppendIs DEF PostDecode
<1>12. CASE PostDrain
    <2>1. [kind |-> "decode", frame |-> NoBuffer] \in AudioMessage
        BY AudioAssumption DEF AudioMessage, NoBuffer
    <2>. QED
        BY <1>1, <1>12, <2>1, AppendIs, EmptySeq DEF PostDrain
<1>4. CASE SetFormat
    <2>1. [kind |-> "ctor", frame |-> 0] \in AudioMessage
        BY AudioAssumption DEF AudioMessage
    <2>. QED
        BY <1>1, <1>4, <2>1, AppendIs DEF SetFormat
<1>5. CASE SetFormatConfigure
    <2>1. [kind |-> "configure", frame |-> 0] \in AudioMessage
        BY AudioAssumption DEF AudioMessage
    <2>. QED
        BY <1>1, <1>5, <2>1 DEF SetFormatConfigure
<1>6. CASE RunDecode \/ RunCtor \/ RunConfigure
    <2>1. frames' = frames /\ \E kind \in {"decode", "ctor", "configure"} : Receive(kind)
        BY <1>6 DEF RunDecode, RunCtor, RunConfigure
    <2>. QED
        BY <1>1, <2>1, Received
<1>7. CASE FinishFrame
    <2>1. box' = box /\ (frames' = frames \/ (frames # <<>> /\ frames' = Tail(frames)))
        BY <1>7 DEF FinishFrame, FinishOne
    <2>. QED
        BY <1>1, <2>1, TailIs
<1>8. CASE box' \in {box, <<>>} /\ frames' \in {frames, <<>>}
    BY <1>1, <1>8, EmptySeq
<1>9. Drain \/ Reserve \/ SetFormatReturn \/ DropOutput \/ PushReturn
          \/ (\E g \in Decoders : OnDequeue(g) \/ OnOutput(g) \/ EmptyOutput(g))
         => UNCHANGED <<box, frames>>
    BY DEF Drain, Reserve, SetFormatReturn, DropOutput, PushReturn, OnDequeue, OnOutput, EmptyOutput
<1>10. (\E g \in Decoders : CodecTake(g) \/ CodecError(g) \/ StrayCallback(g)) \/ Stop \/ Start
          \/ UNCHANGED audioVars => UNCHANGED <<box, frames>>
    BY DEF CodecTake, CodecError, StrayCallback, Stop, Start, audioVars
<1>11. Flush \/ StopStep => box' \in {box, <<>>} /\ frames' \in {frames, <<>>}
    BY DEF Flush, StopStep, RunnerEnds, BaseReset
<1>. QED
    BY <1>2, <1>3, <1>4, <1>5, <1>6, <1>7, <1>8, <1>9, <1>10, <1>11, <1>12
       DEF AudioNext, RunnerStep, CodecStep, ChainStep

LEMMA AudioTypeNext ==
    ASSUME AudioIInv, [AudioNext]_audioVars
    PROVE  AudioTypeOK'
<1>. USE AudioAssumption
<1>1. AudioTypeOK
    BY DEF AudioIInv
<1>2. /\ jsQueue' \in [Decoders -> Seq(0..MaxFrames)]
      /\ jsOutputs' \in [Decoders -> Seq(0..MaxFrames)]
      /\ box' \in Seq(AudioMessage) /\ frames' \in Seq(1..MaxFrames)
    BY AudioQueuesNext, AudioBoxNext
<1>3. CASE HandleFrame \/ Drain \/ SetFormat \/ ChainStep
    <2>1. /\ UNCHANGED <<runner, decoderVars, jsVars, item, outputCaps, overUnref, appVars, crashed>>
          /\ dropped' \in {dropped, TRUE}
        BY <1>3 DEF HandleFrame, Drain, SetFormat, ChainStep, Reserve, PostDecode, PostDrain,
               SetFormatConfigure, SetFormatReturn, outputVars
    <2>2. /\ streamLock' \in {streamLock, "free", "chain"}
          /\ chain' \in {"idle", "reserve", "wait", "post", "ctor", "configure"}
          /\ drain' \in {drain, "done", "due", "running"}
        BY <1>3 DEF HandleFrame, Drain, SetFormat, ChainStep, Reserve, PostDecode, PostDrain,
               SetFormatConfigure, SetFormatReturn, outputVars
    <2>3. handled' = handled \/ (handled < MaxFrames /\ handled' = handled + 1)
        BY <1>3 DEF HandleFrame, Drain, SetFormat, ChainStep, Reserve, PostDecode, PostDrain,
               SetFormatConfigure, SetFormatReturn, outputVars
    <2>4. dequeueSize' = dequeueSize \/ dequeueSize' = dequeueSize + 1
        BY <1>3 DEF HandleFrame, Drain, SetFormat, ChainStep, Reserve, PostDecode, PostDrain,
               SetFormatConfigure, SetFormatReturn, outputVars
    <2>5. hasFormat' \in {hasFormat, TRUE} /\ fresh' \in {fresh, FALSE}
        BY <1>3 DEF HandleFrame, Drain, SetFormat, ChainStep, Reserve, PostDecode, PostDrain,
               SetFormatConfigure, SetFormatReturn, outputVars
    <2>6. handled' \in 0..MaxFrames /\ dequeueSize' \in Nat
        <3>1. handled \in 0..MaxFrames /\ dequeueSize \in Nat
            BY <1>1 DEF AudioTypeOK
        <3>. QED
            BY <2>3, <2>4, <3>1, AudioAssumption
    <2>7. {hasFormat', fresh', dropped', overUnref', crashed'} \subseteq BOOLEAN
        BY <1>1, <2>1, <2>5 DEF AudioTypeOK, outputVars
    <2>8. UNCHANGED <<runner, item, cur, old, jsState, jsEvent, outputCaps, app, resets>>
        BY <2>1 DEF decoderVars, jsVars, appVars
    <2>. QED
        BY <1>1, <1>2, <2>2, <2>6, <2>7, <2>8 DEF AudioTypeOK, AudioMessage
<1>4. CASE RunDecode \/ RunCtor \/ RunConfigure
    <2>1. UNCHANGED <<streamLock, chainVars, frames, dequeueSize, old, jsEvent, outputVars, appVars>>
        BY <1>4 DEF RunDecode, RunCtor, RunConfigure, decoderVars
    <2>2. runner' \in {runner, "dead"} /\ crashed' \in {crashed, TRUE, FALSE}
        BY <1>4 DEF RunDecode, RunCtor, RunConfigure
    <2>3. cur' = cur \/ (cur < MaxFormats /\ cur' = cur + 1)
        <3>1. CASE RunCtor
            <4>1. chain = "ctor" /\ box # <<>>
                BY <3>1, Received DEF RunCtor
            <4>. QED
                BY <3>1, <4>1 DEF RunCtor, AudioIInv, MadeInv
        <3>2. CASE RunDecode \/ RunConfigure
            BY <3>2 DEF RunDecode, RunConfigure, decoderVars
        <3>. QED
            BY <1>4, <3>1, <3>2
    <2>4. cur' \in 0..MaxFormats /\ old' \in 0..cur'
        BY <1>1, <2>1, <2>3 DEF AudioTypeOK
    <2>5. jsState' \in [Decoders -> {"none", "unconfigured", "configured", "closed"}]
        BY <1>1, <1>4 DEF RunDecode, RunCtor, RunConfigure, AudioTypeOK
    <2>. QED
        <3>1. {hasFormat', fresh', dropped', overUnref', crashed'} \subseteq BOOLEAN
            BY <1>1, <2>1, <2>2 DEF AudioTypeOK, chainVars, outputVars
        <3>2. UNCHANGED <<streamLock, chain, drain, handled, dequeueSize, old, jsEvent, item, outputCaps,
                          app, resets>>
            BY <2>1 DEF chainVars, outputVars, appVars
        <3>3. runner' \in {"none", "loop", "output", "push", "dead"}
            BY <1>1, <2>2 DEF AudioTypeOK
        <3>. QED
            BY <1>1, <1>2, <2>4, <2>5, <3>1, <3>2, <3>3 DEF AudioTypeOK, AudioMessage
<1>5. ASSUME NEW g \in Decoders, OnDequeue(g) PROVE AudioTypeOK'
    <2>1. g <= cur /\ cur \in 0..MaxFormats /\ cur # 0
        BY <1>1, <1>5 DEF OnDequeue, AudioIInv, MadeInv, AudioTypeOK, Decoders
    <2>2. dequeueSize' = Len(jsQueue[cur]) /\ cur \in Decoders
        BY <1>5, <2>1 DEF OnDequeue, DequeueSize, Decoders
    <2>3. dequeueSize' \in Nat
        BY <1>1, <2>2, LenProperties DEF AudioTypeOK
    <2>4. chain' \in {chain, "reserve"} /\ jsEvent' \in [Decoders -> BOOLEAN]
        BY <1>1, <1>5 DEF OnDequeue, SignalDequeue, AudioTypeOK
    <2>5. UNCHANGED <<streamLock, hasFormat, handled, fresh, drain, runner, decoderVars, jsState,
                      outputVars, appVars, crashed>>
        BY <1>5 DEF OnDequeue
    <2>. QED
        BY <1>1, <1>2, <2>3, <2>4, <2>5 DEF AudioTypeOK, decoderVars, outputVars, appVars, AudioMessage
<1>6. CASE DropOutput \/ FinishFrame \/ PushReturn
           \/ \E g \in Decoders : OnOutput(g) \/ EmptyOutput(g)
    <2>1. UNCHANGED <<chainVars, dequeueSize, decoderVars, jsState, jsEvent, appVars, crashed>>
        BY <1>6 DEF DropOutput, FinishFrame, PushReturn, OnOutput, EmptyOutput, jsVars
    <2>2. /\ streamLock' \in {streamLock, "free", "runner"}
          /\ runner' \in {"loop", "output", "push"}
        BY <1>6 DEF DropOutput, FinishFrame, PushReturn, OnOutput, EmptyOutput
    <2>3. dropped' \in {dropped, TRUE} /\ overUnref' \in {overUnref, TRUE, FALSE}
        BY <1>1, <1>6 DEF DropOutput, FinishFrame, PushReturn, OnOutput, EmptyOutput, AudioTypeOK
    <2>4. outputCaps' \in {outputCaps, cur}
        BY <1>6 DEF DropOutput, FinishFrame, PushReturn, OnOutput, EmptyOutput, NegotiateFails,
               GetFormat
    <2>5. item' \in 0..MaxFrames
        <3>1. CASE \E g \in Decoders : OnOutput(g)
            <4>1. PICK g \in Decoders : jsOutputs[g] # <<>> /\ item' = Head(jsOutputs[g])
                BY <3>1 DEF OnOutput
            <4>2. Head(jsOutputs[g]) \in 0..MaxFrames
                BY <1>1, <4>1, TailIs DEF AudioTypeOK
            <4>. QED
                BY <4>1, <4>2
        <3>2. CASE DropOutput \/ FinishFrame \/ PushReturn \/ \E g \in Decoders : EmptyOutput(g)
            <4>1. item' \in {item, 0}
                BY <3>2 DEF DropOutput, FinishFrame, PushReturn, EmptyOutput, NoItem
            <4>. QED
                BY <1>1, <4>1 DEF AudioTypeOK
        <3>. QED
            BY <1>6, <3>1, <3>2
    <2>. QED
        <3>1. {hasFormat', fresh', dropped', overUnref', crashed'} \subseteq BOOLEAN
            BY <1>1, <2>1, <2>3 DEF AudioTypeOK, chainVars
        <3>2. streamLock' \in {"free", "chain", "runner"} /\ outputCaps' \in 0..MaxFormats
            BY <1>1, <2>2, <2>4 DEF AudioTypeOK
        <3>3. UNCHANGED <<chain, drain, handled, dequeueSize, cur, old, jsState, jsEvent, app, resets>>
            BY <2>1 DEF chainVars, decoderVars, appVars
        <3>. QED
            BY <1>1, <1>2, <2>2, <2>5, <3>1, <3>2, <3>3 DEF AudioTypeOK, AudioMessage
<1>7. CASE \E g \in Decoders : CodecTake(g) \/ CodecError(g) \/ StrayCallback(g)
    <2>1. UNCHANGED <<streamLock, chainVars, dequeueSize, runner, decoderVars, item, outputCaps,
                      overUnref, appVars>>
        BY <1>7 DEF CodecTake, CodecError, StrayCallback, outputVars
    <2>2. dropped' \in {dropped, TRUE} /\ crashed' \in {crashed, TRUE}
        BY <1>7 DEF CodecTake, CodecError, StrayCallback, outputVars
    <2>3. /\ jsState' \in [Decoders -> {"none", "unconfigured", "configured", "closed"}]
          /\ jsEvent' \in [Decoders -> BOOLEAN]
        BY <1>1, <1>7 DEF CodecTake, CodecError, StrayCallback, jsVars, AudioTypeOK
    <2>. QED
        <3>1. {hasFormat', fresh', dropped', overUnref', crashed'} \subseteq BOOLEAN
            BY <1>1, <2>1, <2>2 DEF AudioTypeOK, chainVars
        <3>2. UNCHANGED <<streamLock, chain, drain, handled, dequeueSize, runner, cur, old, item,
                          outputCaps, app, resets>>
            BY <2>1 DEF chainVars, decoderVars, appVars
        <3>. QED
            BY <1>1, <1>2, <2>3, <3>1, <3>2 DEF AudioTypeOK, AudioMessage
<1>8. CASE Flush \/ Stop \/ StopStep \/ Start
    <2>1. /\ UNCHANGED <<streamLock, chain, handled, dequeueSize, item, cur, jsVars, dropped,
                         overUnref, crashed>>
          /\ drain' \in {drain, "done"}
        BY <1>8 DEF Flush, Stop, StopUnlocked, StopStep, RunnerEnds, BaseReset, Start, chainVars,
               decoderVars, outputVars
    <2>2. /\ hasFormat' \in {hasFormat, FALSE} /\ fresh' \in {fresh, TRUE}
          /\ runner' \in {runner, "none", "loop"} /\ outputCaps' \in {outputCaps, 0}
          /\ app' \in {app, "joining", "reset", "stopped", "started"} /\ old' \in {old, cur}
        BY <1>8 DEF Flush, Stop, StopStep, RunnerEnds, BaseReset, Start, chainVars, decoderVars,
               outputVars
    <2>3. resets' = resets \/ (resets < MaxResets /\ resets' = resets + 1)
        BY <1>8 DEF Flush, Stop, StopStep, RunnerEnds, BaseReset, Start
    <2>4. resets' \in 0..MaxResets /\ old' \in 0..cur'
        BY <1>1, <2>1, <2>2, <2>3 DEF AudioTypeOK
    <2>. QED
        <3>1. {hasFormat', fresh', dropped', overUnref', crashed'} \subseteq BOOLEAN
            BY <1>1, <2>1, <2>2 DEF AudioTypeOK
        <3>2. /\ runner' \in {"none", "loop", "output", "push", "dead"}
              /\ app' \in {"started", "joining", "reset", "stopped"}
              /\ outputCaps' \in 0..MaxFormats
            BY <1>1, <2>2 DEF AudioTypeOK
        <3>. QED
            BY <1>1, <1>2, <2>1, <2>4, <3>1, <3>2 DEF AudioTypeOK, jsVars, AudioMessage
<1>9. CASE UNCHANGED audioVars
    BY <1>1, <1>9 DEF AudioTypeOK, audioVars
<1>. QED
    BY <1>3, <1>4, <1>5, <1>6, <1>7, <1>8, <1>9 DEF AudioNext, RunnerStep, CodecStep

LEMMA ResetNext ==
    ASSUME AudioIInv, [AudioNext]_audioVars
    PROVE  ResetInv'
<1>1. ResetInv /\ resets \in Nat
    BY DEF AudioIInv, AudioTypeOK
<1>2. CASE UNCHANGED <<chain, app, resets>>
    BY <1>1, <1>2 DEF ResetInv
<1>3. CASE HandleFrame \/ Drain \/ SetFormat \/ Flush \/ Stop \/ Start
    <2>1. resets' = resets \/ resets' = resets + 1
        BY <1>3 DEF HandleFrame, Drain, SetFormat, Flush, Stop, Start, appVars
    <2>. QED
        BY <1>1, <1>3, <2>1 DEF ResetInv, HandleFrame, Drain, SetFormat, Flush, Stop, Start, appVars,
               chainVars
<1>4. CASE StopStep
    <2>1. app # "started" /\ UNCHANGED <<chain, resets>>
        BY <1>4 DEF StopStep, RunnerEnds, BaseReset, chainVars
    <2>. QED
        BY <1>1, <2>1 DEF ResetInv
<1>5. CASE ChainStep \/ \E g \in Decoders : OnDequeue(g)
    <2>1. (chain # "idle" /\ UNCHANGED <<app, resets>>) \/ UNCHANGED <<chain, app, resets>>
        BY <1>5 DEF ChainStep, Reserve, PostDecode, PostDrain, SetFormatConfigure, SetFormatReturn,
               OnDequeue, SignalDequeue, appVars
    <2>. QED
        BY <1>1, <2>1 DEF ResetInv
<1>6. RunDecode \/ RunCtor \/ RunConfigure \/ DropOutput \/ FinishFrame \/ PushReturn
         \/ (\E g \in Decoders : OnOutput(g) \/ EmptyOutput(g)) => UNCHANGED <<chain, app, resets>>
    BY DEF RunDecode, RunCtor, RunConfigure, DropOutput, FinishFrame, PushReturn, OnOutput,
           EmptyOutput, chainVars, appVars
<1>7. (\E g \in Decoders : CodecTake(g) \/ CodecError(g) \/ StrayCallback(g))
         \/ UNCHANGED audioVars => UNCHANGED <<chain, app, resets>>
    BY DEF CodecTake, CodecError, StrayCallback, chainVars, appVars, audioVars
<1>. QED
    BY <1>2, <1>3, <1>4, <1>5, <1>6, <1>7 DEF AudioNext, RunnerStep, CodecStep

LEMMA MadeNext ==
    ASSUME AudioIInv, [AudioNext]_audioVars
    PROVE  MadeInv'
<1>1. MadeInv /\ AudioTypeOK
    BY DEF AudioIInv
<1>2. cur \in Nat /\ cur <= MaxFormats
    BY <1>1, AudioAssumption DEF AudioTypeOK
<1>3. CASE HandleFrame \/ Drain
    <2>1. hasFormat /\ chain' = "reserve" /\ UNCHANGED <<hasFormat, box, decoderVars, jsVars>>
        BY <1>3 DEF HandleFrame, Drain
    <2>. QED
        BY <1>1, <2>1 DEF MadeInv, decoderVars, jsVars, Sending
<1>4. CASE Reserve
    <2>1. chain \in Sending /\ chain' \in Sending /\ UNCHANGED <<hasFormat, box, decoderVars, jsVars>>
        BY <1>4 DEF Reserve, Sending
    <2>. QED
        BY <1>1, <2>1 DEF MadeInv, decoderVars, jsVars, Sending
<1>5. CASE PostDecode \/ PostDrain
    <2>1. cur # 0 /\ chain' = "idle" /\ UNCHANGED <<hasFormat, decoderVars, jsVars>>
        BY <1>1, <1>5 DEF PostDecode, PostDrain, MadeInv, Sending
    <2>. QED
        BY <1>1, <2>1 DEF MadeInv, decoderVars, jsVars, Sending
<1>6. CASE SetFormat
    <2>1. /\ cur < MaxFormats /\ chain' = "ctor" /\ UNCHANGED <<hasFormat, decoderVars, jsVars>>
          /\ box' = Append(box, [kind |-> "ctor", frame |-> 0])
        BY <1>6 DEF SetFormat
    <2>2. [kind |-> "ctor", frame |-> 0] \in AudioMessage
        BY AudioAssumption DEF AudioMessage
    <2>3. /\ box' # <<>> /\ Len(box) \in Nat /\ Len(box') = Len(box) + 1
          /\ \A i \in 1..Len(box) : box'[i] = box[i]
          /\ box'[Len(box')].kind = "ctor"
        BY <2>1, <2>2, Posts
    <2>4. \A i \in 1..Len(box') : i \in 1..Len(box) \/ i = Len(box')
        BY <2>3
    <2>5. \A i \in 1..Len(box') : box'[i].kind = "decode" => cur # 0
        BY <1>1, <2>3, <2>4 DEF MadeInv
    <2>. QED
        BY <1>1, <2>1, <2>3, <2>5 DEF MadeInv, decoderVars, jsVars, Sending
<1>7. CASE SetFormatConfigure
    <2>1. /\ cur # 0 /\ chain' = "configure" /\ UNCHANGED <<hasFormat, decoderVars, jsVars>>
        BY <1>1, <1>7 DEF SetFormatConfigure, MadeInv
    <2>. QED
        BY <1>1, <2>1 DEF MadeInv, decoderVars, jsVars, Sending
<1>8. CASE SetFormatReturn
    <2>1. /\ cur # 0 /\ chain' = "idle" /\ UNCHANGED <<box, decoderVars, jsVars>>
        BY <1>1, <1>8 DEF SetFormatReturn, MadeInv
    <2>. QED
        BY <1>1, <2>1 DEF MadeInv, decoderVars, jsVars, Sending
<1>9. CASE RunDecode
    <2>1. cur # 0 /\ cur \in Decoders
        BY <1>2, <1>9, Received DEF RunDecode, Decoders
    <2>2. /\ UNCHANGED <<chainVars, decoderVars, jsState, jsOutputs, jsEvent>>
          /\ \A g \in Decoders : g > cur => jsQueue'[g] = jsQueue[g]
        BY <1>1, <1>2, <1>9 DEF RunDecode, AudioTypeOK
    <2>3. chain = "ctor" => box # <<>> /\ box' # <<>>
        BY <1>9, Received DEF RunDecode, Formats
    <2>4. /\ chain' = "ctor" => IF box' = <<>> THEN cur' # 0 ELSE cur' < MaxFormats
          /\ \A i \in 1..Len(box') : box'[i].kind = "decode" => cur' # 0
          /\ hasFormat' \/ chain' \in Sending \/ chain' = "configure" => cur' # 0
        BY <1>1, <2>1, <2>2, <2>3 DEF MadeInv, chainVars, decoderVars
    <2>5. \A g \in Decoders : g > cur' =>
             jsState'[g] = "none" /\ ~jsEvent'[g] /\ jsQueue'[g] = <<>> /\ jsOutputs'[g] = <<>>
        BY <1>1, <2>2 DEF MadeInv, decoderVars
    <2>. QED
        BY <2>4, <2>5 DEF MadeInv
<1>10. CASE RunCtor
    <2>1. box' = <<>> /\ chain = "ctor"
        BY <1>10, Received DEF RunCtor
    <2>2. /\ cur' = cur + 1 /\ UNCHANGED <<chainVars, jsQueue, jsOutputs, jsEvent>>
          /\ \A g \in Decoders : g > cur + 1 => jsState'[g] = jsState[g]
        BY <1>1, <1>2, <1>10 DEF RunCtor, AudioTypeOK
    <2>3. \A g \in Decoders : g > cur + 1 => g > cur
        BY <1>2 DEF Decoders
    <2>4. cur + 1 # 0 /\ Len(box') = 0
        BY <1>2, <2>1, EmptySeq
    <2>. QED
        BY <1>1, <2>1, <2>2, <2>3, <2>4 DEF MadeInv, chainVars, Sending
<1>11. CASE RunConfigure
    <2>1. box' = <<>> /\ chain = "configure" /\ Len(box') = 0
        BY <1>11, Received, EmptySeq DEF RunConfigure
    <2>2. /\ UNCHANGED <<chainVars, decoderVars, jsQueue, jsOutputs, jsEvent>>
          /\ \A g \in Decoders : g > cur => jsState'[g] = jsState[g]
        BY <1>1, <1>2, <1>11 DEF RunConfigure, AudioTypeOK
    <2>. QED
        BY <1>1, <2>1, <2>2 DEF MadeInv, chainVars, decoderVars, Sending
<1>12. ASSUME NEW g \in Decoders,
              OnDequeue(g) \/ OnOutput(g) \/ EmptyOutput(g) \/ CodecTake(g) \/ CodecError(g)
       PROVE  MadeInv'
    <2>0. /\ g > cur => ~jsEvent[g] /\ jsOutputs[g] = <<>> /\ jsQueue[g] = <<>>
          /\ g > cur => jsState[g] = "none"
        BY <1>1 DEF MadeInv
    <2>1. /\ ~(g > cur) /\ UNCHANGED <<hasFormat, box, decoderVars>>
          /\ chain' = chain \/ (chain' = "reserve" /\ chain = "wait")
        <3>1. jsEvent[g] \/ jsOutputs[g] # <<>> \/ jsQueue[g] # <<>> \/ jsState[g] = "configured"
            BY <1>12 DEF OnDequeue, OnOutput, EmptyOutput, CodecTake, CodecError
        <3>2. ~(g > cur)
            BY <2>0, <3>1
        <3>3. /\ UNCHANGED <<hasFormat, box, decoderVars>>
              /\ chain' = chain \/ (chain' = "reserve" /\ chain = "wait")
            <4>1. CASE OnDequeue(g)
                BY <4>1 DEF OnDequeue, SignalDequeue, decoderVars
            <4>2. CASE OnOutput(g) \/ EmptyOutput(g) \/ CodecTake(g) \/ CodecError(g)
                BY <4>2 DEF OnOutput, EmptyOutput, CodecTake, CodecError, chainVars
            <4>. QED
                BY <1>12, <4>1, <4>2
        <3>. QED
            BY <3>2, <3>3
    <2>2. \A h \in Decoders : h > cur => /\ jsState'[h] = jsState[h] /\ jsEvent'[h] = jsEvent[h]
                                         /\ jsQueue'[h] = jsQueue[h]
                                         /\ jsOutputs'[h] = jsOutputs[h]
        BY <1>1, <1>12, <2>1 DEF OnDequeue, OnOutput, EmptyOutput, CodecTake, CodecError,
               AudioTypeOK
    <2>. QED
        BY <1>1, <2>1, <2>2 DEF MadeInv, decoderVars, Sending
<1>13. CASE RunnerEnds
    <2>1. chain = "idle"
        BY <1>13 DEF RunnerEnds, AudioIInv, ResetInv
    <2>2. Len(<<>>) = 0
        BY EmptySeq
    <2>. QED
        BY <1>1, <1>13, <2>1, <2>2 DEF RunnerEnds, MadeInv, chainVars, jsVars, Sending
<1>14. CASE UNCHANGED <<chain, hasFormat, box, cur, jsVars>>
    BY <1>1, <1>14 DEF MadeInv, jsVars
<1>15. CASE Stop
    BY <1>1, <1>15 DEF Stop, MadeInv, decoderVars, jsVars
<1>16. DropOutput \/ FinishFrame \/ PushReturn \/ (\E g \in Decoders : StrayCallback(g)) \/ Flush
          \/ BaseReset \/ Start \/ UNCHANGED audioVars
         => UNCHANGED <<chain, hasFormat, box, cur, jsVars>>
    BY DEF DropOutput, FinishFrame, PushReturn, StrayCallback, Flush, BaseReset, Start, chainVars,
           decoderVars, jsVars, audioVars
<1>. QED
    BY <1>3, <1>4, <1>5, <1>6, <1>7, <1>8, <1>9, <1>10, <1>11, <1>12, <1>13, <1>14, <1>15, <1>16
       DEF AudioNext, ChainStep, RunnerStep, CodecStep, StopStep

\* Outside set_format, all that is queued are decode messages.
LEMMA Buffers ==
    ASSUME AudioIInv, chain \notin Formats
    PROVE  \A i \in 1..Len(box) : box[i].kind = "decode"
<1>1. box \in Seq(AudioMessage)
    BY DEF AudioIInv, AudioTypeOK, AudioMessage
<1>2. \A i \in 1..Len(box) : box[i].kind \in {"decode", "ctor", "configure"}
    <2>1. \A i \in 1..Len(box) : box[i] \in AudioMessage
        BY <1>1, ElementOfSeq
    <2>. QED
        BY <2>1 DEF AudioMessage
<1>3. chain \notin {"decode", "ctor", "configure"}
    BY DEF AudioIInv, AudioTypeOK, Formats
<1>. QED
    BY <1>2, <1>3 DEF AudioIInv, BoxInv

LEMMA BoxNext ==
    ASSUME AudioIInv, [AudioNext]_audioVars
    PROVE  BoxInv'
<1>1. BoxInv /\ AudioTypeOK
    BY DEF AudioIInv
<1>2. CASE PostDecode \/ PostDrain
    <2>1. PICK n \in 0..MaxFrames : box' = Append(box, [kind |-> "decode", frame |-> n])
        <3>1. handled \in 0..MaxFrames /\ NoBuffer \in 0..MaxFrames
            BY <1>1, AudioAssumption DEF AudioTypeOK, NoBuffer
        <3>. QED
            BY <1>2, <3>1 DEF PostDecode, PostDrain
    <2>2. [kind |-> "decode", frame |-> n] \in AudioMessage
        BY DEF AudioMessage
    <2>3. /\ Len(box) \in Nat /\ Len(box') = Len(box) + 1
          /\ \A i \in 1..Len(box) : box'[i] = box[i]
          /\ box'[Len(box')].kind = "decode"
        BY <2>1, <2>2, Posts
    <2>4. chain = "post" /\ chain' = "idle"
        BY <1>2 DEF PostDecode, PostDrain
    <2>5. \A i \in 1..Len(box') : i \in 1..Len(box) \/ i = Len(box')
        BY <2>3
    <2>6. \A i \in 1..Len(box) : box[i].kind = "decode"
        BY <2>4, Buffers DEF Formats
    <2>. QED
        <3>1. \A i \in 1..Len(box') : box'[i].kind = "decode"
            BY <2>3, <2>5, <2>6
        <3>. QED
            BY <2>4, <3>1 DEF BoxInv, Formats
<1>3. CASE SetFormat
    <2>1. /\ box' = Append(box, [kind |-> "ctor", frame |-> 0])
          /\ chain = "idle" /\ chain' = "ctor"
        BY <1>3 DEF SetFormat
    <2>2. [kind |-> "ctor", frame |-> 0] \in AudioMessage
        BY AudioAssumption DEF AudioMessage
    <2>3. /\ Len(box) \in Nat /\ Len(box') = Len(box) + 1
          /\ \A i \in 1..Len(box) : box'[i] = box[i]
          /\ box'[Len(box')].kind = "ctor"
        BY <2>1, <2>2, Posts
    <2>4. \A i \in 1..Len(box') : i \in 1..Len(box) \/ i = Len(box')
        BY <2>3
    <2>5. \A i \in 1..Len(box) : box[i].kind = "decode"
        BY <2>1, Buffers DEF Formats
    <2>. QED
        <3>1. \A i \in 1..Len(box') :
                 \/ box'[i].kind = "decode"
                 \/ box'[i].kind = chain' /\ i = Len(box')
            BY <2>1, <2>3, <2>4, <2>5
        <3>. QED
            BY <2>1, <2>3, <3>1 DEF BoxInv, Formats, Sending
<1>4. CASE SetFormatConfigure
    <2>1. box' = <<[kind |-> "configure", frame |-> 0]>> /\ chain' = "configure"
        BY <1>4 DEF SetFormatConfigure
    <2>2. Len(box') = 1 /\ box'[1].kind = "configure"
        BY <2>1
    <2>. QED
        BY <2>1, <2>2 DEF BoxInv, Formats, Sending
<1>5. CASE RunDecode
    <2>1. /\ Len(box) \in Nat \ {0} /\ Len(box') = Len(box) - 1
          /\ \A i \in 1..Len(box') : i + 1 \in 1..Len(box) /\ box'[i] = box[i + 1]
          /\ chain \in Formats => box # <<>> /\ Len(box) > 1
        BY <1>5, Received DEF RunDecode
    <2>2. UNCHANGED chain
        BY <1>5 DEF RunDecode, chainVars
    <2>3. ASSUME NEW i \in 1..Len(box')
          PROVE  \/ box'[i].kind = "decode"
                 \/ box'[i].kind = chain' /\ i = Len(box')
        <3>1. /\ i + 1 \in 1..Len(box) /\ box'[i] = box[i + 1]
              /\ i + 1 = Len(box) => i = Len(box')
            BY <2>1
        <3>2. \/ box[i + 1].kind = "decode"
              \/ box[i + 1].kind = chain /\ i + 1 = Len(box)
            BY <1>1, <3>1 DEF BoxInv
        <3>. QED
            BY <2>2, <3>1, <3>2
    <2>4. chain' \in Formats => box'[Len(box')].kind = chain'
        <3>1. SUFFICES ASSUME chain \in Formats PROVE box'[Len(box')].kind = chain
            BY <2>2
        <3>2. Len(box') \in 1..Len(box') /\ Len(box') + 1 = Len(box)
            BY <2>1, <3>1
        <3>3. box'[Len(box')] = box[Len(box)]
            BY <2>1, <3>2
        <3>. QED
            BY <1>1, <2>1, <3>1, <3>3 DEF BoxInv
    <2>. QED
        BY <1>1, <2>2, <2>3, <2>4 DEF BoxInv
<1>6. CASE RunCtor \/ RunConfigure
    <2>1. box' = <<>> /\ Len(<<>>) = 0 /\ chain \in Formats
        BY <1>6, Received, EmptySeq DEF RunCtor, RunConfigure, Formats
    <2>2. UNCHANGED chain
        BY <1>6 DEF RunCtor, RunConfigure, chainVars
    <2>. QED
        BY <1>1, <2>1, <2>2 DEF BoxInv
<1>7. CASE HandleFrame \/ Drain \/ Reserve \/ \E g \in Decoders : OnDequeue(g)
    <2>1. \/ box' = box /\ chain' \notin Formats /\ chain \notin Formats
          \/ UNCHANGED <<box, chain>>
        BY <1>7 DEF HandleFrame, Drain, Reserve, OnDequeue, SignalDequeue, Formats
    <2>2. CASE UNCHANGED <<box, chain>>
        BY <1>1, <2>2 DEF BoxInv
    <2>3. CASE box' = box /\ chain' \notin Formats /\ chain \notin Formats
        BY <2>3, Buffers DEF BoxInv
    <2>. QED
        BY <2>1, <2>2, <2>3
<1>8. CASE SetFormatReturn
    <2>1. box = <<>> /\ box' = <<>> /\ Len(<<>>) = 0 /\ chain' = "idle"
        BY <1>8, EmptySeq DEF SetFormatReturn
    <2>. QED
        BY <2>1 DEF BoxInv, Sending, Formats
<1>9. CASE RunnerEnds
    <2>1. box' = <<>> /\ Len(<<>>) = 0 /\ UNCHANGED chain
        BY <1>9, EmptySeq DEF RunnerEnds, chainVars
    <2>. QED
        BY <1>1, <2>1 DEF BoxInv
<1>10. CASE UNCHANGED <<box, chain>>
    BY <1>1, <1>10 DEF BoxInv
<1>11. DropOutput \/ FinishFrame \/ PushReturn \/ (\E g \in Decoders : OnOutput(g) \/ EmptyOutput(g))
          \/ (\E g \in Decoders : CodecTake(g) \/ CodecError(g) \/ StrayCallback(g))
         => UNCHANGED <<box, chain>>
    BY DEF DropOutput, FinishFrame, PushReturn, OnOutput, EmptyOutput, CodecTake, CodecError,
           StrayCallback, chainVars
<1>12. Flush \/ Stop \/ BaseReset \/ Start \/ UNCHANGED audioVars
         => UNCHANGED <<box, chain>>
    BY DEF Flush, Stop, BaseReset, Start, chainVars, audioVars
<1>. QED
    BY <1>2, <1>3, <1>4, <1>5, <1>6, <1>7, <1>8, <1>9, <1>10, <1>11, <1>12
       DEF AudioNext, ChainStep, RunnerStep, CodecStep, StopStep

\* What the numbers are.
LEMMA Numbers ==
    ASSUME AudioTypeOK
    PROVE  /\ 1 \in Decoders /\ handled \in Nat /\ resets \in Nat /\ cur \in Nat
           /\ frames \in Seq(1..MaxFrames) /\ Len(frames) \in Nat
           /\ jsOutputs[1] \in Seq(0..MaxFrames) /\ Len(jsOutputs[1]) \in Nat
           /\ jsQueue[1] \in Seq(0..MaxFrames) /\ Len(jsQueue[1]) \in Nat
           /\ box \in Seq(AudioMessage) /\ Len(box) \in Nat /\ (box = <<>> <=> Len(box) = 0)
           /\ First \in Int /\ AfterHand \in Int /\ AfterOutputs \in Int /\ AfterQueue \in Int
           /\ Decodes \in Nat
<1>1. 1 \in Decoders /\ handled \in Nat /\ resets \in Nat /\ cur \in Nat
    BY AudioAssumption DEF AudioTypeOK, Decoders
<1>2. /\ frames \in Seq(1..MaxFrames) /\ jsOutputs[1] \in Seq(0..MaxFrames)
      /\ jsQueue[1] \in Seq(0..MaxFrames) /\ box \in Seq(AudioMessage)
    BY <1>1 DEF AudioTypeOK, AudioMessage
<1>3. /\ Len(frames) \in Nat /\ Len(jsOutputs[1]) \in Nat /\ Len(jsQueue[1]) \in Nat
      /\ Len(box) \in Nat /\ (box = <<>> <=> Len(box) = 0)
    BY <1>2, LenProperties, EmptySeq
<1>4. First \in Int /\ AfterHand \in Int /\ AfterOutputs \in Int /\ AfterQueue \in Int
    <2>1. First \in Int
        BY <1>1, <1>3 DEF First
    <2>2. AfterHand \in Int
        BY <2>1 DEF AfterHand
    <2>3. AfterOutputs \in Int
        BY <1>3, <2>2 DEF AfterOutputs
    <2>. QED
        BY <1>3, <2>1, <2>2, <2>3 DEF AfterQueue
<1>5. Decodes \in Nat
    BY <1>3 DEF Decodes
<1>. QED
    BY <1>1, <1>2, <1>3, <1>4, <1>5

\* While an output is put out, a buffer is pending.
LEMMA Pending ==
    ASSUME AudioTypeOK, InOrder, runner = "output"
    PROVE  Len(frames) \in Nat \ {0} /\ frames # <<>>
<1>1. /\ handled \in Nat /\ Len(frames) \in Nat /\ Len(jsOutputs[1]) \in Nat
      /\ Len(jsQueue[1]) \in Nat /\ Decodes \in Nat
      /\ First \in Int /\ AfterHand \in Int /\ AfterOutputs \in Int /\ AfterQueue \in Int
    BY Numbers
<1>2. AfterHand = First + 1
    BY DEF AfterHand
<1>3. AfterOutputs >= AfterHand
    BY <1>1, AtLeast DEF AfterOutputs
<1>4. AfterQueue >= AfterOutputs
    BY <1>1, AtLeast DEF AfterQueue
<1>5. handled >= AfterQueue
    <2>1. handled = AfterQueue + Decodes \/ handled = AfterQueue + Decodes + 1
        BY <1>1, AtLeast DEF InOrder, Entering
    <2>2. AfterQueue + Decodes \in Int /\ AfterQueue + Decodes >= AfterQueue
        BY <1>1, AtLeast
    <2>. QED
        BY <1>1, <2>1, <2>2
<1>6. First = handled - Len(frames)
    BY DEF First
<1>7. Len(frames) # 0
    BY <1>1, <1>2, <1>3, <1>4, <1>5, <1>6
<1>. QED
    BY <1>1, <1>7, EmptySeq

\* What is not quiet stays so.
LEMMA QuietBefore ==
    ASSUME AudioIInv, [AudioNext]_audioVars, Quiet'
    PROVE  /\ Quiet /\ InOrder
           /\ ~(Flush \/ Stop \/ StopStep \/ Start \/ DropOutput \/ PostDrain)
           /\ ~(\E g \in Decoders : EmptyOutput(g) \/ CodecError(g))
           /\ RunDecode => UNCHANGED runner
<1>1. ~dropped' /\ resets' = 0 /\ cur' <= 1 /\ runner' # "dead"
    BY DEF Quiet
<1>2. resets \in Nat /\ cur \in Nat /\ dropped \in BOOLEAN
    BY Numbers DEF AudioIInv, AudioTypeOK
<1>3. ~(Flush \/ Stop)
    BY <1>1, <1>2 DEF Flush, Stop
<1>4. ~(StopStep \/ Start)
    <2>1. app # "started" => resets # 0
        BY DEF AudioIInv, ResetInv
    <2>2. StopStep \/ Start => app # "started" /\ resets' = resets
        BY DEF StopStep, RunnerEnds, BaseReset, Start
    <2>. QED
        BY <1>1, <2>1, <2>2
<1>5. ~DropOutput /\ ~PostDrain /\ ~(\E g \in Decoders : EmptyOutput(g) \/ CodecError(g))
    BY <1>1 DEF DropOutput, PostDrain, EmptyOutput, CodecError
<1>6. CASE UNCHANGED <<dropped, resets, cur, runner>>
    BY <1>1, <1>3, <1>4, <1>5, <1>6 DEF AudioIInv, OrderInv, Quiet
<1>7. CASE HandleFrame \/ Drain \/ SetFormat \/ ChainStep \/ \E g \in Decoders : OnDequeue(g) \/ CodecTake(g)
    <2>1. UNCHANGED <<dropped, resets, cur, runner>>
        BY <1>5, <1>7 DEF HandleFrame, Drain, SetFormat, ChainStep, Reserve, PostDecode, SetFormatConfigure,
               SetFormatReturn, OnDequeue, CodecTake, decoderVars, outputVars, appVars
    <2>. QED
        BY <1>6, <2>1
<1>8. CASE RunDecode \/ RunCtor \/ RunConfigure \/ FinishFrame \/ PushReturn
           \/ \E g \in Decoders : OnOutput(g) \/ StrayCallback(g)
    <2>1. UNCHANGED <<dropped, resets>> /\ (cur' = cur \/ cur' = cur + 1)
        BY <1>8 DEF RunDecode, RunCtor, RunConfigure, FinishFrame, PushReturn, OnOutput,
               StrayCallback, decoderVars, outputVars, appVars
    <2>2. runner # "dead" \/ UNCHANGED runner
        BY <1>8 DEF RunDecode, RunCtor, RunConfigure, Receive, FinishFrame, PushReturn, OnOutput,
               StrayCallback
    <2>3. RunDecode => UNCHANGED runner
        BY <1>1 DEF RunDecode
    <2>. QED
        BY <1>1, <1>2, <1>3, <1>4, <1>5, <2>1, <2>2, <2>3 DEF AudioIInv, OrderInv, Quiet
<1>9. CASE UNCHANGED audioVars
    <2>1. UNCHANGED <<dropped, resets, cur, runner>>
        BY <1>9 DEF audioVars
    <2>. QED
        BY <1>6, <2>1
<1>. QED
    BY <1>3, <1>4, <1>5, <1>7, <1>8, <1>9 DEF AudioNext, RunnerStep, CodecStep

\* Nothing has moved.
LEMMA OrderKept ==
    ASSUME InOrder, UNCHANGED <<handled, frames, jsOutputs, jsQueue, box>>,
           runner' = "output" <=> runner = "output", runner' = "output" => item' = item,
           Entering' = Entering,
           box # <<>> => (chain' \in Formats <=> chain \in Formats)
    PROVE  InOrder'
<1>1. /\ First' = First /\ AfterHand' = AfterHand /\ AfterOutputs' = AfterOutputs
      /\ AfterQueue' = AfterQueue /\ Decodes' = Decodes
    BY DEF First, AfterHand, AfterOutputs, AfterQueue, Decodes
<1>. QED
    BY <1>1 DEF InOrder, Consecutive

\* A buffer comes in, and is posted.
LEMMA HandleOrder ==
    ASSUME AudioIInv, InOrder, HandleFrame
    PROVE  InOrder'
<1>1. AudioTypeOK
    BY DEF AudioIInv
<1>2. /\ handled' = handled + 1 /\ frames' = Append(frames, handled + 1) /\ handled < MaxFrames
      /\ chain = "idle" /\ chain' = "reserve" /\ drain' = "due"
      /\ UNCHANGED <<runner, item, jsOutputs, jsQueue, box>>
    BY DEF HandleFrame, outputVars, jsVars
<1>3. handled + 1 \in 1..MaxFrames /\ handled + 1 = First + Len(frames) + 1
    <2>1. handled \in Nat /\ Len(frames) \in Nat /\ MaxFrames \in Nat
        BY <1>1, Numbers, AudioAssumption
    <2>. QED
        BY <1>2, <2>1 DEF First
<1>4. Consecutive(frames, First)
    BY DEF InOrder
<1>5. Consecutive(frames', First) /\ Len(frames') = Len(frames) + 1
    BY <1>1, <1>2, <1>3, <1>4, Numbers, RunAppend
<1>6. First' = First
    <2>1. handled \in Nat /\ Len(frames) \in Nat
        BY <1>1, Numbers
    <2>2. First' = (handled + 1) - (Len(frames) + 1)
        BY <1>2, <1>5 DEF First
    <2>3. First = handled - Len(frames)
        BY DEF First
    <2>. QED
        BY <2>1, <2>2, <2>3
<1>7. AfterHand' = AfterHand /\ AfterOutputs' = AfterOutputs /\ AfterQueue' = AfterQueue
    BY <1>2, <1>6 DEF AfterHand, AfterOutputs, AfterQueue
<1>8. Decodes' = Decodes
    BY <1>2 DEF Decodes, Formats
<1>9. Consecutive(jsOutputs[1], AfterHand)' /\ Consecutive(jsQueue[1], AfterOutputs)'
    BY <1>2, <1>7 DEF InOrder, Consecutive
<1>10. /\ runner' = "output" => item' = First' + 1
       /\ \A j \in 1..Decodes' : box'[j].frame = AfterQueue' + j
    BY <1>2, <1>6, <1>7, <1>8 DEF InOrder
<1>11. handled' = AfterQueue' + Decodes' + Entering'
    <2>1. handled = AfterQueue + Decodes + 0
        BY <1>2 DEF InOrder, Entering, Sending
    <2>2. AfterQueue \in Int /\ Decodes \in Nat
        BY <1>1, Numbers
    <2>3. handled + 1 = AfterQueue + Decodes + 1
        BY <2>1, <2>2
    <2>. QED
        BY <1>2, <1>7, <1>8, <2>3 DEF Entering, Sending
<1>. QED
    BY <1>5, <1>6, <1>9, <1>10, <1>11 DEF InOrder, Consecutive

LEMMA PostOrder ==
    ASSUME AudioIInv, InOrder, PostDecode
    PROVE  InOrder'
<1>1. AudioTypeOK
    BY DEF AudioIInv
<1>2. /\ box' = Append(box, [kind |-> "decode", frame |-> handled])
      /\ chain = "post" /\ drain # "running" /\ chain' = "idle"
      /\ UNCHANGED <<handled, frames, runner, item, jsOutputs, jsQueue>>
    BY DEF PostDecode, outputVars, jsVars
<1>3. [kind |-> "decode", frame |-> handled] \in AudioMessage
    BY <1>1 DEF AudioTypeOK, AudioMessage
<1>4. /\ Len(box') = Len(box) + 1 /\ \A j \in 1..Len(box) : box'[j] = box[j]
      /\ box'[Len(box')].frame = handled
    BY <1>2, <1>3, Posts
<1>5. /\ First' = First /\ AfterHand' = AfterHand /\ AfterOutputs' = AfterOutputs
      /\ AfterQueue' = AfterQueue
    BY <1>2 DEF First, AfterHand, AfterOutputs, AfterQueue
<1>6. Decodes = Len(box) /\ Decodes' = Decodes + 1
    BY <1>2, <1>4 DEF Decodes, Formats
<1>7. handled = AfterQueue + Decodes + 1
    BY <1>2 DEF InOrder, Entering, Sending
<1>8. ASSUME NEW j \in 1..Decodes' PROVE box'[j].frame = AfterQueue' + j
    <2>1. CASE j \in 1..Decodes
        BY <1>4, <1>5, <1>6, <2>1 DEF InOrder
    <2>2. CASE j = Decodes + 1
        BY <1>1, <1>4, <1>5, <1>6, <1>7, <2>2, Numbers
    <2>3. j \in 1..Decodes \/ j = Decodes + 1
        BY <1>1, <1>6, Numbers
    <2>. QED
        BY <2>1, <2>2, <2>3
<1>9. handled' = AfterQueue' + Decodes' + Entering'
    <2>1. AfterQueue \in Int /\ Decodes \in Nat
        BY <1>1, Numbers
    <2>2. AfterQueue + Decodes + 1 = AfterQueue + (Decodes + 1) + 0
        BY <2>1
    <2>. QED
        BY <1>2, <1>5, <1>6, <1>7, <2>2 DEF Entering, Sending
<1>. QED
    BY <1>2, <1>5, <1>8, <1>9 DEF InOrder, Consecutive

\* set_format, whose messages are no buffers.
LEMMA FormatOrder ==
    ASSUME AudioIInv, InOrder,
           SetFormat \/ SetFormatConfigure \/ SetFormatReturn \/ RunCtor \/ RunConfigure
    PROVE  InOrder'
<1>1. AudioTypeOK
    BY DEF AudioIInv
<1>2. /\ UNCHANGED <<handled, frames, runner, item, jsOutputs, jsQueue>>
      /\ chain \notin Sending /\ chain' \notin Sending
    <2>1. CASE SetFormat \/ SetFormatConfigure \/ SetFormatReturn
        BY <2>1 DEF SetFormat, SetFormatConfigure, SetFormatReturn, Sending, outputVars, jsVars
    <2>2. CASE RunCtor
        BY <2>2, Received DEF RunCtor, Sending, chainVars, outputVars
    <2>3. CASE RunConfigure
        BY <2>3, Received DEF RunConfigure, Sending, chainVars, outputVars
    <2>. QED
        BY <2>1, <2>2, <2>3
<1>3. /\ First' = First /\ AfterHand' = AfterHand /\ AfterOutputs' = AfterOutputs
      /\ AfterQueue' = AfterQueue
    BY <1>2 DEF First, AfterHand, AfterOutputs, AfterQueue
<1>4. Decodes' = Decodes /\ \A j \in 1..Decodes : box'[j] = box[j]
    <2>1. CASE SetFormat
        <3>1. /\ box' = Append(box, [kind |-> "ctor", frame |-> 0])
              /\ chain = "idle" /\ chain' = "ctor"
            BY <2>1 DEF SetFormat
        <3>2. [kind |-> "ctor", frame |-> 0] \in AudioMessage
            BY AudioAssumption DEF AudioMessage
        <3>3. /\ box' # <<>> /\ Len(box') = Len(box) + 1 /\ Len(box) \in Nat
              /\ \A j \in 1..Len(box) : box'[j] = box[j]
            BY <3>1, <3>2, Posts
        <3>4. Decodes = Len(box) /\ Decodes' = Len(box)
            BY <3>1, <3>3 DEF Decodes, Formats
        <3>. QED
            BY <3>3, <3>4
    <2>2. CASE SetFormatConfigure
        <3>1. box = <<>> /\ Len(box') = 1 /\ box' # <<>> /\ chain' = "configure"
            BY <2>2 DEF SetFormatConfigure
        <3>2. Decodes = 0 /\ Decodes' = 0
            BY <3>1, EmptySeq DEF Decodes, Formats
        <3>. QED
            BY <3>2
    <2>3. CASE SetFormatReturn
        <3>1. box = <<>> /\ box' = <<>>
            BY <2>3 DEF SetFormatReturn
        <3>. QED
            BY <3>1 DEF Decodes
    <2>4. CASE RunCtor \/ RunConfigure
        <3>1. Len(box) = 1 /\ box # <<>> /\ box' = <<>> /\ chain \in Formats
            BY <2>4, Received DEF RunCtor, RunConfigure, Formats
        <3>2. Decodes = 0 /\ Decodes' = 0
            BY <3>1, EmptySeq DEF Decodes
        <3>. QED
            BY <3>2
    <2>. QED
        BY <2>1, <2>2, <2>3, <2>4
<1>. QED
    BY <1>2, <1>3, <1>4 DEF InOrder, Consecutive, Entering

\* The runner serves a buffer.
LEMMA DecodeOrder ==
    ASSUME AudioIInv, InOrder, Quiet, RunDecode, UNCHANGED runner
    PROVE  InOrder'
<1>1. AudioTypeOK
    BY DEF AudioIInv
<1>2. /\ Len(box) \in Nat \ {0} /\ Len(box') = Len(box) - 1 /\ Head(box) = box[1] /\ box # <<>>
      /\ \A j \in 1..Len(box') : j + 1 \in 1..Len(box) /\ box'[j] = box[j + 1]
      /\ chain \in Formats => Len(box) > 1 /\ box' # <<>>
      /\ cur # 0 /\ box[1].frame \in 0..MaxFrames
    BY Received DEF RunDecode
<1>3. cur = 1
    BY <1>1, <1>2, Numbers DEF Quiet
<1>4. /\ jsQueue' = [jsQueue EXCEPT ![1] = Append(@, box[1].frame)]
      /\ UNCHANGED <<chain, drain, handled, frames, item, jsOutputs>>
    <2>1. runner = "loop" /\ runner' = "loop"
        BY DEF RunDecode, Receive
    <2>2. jsQueue' = [jsQueue EXCEPT ![cur] = Append(@, Head(box).frame)]
        BY <2>1 DEF RunDecode
    <2>. QED
        BY <1>2, <1>3, <2>2, Received DEF RunDecode, chainVars, outputVars
<1>5. jsQueue'[1] = Append(jsQueue[1], box[1].frame)
    BY <1>1, <1>4, Numbers DEF AudioTypeOK
<1>6. Decodes' = Decodes - 1 /\ Decodes > 0
    BY <1>2, <1>4, EmptySeq DEF Decodes
<1>7. First' = First /\ AfterHand' = AfterHand /\ AfterOutputs' = AfterOutputs
    BY <1>4 DEF First, AfterHand, AfterOutputs
<1>8. box[1].frame = AfterOutputs + Len(jsQueue[1]) + 1
    <2>1. 1 \in 1..Decodes
        BY <1>1, <1>6, Numbers
    <2>. QED
        BY <2>1 DEF InOrder, AfterQueue
<1>9. Consecutive(jsQueue'[1], AfterOutputs) /\ Len(jsQueue'[1]) = Len(jsQueue[1]) + 1
    <2>1. Consecutive(jsQueue[1], AfterOutputs)
        BY DEF InOrder
    <2>. QED
        <3>1. jsQueue[1] \in Seq(0..MaxFrames) /\ AfterOutputs \in Int
            BY <1>1, Numbers
        <3>2. box[1].frame \in 0..MaxFrames
            BY <1>2
        <3>. QED
            BY <1>5, <1>8, <2>1, <3>1, <3>2, ChunksAppend
<1>10. AfterQueue' = AfterQueue + 1
    <2>1. AfterOutputs \in Int /\ Len(jsQueue[1]) \in Nat
        BY <1>1, Numbers
    <2>2. AfterQueue' = AfterOutputs + (Len(jsQueue[1]) + 1)
        BY <1>7, <1>9 DEF AfterQueue
    <2>3. AfterQueue = AfterOutputs + Len(jsQueue[1])
        BY DEF AfterQueue
    <2>. QED
        BY <2>1, <2>2, <2>3
<1>11. ASSUME NEW j \in 1..Decodes' PROVE box'[j].frame = AfterQueue' + j
    <2>1. j + 1 \in 1..Decodes /\ j \in 1..Len(box')
        BY <1>1, <1>2, <1>4, <1>6, Numbers DEF Decodes
    <2>2. box'[j].frame = AfterQueue + (j + 1)
        BY <1>2, <2>1 DEF InOrder
    <2>. QED
        <3>1. AfterQueue \in Int /\ AfterQueue + (j + 1) = (AfterQueue + 1) + j
            BY <1>1, Numbers
        <3>. QED
            BY <1>10, <2>2, <3>1
<1>12. handled' = AfterQueue' + Decodes' + Entering'
    <2>1. handled = AfterQueue + Decodes + Entering
        BY DEF InOrder
    <2>. QED
        <3>1. AfterQueue \in Int /\ Decodes \in Nat
            BY <1>1, Numbers
        <3>2. AfterQueue + Decodes = (AfterQueue + 1) + (Decodes - 1)
            BY <3>1, Moved
        <3>. QED
            BY <1>4, <1>6, <1>10, <2>1, <3>2 DEF Entering
<1>. QED
    BY <1>4, <1>7, <1>9, <1>11, <1>12 DEF InOrder, Consecutive

\* An AudioDecoder with something to give is the first one.
LEMMA OnlyFirst ==
    ASSUME AudioIInv, Quiet, NEW g \in Decoders, jsOutputs[g] # <<>> \/ jsQueue[g] # <<>>
    PROVE  g = 1
<1>1. ~(g > cur)
    BY DEF AudioIInv, MadeInv
<1>2. cur \in Nat /\ cur <= 1
    BY Numbers DEF AudioIInv, Quiet
<1>. QED
    BY <1>1, <1>2 DEF Decoders

\* Output comes out of the AudioDecoder.
LEMMA OutputOrder ==
    ASSUME AudioIInv, InOrder, Quiet, NEW g \in Decoders, OnOutput(g)
    PROVE  InOrder'
<1>1. AudioTypeOK
    BY DEF AudioIInv
<1>2. /\ jsOutputs[1] # <<>> /\ item' = Head(jsOutputs[1]) /\ runner = "loop"
      /\ jsOutputs' = [jsOutputs EXCEPT ![1] = Tail(@)] /\ runner' = "output"
      /\ UNCHANGED <<chain, drain, handled, frames, box, jsQueue>>
    BY OnlyFirst DEF OnOutput, chainVars
<1>3. jsOutputs'[1] = Tail(jsOutputs[1])
    BY <1>1, <1>2, Numbers DEF AudioTypeOK
<1>4. /\ Consecutive(jsOutputs'[1], AfterHand + 1) /\ Len(jsOutputs'[1]) = Len(jsOutputs[1]) - 1
      /\ item' = AfterHand + 1
    <2>1. Consecutive(jsOutputs[1], AfterHand)
        BY DEF InOrder
    <2>. QED
        <3>1. jsOutputs[1] \in Seq(0..MaxFrames) /\ AfterHand \in Int
            BY <1>1, Numbers
        <3>. QED
            BY <1>2, <1>3, <2>1, <3>1, RunTail
<1>5. First' = First /\ AfterHand = First /\ AfterHand' = AfterHand + 1
    <2>1. First \in Int
        BY <1>1, Numbers
    <2>2. First' = First
        BY <1>2 DEF First
    <2>. QED
        BY <1>2, <2>1, <2>2 DEF AfterHand
<1>6. AfterOutputs' = AfterOutputs
    <2>1. AfterHand \in Int /\ Len(jsOutputs[1]) \in Nat
        BY <1>1, Numbers
    <2>2. AfterOutputs' = (AfterHand + 1) + (Len(jsOutputs[1]) - 1)
        BY <1>4, <1>5 DEF AfterOutputs
    <2>3. AfterOutputs = AfterHand + Len(jsOutputs[1])
        BY DEF AfterOutputs
    <2>. QED
        BY <2>1, <2>2, <2>3, Moved
<1>7. AfterQueue' = AfterQueue /\ Decodes' = Decodes
    BY <1>2, <1>6 DEF AfterQueue, Decodes
<1>8. item' = First' + 1
    BY <1>4, <1>5
<1>9. Consecutive(jsOutputs'[1], AfterHand')
    BY <1>4, <1>5
<1>. QED
    BY <1>2, <1>5, <1>6, <1>7, <1>8, <1>9 DEF InOrder, Consecutive, Entering

\* It goes out for the oldest buffer.
LEMMA FinishOrder ==
    ASSUME AudioIInv, InOrder, FinishFrame
    PROVE  InOrder'
<1>1. AudioTypeOK
    BY DEF AudioIInv
<1>2. /\ frames' = IF frames = <<>> THEN frames ELSE Tail(frames)
      /\ runner = "output" /\ runner' = "push"
      /\ UNCHANGED <<chain, drain, handled, box, jsQueue, jsOutputs>>
    BY DEF FinishFrame, FinishOne, chainVars, jsVars
<1>3. Len(frames) # 0
    BY <1>1, <1>2, Pending
<1>4. Consecutive(frames', First + 1) /\ Len(frames') = Len(frames) - 1
    <2>1. Consecutive(frames, First) /\ frames # <<>>
        BY <1>3, EmptySeq DEF InOrder
    <2>. QED
        BY <1>1, <1>2, <2>1, Numbers, RunTail
<1>5. First' = First + 1
    <2>1. handled \in Nat /\ Len(frames) \in Nat
        BY <1>1, Numbers
    <2>2. First' = handled - (Len(frames) - 1)
        BY <1>2, <1>4 DEF First
    <2>. QED
        BY <2>1, <2>2 DEF First
<1>6. AfterHand' = AfterHand
    <2>1. AfterHand = First + 1 /\ AfterHand' = First' + 0
        BY <1>2 DEF AfterHand
    <2>2. First \in Int
        BY <1>1, Numbers
    <2>. QED
        BY <1>5, <2>1, <2>2
<1>7. AfterOutputs' = AfterOutputs /\ AfterQueue' = AfterQueue /\ Decodes' = Decodes
    BY <1>2, <1>6 DEF AfterOutputs, AfterQueue, Decodes
<1>8. Consecutive(frames', First')
    BY <1>4, <1>5
<1>. QED
    BY <1>2, <1>6, <1>7, <1>8 DEF InOrder, Consecutive, Entering

\* The codec decodes a chunk.
LEMMA TakeOrder ==
    ASSUME AudioIInv, InOrder, Quiet, NEW g \in Decoders, CodecTake(g)
    PROVE  InOrder'
<1>1. AudioTypeOK
    BY DEF AudioIInv
<1>2. /\ jsQueue[1] # <<>> /\ jsQueue' = [jsQueue EXCEPT ![1] = Tail(@)]
      /\ jsOutputs' = [jsOutputs EXCEPT ![1] = Append(@, Head(jsQueue[1]))]
      /\ UNCHANGED <<chain, drain, handled, frames, box, runner, item>>
    BY OnlyFirst DEF CodecTake, chainVars, outputVars
<1>3. jsQueue'[1] = Tail(jsQueue[1]) /\ jsOutputs'[1] = Append(jsOutputs[1], Head(jsQueue[1]))
    BY <1>1, <1>2, Numbers DEF AudioTypeOK
<1>4. /\ Consecutive(jsQueue'[1], AfterOutputs + 1) /\ Len(jsQueue'[1]) = Len(jsQueue[1]) - 1
      /\ Head(jsQueue[1]) = AfterOutputs + 1 /\ Head(jsQueue[1]) \in 0..MaxFrames
    <2>1. Consecutive(jsQueue[1], AfterOutputs)
        BY DEF InOrder
    <2>2. jsQueue[1] \in Seq(0..MaxFrames) /\ AfterOutputs \in Int
        BY <1>1, Numbers
    <2>3. /\ Consecutive(Tail(jsQueue[1]), AfterOutputs + 1) /\ Len(Tail(jsQueue[1])) = Len(jsQueue[1]) - 1
          /\ Head(jsQueue[1]) = AfterOutputs + 1
        BY <1>2, <2>1, <2>2, RunTail
    <2>4. Head(jsQueue[1]) \in 0..MaxFrames
        BY <1>2, <2>2, TailIs
    <2>. QED
        BY <1>3, <2>3, <2>4
<1>5. Consecutive(jsOutputs'[1], AfterHand) /\ Len(jsOutputs'[1]) = Len(jsOutputs[1]) + 1
    <2>1. Consecutive(jsOutputs[1], AfterHand)
        BY DEF InOrder
    <2>2. Head(jsQueue[1]) = AfterHand + Len(jsOutputs[1]) + 1
        BY <1>4 DEF AfterOutputs
    <2>3. jsOutputs[1] \in Seq(0..MaxFrames) /\ AfterHand \in Int
        BY <1>1, Numbers
    <2>4. Head(jsQueue[1]) \in 0..MaxFrames
        BY <1>4
    <2>. QED
        BY <1>3, <2>1, <2>2, <2>3, <2>4, ChunksAppend
<1>6. First' = First /\ AfterHand' = AfterHand /\ Decodes' = Decodes
    BY <1>2 DEF First, AfterHand, Decodes
<1>7. AfterOutputs' = AfterOutputs + 1
    <2>1. AfterHand \in Int /\ Len(jsOutputs[1]) \in Nat
        BY <1>1, Numbers
    <2>2. AfterOutputs' = AfterHand + (Len(jsOutputs[1]) + 1)
        BY <1>5, <1>6 DEF AfterOutputs
    <2>3. AfterOutputs = AfterHand + Len(jsOutputs[1])
        BY DEF AfterOutputs
    <2>. QED
        BY <2>1, <2>2, <2>3
<1>8. AfterQueue' = AfterQueue
    <2>1. AfterOutputs \in Int /\ Len(jsQueue[1]) \in Nat
        BY <1>1, Numbers
    <2>2. AfterQueue' = (AfterOutputs + 1) + (Len(jsQueue[1]) - 1)
        BY <1>4, <1>7 DEF AfterQueue
    <2>3. AfterQueue = AfterOutputs + Len(jsQueue[1])
        BY DEF AfterQueue
    <2>. QED
        BY <2>1, <2>2, <2>3, Moved
<1>9. Consecutive(jsOutputs'[1], AfterHand') /\ Consecutive(jsQueue'[1], AfterOutputs')
    BY <1>4, <1>5, <1>6, <1>7
<1>. QED
    BY <1>2, <1>6, <1>8, <1>9 DEF InOrder, Consecutive, Entering

LEMMA OrderNext ==
    ASSUME AudioIInv, [AudioNext]_audioVars
    PROVE  OrderInv'
<1>. SUFFICES ASSUME Quiet' PROVE InOrder'
    BY DEF OrderInv
<1>1. Quiet /\ InOrder
    BY QuietBefore
<1>2. CASE Drain \/ Reserve \/ PushReturn \/ \E g \in Decoders : OnDequeue(g) \/ StrayCallback(g)
    <2>1. UNCHANGED <<handled, frames, jsOutputs, jsQueue, box>>
        BY <1>2 DEF Drain, Reserve, PushReturn, OnDequeue, StrayCallback, jsVars, chainVars
    <2>2. /\ runner' = "output" <=> runner = "output"
          /\ runner' = "output" => item' = item
        BY <1>2 DEF Drain, Reserve, PushReturn, OnDequeue, StrayCallback, outputVars
    <2>3. Entering' = Entering /\ (chain' \in Formats <=> chain \in Formats)
        BY <1>2 DEF Drain, Reserve, PushReturn, OnDequeue, SignalDequeue, StrayCallback, chainVars,
               Entering, Sending, Formats
    <2>. QED
        BY <1>1, <2>1, <2>2, <2>3, OrderKept
<1>3. CASE UNCHANGED audioVars
    BY <1>1, <1>3, OrderKept DEF audioVars, Entering
<1>4. CASE SetFormat \/ SetFormatConfigure \/ SetFormatReturn \/ RunCtor \/ RunConfigure
    BY <1>1, <1>4, FormatOrder
<1>5. CASE HandleFrame \/ PostDecode \/ FinishFrame
    BY <1>1, <1>5, HandleOrder, PostOrder, FinishOrder
<1>6. CASE RunDecode
    BY <1>1, <1>6, QuietBefore, DecodeOrder
<1>7. CASE \E g \in Decoders : OnOutput(g) \/ CodecTake(g)
    BY <1>1, <1>7, OutputOrder, TakeOrder
<1>8. /\ ~(Flush \/ Stop \/ StopStep \/ Start \/ DropOutput \/ PostDrain)
      /\ ~(\E g \in Decoders : EmptyOutput(g) \/ CodecError(g))
    BY QuietBefore
<1>. QED
    BY <1>2, <1>3, <1>4, <1>5, <1>6, <1>7, <1>8
       DEF AudioNext, ChainStep, RunnerStep, CodecStep

--------------------------------------------------------------------------------
(* The theorems *)

\* The audio decoder keeps its types and its buffers in order, for every number of
\* buffers, calls of set_format and resets, and every limit of the queue.
THEOREM AudioInvariance == AudioSpec => []AudioIInv
<1>1. AudioIInv /\ [AudioNext]_audioVars => AudioIInv'
    BY AudioTypeNext, MadeNext, BoxNext, ResetNext, OrderNext DEF AudioIInv
<1>. QED
    BY <1>1, AudioStart, PTL DEF AudioSpec

\* An AudioData that goes out has the buffer it was decoded from as the oldest pending
\* one, until an output is dropped or the element is drained, flushed or stopped: what
\* finish_frame takes the timestamp from is right.
THEOREM OutputsCorrect == AudioSpec => []OutputPaired
<1>1. AudioIInv => OutputPaired
    <2>1. SUFFICES ASSUME AudioIInv, runner = "output", ~dropped, resets = 0, cur = 1
                   PROVE  frames # <<>> /\ Head(frames) = item
        BY DEF AudioIInv, OutputPaired
    <2>2. AudioTypeOK /\ InOrder
        BY <2>1 DEF AudioIInv, OrderInv, Quiet
    <2>3. frames \in Seq(1..MaxFrames) /\ First \in Int
        BY <2>2, Numbers
    <2>4. frames # <<>>
        BY <2>1, <2>2, Pending
    <2>5. Consecutive(frames, First) /\ item = First + 1
        BY <2>1, <2>2 DEF InOrder
    <2>. QED
        BY <2>3, <2>4, <2>5, RunTail
<1>. QED
    BY <1>1, AudioInvariance, PTL

================================================================================
