---------------------------- MODULE WebFetchSrcProofs ---------------------------
(***************************************************************************)
(* Theorems about WebFetchSrc, for any number of sessions.                 *)
(***************************************************************************)
EXTENDS WebFetchSrc, TLAPS

(***************************************************************************)
(* The inductive invariant. The object is in one place at a time: in no    *)
(* queue, or alone in one of the three it passes through.                  *)
(***************************************************************************)

Nobody    == [w \in Worker |-> <<>>]
One(w, m) == [v \in Worker |-> IF v = w THEN <<m>> ELSE <<>>]

Request(s) == [tid |-> TaskThread(s)]
Parcel(s)  == [tid |-> TaskThread(s), object |-> s]

NoFlight ==
    dispatched = Nobody /\ toMain = Nobody /\ toWorker = Nobody

Flight(s) ==
    \/ dispatched = One(RunnerThread(s), Request(s)) /\ toMain = Nobody /\ toWorker = Nobody
    \/ dispatched = Nobody /\ toMain = One(RunnerThread(s), Parcel(s)) /\ toWorker = Nobody
    \/ dispatched = Nobody /\ toMain = Nobody /\ toWorker = One(TaskThread(s), s)

\* The thread of session s has come back to its main loop, or is about to, and
\* only a resume makes it run again.
Parked(s) ==
    /\ runs[s] = 0
    /\ thread[s] \in {"execute", "idle"}
    /\ task[s] \in {"paused", "stopped"}

\* Session s is the one that requested the stream.
Requester(s) == s \in 1..starts /\ registered /\ (stale <=> s # starts)

\* ... and it has not got it yet.
Waiting(s) ==
    /\ Requester(s)
    /\ reader = Undefined /\ resumes = 0
    /\ Parked(s) \/ (thread[s] = "requested" /\ s = starts)

FlightInv == NoFlight \/ \E s \in Sessions : Flight(s) /\ Waiting(s)

\* ... or it has, and is resumed once.
Served(s) ==
    /\ Requester(s)
    /\ reader = [stream |-> s, home |-> s]
    /\ resumes > 0 => resumes = 1 /\ Parked(s) /\ thread[s] = "idle"

ReaderInv == (reader = Undefined /\ resumes = 0) \/ \E s \in Sessions : Served(s)

\* Before the first request there is nothing to wait for.
UnregisteredInv ==
    ~registered =>
        /\ NoFlight /\ reader = Undefined /\ resumes = 0 /\ ~stale
        /\ \A s \in Sessions :
            thread[s] \notin {"requested", "await"} /\ task[s] # "paused"

Before == {"none", "idle", "execute"}

\* What each session is at, given where the application is
SessionOK(s) ==
    /\ s > starts => runner[s] = "none" /\ task[s] = "none" /\ thread[s] = "none"
    /\ s < starts => task[s] \in {"none", "stopped"} /\ thread[s] \in Before
    /\ s = starts /\ app \in {"ready", "destroying", "destroyed", "gone"} =>
            task[s] \in {"none", "stopped"} /\ thread[s] \in Before
    /\ s = starts /\ app = "joining" => task[s] \in {"none", "stopped"}
    /\ s = starts /\ (app = "starting" \/ ~linked) =>
            task[s] = "none" /\ thread[s] = "none"
    /\ s = starts /\ app = "pushing" =>
            task[s] = "started" /\ thread[s] \in {"starting", "idle"} /\ runs[s] = 0
    /\ runs[s] > 0 => runs[s] = 1 /\ thread[s] = "idle"
    /\ thread[s] = "starting" => app = "pushing" /\ s = starts
    /\ thread[s] \in CreateStates => s = starts /\ task[s] \in {"started", "stopped"}
    /\ task[s] = "none" <=> thread[s] = "none"
    /\ runner[s] = "idle" =>
            /\ s = starts /\ app \notin {"ready", "gone"}
            /\ stream = s /\ owner = RunnerThread(s)
    /\ s = starts /\ app \notin {"ready", "starting", "gone"} => runner[s] = "idle"
    /\ runner[s] \in {"fetching", "failed"} => s = starts /\ app = "starting"
    /\ thread[s] = "request" => ~registered
    /\ thread[s] = "requested" => registered /\ ~stale
    /\ thread[s] = "await" => registered
    /\ task[s] = "paused" => s = starts /\ ~stale /\ thread[s] \in {"execute", "idle"}

SessionInv == \A s \in Sessions : SessionOK(s)

\* The session that requested the stream, as long as it lasts
CurrentInv ==
    /\ stale => registered /\ starts > 0
    /\ registered /\ ~stale =>
        /\ starts > 0 /\ task[starts] # "none"
        /\ task[starts] = "started" \/ thread[starts] = "await" =>
            thread[starts] = "requested" \/ reader = [stream |-> starts, home |-> starts]
    /\ app # "ready" => starts > 0
    /\ ~alive <=> app = "gone"

IInv ==
    /\ TypeOK
    /\ FlightInv
    /\ ReaderInv
    /\ UnregisteredInv
    /\ SessionInv
    /\ CurrentInv

--------------------------------------------------------------------------------
(* The queues *)

LEMMA Threads ==
    ASSUME NEW s \in Sessions
    PROVE  /\ RunnerThread(s) \in Worker /\ TaskThread(s) \in Worker
           /\ \A t \in Sessions : /\ RunnerThread(s) = RunnerThread(t) => s = t
                                  /\ TaskThread(s) = TaskThread(t) => s = t
BY FetchAssumption DEF Sessions, RunnerThread, TaskThread

\* The request leaves the thread that asks.
LEMMA RequestFlies ==
    ASSUME NEW s \in Sessions, NoFlight,
           HandleRequestObject(RunnerThread(s), TaskThread(s))
    PROVE  Flight(s)'
<1>1. RunnerThread(s) \in Worker
    BY Threads
<1>2. dispatched' = [Nobody EXCEPT ![RunnerThread(s)] = Append(@, Request(s))]
    BY DEF NoFlight, HandleRequestObject, Request
<1>3. Nobody[RunnerThread(s)] = <<>>
    BY <1>1 DEF Nobody
<1>4. Append(<<>>, Request(s)) = <<Request(s)>>
    OBVIOUS
<1>5. dispatched' = One(RunnerThread(s), Request(s))
    BY <1>1, <1>2, <1>3, <1>4 DEF Nobody, One
<1>. QED
    BY <1>5 DEF NoFlight, Flight, HandleRequestObject, Nobody, One, Request

\* The owner has a request only if it is the one in flight.
LEMMA TransferFlies ==
    ASSUME NEW s \in Sessions, NEW t \in Sessions, Flight(t),
           TransferObject(RunnerThread(s), s)
    PROVE  t = s /\ Flight(s)'
<1>1. RunnerThread(s) \in Worker /\ RunnerThread(t) \in Worker
    BY Threads
<1>2. dispatched = One(RunnerThread(t), Request(t)) /\ toMain = Nobody /\ toWorker = Nobody
    BY <1>1 DEF Flight, TransferObject, Nobody
<1>3. RunnerThread(s) = RunnerThread(t)
    BY <1>1, <1>2 DEF TransferObject, One
<1>4. t = s
    BY <1>3, Threads
<1>5. dispatched[RunnerThread(s)] = <<Request(s)>>
    BY <1>1, <1>2, <1>4 DEF One
<1>6. Head(<<Request(s)>>) = Request(s) /\ Tail(<<Request(s)>>) = <<>>
    OBVIOUS
<1>7. dispatched' = Nobody
    BY <1>1, <1>2, <1>4, <1>5, <1>6 DEF TransferObject, One, Nobody
<1>8. Nobody[RunnerThread(s)] = <<>> /\ Append(<<>>, Parcel(s)) = <<Parcel(s)>>
    BY <1>1 DEF Nobody
<1>9. toMain' = [Nobody EXCEPT ![RunnerThread(s)] = Append(@, Parcel(s))]
    <2>1. Head(dispatched[RunnerThread(s)]).tid = TaskThread(s)
        BY <1>5, <1>6 DEF Request
    <2>. QED
        BY <1>2, <2>1 DEF TransferObject, Parcel
<1>10. toMain' = One(RunnerThread(s), Parcel(s))
    BY <1>1, <1>8, <1>9 DEF One, Nobody
<1>. QED
    BY <1>2, <1>4, <1>7, <1>10 DEF Flight, TransferObject, Nobody, One, Parcel

\* The main thread relays the object, or drops it.
LEMMA RelayFlies ==
    ASSUME NEW t \in Sessions, NEW w \in Worker, Flight(t), RelayObject(w)
    PROVE  Flight(t)' \/ NoFlight'
<1>1. RunnerThread(t) \in Worker /\ TaskThread(t) \in Worker
    BY Threads
<1>2. dispatched = Nobody /\ toMain = One(RunnerThread(t), Parcel(t)) /\ toWorker = Nobody
    BY <1>1 DEF Flight, RelayObject, Nobody
<1>3. w = RunnerThread(t)
    BY <1>2 DEF RelayObject, One
<1>4. toMain[w] = <<Parcel(t)>>
    BY <1>2, <1>3 DEF One
<1>5. Head(<<Parcel(t)>>) = Parcel(t) /\ Tail(<<Parcel(t)>>) = <<>>
    OBVIOUS
<1>6. toMain' = Nobody
    BY <1>1, <1>2, <1>3, <1>4, <1>5 DEF RelayObject, One, Nobody
<1>7. Nobody[TaskThread(t)] = <<>> /\ Append(<<>>, t) = <<t>>
    BY <1>1 DEF Nobody
<1>8. CASE w \in relayed
    <2>1. Head(toMain[w]).tid = TaskThread(t) /\ Head(toMain[w]).object = t
        BY <1>4, <1>5 DEF Parcel
    <2>2. toWorker' = [Nobody EXCEPT ![TaskThread(t)] = Append(@, t)]
        BY <1>2, <1>8, <2>1 DEF RelayObject
    <2>3. toWorker' = One(TaskThread(t), t)
        BY <1>1, <1>7, <2>2 DEF One, Nobody
    <2>. QED
        BY <1>2, <1>6, <2>3 DEF Flight, RelayObject, Nobody, One
<1>9. CASE w \notin relayed
    BY <1>2, <1>6, <1>9 DEF NoFlight, RelayObject, Nobody
<1>. QED
    BY <1>8, <1>9

\* The worker that gets the event is the one that asked.
LEMMA EventLands ==
    ASSUME NEW s \in Sessions, NEW t \in Sessions, Flight(t),
           ObjectEvent(TaskThread(s))
    PROVE  t = s /\ Head(toWorker[TaskThread(s)]) = s /\ NoFlight'
<1>1. TaskThread(s) \in Worker /\ TaskThread(t) \in Worker
    BY Threads
<1>2. dispatched = Nobody /\ toMain = Nobody /\ toWorker = One(TaskThread(t), t)
    BY <1>1 DEF Flight, ObjectEvent, Nobody
<1>3. TaskThread(s) = TaskThread(t)
    BY <1>1, <1>2 DEF ObjectEvent, One
<1>4. t = s
    BY <1>3, Threads
<1>5. toWorker[TaskThread(s)] = <<s>>
    BY <1>1, <1>2, <1>4 DEF One
<1>6. Head(<<s>>) = s /\ Tail(<<s>>) = <<>>
    OBVIOUS
<1>7. toWorker' = Nobody
    BY <1>1, <1>2, <1>4, <1>5, <1>6 DEF ObjectEvent, One, Nobody
<1>. QED
    BY <1>2, <1>4, <1>5, <1>6, <1>7 DEF NoFlight, ObjectEvent, Nobody

\* With nothing in flight there is nothing to take.
LEMMA NothingFlies ==
    ASSUME NEW w \in Worker, NEW o, NoFlight
    PROVE  ~TransferObject(w, o) /\ ~RelayObject(w) /\ ~ObjectEvent(w)
BY DEF NoFlight, Nobody, TransferObject, RelayObject, ObjectEvent

\* What is in flight does not depend on who is registered.
LEMMA QueuesStay ==
    ASSUME UNCHANGED <<dispatched, toMain, toWorker>>
    PROVE  /\ NoFlight => NoFlight'
           /\ \A s \in Sessions : Flight(s) => Flight(s)'
BY DEF NoFlight, Flight, Nobody, One, Parcel, Request

--------------------------------------------------------------------------------
(* Sessions *)

\* The types of what is not a queue
Shape ==
    /\ app \in {"ready", "starting", "pushing", "paused", "stopping", "joining",
                "destroying", "destroyed", "gone"}
    /\ starts \in 0..MaxStarts /\ linked \in BOOLEAN /\ alive \in BOOLEAN
    /\ runner \in [Sessions -> {"none", "fetching", "idle", "failed", "ended"}]
    /\ stream \in 0..MaxStarts /\ owner \in Worker \cup {0} /\ stalled \in BOOLEAN
    /\ registered \in BOOLEAN
    /\ reader \in [stream : 0..MaxStarts, home : 0..MaxStarts]
    /\ task \in [Sessions -> {"none", "started", "paused", "stopped"}]
    /\ thread \in [Sessions -> {"none", "starting", "idle", "execute", "await",
                                "request", "requested"}]
    /\ runs \in [Sessions -> Nat] /\ resumes \in Nat
    /\ stale \in BOOLEAN /\ freedUse \in BOOLEAN

LEMMA TypeShape ==
    TypeOK => Shape /\ MaxStarts \in Nat
BY FetchAssumption DEF TypeOK, Shape, CreateStates

\* Who reads has the reader of its own stream, and nothing is to be resumed.
LEMMA ReadableReader ==
    ASSUME IInv, NEW t \in Sessions, Readable(t)
    PROVE  /\ t = starts /\ ~stale /\ registered /\ resumes = 0
           /\ reader = [stream |-> t, home |-> t]
<1>1. /\ Shape /\ MaxStarts \in Nat /\ SessionOK(t)
    BY TypeShape DEF IInv, SessionInv
<1>2. t = starts
    BY <1>1 DEF Readable, SessionOK, CreateStates
<1>3. reader # Undefined
    BY <1>1 DEF Readable, Undefined, Sessions
<1>4. PICK s \in Sessions : Served(s)
    BY <1>3 DEF IInv, ReaderInv
<1>5. s = t
    BY <1>4 DEF Readable, Served
<1>. QED
    BY <1>1, <1>2, <1>4, <1>5 DEF Readable, Served, Requester, Shape

\* Who is resumed is in its main loop, and has its reader.
LEMMA ResumeParked ==
    ASSUME IInv, resumes > 0
    PROVE  /\ starts \in Sessions /\ registered
           /\ task[starts] = "paused" =>
                /\ ~stale /\ resumes = 1
                /\ runs[starts] = 0 /\ thread[starts] = "idle"
                /\ reader = [stream |-> starts, home |-> starts]
<1>1. Shape /\ MaxStarts \in Nat
    BY TypeShape DEF IInv
<1>2. PICK s \in Sessions : Served(s)
    BY <1>1 DEF IInv, ReaderInv, Shape
<1>3. starts \in Sessions
    BY <1>1, <1>2 DEF Served, Requester, Sessions, Shape
<1>4. SessionOK(starts)
    BY <1>3 DEF IInv, SessionInv
<1>. QED
    BY <1>1, <1>2, <1>3, <1>4 DEF Served, Requester, Parked, SessionOK

\* Each session stays in its place.
LEMMA SessionNext ==
    ASSUME IInv, [Next]_vars
    PROVE  SessionInv'
<1>. SUFFICES ASSUME NEW s \in Sessions PROVE SessionOK(s)'
    BY DEF SessionInv
<1>a. /\ Shape /\ MaxStarts \in Nat /\ SessionOK(s)
      /\ ReaderInv /\ UnregisteredInv /\ CurrentInv
    BY TypeShape DEF IInv, SessionInv
<1>. USE DEF vars, binVars, ownerVars, readerVars, taskVars, history, transferVars,
    SessionOK, Before, CreateStates, Sessions, Shape
<1>1. CASE Start
    BY <1>1, <1>a DEF Start
<1>2. CASE Activate
    BY <1>2, <1>a DEF Activate, ActivateReader
<1>3. CASE TaskPoolPush
    BY <1>3, <1>a DEF TaskPoolPush
<1>4. CASE Link
    BY <1>4, <1>a DEF Link, ActivateReader
<1>5. CASE Stop
    BY <1>5, <1>a DEF Stop
<1>6. CASE Deactivate
    BY <1>6, <1>a DEF Deactivate
<1>7. CASE Join
    BY <1>7, <1>a DEF Join
<1>8. CASE UnrefRunner
    BY <1>8, <1>a DEF UnrefRunner
<1>9. CASE Finalize
    BY <1>9, <1>a DEF Finalize
<1>10. CASE Resume
    <2>1. CASE task[starts] = "paused"
        <3>1. starts \in Sessions /\ runs[starts] = 0 /\ thread[starts] = "idle" /\ ~stale
            BY <1>10, <2>1, ResumeParked DEF Resume
        <3>. QED
            BY <1>10, <1>a, <2>1, <3>1 DEF Resume
    <2>2. CASE task[starts] # "paused"
        BY <1>10, <1>a, <2>2 DEF Resume
    <2>. QED
        BY <2>1, <2>2
<1>11. CASE Stall
    BY <1>11, <1>a DEF Stall
<1>12. ASSUME NEW t \in Sessions, CreateStream(t) PROVE SessionOK(s)'
    <2>1. SessionOK(t)
        BY DEF IInv, SessionInv
    <2>. QED
        BY <1>12, <1>a, <2>1 DEF CreateStream, RegisterOnMessage
<1>13. ASSUME NEW t \in Sessions, FetchRejected(t) PROVE SessionOK(s)'
    BY <1>13, <1>a DEF FetchRejected
<1>14. ASSUME NEW t \in Sessions, DestroyStream(t) PROVE SessionOK(s)'
    BY <1>14, <1>a DEF DestroyStream, UnregisterOnMessage
<1>15. ASSUME NEW t \in Sessions, Transfer(t) PROVE SessionOK(s)'
    BY <1>15, <1>a DEF Transfer, TransferObject
<1>16. ASSUME NEW t \in Sessions, ThreadReady(t) PROVE SessionOK(s)'
    BY <1>16, <1>a DEF ThreadReady, At
<1>17. ASSUME NEW t \in Sessions, TaskPoolRun(t) PROVE SessionOK(s)'
    BY <1>17, <1>a DEF TaskPoolRun
<1>18. ASSUME NEW t \in Sessions, ExecuteEnds(t) PROVE SessionOK(s)'
    BY <1>18, <1>a DEF ExecuteEnds, At
<1>19. ASSUME NEW t \in Sessions, CreateRegister(t) PROVE SessionOK(s)'
    BY <1>19, <1>a DEF CreateRegister, At, RegisterOnMessage
<1>20. ASSUME NEW t \in Sessions, CreateRequest(t) PROVE SessionOK(s)'
    <2>1. SessionOK(t)
        BY DEF IInv, SessionInv
    <2>2. ~registered /\ ~stale
        BY <1>20, <2>1 DEF CreateRequest, At, SessionOK, IInv, UnregisteredInv
    <2>. QED
        BY <1>20, <1>a, <2>1, <2>2 DEF CreateRequest, At, HandleRequestObject
<1>21. ASSUME NEW t \in Sessions, CreatePause(t) PROVE SessionOK(s)'
    BY <1>21, <1>a DEF CreatePause, At, PauseTask
<1>22. ASSUME NEW t \in Sessions, CreateRead(t) PROVE SessionOK(s)'
    BY <1>22, <1>a DEF CreateRead, At
<1>23. ASSUME NEW t \in Sessions, ReadChunk(t) PROVE SessionOK(s)'
    <2>1. SessionOK(t)
        BY DEF IInv, SessionInv
    <2>2. t = starts /\ ~stale
        BY <1>23, ReadableReader DEF ReadChunk
    <2>. QED
        BY <1>23, <1>a, <2>1, <2>2 DEF ReadChunk, At, PauseTask, Readable
<1>24. ASSUME NEW t \in Sessions, ReadDone(t) PROVE SessionOK(s)'
    <2>1. SessionOK(t)
        BY DEF IInv, SessionInv
    <2>2. t = starts /\ ~stale
        BY <1>24, ReadableReader DEF ReadDone
    <2>. QED
        BY <1>24, <1>a, <2>1, <2>2 DEF ReadDone, At, PauseTask, Readable
<1>25. ASSUME NEW t \in Sessions, OnStream(t) PROVE SessionOK(s)'
    BY <1>25, <1>a DEF OnStream, Yields, ObjectEvent
<1>26. ASSUME NEW w \in Worker, Relay(w) PROVE SessionOK(s)'
    BY <1>26, <1>a DEF Relay
<1>27. CASE UNCHANGED vars
    BY <1>27, <1>a
<1>. QED
    BY <1>1, <1>2, <1>3, <1>4, <1>5, <1>6, <1>7, <1>8, <1>9, <1>10, <1>11, <1>12,
        <1>13, <1>14, <1>15, <1>16, <1>17, <1>18, <1>19, <1>20, <1>21, <1>22, <1>23,
        <1>24, <1>25, <1>26, <1>27 DEF Next, AppStep, RunnerStep, ThreadStep

--------------------------------------------------------------------------------
(* The object in flight *)

\* The queues move in four steps only.
Quiet == UNCHANGED <<dispatched, toMain, toWorker>>

LEMMA QuietNext ==
    ASSUME [Next]_vars
    PROVE  \/ Quiet
           \/ \E t \in Sessions : CreateRequest(t) \/ Transfer(t) \/ OnStream(t)
           \/ \E w \in Worker : Relay(w)
<1>. USE DEF vars, binVars, ownerVars, readerVars, taskVars, history, transferVars,
    Quiet
<1>1. CASE Start
    BY <1>1 DEF Start
<1>2. CASE Activate
    BY <1>2 DEF Activate, ActivateReader
<1>3. CASE TaskPoolPush
    BY <1>3 DEF TaskPoolPush
<1>4. CASE Link
    BY <1>4 DEF Link, ActivateReader
<1>5. CASE Stop
    BY <1>5 DEF Stop
<1>6. CASE Deactivate
    BY <1>6 DEF Deactivate
<1>7. CASE Join
    BY <1>7 DEF Join
<1>8. CASE UnrefRunner
    BY <1>8 DEF UnrefRunner
<1>9. CASE Finalize
    BY <1>9 DEF Finalize
<1>10. CASE Resume
    BY <1>10 DEF Resume
<1>11. CASE Stall
    BY <1>11 DEF Stall
<1>12. ASSUME NEW t \in Sessions, CreateStream(t) PROVE Quiet
    BY <1>12 DEF CreateStream, RegisterOnMessage
<1>13. ASSUME NEW t \in Sessions, FetchRejected(t) PROVE Quiet
    BY <1>13 DEF FetchRejected
<1>14. ASSUME NEW t \in Sessions, DestroyStream(t) PROVE Quiet
    BY <1>14 DEF DestroyStream, UnregisterOnMessage
<1>15. ASSUME NEW t \in Sessions, Transfer(t) PROVE Transfer(t)
    BY <1>15
<1>16. ASSUME NEW t \in Sessions, ThreadReady(t) PROVE Quiet
    BY <1>16 DEF ThreadReady, At
<1>17. ASSUME NEW t \in Sessions, TaskPoolRun(t) PROVE Quiet
    BY <1>17 DEF TaskPoolRun
<1>18. ASSUME NEW t \in Sessions, ExecuteEnds(t) PROVE Quiet
    BY <1>18 DEF ExecuteEnds, At
<1>19. ASSUME NEW t \in Sessions, CreateRegister(t) PROVE Quiet
    BY <1>19 DEF CreateRegister, At, RegisterOnMessage
<1>20. ASSUME NEW t \in Sessions, CreateRequest(t) PROVE CreateRequest(t)
    BY <1>20
<1>21. ASSUME NEW t \in Sessions, CreatePause(t) PROVE Quiet
    BY <1>21 DEF CreatePause, At, PauseTask
<1>22. ASSUME NEW t \in Sessions, CreateRead(t) PROVE Quiet
    BY <1>22 DEF CreateRead, At
<1>23. ASSUME NEW t \in Sessions, ReadChunk(t) PROVE Quiet
    BY <1>23 DEF ReadChunk, At, PauseTask, Readable
<1>24. ASSUME NEW t \in Sessions, ReadDone(t) PROVE Quiet
    BY <1>24 DEF ReadDone, At, PauseTask, Readable
<1>25. ASSUME NEW t \in Sessions, OnStream(t) PROVE OnStream(t)
    BY <1>25
<1>26. ASSUME NEW w \in Worker, Relay(w) PROVE Relay(w)
    BY <1>26
<1>27. CASE UNCHANGED vars
    BY <1>27
<1>. QED
    BY <1>1, <1>2, <1>3, <1>4, <1>5, <1>6, <1>7, <1>8, <1>9, <1>10, <1>11, <1>12,
        <1>13, <1>14, <1>15, <1>16, <1>17, <1>18, <1>19, <1>20, <1>21, <1>22, <1>23,
        <1>24, <1>25, <1>26, <1>27 DEF Next, AppStep, RunnerStep, ThreadStep

\* The stream is requested once, of the thread that owns it.
LEMMA RequestStep ==
    ASSUME IInv, NEW t \in Sessions, CreateRequest(t)
    PROVE  /\ Flight(t)' /\ t = starts
           /\ reader = Undefined /\ resumes = 0 /\ ~stale /\ ~registered
<1>1. Shape /\ MaxStarts \in Nat /\ SessionOK(t)
    BY TypeShape DEF IInv, SessionInv
<1>2. ~registered /\ t = starts
    BY <1>1 DEF CreateRequest, At, SessionOK, CreateStates
<1>3. NoFlight /\ reader = Undefined /\ resumes = 0 /\ ~stale
    BY <1>2 DEF IInv, UnregisteredInv
<1>4. owner = RunnerThread(t)
    BY <1>1, <1>2 DEF CreateRequest, At, SessionOK, CreateStates, Before, Shape
<1>5. HandleRequestObject(RunnerThread(t), TaskThread(t))
    BY <1>4 DEF CreateRequest
<1>. QED
    BY <1>2, <1>3, <1>5, RequestFlies

\* The owner transfers the stream of its own session.
LEMMA TransferStep ==
    ASSUME IInv, NEW t \in Sessions, Transfer(t)
    PROVE  t = starts /\ stream = t /\ Flight(t)' /\ Waiting(t)
<1>1. Shape /\ MaxStarts \in Nat /\ SessionOK(t)
    BY TypeShape DEF IInv, SessionInv
<1>2. stream = t /\ t = starts
    BY <1>1 DEF Transfer, SessionOK
<1>3. TransferObject(RunnerThread(t), t)
    BY <1>2 DEF Transfer
<1>4. ~NoFlight
    BY <1>3, NothingFlies, Threads
<1>5. PICK s \in Sessions : Flight(s) /\ Waiting(s)
    BY <1>4 DEF IInv, FlightInv
<1>6. s = t /\ Flight(t)'
    BY <1>3, <1>5, TransferFlies
<1>. QED
    BY <1>2, <1>5, <1>6

\* The main thread relays it or loses it.
LEMMA RelayStep ==
    ASSUME IInv, NEW w \in Worker, Relay(w)
    PROVE  \E s \in Sessions : Waiting(s) /\ (Flight(s)' \/ NoFlight')
<1>1. RelayObject(w)
    BY DEF Relay
<1>2. PICK s \in Sessions : Flight(s) /\ Waiting(s)
    BY <1>1, NothingFlies DEF IInv, FlightInv
<1>. QED
    BY <1>1, <1>2, RelayFlies

\* It comes to the thread that asked, when that thread is parked.
LEMMA EventStep ==
    ASSUME IInv, NEW t \in Sessions, OnStream(t)
    PROVE  /\ NoFlight' /\ Head(toWorker[TaskThread(t)]) = t
           /\ Waiting(t) /\ Parked(t) /\ thread[t] = "idle"
<1>1. ObjectEvent(TaskThread(t)) /\ thread[t] \in {"idle", "await"}
    BY DEF OnStream, Yields
<1>2. ~NoFlight
    BY <1>1, NothingFlies, Threads
<1>3. PICK s \in Sessions : Flight(s) /\ Waiting(s)
    BY <1>2 DEF IInv, FlightInv
<1>4. s = t /\ Head(toWorker[TaskThread(t)]) = t /\ NoFlight'
    BY <1>1, <1>3, EventLands
<1>5. Parked(t) /\ thread[t] = "idle"
    BY <1>1, <1>3, <1>4 DEF Waiting, Parked
<1>. QED
    BY <1>3, <1>4, <1>5

\* Nothing is in flight until something is requested.
LEMMA NoFlightNext ==
    ASSUME IInv, [Next]_vars, NoFlight
    PROVE  NoFlight' \/ registered'
<1>1. CASE Quiet
    BY <1>1, QueuesStay DEF Quiet
<1>2. ASSUME NEW t \in Sessions, CreateRequest(t) PROVE registered'
    BY <1>2 DEF CreateRequest
<1>3. ASSUME NEW t \in Sessions, Transfer(t) \/ OnStream(t) PROVE FALSE
    BY <1>3, NothingFlies, Threads DEF Transfer, OnStream
<1>4. ASSUME NEW w \in Worker, Relay(w) PROVE FALSE
    BY <1>4, NothingFlies DEF Relay
<1>. QED
    BY <1>1, <1>2, <1>3, <1>4, QuietNext

\* Before the request there is nothing.
LEMMA UnregisteredNext ==
    ASSUME IInv, [Next]_vars
    PROVE  UnregisteredInv'
<1>a. Shape /\ MaxStarts \in Nat /\ UnregisteredInv
    BY TypeShape DEF IInv
<1>b. NoFlight => NoFlight' \/ registered'
    BY NoFlightNext
<1>c. \A t \in Sessions : SessionOK(t)
    BY DEF IInv, SessionInv
<1>. USE DEF vars, binVars, ownerVars, readerVars, taskVars, history, transferVars,
    UnregisteredInv, SessionOK, CreateStates, Sessions, Shape
<1>1. CASE Start
    BY <1>1, <1>a, <1>b DEF Start
<1>2. CASE Activate
    BY <1>2, <1>a, <1>b DEF Activate, ActivateReader
<1>3. CASE TaskPoolPush
    BY <1>3, <1>a, <1>b DEF TaskPoolPush
<1>4. CASE Link
    BY <1>4, <1>a, <1>b DEF Link, ActivateReader
<1>5. CASE Stop
    BY <1>5, <1>a, <1>b DEF Stop
<1>6. CASE Deactivate
    BY <1>6, <1>a, <1>b DEF Deactivate
<1>7. CASE Join
    BY <1>7, <1>a, <1>b DEF Join
<1>8. CASE UnrefRunner
    BY <1>8, <1>a, <1>b DEF UnrefRunner
<1>9. CASE Finalize
    BY <1>9, <1>a, <1>b DEF Finalize
<1>10. CASE Resume
    <2>1. registered
        BY <1>10, ResumeParked DEF Resume
    <2>. QED
        BY <1>10, <1>a, <1>b, <2>1 DEF Resume
<1>11. CASE Stall
    BY <1>11, <1>a, <1>b DEF Stall
<1>12. ASSUME NEW t \in Sessions, CreateStream(t) PROVE UnregisteredInv'
    BY <1>12, <1>a, <1>b, <1>c DEF CreateStream, RegisterOnMessage
<1>13. ASSUME NEW t \in Sessions, FetchRejected(t) PROVE UnregisteredInv'
    BY <1>13, <1>a, <1>b, <1>c DEF FetchRejected
<1>14. ASSUME NEW t \in Sessions, DestroyStream(t) PROVE UnregisteredInv'
    BY <1>14, <1>a, <1>b, <1>c DEF DestroyStream, UnregisterOnMessage
<1>15. ASSUME NEW t \in Sessions, Transfer(t) PROVE UnregisteredInv'
    BY <1>15, <1>a, <1>b, <1>c DEF Transfer, TransferObject
<1>16. ASSUME NEW t \in Sessions, ThreadReady(t) PROVE UnregisteredInv'
    BY <1>16, <1>a, <1>b, <1>c DEF ThreadReady, At
<1>17. ASSUME NEW t \in Sessions, TaskPoolRun(t) PROVE UnregisteredInv'
    BY <1>17, <1>a, <1>b, <1>c DEF TaskPoolRun
<1>18. ASSUME NEW t \in Sessions, ExecuteEnds(t) PROVE UnregisteredInv'
    BY <1>18, <1>a, <1>b, <1>c DEF ExecuteEnds, At
<1>19. ASSUME NEW t \in Sessions, CreateRegister(t) PROVE UnregisteredInv'
    BY <1>19, <1>a, <1>b, <1>c DEF CreateRegister, At, RegisterOnMessage
<1>20. ASSUME NEW t \in Sessions, CreateRequest(t) PROVE UnregisteredInv'
    BY <1>20 DEF CreateRequest, UnregisteredInv
<1>21. ASSUME NEW t \in Sessions, CreatePause(t) PROVE UnregisteredInv'
    BY <1>21, <1>a, <1>b, <1>c DEF CreatePause, At, PauseTask
<1>22. ASSUME NEW t \in Sessions, CreateRead(t) PROVE UnregisteredInv'
    BY <1>22, <1>a, <1>b, <1>c DEF CreateRead, At
<1>23. ASSUME NEW t \in Sessions, ReadChunk(t) PROVE UnregisteredInv'
    <2>2. registered
        BY <1>23, ReadableReader DEF ReadChunk
    <2>. QED
        BY <1>23, <1>a, <1>b, <1>c, <2>2 DEF ReadChunk, At, PauseTask, Readable
<1>24. ASSUME NEW t \in Sessions, ReadDone(t) PROVE UnregisteredInv'
    <2>2. registered
        BY <1>24, ReadableReader DEF ReadDone
    <2>. QED
        BY <1>24, <1>a, <1>b, <1>c, <2>2 DEF ReadDone, At, PauseTask, Readable
<1>25. ASSUME NEW t \in Sessions, OnStream(t) PROVE UnregisteredInv'
    <2>2. registered
        BY <1>25, EventStep DEF Waiting, Requester
    <2>. QED
        BY <1>25, <1>a, <1>b, <1>c, <2>2 DEF OnStream, Yields, ObjectEvent
<1>26. ASSUME NEW w \in Worker, Relay(w) PROVE UnregisteredInv'
    BY <1>26, <1>a, <1>b DEF Relay
<1>27. CASE UNCHANGED vars
    BY <1>27, <1>a, <1>b
<1>. QED
    BY <1>1, <1>2, <1>3, <1>4, <1>5, <1>6, <1>7, <1>8, <1>9, <1>10, <1>11, <1>12,
        <1>13, <1>14, <1>15, <1>16, <1>17, <1>18, <1>19, <1>20, <1>21, <1>22, <1>23,
        <1>24, <1>25, <1>26, <1>27 DEF Next, AppStep, RunnerStep, ThreadStep

\* Who waits goes on waiting until it gets the object.
LEMMA WaitingNext ==
    ASSUME IInv, [Next]_vars, NEW s \in Sessions, Waiting(s)
    PROVE  Waiting(s)' \/ NoFlight'
<1>a. Shape /\ MaxStarts \in Nat /\ SessionOK(s) /\ Waiting(s)
    BY TypeShape DEF IInv, SessionInv
<1>c. \A t \in Sessions : SessionOK(t)
    BY DEF IInv, SessionInv
<1>. USE DEF vars, binVars, ownerVars, readerVars, taskVars, history, transferVars,
    Waiting, Requester, Parked, SessionOK, CreateStates, Before, Undefined, Sessions,
    Shape
<1>1. CASE Start
    BY <1>1, <1>a DEF Start
<1>2. CASE Activate
    BY <1>2, <1>a DEF Activate, ActivateReader
<1>3. CASE TaskPoolPush
    BY <1>3, <1>a DEF TaskPoolPush
<1>4. CASE Link
    BY <1>4, <1>a DEF Link, ActivateReader
<1>5. CASE Stop
    BY <1>5, <1>a DEF Stop
<1>6. CASE Deactivate
    BY <1>6, <1>a DEF Deactivate
<1>7. CASE Join
    BY <1>7, <1>a DEF Join
<1>8. CASE UnrefRunner
    BY <1>8, <1>a DEF UnrefRunner
<1>9. CASE Finalize
    BY <1>9, <1>a DEF Finalize
<1>10. CASE Resume
    BY <1>10, <1>a DEF Resume
<1>11. CASE Stall
    BY <1>11, <1>a DEF Stall
<1>12. ASSUME NEW t \in Sessions, CreateStream(t) PROVE Waiting(s)' \/ NoFlight'
    BY <1>12, <1>a, <1>c DEF CreateStream, RegisterOnMessage
<1>13. ASSUME NEW t \in Sessions, FetchRejected(t) PROVE Waiting(s)' \/ NoFlight'
    BY <1>13, <1>a, <1>c DEF FetchRejected
<1>14. ASSUME NEW t \in Sessions, DestroyStream(t) PROVE Waiting(s)' \/ NoFlight'
    BY <1>14, <1>a, <1>c DEF DestroyStream, UnregisterOnMessage
<1>15. ASSUME NEW t \in Sessions, Transfer(t) PROVE Waiting(s)' \/ NoFlight'
    BY <1>15, <1>a, <1>c DEF Transfer, TransferObject
<1>16. ASSUME NEW t \in Sessions, ThreadReady(t) PROVE Waiting(s)' \/ NoFlight'
    BY <1>16, <1>a, <1>c DEF ThreadReady, At
<1>17. ASSUME NEW t \in Sessions, TaskPoolRun(t) PROVE Waiting(s)' \/ NoFlight'
    BY <1>17, <1>a, <1>c DEF TaskPoolRun
<1>18. ASSUME NEW t \in Sessions, ExecuteEnds(t) PROVE Waiting(s)' \/ NoFlight'
    BY <1>18, <1>a, <1>c DEF ExecuteEnds, At
<1>19. ASSUME NEW t \in Sessions, CreateRegister(t) PROVE Waiting(s)' \/ NoFlight'
    BY <1>19, <1>a, <1>c DEF CreateRegister, At, RegisterOnMessage
<1>20. ASSUME NEW t \in Sessions, CreateRequest(t) PROVE Waiting(s)' \/ NoFlight'
    BY <1>20, <1>a, RequestStep DEF Waiting, Requester
<1>21. ASSUME NEW t \in Sessions, CreatePause(t) PROVE Waiting(s)' \/ NoFlight'
    BY <1>21, <1>a, <1>c DEF CreatePause, At, PauseTask
<1>22. ASSUME NEW t \in Sessions, CreateRead(t) PROVE Waiting(s)' \/ NoFlight'
    BY <1>22, <1>a, <1>c DEF CreateRead, At
<1>23. ASSUME NEW t \in Sessions, ReadChunk(t) PROVE Waiting(s)' \/ NoFlight'
    BY <1>23, <1>a, <1>c DEF ReadChunk, At, PauseTask, Readable
<1>24. ASSUME NEW t \in Sessions, ReadDone(t) PROVE Waiting(s)' \/ NoFlight'
    BY <1>24, <1>a, <1>c DEF ReadDone, At, PauseTask, Readable
<1>25. ASSUME NEW t \in Sessions, OnStream(t) PROVE Waiting(s)' \/ NoFlight'
    BY <1>25, EventStep
<1>26. ASSUME NEW w \in Worker, Relay(w) PROVE Waiting(s)' \/ NoFlight'
    BY <1>26, <1>a DEF Relay
<1>27. CASE UNCHANGED vars
    BY <1>27, <1>a
<1>. QED
    BY <1>1, <1>2, <1>3, <1>4, <1>5, <1>6, <1>7, <1>8, <1>9, <1>10, <1>11, <1>12,
        <1>13, <1>14, <1>15, <1>16, <1>17, <1>18, <1>19, <1>20, <1>21, <1>22, <1>23,
        <1>24, <1>25, <1>26, <1>27 DEF Next, AppStep, RunnerStep, ThreadStep

LEMMA FlightNext ==
    ASSUME IInv, [Next]_vars
    PROVE  FlightInv'
<1>1. CASE Quiet
    <2>1. CASE NoFlight
        BY <1>1, <2>1, QueuesStay DEF Quiet, FlightInv
    <2>2. ASSUME NEW s \in Sessions, Flight(s), Waiting(s) PROVE FlightInv'
        BY <1>1, <2>2, QueuesStay, WaitingNext DEF Quiet, FlightInv
    <2>. QED
        BY <2>1, <2>2 DEF IInv, FlightInv
<1>2. ASSUME NEW t \in Sessions, CreateRequest(t) PROVE FlightInv'
    <2>1. Shape /\ MaxStarts \in Nat
        BY TypeShape DEF IInv
    <2>2. t = starts /\ reader = Undefined /\ resumes = 0 /\ ~stale
        BY <1>2, RequestStep
    <2>3. Requester(t)'
        BY <1>2, <2>1, <2>2
            DEF CreateRequest, binVars, history, Requester, Sessions, Shape
    <2>4. thread'[t] = "requested" /\ t = starts' /\ reader' = Undefined /\ resumes' = 0
        BY <1>2, <2>1, <2>2 DEF CreateRequest, At, binVars, Shape
    <2>5. Waiting(t)'
        BY <2>3, <2>4 DEF Waiting, Undefined
    <2>. QED
        BY <1>2, <2>5, RequestStep DEF FlightInv
<1>3. ASSUME NEW t \in Sessions, Transfer(t) PROVE FlightInv'
    <2>1. Flight(t)' /\ Waiting(t)
        BY <1>3, TransferStep
    <2>. QED
        BY <2>1, WaitingNext DEF FlightInv
<1>4. ASSUME NEW t \in Sessions, OnStream(t) PROVE FlightInv'
    BY <1>4, EventStep DEF FlightInv
<1>5. ASSUME NEW w \in Worker, Relay(w) PROVE FlightInv'
    <2>1. PICK s \in Sessions : Waiting(s) /\ (Flight(s)' \/ NoFlight')
        BY <1>5, RelayStep
    <2>. QED
        BY <2>1, WaitingNext DEF FlightInv
<1>. QED
    BY <1>1, <1>2, <1>3, <1>4, <1>5, QuietNext

--------------------------------------------------------------------------------
(* The reader *)

\* The reader stays.
LEMMA ServedNext ==
    ASSUME IInv, [Next]_vars, NEW s \in Sessions, Served(s)
    PROVE  Served(s)'
<1>a. Shape /\ MaxStarts \in Nat /\ SessionOK(s) /\ Served(s)
    BY TypeShape DEF IInv, SessionInv
<1>c. \A t \in Sessions : SessionOK(t)
    BY DEF IInv, SessionInv
<1>. USE DEF vars, binVars, ownerVars, readerVars, taskVars, history, transferVars,
    Served, Requester, Parked, SessionOK, CreateStates, Sessions, Shape
<1>1. CASE Start
    BY <1>1, <1>a DEF Start
<1>2. CASE Activate
    BY <1>2, <1>a DEF Activate, ActivateReader
<1>3. CASE TaskPoolPush
    BY <1>3, <1>a DEF TaskPoolPush
<1>4. CASE Link
    BY <1>4, <1>a DEF Link, ActivateReader
<1>5. CASE Stop
    BY <1>5, <1>a DEF Stop
<1>6. CASE Deactivate
    BY <1>6, <1>a DEF Deactivate
<1>7. CASE Join
    BY <1>7, <1>a DEF Join
<1>8. CASE UnrefRunner
    BY <1>8, <1>a DEF UnrefRunner
<1>9. CASE Finalize
    BY <1>9, <1>a DEF Finalize
<1>10. CASE Resume
    BY <1>10, <1>a DEF Resume
<1>11. CASE Stall
    BY <1>11, <1>a DEF Stall
<1>12. ASSUME NEW t \in Sessions, CreateStream(t) PROVE Served(s)'
    BY <1>12, <1>a, <1>c DEF CreateStream, RegisterOnMessage
<1>13. ASSUME NEW t \in Sessions, FetchRejected(t) PROVE Served(s)'
    BY <1>13, <1>a, <1>c DEF FetchRejected
<1>14. ASSUME NEW t \in Sessions, DestroyStream(t) PROVE Served(s)'
    BY <1>14, <1>a, <1>c DEF DestroyStream, UnregisterOnMessage
<1>15. ASSUME NEW t \in Sessions, Transfer(t) PROVE Served(s)'
    BY <1>15, <1>a, <1>c DEF Transfer, TransferObject
<1>16. ASSUME NEW t \in Sessions, ThreadReady(t) PROVE Served(s)'
    BY <1>16, <1>a, <1>c DEF ThreadReady, At
<1>17. ASSUME NEW t \in Sessions, TaskPoolRun(t) PROVE Served(s)'
    BY <1>17, <1>a, <1>c DEF TaskPoolRun
<1>18. ASSUME NEW t \in Sessions, ExecuteEnds(t) PROVE Served(s)'
    BY <1>18, <1>a, <1>c DEF ExecuteEnds, At
<1>19. ASSUME NEW t \in Sessions, CreateRegister(t) PROVE Served(s)'
    BY <1>19, <1>a, <1>c DEF CreateRegister, At, RegisterOnMessage
<1>20. ASSUME NEW t \in Sessions, CreateRequest(t) PROVE Served(s)'
    BY <1>20, <1>a, RequestStep DEF Served, Requester
<1>21. ASSUME NEW t \in Sessions, CreatePause(t) PROVE Served(s)'
    BY <1>21, <1>a, <1>c DEF CreatePause, At, PauseTask
<1>22. ASSUME NEW t \in Sessions, CreateRead(t) PROVE Served(s)'
    BY <1>22, <1>a, <1>c DEF CreateRead, At
<1>23. ASSUME NEW t \in Sessions, ReadChunk(t) PROVE Served(s)'
    <2>1. resumes = 0 /\ registered
        BY <1>23, ReadableReader DEF ReadChunk
    <2>. QED
        BY <1>23, <1>a, <2>1 DEF ReadChunk, At, PauseTask, Readable
<1>24. ASSUME NEW t \in Sessions, ReadDone(t) PROVE Served(s)'
    <2>1. resumes = 0 /\ registered
        BY <1>24, ReadableReader DEF ReadDone
    <2>. QED
        BY <1>24, <1>a, <2>1 DEF ReadDone, At, PauseTask, Readable
<1>25. ASSUME NEW t \in Sessions, OnStream(t) PROVE Served(s)'
    BY <1>25, <1>a, EventStep DEF Served, Waiting, Undefined, Sessions
<1>26. ASSUME NEW w \in Worker, Relay(w) PROVE Served(s)'
    BY <1>26, <1>a DEF Relay
<1>27. CASE UNCHANGED vars
    BY <1>27, <1>a
<1>. QED
    BY <1>1, <1>2, <1>3, <1>4, <1>5, <1>6, <1>7, <1>8, <1>9, <1>10, <1>11, <1>12,
        <1>13, <1>14, <1>15, <1>16, <1>17, <1>18, <1>19, <1>20, <1>21, <1>22, <1>23,
        <1>24, <1>25, <1>26, <1>27 DEF Next, AppStep, RunnerStep, ThreadStep

LEMMA ReaderNext ==
    ASSUME IInv, [Next]_vars
    PROVE  ReaderInv'
<1>1. CASE \E s \in Sessions : Served(s)
    BY <1>1, ServedNext DEF ReaderInv
<1>2. CASE reader = Undefined /\ resumes = 0
    <2>1. CASE UNCHANGED <<reader, resumes>>
        BY <1>2, <2>1 DEF ReaderInv
    <2>2. ASSUME NEW t \in Sessions, OnStream(t) PROVE ReaderInv'
        <3>1. /\ Head(toWorker[TaskThread(t)]) = t
              /\ Waiting(t) /\ Parked(t) /\ thread[t] = "idle"
            BY <2>2, EventStep
        <3>2. Parked(t)' /\ thread'[t] = "idle" /\ Requester(t)'
            BY <2>2, <3>1 DEF OnStream, binVars, taskVars, Parked, Waiting, Requester
        <3>3. CASE TaskThread(t) \in listening /\ alive
            <4>1. reader' = [stream |-> t, home |-> t] /\ resumes' = 1
                BY <1>2, <2>2, <3>1, <3>3 DEF OnStream
            <4>2. Served(t)'
                BY <3>2, <4>1 DEF Served
            <4>. QED
                BY <4>2 DEF ReaderInv
        <3>4. CASE ~(TaskThread(t) \in listening /\ alive)
            BY <1>2, <2>2, <3>4 DEF OnStream, ReaderInv
        <3>. QED
            BY <3>3, <3>4
    <2>3. CASE Resume
        BY <1>2, <2>3 DEF Resume
    <2>4. UNCHANGED <<reader, resumes>> \/ Resume \/ \E t \in Sessions : OnStream(t)
        <3>. USE DEF vars, readerVars, taskVars
        <3>1. CASE AppStep
            BY <3>1 DEF AppStep, Activate, TaskPoolPush, Deactivate, Join, UnrefRunner
        <3>2. ASSUME NEW t \in Sessions, RunnerStep(t) \/ Transfer(t)
              PROVE  UNCHANGED <<reader, resumes>>
            BY <3>2 DEF RunnerStep, CreateStream, FetchRejected, DestroyStream, Transfer
        <3>3. ASSUME NEW t \in Sessions, ThreadStep(t)
              PROVE  UNCHANGED <<reader, resumes>>
            BY <3>3 DEF ThreadStep, ThreadReady, TaskPoolRun, ExecuteEnds, CreateRegister,
                    CreateRequest, CreatePause, CreateRead, ReadChunk, ReadDone
        <3>4. CASE Start \/ Link \/ Stop \/ Finalize \/ Stall
            BY <3>4 DEF Start, Link, Stop, Finalize, Stall
        <3>5. ASSUME NEW w \in Worker, Relay(w)
              PROVE  UNCHANGED <<reader, resumes>>
            BY <3>5 DEF Relay
        <3>. QED
            BY <3>1, <3>2, <3>3, <3>4, <3>5 DEF Next
    <2>. QED
        BY <2>1, <2>2, <2>3, <2>4
<1>. QED
    BY <1>1, <1>2 DEF IInv, ReaderInv

--------------------------------------------------------------------------------
(* The session that requested *)

LEMMA CurrentNext ==
    ASSUME IInv, [Next]_vars
    PROVE  CurrentInv'
<1>a. Shape /\ MaxStarts \in Nat /\ CurrentInv
    BY TypeShape DEF IInv
<1>b. starts \in Sessions => SessionOK(starts)
    BY DEF IInv, SessionInv
<1>c. \A t \in Sessions : SessionOK(t)
    BY DEF IInv, SessionInv
<1>. USE DEF vars, binVars, ownerVars, readerVars, taskVars, history, transferVars,
    CurrentInv, SessionOK, Before, CreateStates, Sessions, Shape
<1>1. CASE Start
    BY <1>1, <1>a, <1>b DEF Start
<1>2. CASE Activate
    BY <1>2, <1>a, <1>b DEF Activate, ActivateReader
<1>3. CASE TaskPoolPush
    BY <1>3, <1>a, <1>b DEF TaskPoolPush
<1>4. CASE Link
    BY <1>4, <1>a, <1>b DEF Link, ActivateReader
<1>5. CASE Stop
    BY <1>5, <1>a, <1>b DEF Stop
<1>6. CASE Deactivate
    BY <1>6, <1>a, <1>b DEF Deactivate
<1>7. CASE Join
    BY <1>7, <1>a, <1>b DEF Join
<1>8. CASE UnrefRunner
    BY <1>8, <1>a, <1>b DEF UnrefRunner
<1>9. CASE Finalize
    BY <1>9, <1>a, <1>b DEF Finalize
<1>10. CASE Resume
    <2>1. task[starts] = "paused" => reader = [stream |-> starts, home |-> starts]
        BY <1>10, ResumeParked DEF Resume
    <2>. QED
        BY <1>10, <1>a, <1>b, <2>1 DEF Resume
<1>11. CASE Stall
    BY <1>11, <1>a, <1>b DEF Stall
<1>12. ASSUME NEW t \in Sessions, CreateStream(t) PROVE CurrentInv'
    BY <1>12, <1>a, <1>b, <1>c DEF CreateStream, RegisterOnMessage
<1>13. ASSUME NEW t \in Sessions, FetchRejected(t) PROVE CurrentInv'
    BY <1>13, <1>a, <1>b, <1>c DEF FetchRejected
<1>14. ASSUME NEW t \in Sessions, DestroyStream(t) PROVE CurrentInv'
    BY <1>14, <1>a, <1>b, <1>c DEF DestroyStream, UnregisterOnMessage
<1>15. ASSUME NEW t \in Sessions, Transfer(t) PROVE CurrentInv'
    BY <1>15, <1>a, <1>b, <1>c DEF Transfer, TransferObject
<1>16. ASSUME NEW t \in Sessions, ThreadReady(t) PROVE CurrentInv'
    BY <1>16, <1>a, <1>b, <1>c DEF ThreadReady, At
<1>17. ASSUME NEW t \in Sessions, TaskPoolRun(t) PROVE CurrentInv'
    BY <1>17, <1>a, <1>b, <1>c DEF TaskPoolRun
<1>18. ASSUME NEW t \in Sessions, ExecuteEnds(t) PROVE CurrentInv'
    BY <1>18, <1>a, <1>b, <1>c DEF ExecuteEnds, At
<1>19. ASSUME NEW t \in Sessions, CreateRegister(t) PROVE CurrentInv'
    BY <1>19, <1>a, <1>b, <1>c DEF CreateRegister, At, RegisterOnMessage
<1>20. ASSUME NEW t \in Sessions, CreateRequest(t) PROVE CurrentInv'
    <2>2. t = starts /\ ~stale
        BY <1>20, RequestStep
    <2>. QED
        BY <1>20, <1>a, <1>b, <1>c, <2>2 DEF CreateRequest, At, HandleRequestObject
<1>21. ASSUME NEW t \in Sessions, CreatePause(t) PROVE CurrentInv'
    BY <1>21, <1>a, <1>b, <1>c DEF CreatePause, At, PauseTask
<1>22. ASSUME NEW t \in Sessions, CreateRead(t) PROVE CurrentInv'
    BY <1>22, <1>a, <1>b, <1>c DEF CreateRead, At
<1>23. ASSUME NEW t \in Sessions, ReadChunk(t) PROVE CurrentInv'
    <2>2. t = starts /\ reader = [stream |-> t, home |-> t]
        BY <1>23, ReadableReader DEF ReadChunk
    <2>. QED
        BY <1>23, <1>a, <1>b, <1>c, <2>2 DEF ReadChunk, At, PauseTask, Readable
<1>24. ASSUME NEW t \in Sessions, ReadDone(t) PROVE CurrentInv'
    <2>2. t = starts /\ reader = [stream |-> t, home |-> t]
        BY <1>24, ReadableReader DEF ReadDone
    <2>. QED
        BY <1>24, <1>a, <1>b, <1>c, <2>2 DEF ReadDone, At, PauseTask, Readable
<1>25. ASSUME NEW t \in Sessions, OnStream(t) PROVE CurrentInv'
    <2>2. /\ Head(toWorker[TaskThread(t)]) = t /\ Requester(t)
          /\ thread[t] = "idle" /\ reader = Undefined
        BY <1>25, EventStep DEF Waiting
    <2>. QED
        BY <1>25, <1>a, <1>b, <1>c, <2>2 DEF OnStream, Yields, ObjectEvent, Requester,
            Undefined
<1>26. ASSUME NEW w \in Worker, Relay(w) PROVE CurrentInv'
    BY <1>26, <1>a, <1>b DEF Relay, RelayObject
<1>27. CASE UNCHANGED vars
    BY <1>27, <1>a, <1>b
<1>. QED
    BY <1>1, <1>2, <1>3, <1>4, <1>5, <1>6, <1>7, <1>8, <1>9, <1>10, <1>11, <1>12,
        <1>13, <1>14, <1>15, <1>16, <1>17, <1>18, <1>19, <1>20, <1>21, <1>22, <1>23,
        <1>24, <1>25, <1>26, <1>27 DEF Next, AppStep, RunnerStep, ThreadStep
--------------------------------------------------------------------------------
(* Types *)

LEMMA ShapeNext ==
    ASSUME IInv, [Next]_vars
    PROVE  Shape'
<1>a. Shape /\ MaxStarts \in Nat
    BY TypeShape DEF IInv
<1>b. app # "ready" => starts \in Sessions
    BY <1>a DEF IInv, CurrentInv, Shape, Sessions
<1>. USE DEF vars, binVars, ownerVars, readerVars, taskVars, history, transferVars,
    Shape, Sessions
<1>1. CASE Start
    BY <1>1, <1>a, <1>b DEF Start
<1>2. CASE Activate
    BY <1>2, <1>a, <1>b DEF Activate, ActivateReader
<1>3. CASE TaskPoolPush
    BY <1>3, <1>a, <1>b DEF TaskPoolPush
<1>4. CASE Link
    BY <1>4, <1>a, <1>b DEF Link, ActivateReader
<1>5. CASE Stop
    BY <1>5, <1>a, <1>b DEF Stop
<1>6. CASE Deactivate
    BY <1>6, <1>a, <1>b DEF Deactivate
<1>7. CASE Join
    BY <1>7, <1>a, <1>b DEF Join
<1>8. CASE UnrefRunner
    BY <1>8, <1>a, <1>b DEF UnrefRunner
<1>9. CASE Finalize
    BY <1>9, <1>a, <1>b DEF Finalize
<1>10. CASE Resume
    <2>1. starts \in Sessions
        BY <1>10, ResumeParked DEF Resume
    <2>. QED
        BY <1>10, <1>a, <2>1 DEF Resume
<1>11. CASE Stall
    BY <1>11, <1>a, <1>b DEF Stall
<1>12. ASSUME NEW t \in Sessions, CreateStream(t) PROVE Shape'
    <2>1. RunnerThread(t) \in Worker
        BY Threads
    <2>. QED
        BY <1>12, <1>a, <2>1 DEF CreateStream, RegisterOnMessage
<1>13. ASSUME NEW t \in Sessions, FetchRejected(t) PROVE Shape'
    BY <1>13, <1>a, <1>b DEF FetchRejected
<1>14. ASSUME NEW t \in Sessions, DestroyStream(t) PROVE Shape'
    BY <1>14, <1>a, <1>b DEF DestroyStream, UnregisterOnMessage
<1>15. ASSUME NEW t \in Sessions, Transfer(t) PROVE Shape'
    BY <1>15, <1>a, <1>b DEF Transfer, TransferObject
<1>16. ASSUME NEW t \in Sessions, ThreadReady(t) PROVE Shape'
    BY <1>16, <1>a, <1>b DEF ThreadReady, At
<1>17. ASSUME NEW t \in Sessions, TaskPoolRun(t) PROVE Shape'
    BY <1>17, <1>a, <1>b DEF TaskPoolRun
<1>18. ASSUME NEW t \in Sessions, ExecuteEnds(t) PROVE Shape'
    BY <1>18, <1>a, <1>b DEF ExecuteEnds, At
<1>19. ASSUME NEW t \in Sessions, CreateRegister(t) PROVE Shape'
    BY <1>19, <1>a, <1>b DEF CreateRegister, At, RegisterOnMessage
<1>20. ASSUME NEW t \in Sessions, CreateRequest(t) PROVE Shape'
    BY <1>20, <1>a, <1>b DEF CreateRequest, At, HandleRequestObject
<1>21. ASSUME NEW t \in Sessions, CreatePause(t) PROVE Shape'
    BY <1>21, <1>a, <1>b DEF CreatePause, At, PauseTask
<1>22. ASSUME NEW t \in Sessions, CreateRead(t) PROVE Shape'
    BY <1>22, <1>a, <1>b DEF CreateRead, At
<1>23. ASSUME NEW t \in Sessions, ReadChunk(t) PROVE Shape'
    BY <1>23, <1>a, <1>b DEF ReadChunk, At, PauseTask, Readable
<1>24. ASSUME NEW t \in Sessions, ReadDone(t) PROVE Shape'
    BY <1>24, <1>a, <1>b DEF ReadDone, At, PauseTask, Readable
<1>25. ASSUME NEW t \in Sessions, OnStream(t) PROVE Shape'
    <2>1. Head(toWorker[TaskThread(t)]) = t /\ t \in 0..MaxStarts
        BY <1>25, <1>a, EventStep
    <2>2. reader' \in [stream : 0..MaxStarts, home : 0..MaxStarts] /\ resumes' \in Nat
        BY <1>25, <1>a, <2>1 DEF OnStream
    <2>3. freedUse' \in BOOLEAN
        BY <1>25, <1>a DEF OnStream
    <2>4. UNCHANGED <<binVars, ownerVars, registered, task, thread, runs, stale>>
        BY <1>25 DEF OnStream
    <2>. QED
        BY <1>a, <2>2, <2>3, <2>4
<1>26. ASSUME NEW w \in Worker, Relay(w) PROVE Shape'
    BY <1>26, <1>a, <1>b DEF Relay
<1>27. CASE UNCHANGED vars
    BY <1>27, <1>a, <1>b
<1>. QED
    BY <1>1, <1>2, <1>3, <1>4, <1>5, <1>6, <1>7, <1>8, <1>9, <1>10, <1>11, <1>12,
        <1>13, <1>14, <1>15, <1>16, <1>17, <1>18, <1>19, <1>20, <1>21, <1>22, <1>23,
        <1>24, <1>25, <1>26, <1>27 DEF Next, AppStep, RunnerStep, ThreadStep

\* What is in flight is well-formed.
QueueTypes ==
    /\ dispatched \in [Worker -> Seq([tid : Worker])]
    /\ toMain \in [Worker -> Seq([tid : Worker, object : Sessions])]
    /\ toWorker \in [Worker -> Seq(Sessions)]

LEMMA FlightTypes ==
    /\ \A T : Nobody \in [Worker -> Seq(T)]
    /\ \A s \in Sessions :
        /\ One(RunnerThread(s), Request(s)) \in [Worker -> Seq([tid : Worker])]
        /\ One(RunnerThread(s), Parcel(s))
                \in [Worker -> Seq([tid : Worker, object : Sessions])]
        /\ One(TaskThread(s), s) \in [Worker -> Seq(Sessions)]
<1>1. ASSUME NEW T PROVE Nobody \in [Worker -> Seq(T)]
    BY DEF Nobody
<1>2. ASSUME NEW T, NEW m \in T, NEW w \in Worker PROVE One(w, m) \in [Worker -> Seq(T)]
    BY DEF One
<1>3. ASSUME NEW s \in Sessions
      PROVE  /\ One(RunnerThread(s), Request(s)) \in [Worker -> Seq([tid : Worker])]
             /\ One(RunnerThread(s), Parcel(s))
                    \in [Worker -> Seq([tid : Worker, object : Sessions])]
             /\ One(TaskThread(s), s) \in [Worker -> Seq(Sessions)]
    <2>1. RunnerThread(s) \in Worker /\ TaskThread(s) \in Worker
        BY Threads
    <2>2. Request(s) \in [tid : Worker]
        BY <2>1 DEF Request
    <2>3. Parcel(s) \in [tid : Worker, object : Sessions]
        BY <2>1 DEF Parcel
    <2>. QED
        BY <1>2, <2>1, <2>2, <2>3
<1>. QED
    BY <1>1, <1>3

\* Who is registered is a worker.
Registered == listening \subseteq Worker /\ relayed \subseteq Worker

LEMMA RegisteredNext ==
    ASSUME Registered, [Next]_vars
    PROVE  Registered'
<1>1. ASSUME NEW t \in Sessions, CreateStream(t) \/ CreateRegister(t) PROVE Registered'
    BY <1>1, Threads DEF CreateStream, CreateRegister, RegisterOnMessage, Registered
<1>2. ASSUME NEW t \in Sessions, DestroyStream(t) PROVE Registered'
    BY <1>2 DEF DestroyStream, UnregisterOnMessage, Registered
<1>3. CASE UNCHANGED <<listening, relayed>>
    BY <1>3 DEF Registered
<1>4. \/ UNCHANGED <<listening, relayed>>
      \/ \E t \in Sessions : CreateStream(t) \/ CreateRegister(t) \/ DestroyStream(t)
    <2>. USE DEF vars, transferVars
    <2>1. CASE AppStep
        BY <2>1 DEF AppStep, Activate, TaskPoolPush, Deactivate, Join, UnrefRunner
    <2>2. ASSUME NEW t \in Sessions, FetchRejected(t) \/ Transfer(t) \/ OnStream(t)
          PROVE  UNCHANGED <<listening, relayed>>
        BY <2>2 DEF FetchRejected, Transfer, TransferObject, OnStream, ObjectEvent
    <2>3. ASSUME NEW t \in Sessions, ThreadStep(t), ~CreateRegister(t)
          PROVE  UNCHANGED <<listening, relayed>>
        BY <2>3 DEF ThreadStep, ThreadReady, TaskPoolRun, ExecuteEnds, CreateRequest,
                HandleRequestObject, CreatePause, CreateRead, ReadChunk, ReadDone
    <2>4. CASE Start \/ Link \/ Stop \/ Finalize \/ Resume \/ Stall
        BY <2>4 DEF Start, Link, Stop, Finalize, Resume, Stall
    <2>5. ASSUME NEW w \in Worker, Relay(w)
          PROVE  UNCHANGED <<listening, relayed>>
        BY <2>5 DEF Relay, RelayObject
    <2>. QED
        BY <2>1, <2>2, <2>3, <2>4, <2>5 DEF Next, RunnerStep
<1>. QED
    BY <1>1, <1>2, <1>3, <1>4

--------------------------------------------------------------------------------
(* The invariant *)

LEMMA InitInv ==
    ASSUME Init
    PROVE  IInv
<1>. USE DEF Init, TransferInit
<1>1. NoFlight
    BY DEF NoFlight, Nobody
<1>2. FlightInv
    BY <1>1 DEF FlightInv
<1>3. Shape
    <2>1. 0 \in 0..MaxStarts
        BY FetchAssumption
    <2>2. reader \in [stream : 0..MaxStarts, home : 0..MaxStarts]
        BY <2>1 DEF Undefined
    <2>3. /\ runner \in [Sessions -> {"none", "fetching", "idle", "failed", "ended"}]
          /\ task \in [Sessions -> {"none", "started", "paused", "stopped"}]
          /\ thread \in [Sessions -> {"none", "starting", "idle", "execute", "await",
                                      "request", "requested"}]
          /\ runs \in [Sessions -> Nat]
        OBVIOUS
    <2>. QED
        BY <2>1, <2>2, <2>3 DEF Shape
<1>4. QueueTypes
    BY <1>1, FlightTypes DEF NoFlight, QueueTypes
<1>5. TypeOK
    BY <1>3, <1>4 DEF TypeOK, QueueTypes, Shape, CreateStates
<1>6. ReaderInv /\ CurrentInv
    BY DEF ReaderInv, CurrentInv
<1>7. UnregisteredInv
    BY <1>1 DEF UnregisteredInv
<1>8. SessionInv
    BY FetchAssumption DEF SessionInv, SessionOK, Sessions, CreateStates, Before
<1>. QED
    BY <1>2, <1>5, <1>6, <1>7, <1>8 DEF IInv

LEMMA StepInv ==
    ASSUME IInv, [Next]_vars
    PROVE  IInv'
<1>1. FlightInv'
    BY FlightNext
<1>2. QueueTypes'
    BY <1>1, FlightTypes DEF FlightInv, NoFlight, Flight, QueueTypes
<1>3. Registered'
    BY RegisteredNext DEF IInv, TypeOK, Registered
<1>4. Shape'
    BY ShapeNext
<1>5. TypeOK'
    BY <1>2, <1>3, <1>4 DEF TypeOK, Registered, QueueTypes, Shape, CreateStates
<1>. QED
    BY <1>1, <1>5, ReaderNext, UnregisteredNext, SessionNext, CurrentNext DEF IInv

\* The invariant holds throughout, for any number of sessions.
THEOREM Invariance == Spec => []IInv
<1>1. Init => IInv
    BY InitInv
<1>2. IInv /\ [Next]_vars => IInv'
    BY StepInv
<1>. QED
    BY <1>1, <1>2, PTL DEF Spec

\* Every variable has its type, and every object that is transferred is a stream.
THEOREM TypeCorrect == Spec => []TypeOK
<1>1. IInv => TypeOK
    BY DEF IInv
<1>. QED
    BY <1>1, Invariance, PTL

\* create awaits only its own stream, with a reader made in its own thread, in
\* every session of an element that had not requested a stream before it.
THEOREM ReaderCorrect == Spec => []ReaderUsable
<1>1. IInv => ReaderUsable
    <2>. SUFFICES ASSUME IInv, NEW s \in Sessions, thread[s] = "await", ~stale
                  PROVE  reader = [stream |-> s, home |-> s]
        BY DEF ReaderUsable, IInv
    <2>1. SessionOK(s) /\ CurrentInv
        BY DEF IInv, SessionInv
    <2>2. s = starts /\ registered
        BY <2>1 DEF SessionOK, CreateStates
    <2>. QED
        BY <2>1, <2>2 DEF CurrentInv
<1>. QED
    BY <1>1, Invariance, PTL

\* gst_web_task_pool_run is never called for a thread that still runs the task
\* function, and never twice.
THEOREM RunCorrect == Spec => []OneRun
<1>1. IInv => OneRun
    BY DEF IInv, SessionInv, SessionOK, OneRun
<1>. QED
    BY <1>1, Invariance, PTL

\* No owner thread is left that could call a freed element.
THEOREM OwnerCorrect == Spec => []OwnerGone
<1>1. IInv => OwnerGone
    BY DEF IInv, CurrentInv, SessionInv, SessionOK, OwnerGone
<1>. QED
    BY <1>1, Invariance, PTL

--------------------------------------------------------------------------------
(* Refinement *)

Way(s) == {[to |-> TaskThread(s), object |-> s]}

\* What is on its way, by where the object is
LEMMA ComingIs ==
    /\ NoFlight => Coming = {}
    /\ \A s \in Sessions : Flight(s) => Coming = Way(s)
<1>1. Range(<<>>) = {} /\ \A m : Range(<<m>>) = {m}
    BY DEF Range
<1>2. \A w \in Worker : Range(Nobody[w]) = {}
    BY <1>1 DEF Nobody
<1>3. \A v, w \in Worker : \A m : Range(One(w, m)[v]) = IF v = w THEN {m} ELSE {}
    BY <1>1 DEF One
<1>4. \A s \in Sessions : RunnerThread(s) \in Worker /\ TaskThread(s) \in Worker
    BY Threads
<1>5. NoFlight => Coming = {}
    BY <1>2, <1>4 DEF NoFlight, Coming
<1>6. ASSUME NEW s \in Sessions, Flight(s) PROVE Coming = Way(s)
    <2>. DEFINE here == [to |-> TaskThread(s), object |-> s]
    <2>1. here \in [to : Worker, object : Sessions]
        BY <1>4
    <2>2. CASE /\ dispatched = One(RunnerThread(s), Request(s))
               /\ toMain = Nobody /\ toWorker = Nobody
        <3>1. ASSUME NEW h \in [to : Worker, object : Sessions]
              PROVE  h \in Coming <=> h = here
            <4>1. h \in Coming <=> [tid |-> h.to] \in Range(dispatched[RunnerThread(h.object)])
                BY <1>2, <2>2 DEF Coming
            <4>2. h.object = s <=> RunnerThread(h.object) = RunnerThread(s)
                BY Threads
            <4>3. [tid |-> h.to] \in Range(dispatched[RunnerThread(h.object)])
                    <=> h.object = s /\ [tid |-> h.to] = Request(s)
                <5>1. h.object \in Sessions
                    OBVIOUS
                <5>2. RunnerThread(h.object) \in Worker /\ RunnerThread(s) \in Worker
                    BY <1>4, <5>1
                <5>3. Range(dispatched[RunnerThread(h.object)])
                        = IF RunnerThread(h.object) = RunnerThread(s) THEN {Request(s)} ELSE {}
                    BY <1>3, <2>2, <5>2
                <5>. QED
                    BY <4>2, <5>3
            <4>4. [tid |-> h.to] = Request(s) <=> h.to = TaskThread(s)
                BY DEF Request
            <4>. QED
                BY <4>1, <4>3, <4>4
        <3>2. Coming \subseteq [to : Worker, object : Sessions]
            BY DEF Coming
        <3>. QED
            BY <2>1, <3>1, <3>2 DEF Way
    <2>3. CASE /\ dispatched = Nobody /\ toMain = One(RunnerThread(s), Parcel(s))
               /\ toWorker = Nobody
        <3>1. ASSUME NEW h \in [to : Worker, object : Sessions]
              PROVE  h \in Coming <=> h = here
            <4>1. h \in Coming <=>
                    \E w \in Worker : [tid |-> h.to, object |-> h.object] \in Range(toMain[w])
                BY <1>2, <1>4, <2>3 DEF Coming
            <4>2. (\E w \in Worker : [tid |-> h.to, object |-> h.object] \in Range(toMain[w]))
                    <=> [tid |-> h.to, object |-> h.object] = Parcel(s)
                <5>1. \A w \in Worker : Range(toMain[w])
                            = IF w = RunnerThread(s) THEN {Parcel(s)} ELSE {}
                    BY <1>3, <1>4, <2>3
                <5>. QED
                    BY <1>4, <5>1
            <4>3. [tid |-> h.to, object |-> h.object] = Parcel(s)
                    <=> h.to = TaskThread(s) /\ h.object = s
                BY DEF Parcel
            <4>. QED
                BY <4>1, <4>2, <4>3
        <3>2. Coming \subseteq [to : Worker, object : Sessions]
            BY DEF Coming
        <3>. QED
            BY <2>1, <3>1, <3>2 DEF Way
    <2>4. CASE /\ dispatched = Nobody /\ toMain = Nobody
               /\ toWorker = One(TaskThread(s), s)
        <3>1. ASSUME NEW h \in [to : Worker, object : Sessions]
              PROVE  h \in Coming <=> h = here
            <4>1. h \in Coming <=> h.object \in Range(toWorker[h.to])
                BY <1>2, <1>4, <2>4 DEF Coming
            <4>2. h.object \in Range(toWorker[h.to]) <=> h.to = TaskThread(s) /\ h.object = s
                <5>1. h.to \in Worker
                    OBVIOUS
                <5>2. Range(toWorker[h.to]) = IF h.to = TaskThread(s) THEN {s} ELSE {}
                    BY <1>3, <1>4, <2>4, <5>1
                <5>. QED
                    BY <5>2
            <4>. QED
                BY <4>1, <4>2
        <3>2. Coming \subseteq [to : Worker, object : Sessions]
            BY DEF Coming
        <3>. QED
            BY <2>1, <3>1, <3>2 DEF Way
    <2>. QED
        BY <1>6, <2>2, <2>3, <2>4 DEF Flight
<1>. QED
    BY <1>5, <1>6

LEMMA ComingNext ==
    /\ NoFlight' => Coming' = {}
    /\ \A s \in Sessions : Flight(s)' => Coming' = Way(s)
<1>1. (/\ NoFlight => Coming = {}
       /\ \A s \in Sessions : Flight(s) => Coming = Way(s))'
    BY ComingIs, PTL
<1>. QED
    BY <1>1 DEF Way

\* A step that leaves the stream, the request, the reader and what is on its way is
\* none of the handover.
LEMMA HandoverStutter ==
    ASSUME UNCHANGED <<stream, registered, reader>>, Coming' = Coming
    PROVE  UNCHANGED Handover!vars
BY DEF Handover!vars

\* What else of the handover moves
LEMMA StreamMoves ==
    ASSUME [Next]_vars
    PROVE  UNCHANGED <<stream, registered, reader>>
            \/ \E s \in Sessions : CreateStream(s) \/ CreateRequest(s) \/ OnStream(s)
<1>1. CASE Start \/ Link \/ Stop \/ Finalize \/ AppStep
    BY <1>1 DEF Start, Link, Stop, Finalize, AppStep, Activate, ActivateReader, TaskPoolPush,
        Deactivate, Join, UnrefRunner, ownerVars, readerVars
<1>2. ASSUME NEW s \in Sessions, FetchRejected(s) \/ DestroyStream(s) \/ Transfer(s)
      PROVE  UNCHANGED <<stream, registered, reader>>
    BY <1>2 DEF FetchRejected, DestroyStream, Transfer, ownerVars, readerVars
<1>3. ASSUME NEW s \in Sessions,
             ThreadReady(s) \/ TaskPoolRun(s) \/ ExecuteEnds(s) \/ CreateRegister(s)
                \/ CreatePause(s) \/ CreateRead(s) \/ ReadChunk(s) \/ ReadDone(s)
      PROVE  UNCHANGED <<stream, registered, reader>>
    BY <1>3 DEF ThreadReady, TaskPoolRun, ExecuteEnds, CreateRegister, CreatePause, CreateRead,
        ReadChunk, ReadDone, ownerVars, readerVars
<1>4. CASE Resume \/ Stall \/ (\E w \in Worker : Relay(w)) \/ UNCHANGED vars
    BY <1>4 DEF Resume, Stall, Relay, vars, ownerVars, readerVars
<1>. QED
    BY <1>1, <1>2, <1>3, <1>4 DEF Next, RunnerStep, ThreadStep

\* The events of the handover are steps of it, and the others leave it alone.
LEMMA HandoverStep ==
    ASSUME IInv, [Next]_vars
    PROVE  [Handover!Next]_(Handover!vars)
<1>1. ASSUME NEW s \in Sessions, CreateRequest(s)
      PROVE  Handover!Ask(TaskThread(s))
    <2>1. Flight(s)' /\ s = starts /\ ~registered /\ reader = Undefined
        BY <1>1, RequestStep
    <2>2. stream = s /\ s # 0
        <3>1. SessionOK(s) /\ Shape
            BY TypeShape DEF IInv, SessionInv
        <3>2. thread[s] = "request"
            BY <1>1 DEF CreateRequest, At
        <3>3. app \notin {"ready", "starting", "gone"}
            BY <2>1, <3>1, <3>2 DEF SessionOK, Before
        <3>4. runner[s] = "idle"
            BY <2>1, <3>1, <3>3 DEF SessionOK
        <3>. QED
            BY <3>1, <3>4 DEF SessionOK, Sessions
    <2>3. Coming' = Way(s)
        BY <2>1, ComingNext
    <2>4. registered' = TRUE /\ UNCHANGED <<stream, reader>>
        BY <1>1 DEF CreateRequest, ownerVars
    <2>. QED
        BY <2>1, <2>2, <2>3, <2>4 DEF Handover!Ask, Way
<1>2. ASSUME NEW s \in Sessions, Transfer(s)
      PROVE  UNCHANGED Handover!vars
    <2>1. Flight(s)' /\ Waiting(s)
        BY <1>2, TransferStep
    <2>2. Flight(s)
        <3>1. ~NoFlight
            BY <1>2, NothingFlies, Threads DEF Transfer
        <3>2. PICK t \in Sessions : Flight(t) /\ Waiting(t)
            BY <3>1 DEF IInv, FlightInv
        <3>3. stream = s
            BY <1>2, TransferStep
        <3>. QED
            BY <1>2, <3>2, <3>3, TransferFlies DEF Transfer
    <2>3. Coming = Way(s) /\ Coming' = Way(s)
        BY <2>1, <2>2, ComingIs, ComingNext
    <2>4. UNCHANGED <<stream, registered, reader>>
        BY <1>2 DEF Transfer, ownerVars, readerVars
    <2>. QED
        BY <2>3, <2>4, HandoverStutter
<1>3. ASSUME NEW w \in Worker, Relay(w)
      PROVE  UNCHANGED Handover!vars \/ Handover!Lose
    <2>1. RelayObject(w) /\ UNCHANGED <<stream, registered, reader>>
        BY <1>3 DEF Relay, ownerVars, readerVars
    <2>2. PICK s \in Sessions : Flight(s) /\ Waiting(s)
        BY <2>1, NothingFlies DEF IInv, FlightInv
    <2>3. Coming = Way(s)
        BY <2>2, ComingIs
    <2>4. CASE Flight(s)'
        <3>1. Coming' = Way(s)
            BY <2>4, ComingNext
        <3>. QED
            BY <2>1, <2>3, <3>1, HandoverStutter
    <2>5. CASE NoFlight'
        <3>1. Coming' = {} /\ Coming # {}
            BY <2>3, <2>5, ComingNext DEF Way
        <3>. QED
            BY <2>1, <3>1 DEF Handover!Lose
    <2>. QED
        BY <2>1, <2>2, <2>4, <2>5, RelayFlies
<1>4. ASSUME NEW s \in Sessions, OnStream(s)
      PROVE  Handover!Deliver \/ Handover!Lose
    <2>1. NoFlight' /\ Head(toWorker[TaskThread(s)]) = s /\ Waiting(s)
        BY <1>4, EventStep
    <2>2. Flight(s)
        <3>1. ObjectEvent(TaskThread(s)) /\ ~NoFlight
            BY <1>4, NothingFlies, Threads DEF OnStream
        <3>2. PICK t \in Sessions : Flight(t) /\ Waiting(t)
            BY <3>1 DEF IInv, FlightInv
        <3>. QED
            BY <3>1, <3>2, EventLands
    <2>3. Coming = Way(s) /\ Coming # {} /\ Coming' = {}
        BY <2>1, <2>2, ComingIs, ComingNext DEF Way
    <2>4. UNCHANGED <<stream, registered>> /\ reader = Undefined
        BY <1>4, <2>1 DEF OnStream, ownerVars, Waiting
    <2>5. CASE TaskThread(s) \in listening /\ alive
        <3>1. reader' = [stream |-> s, home |-> s]
            BY <1>4, <2>1, <2>5 DEF OnStream
        <3>2. reader' # Undefined /\ reader'.home = s /\ reader'.stream = s
            BY <3>1 DEF Undefined, Sessions
        <3>. QED
            BY <2>3, <2>4, <3>2 DEF Handover!Deliver, Way
    <2>6. CASE ~(TaskThread(s) \in listening /\ alive)
        <3>1. reader' = reader
            BY <1>4, <2>6 DEF OnStream
        <3>. QED
            BY <2>3, <2>4, <3>1 DEF Handover!Lose
    <2>. QED
        BY <2>5, <2>6
<1>5. CASE Quiet
    <2>1. Coming' = Coming
        BY <1>5 DEF Quiet, Coming
    <2>2. CASE UNCHANGED <<stream, registered, reader>>
        BY <2>1, <2>2, HandoverStutter
    <2>3. ASSUME NEW s \in Sessions, CreateStream(s) PROVE Handover!Own(s)
        <3>1. stream' = s /\ UNCHANGED <<registered, reader>> /\ s # 0
            BY <2>3 DEF CreateStream, readerVars, Sessions
        <3>. QED
            BY <2>1, <3>1 DEF Handover!Own
    <2>4. UNCHANGED <<stream, registered, reader>>
            \/ \E s \in Sessions : CreateStream(s) \/ CreateRequest(s) \/ OnStream(s)
        BY StreamMoves
    <2>. QED
        BY <1>1, <1>4, <2>2, <2>3, <2>4, Threads DEF Handover!Next
<1>. QED
    BY <1>1, <1>2, <1>3, <1>4, <1>5, QuietNext, Threads DEF Handover!Next

\* The elements hand a stream over as they promise: with three hops, registrations
\* that come and go, and sessions that end in between, a stream is still asked for
\* once, handed over by its owner, and given to the thread that asked, or lost.
THEOREM HandoverCorrect == Spec => ImplementsHandover
<1>1. Init => Handover!Init
    <2>. SUFFICES ASSUME Init PROVE Handover!Init
        OBVIOUS
    <2>1. NoFlight
        BY DEF Init, TransferInit, NoFlight, Nobody
    <2>2. Coming = {}
        BY <2>1, ComingIs
    <2>. QED
        BY <2>2 DEF Init, Handover!Init
<1>2. IInv /\ [Next]_vars => [Handover!Next]_(Handover!vars)
    BY HandoverStep
<1>. QED
    BY <1>1, <1>2, Invariance, PTL DEF Spec, ImplementsHandover, Handover!Spec

================================================================================
