----------------------------- MODULE WebTransportSrc ----------------------------
(***************************************************************************)
(* GstWebTransportSrc (gst/web/transport/gstwebtransportsrc.cpp), a bin    *)
(* with one connection, whose objects belong to the worker of its runner.  *)
(* The runner accepts the streams the server opens: it keeps one read of   *)
(* each of the two streams of incoming streams pending, and handles        *)
(* whichever comes first (Promise.any). Every stream gets a pad, and a     *)
(* linked pad a GstWebStreamReaderSrc, which requests the stream from its  *)
(* own thread by the name of the pad.                                      *)
(*                                                                         *)
(* A second start drops the objects of the first connection in the worker  *)
(* of another runner, which no JavaScript value survives: the model stops  *)
(* there. The readers are those of WebFetchSrc, reduced to their requests. *)
(***************************************************************************)
EXTENDS Integers, FiniteSets

CONSTANTS MaxStreams,   \* bound: streams the server opens
          MaxRequested, \* bound: pads the application requests
          MaxLinks,     \* bound: pads it links
          Marks         \* bound: set in ascending order before
                        \* there are streams, the values of datagrams-incoming-high-water-mark

ASSUME TransportAssumption ==
    /\ MaxStreams \in Nat
    /\ MaxRequested \in Nat
    /\ MaxLinks \in Nat
    /\ Marks \subseteq Nat

VARIABLES
    stage,          \* where the application is in its state changes
    alive,          \* the element is not freed
    connection,     \* what the runner does: see Connection
    todo,           \* the pads whose stream create_connection has to create
    pads,           \* the pads of the element
    readers,        \* for each of them, the reader behind it
    given,          \* the stream that reader was given
    streams,        \* self->streams
    nstreams,       \* self->nstreams
    promise,        \* self->stream_promises
    loop,           \* is there a Promise.any that will call back?
    sent,           \* streams the server opened
    taken,          \* those the promises delivered
    ended,          \* the kinds of which it will open no more
    lost,           \* the connection was lost
    requests,       \* calls of do_transfer on the way to the owner thread, each from
                    \* a thread of its own: in any order
    mark,           \* self->incoming_high_water_mark
    transportMark,  \* incomingHighWaterMark of the datagrams
    setter,         \* where a set_property of the mark is, and its value
    wanted,         \* history: the mark that was set last
    raced,          \* history: it was being set while the element started
    freedUse        \* history: a callback used the freed element

stageVars  == <<stage, alive>>
padVars    == <<pads, readers, given, streams>>
acceptVars == <<nstreams, promise, loop>>
serverVars == <<sent, taken, ended, lost>>
markVars   == <<mark, transportMark, setter, wanted, raced>>
transportVars ==
    <<stageVars, connection, todo, padVars, acceptVars, serverVars, requests, markVars,
      freedUse>>

Kinds == {"unidi", "bidi"}

\* "absent": the browser has no WebTransport. "failed": an exception in the
\* callback of a synchronous message, whose sender then waits for ever.
Connection == {"none", "created", "connecting", "creating", "open", "absent", "failed"}

\* A pad has the name of its stream: its kind and number. A stream is known by
\* the kind and the number it has for the server.
Datagram == <<"datagram", 0>>
PadNames == {Datagram} \cup ({"unidi", "bidi"} \X (0..MaxStreams))
                       \cup ({"rbidi"} \X (0..MaxRequested))
Undefined == <<"undefined", 0>>

\* The name transfer() looks up: "ReadableStream/" has 15 characters, and
\* &object_name[16] leaves out the first one of the name as well.
LookupName(name) ==
    <<CASE name[1] = "datagram" -> "atagram"
        [] name[1] = "unidi" -> "nidi"
        [] name[1] = "bidi" -> "idi"
        [] name[1] = "rbidi" -> "bidi", name[2]>>

\* std::unordered_map::insert keeps the value a key has.
Insert(map, name, value) ==
    [key \in DOMAIN map \cup {name} |-> IF key \in DOMAIN map THEN map[key] ELSE value]

TransportInit ==
    /\ stage = "ready" /\ alive = TRUE
    /\ connection = "none" /\ todo = {}
    /\ pads = {Datagram} /\ readers = [p \in {Datagram} |-> "none"]
    /\ given = [p \in {Datagram} |-> Undefined]
    /\ streams = <<>>
    /\ nstreams = [k \in Kinds |-> 0]
    /\ promise = [k \in Kinds |-> "none"] /\ loop = "none"
    /\ sent = [k \in Kinds |-> 0] /\ taken = [k \in Kinds |-> 0]
    /\ ended = {} /\ lost = FALSE
    /\ requests = {}
    /\ mark = 0 /\ transportMark = 0 /\ setter = [at |-> "idle", value |-> 0]
    /\ wanted = 0 /\ raced = FALSE
    /\ freedUse = FALSE

--------------------------------------------------------------------------------
(* Application: state changes, pads, links *)

\* start, up to gst_web_runner_run
Start ==
    /\ stage = "ready"
    /\ stage' = "starting"
    /\ connection' = "created"
    /\ raced' = (raced \/ setter.at # "idle")
    /\ UNCHANGED <<alive, todo, padVars, acceptVars, serverVars, requests, mark,
                   transportMark, setter, wanted, freedUse>>

\* The synchronous message with create_connection comes back, and the readers
\* of the linked pads follow the state of the bin.
StartReturn ==
    /\ stage = "starting" /\ connection \in {"open", "absent"}
    /\ stage' = "paused"
    /\ UNCHANGED <<alive, connection, todo, padVars, acceptVars, serverVars, requests,
                   markVars, freedUse>>

\* A ghost pad without a target, with stream_linked_cb on its link
AddPad(name) ==
    /\ pads' = pads \cup {name}
    /\ readers' = Insert(readers, name, "none")
    /\ given' = Insert(given, name, Undefined)

\* request_new_pad; its stream is created by the next connection only.
RequestPad ==
    /\ stage \in {"ready", "paused"}
    /\ LET n == Cardinality({p \in pads : p[1] = "rbidi"})
       IN  n < MaxRequested /\ AddPad(<<"rbidi", n>>)
    /\ UNCHANGED <<stageVars, connection, todo, streams, acceptVars, serverVars, requests,
                   markVars, freedUse>>

\* PAUSED to READY, once the readers are deactivated
Stop ==
    /\ stage = "paused"
    /\ stage' = "stopping"
    /\ UNCHANGED <<alive, connection, todo, padVars, acceptVars, serverVars, requests,
                   markVars, freedUse>>

\* READY to PAUSED again: the objects of the connection are overwritten in the
\* worker of a new runner.
Restart ==
    /\ stage = "stopped"
    /\ stage' = "restarted"
    /\ UNCHANGED <<alive, connection, todo, padVars, acceptVars, serverVars, requests,
                   markVars, freedUse>>

\* finalize leaves the runner, and with it the connection and its callbacks.
Finalize ==
    /\ stage \in {"ready", "stopped"} /\ setter.at = "idle"
    /\ stage' = "gone" /\ alive' = FALSE
    /\ UNCHANGED <<connection, todo, padVars, acceptVars, serverVars, requests, markVars,
                   freedUse>>

--------------------------------------------------------------------------------
(* Any thread: the property datagrams-incoming-high-water-mark *)

\* The runner is looked at without a lock.
SetMark(value) ==
    /\ stage \in {"ready", "starting", "paused"} /\ setter.at = "idle"
    /\ value > wanted /\ sent = [k \in Kinds |-> 0]
    /\ setter' = [at |-> IF connection = "none" THEN "store" ELSE "send", value |-> value]
    /\ wanted' = value
    /\ raced' = (raced \/ stage = "starting")
    /\ UNCHANGED <<stageVars, connection, todo, padVars, acceptVars, serverVars, requests,
                   mark, transportMark, freedUse>>

StoreMark ==
    /\ setter.at = "store"
    /\ mark' = setter.value
    /\ setter' = [setter EXCEPT !.at = "idle"]
    /\ UNCHANGED <<stageVars, connection, todo, padVars, acceptVars, serverVars, requests,
                   transportMark, wanted, raced, freedUse>>

\* What get_property returns, by a message of its own once there is a runner
GetMark == IF connection = "none" THEN mark ELSE transportMark

\* The message may come before the connection: there are no datagrams to set it
\* on, and the exception ends the message before its sender is woken.
SendMark ==
    /\ setter.at = "send"
    /\ \/ /\ connection \in {"created", "absent"}
          /\ setter' = [setter EXCEPT !.at = "stuck"]
          /\ UNCHANGED transportMark
       \/ /\ connection = "open"
          /\ transportMark' = setter.value
          /\ setter' = [setter EXCEPT !.at = "idle"]
    /\ UNCHANGED <<stageVars, connection, todo, padVars, acceptVars, serverVars, requests,
                   mark, wanted, raced, freedUse>>

--------------------------------------------------------------------------------
(* Runner thread: create_connection *)

\* The browser has no WebTransport: create_connection returns.
NoTransport ==
    /\ connection = "created"
    /\ connection' = "absent"
    /\ UNCHANGED <<stageVars, todo, padVars, acceptVars, serverVars, requests, markVars,
                   freedUse>>

NewTransport ==
    /\ connection = "created"
    /\ connection' = "connecting"
    /\ UNCHANGED <<stageVars, todo, padVars, acceptVars, serverVars, requests, markVars,
                   freedUse>>

\* Mutant: the mark that was set before is not propagated.
ReadyWithoutMark ==
    /\ connection = "connecting" /\ ~lost
    /\ connection' = "creating"
    /\ todo' = pads
    /\ UNCHANGED <<stageVars, padVars, acceptVars, serverVars, requests, markVars,
                   freedUse>>

\* await ready; then the mark, and the pads there are
Ready ==
    /\ connection = "connecting" /\ ~lost
    /\ connection' = "creating"
    /\ transportMark' = mark
    /\ todo' = pads
    /\ UNCHANGED <<stageVars, padVars, acceptVars, serverVars, requests, mark, setter,
                   wanted, raced, freedUse>>

\* create_stream: await createBidirectionalStream, but for the datagrams
CreateStream(name) ==
    /\ connection = "creating" /\ name \in todo
    /\ name = Datagram \/ ~lost
    /\ streams' = Insert(streams, name, name)
    /\ todo' = todo \ {name}
    /\ UNCHANGED <<stageVars, connection, pads, readers, given, acceptVars, serverVars,
                   requests, markVars, freedUse>>

\* An await that is rejected throws, out of the message.
Rejected ==
    /\ connection \in {"connecting", "creating"} /\ lost
    /\ connection = "creating" => todo \notin {{}, {Datagram}}
    /\ connection' = "failed"
    /\ UNCHANGED <<stageVars, todo, padVars, acceptVars, serverVars, requests, markVars,
                   freedUse>>

\* The readers of incoming streams, register_on_message and check_streams
AcceptStreams ==
    /\ connection = "creating" /\ todo = {}
    /\ connection' = "open"
    /\ promise' = [k \in Kinds |-> "reading"]
    /\ loop' = "armed"
    /\ UNCHANGED <<stageVars, todo, padVars, nstreams, serverVars, requests, markVars,
                   freedUse>>

\* destroy_connection, by the synchronous message of stop: unregister_on_message.
\* Without a connection there is no worker to unregister, which throws.
DestroyConnection ==
    /\ stage = "stopping"
    /\ \/ connection = "open" /\ stage' = "stopped" /\ UNCHANGED connection
       \/ connection = "absent" /\ connection' = "failed" /\ UNCHANGED stage
    /\ UNCHANGED <<alive, todo, padVars, acceptVars, serverVars, requests, markVars,
                   freedUse>>

--------------------------------------------------------------------------------
(* Runner thread: the callbacks of check_streams, and transfers *)

\* A read is settled with a stream, or with the end of the streams of its kind.
Received(k) == promise[k] = "reading" /\ taken[k] < sent[k]
Done(k)     == promise[k] = "reading" /\ taken[k] = sent[k] /\ k \in ended /\ ~lost
Failed(k)   == promise[k] = "rejected" \/ (taken[k] = sent[k] /\ lost)

\* The callback runs between two messages of the runner.
Yields == loop = "armed" /\ stage # "restarted"

\* Mutant: the number of the stream is not counted.
AddStreamUncounted(k) ==
    /\ Yields /\ Received(k)
    /\ taken' = [taken EXCEPT ![k] = @ + 1]
    /\ LET name == <<k, nstreams[k]>>
       IN  streams' = Insert(streams, name, <<k, taken[k]>>) /\ AddPad(name)
    /\ freedUse' = (freedUse \/ ~alive)
    /\ UNCHANGED <<stageVars, connection, todo, acceptVars, sent, ended, lost, requests,
                   markVars>>

\* add_stream: read again, a name, a pad, and check_streams
AddStream(k) ==
    /\ Yields /\ Received(k)
    /\ taken' = [taken EXCEPT ![k] = @ + 1]
    /\ nstreams' = [nstreams EXCEPT ![k] = @ + 1]
    /\ LET name == <<k, nstreams[k]>>
       IN  streams' = Insert(streams, name, <<k, taken[k]>>) /\ AddPad(name)
    /\ freedUse' = (freedUse \/ ~alive)
    /\ UNCHANGED <<stageVars, connection, todo, promise, loop, sent, ended, lost, requests,
                   markVars>>

\* Mutant: end_stream does not check again.
EndStreamLast(k) ==
    /\ Yields /\ Done(k)
    /\ promise' = [promise EXCEPT ![k] = "rejected"]
    /\ loop' = "over"
    /\ freedUse' = (freedUse \/ ~alive)
    /\ UNCHANGED <<stageVars, connection, todo, padVars, nstreams, serverVars, requests,
                   markVars>>

\* end_stream: Promise.any goes on with the other kind.
EndStream(k) ==
    /\ Yields /\ Done(k)
    /\ promise' = [promise EXCEPT ![k] = "rejected"]
    /\ freedUse' = (freedUse \/ ~alive)
    /\ UNCHANGED <<stageVars, connection, todo, padVars, nstreams, loop, serverVars,
                   requests, markVars>>

\* All promises are rejected: an error on the console, and nothing else.
AllRejected ==
    /\ Yields /\ \A k \in Kinds : Failed(k)
    /\ loop' = "over"
    /\ UNCHANGED <<stageVars, connection, todo, padVars, nstreams, promise, serverVars,
                   requests, markVars, freedUse>>

\* handle_message gives the reader a GstWebTask, and dispatches the request that
\* comes from its thread; without a connection there is no owner to dispatch to.
HandleMessage(name) ==
    requests' = IF connection = "open" THEN requests \cup {name} ELSE requests

\* stream_linked_cb, in the thread of the application or in that of the runner
\* (a handler of pad-added): a reader, which asks for the stream of the pad. A
\* pad that was linked before is served in the same way once the bin is paused.
Link(name) ==
    /\ stage = "paused" /\ name \in pads /\ readers[name] = "none"
    /\ Cardinality({p \in pads : readers[p] = "waiting"}) < MaxLinks
    /\ readers' = [readers EXCEPT ![name] = "waiting"]
    /\ HandleMessage(name)
    /\ UNCHANGED <<stageVars, connection, todo, pads, given, streams, acceptVars,
                   serverVars, markVars, freedUse>>

\* do_transfer on the owner thread. What is found is posted to the reader, once:
\* an object that is undefined, or was posted before, throws. operator[] leaves
\* an undefined value under the name it did not find.
Transfer(name) ==
    /\ name \in requests /\ stage # "restarted"
    /\ requests' = requests \ {name}
    /\ LET key  == LookupName(name)
           found == IF key \in DOMAIN streams THEN streams[key] ELSE Undefined
       IN  /\ streams' = Insert(streams, key, Undefined)
           /\ given' = IF \A p \in pads : given[p] # found
                       THEN [given EXCEPT ![name] = found] ELSE given
    /\ freedUse' = (freedUse \/ ~alive)
    /\ UNCHANGED <<stageVars, connection, todo, pads, readers, acceptVars, serverVars,
                   markVars>>

--------------------------------------------------------------------------------
(* The server and the network *)

\* Bound: nothing new once the element started again or is freed.
Connected == connection = "open" /\ ~lost /\ stage \notin {"restarted", "gone"}

ServerOpens(k) ==
    /\ Connected /\ k \notin ended
    /\ sent["unidi"] + sent["bidi"] < MaxStreams
    /\ sent' = [sent EXCEPT ![k] = @ + 1]
    /\ UNCHANGED <<stageVars, connection, todo, padVars, acceptVars, taken, ended, lost,
                   requests, markVars, freedUse>>

ServerEnds(k) ==
    /\ Connected /\ k \notin ended
    /\ ended' = ended \cup {k}
    /\ UNCHANGED <<stageVars, connection, todo, padVars, acceptVars, sent, taken, lost,
                   requests, markVars, freedUse>>

\* The pending reads are rejected, and what no read has got yet is dropped.
ConnectionLost ==
    /\ ~lost
    /\ Connected \/ connection \in {"connecting", "creating"}
    /\ lost' = TRUE
    /\ sent' = [k \in Kinds |-> IF sent[k] > taken[k] THEN taken[k] + 1 ELSE sent[k]]
    /\ UNCHANGED <<stageVars, connection, todo, padVars, acceptVars, taken, ended, requests,
                   markVars, freedUse>>

--------------------------------------------------------------------------------
RunnerStep ==
    \/ NoTransport
    \/ NewTransport
    \/ Ready
    \/ \E name \in PadNames : CreateStream(name) \/ Transfer(name)
    \/ Rejected
    \/ AcceptStreams
    \/ DestroyConnection
    \/ AllRejected

Accept(k) == AddStream(k) \/ EndStream(k)

TransportNext ==
    \/ Start
    \/ StartReturn
    \/ RequestPad
    \/ \E name \in PadNames : Link(name)
    \/ Stop
    \/ Restart
    \/ Finalize
    \/ \E value \in Marks : SetMark(value)
    \/ StoreMark
    \/ SendMark
    \/ RunnerStep
    \/ \E k \in Kinds : Accept(k) \/ ServerOpens(k) \/ ServerEnds(k)
    \/ ConnectionLost

TransportSpec == TransportInit /\ [][TransportNext]_transportVars

\* The runner serves its messages and the callbacks of its worker; a promise that
\* is settled calls back, in the end, whatever the other one does.
TransportFairness ==
    /\ WF_transportVars(RunnerStep)
    /\ \A k \in Kinds : WF_transportVars(Accept(k))

TransportFairSpec == TransportSpec /\ TransportFairness

--------------------------------------------------------------------------------
(* Correctness *)

\* Type invariant.
TransportTypeOK ==
    /\ stage \in {"ready", "starting", "paused", "stopping", "stopped", "restarted", "gone"}
    /\ alive \in BOOLEAN /\ lost \in BOOLEAN /\ raced \in BOOLEAN /\ freedUse \in BOOLEAN
    /\ connection \in Connection
    /\ pads \subseteq PadNames /\ todo \subseteq pads
    /\ DOMAIN readers = pads
    /\ \A p \in pads : readers[p] \in {"none", "waiting"}
    /\ DOMAIN given = pads /\ \A p \in pads : given[p] \in PadNames \cup {Undefined}
    /\ \A key \in DOMAIN streams : streams[key] \in PadNames \cup {Undefined}
    /\ nstreams \in [Kinds -> 0..MaxStreams] /\ sent \in [Kinds -> 0..MaxStreams]
    /\ taken \in [Kinds -> 0..MaxStreams]
    /\ promise \in [Kinds -> {"none", "reading", "rejected"}]
    /\ loop \in {"none", "armed", "over"} /\ ended \subseteq Kinds
    /\ requests \subseteq pads
    /\ {mark, transportMark, wanted} \subseteq Marks \cup {0}
    /\ setter \in [at : {"idle", "store", "send", "stuck"}, value : Marks \cup {0}]

\* Every stream the server opened, in the order it did, has a pad of its own and
\* is found under its name, though reads of both kinds are taken up as they come
\* and either kind may end: no pad is shared, left out or given another stream.
\* But for bidi_N once rbidi_N was requested, whose lookup takes that name.
\* (And the types.)
AcceptedInOrder ==
    /\ TransportTypeOK
    /\ \A k \in Kinds :
        /\ nstreams[k] = taken[k]
        /\ \A i \in 0 .. nstreams[k] - 1 :
            /\ <<k, i>> \in pads
            /\ \/ streams[<<k, i>>] = <<k, i>>
               \/ k = "bidi" /\ <<"rbidi", i>> \in pads /\ streams[<<k, i>>] = Undefined

\* A stream that was received gets its pad, whatever the other kind of stream
\* does: it may be silent or at its end. Not after a loss, or a second start.
StreamsAccepted ==
    \A k \in Kinds : \A n \in 1..MaxStreams :
        sent[k] >= n ~> taken[k] >= n \/ lost \/ stage = "restarted"

\* The mark that was set last is the one get_property returns, and that of the
\* connection once there is one; unless it was set while the element started.
MarkApplied ==
    connection \in {"none", "open"} /\ setter.at = "idle" /\ ~raced => GetMark = wanted

--------------------------------------------------------------------------------
(* What the code does not keep *)

\* A reader that gets a stream gets the one of its pad.
RightStream ==
    \A p \in pads : given[p] \in {Undefined, p}

\* A reader that has asked for its stream gets it, if the connection lasts.
StreamDelivered ==
    \A p \in PadNames :
        p \in pads /\ readers[p] = "waiting" /\ connection = "open"
            ~> given[p] = p \/ lost \/ stage # "paused"

\* A mark set while the element starts is not lost.
MarkNotLost ==
    connection = "open" /\ setter.at = "idle" => GetMark = wanted

\* No callback of the connection uses the freed element.
NoUseAfterFree == ~freedUse

\* No object of the runner's worker is touched in another one.
ObjectsAtHome == stage # "restarted"

================================================================================
