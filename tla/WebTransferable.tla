----------------------------- MODULE WebTransferable ----------------------------
(***************************************************************************)
(* gst-libs/gst/web/gstwebtransferable.cpp: an object of JavaScript moves  *)
(* from the worker that owns it to the worker that requests it. A request  *)
(* is dispatched to the owner; the owner posts the object to the main      *)
(* thread of the browser, which relays it to the worker that asked. Each   *)
(* of the three hops is an event that its thread handles when it yields to *)
(* its event loop, and that is lost if no handler is registered by then.   *)
(*                                                                         *)
(* The operators are parts of the actions of the elements that use them.   *)
(***************************************************************************)
EXTENDS Naturals, Sequences

CONSTANT Worker             \* the threads, by their pthread

VARIABLES
    listening,      \* the workers with gst_web_transferable_js_worker_handle_message
    relayed,        \* those with ..._main_thread_handle_message on the main thread
    dispatched,     \* requests on the way to each owner
    toMain,         \* objects from each worker on the way to the main thread
    toWorker        \* objects on the way to each worker

transferVars == <<listening, relayed, dispatched, toMain, toWorker>>

TransferInit ==
    /\ listening = {} /\ relayed = {}
    /\ dispatched = [w \in Worker |-> <<>>]
    /\ toMain = [w \in Worker |-> <<>>]
    /\ toWorker = [w \in Worker |-> <<>>]

\* register_on_message, by worker w; MAIN_THREAD_EM_ASM waits for the main
\* thread. To add a listener twice is to add it once.
RegisterOnMessage(w) ==
    /\ listening' = listening \cup {w}
    /\ relayed' = relayed \cup {w}
    /\ UNCHANGED <<dispatched, toMain, toWorker>>

\* unregister_on_message, by worker w for a thread
UnregisterOnMessage(w, thread) ==
    /\ listening' = listening \ {w}
    /\ relayed' = relayed \ {thread}
    /\ UNCHANGED <<dispatched, toMain, toWorker>>

\* handle_request_object in an element whose object has another owner than the
\* thread that asks, which worker w runs.
HandleRequestObject(owner, w) ==
    /\ dispatched' = [dispatched EXCEPT ![owner] = Append(@, [tid |-> w])]
    /\ UNCHANGED <<listening, relayed, toMain, toWorker>>

\* do_transfer on the owner, and the transfer_object it comes to
TransferObject(owner, object) ==
    /\ dispatched[owner] # <<>>
    /\ dispatched' = [dispatched EXCEPT ![owner] = Tail(@)]
    /\ toMain' = [toMain EXCEPT
                    ![owner] = Append(@, [tid |-> Head(dispatched[owner]).tid,
                                          object |-> object])]
    /\ UNCHANGED <<listening, relayed, toWorker>>

\* The main thread handles a message of worker w.
RelayObject(w) ==
    /\ toMain[w] # <<>>
    /\ toMain' = [toMain EXCEPT ![w] = Tail(@)]
    /\ toWorker' = IF w \in relayed
                   THEN [toWorker EXCEPT ![Head(toMain[w]).tid] =
                            Append(@, Head(toMain[w]).object)]
                   ELSE toWorker
    /\ UNCHANGED <<listening, relayed, dispatched>>

\* Worker w takes the event of an object; its handler, if there is one, calls
\* back with it.
ObjectEvent(w) ==
    /\ toWorker[w] # <<>>
    /\ toWorker' = [toWorker EXCEPT ![w] = Tail(@)]
    /\ UNCHANGED <<listening, relayed, dispatched, toMain>>

================================================================================
