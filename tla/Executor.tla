-------------------------------- MODULE Executor --------------------------------
(***************************************************************************)
(* What a GstWebRunner promises to the threads that use it, free of locks, *)
(* condition variables and the main loop: messages run one at a time, in   *)
(* the order they were posted, each once, and a synchronous call returns   *)
(* only after its own message has run.                                     *)
(*                                                                         *)
(* gst_web_runner_send_message: "@callback is guaranteed to have executed  *)
(* when this function returns" (gstwebrunner.c:281).                       *)
(***************************************************************************)
EXTENDS Naturals, Sequences

CONSTANTS Message,          \* the messages that may be posted
          Callers,          \* the threads that may block in a call
          Blocking(_, _)    \* Blocking(c, m): m is a synchronous message of c

VARIABLES posted,           \* the messages, in the order they were posted
          executed,         \* the messages whose callback has run, in order
          waiting           \* the threads inside a synchronous call

vars == <<posted, executed, waiting>>

Init ==
    /\ posted = <<>>
    /\ executed = <<>>
    /\ waiting = {}

\* A message is posted; its caller is held when the message is synchronous.
Post(m) ==
    /\ posted' = Append(posted, m)
    /\ waiting' = waiting \cup {c \in Callers : Blocking(c, m)}
    /\ UNCHANGED executed

\* The oldest message that has not run yet runs.
Execute ==
    /\ Len(executed) < Len(posted)
    /\ executed' = Append(executed, posted[Len(executed) + 1])
    /\ UNCHANGED <<posted, waiting>>

\* A synchronous call returns: every message the caller waited for has run.
Return(c) ==
    /\ c \in waiting
    /\ \A i \in 1..Len(posted) :
           Blocking(c, posted[i]) => i <= Len(executed)
    /\ waiting' = waiting \ {c}
    /\ UNCHANGED <<posted, executed>>

Next ==
    \/ \E m \in Message : Post(m)
    \/ Execute
    \/ \E c \in Callers : Return(c)

Spec == Init /\ [][Next]_vars

================================================================================
