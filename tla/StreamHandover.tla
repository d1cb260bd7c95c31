----------------------------- MODULE StreamHandover ----------------------------
(***************************************************************************)
(* What GstWebFetchSrc and its reader element promise of the               *)
(* ReadableStream that goes from one to the other, free of registrations,  *)
(* event queues and the main thread: the reader asks once; what it is      *)
(* given is what was owned when it asked; it comes to the thread that      *)
(* asked and to no other, at most once, and may get lost on its way.       *)
(*                                                                         *)
(* "Always called on the thread returned by can_transfer for this object"  *)
(* (gstwebtransferable.h:68): nobody but the owner hands an object over.   *)
(***************************************************************************)
CONSTANTS Thread,           \* the threads that may ask
          Object            \* the objects

VARIABLES owned,            \* the object that can be asked for, if there is one
          asked,            \* an object was asked for
          coming,           \* the object on its way, and the thread it goes to
          got               \* the object that came, and the thread it came to

vars == <<owned, asked, coming, got>>

Init ==
    /\ owned = {}
    /\ asked = FALSE
    /\ coming = {}
    /\ got = {}

\* A new object takes the place of the one before.
Own(o) ==
    /\ owned' = {o}
    /\ UNCHANGED <<asked, coming, got>>

Ask(t) ==
    /\ owned # {} /\ ~asked
    /\ asked' = TRUE
    /\ coming' = {[to |-> t, object |-> o] : o \in owned}
    /\ UNCHANGED <<owned, got>>

Deliver ==
    /\ coming # {} /\ got = {}
    /\ got' = coming
    /\ coming' = {}
    /\ UNCHANGED <<owned, asked>>

Lose ==
    /\ coming # {}
    /\ coming' = {}
    /\ UNCHANGED <<owned, asked, got>>

Next ==
    \/ \E o \in Object : Own(o)
    \/ \E t \in Thread : Ask(t)
    \/ Deliver
    \/ Lose

Spec == Init /\ [][Next]_vars

================================================================================
