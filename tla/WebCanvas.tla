-------------------------------- MODULE WebCanvas -------------------------------
(***************************************************************************)
(* The elements of a pipeline share a GstWebCanvas (gst-libs/gst/web/      *)
(* gstwebcanvas.c), and with it the runner that all their JavaScript       *)
(* objects belong to. gst_web_utils_element_ensure_canvas                  *)
(* (gst-libs/gst/web/gstwebutils.cpp) finds it: an element asks its bin,   *)
(* or makes a canvas of its own and tells the bin. The bin keeps the last  *)
(* one it was told of, answers with it, and hands it to elements that are  *)
(* added later.                                                            *)
(*                                                                         *)
(* An element runs ensure_canvas in the thread that changes its state:     *)
(* the application's, or a streaming thread that has just added it. The    *)
(* neighbours are asked by queries on pads, which the base classes do not  *)
(* hand to GstElement::query, where these elements would answer: nobody    *)
(* does. The HTML canvas goes to the worker of the first runner made for   *)
(* it, and only there can a sink draw.                                     *)
(***************************************************************************)
EXTENDS Integers, FiniteSets

CONSTANTS Sinks,    \* webcanvassink elements
          Codecs,   \* webcodecsviddec and webupload elements
          Bins,     \* pipelines
          None,     \* no bin
          MaxAdds   \* bound: elements added to a bin

ASSUME CanvasAssumption ==
    /\ None \notin Bins
    /\ Sinks \cap Codecs = {}
    /\ IsFiniteSet(Sinks) /\ IsFiniteSet(Codecs) /\ IsFiniteSet(Bins)
    /\ MaxAdds \in Nat

Elements == Sinks \cup Codecs

VARIABLES
    parent,     \* the bin each element is in
    state,      \* where it is in its state changes
    canvas,     \* self->canvas, 0 for NULL
    context,    \* the canvas in the context each bin keeps
    refs,       \* the references of each canvas
    named,      \* the canvases that were made for the HTML canvas
    html,       \* the canvas whose worker has it, 0 for none
    adds,       \* elements added so far
    apart       \* history: bins with elements that could not tell of each other

vars == <<parent, state, canvas, context, refs, named, html, adds, apart>>

\* An element makes a canvas at most once in its life.
Canvases == 1..Cardinality(Elements)
Made == {c \in Canvases : refs[c] > 0}

Starting == {"need", "create", "propagate", "run", "setup"}
In(b) == {e \in Elements : parent[e] = b}

Init ==
    /\ parent = [e \in Elements |-> None]
    /\ state = [e \in Elements |-> "null"]
    /\ canvas = [e \in Elements |-> 0]
    /\ context = [b \in Bins |-> 0]
    /\ refs = [c \in Canvases |-> 0]
    /\ named = {} /\ html = 0
    /\ adds = 0 /\ apart = {}

Go(e, from, to) == state[e] = from /\ state' = [state EXCEPT ![e] = to]

\* Mutant: the canvas of a context is taken without a reference.
SetContextNoRef(e, c) ==
    /\ canvas' = [canvas EXCEPT ![e] = c]
    /\ UNCHANGED refs

\* set_context of the elements: gst_structure_get gives a reference of its own,
\* and the canvas there was is overwritten with its reference.
SetContext(e, c) ==
    /\ canvas' = [canvas EXCEPT ![e] = c]
    /\ refs' = [refs EXCEPT ![c] = @ + 1]

--------------------------------------------------------------------------------
(* The bin *)

\* gst_bin_add sets the contexts of the bin. An element that brings a canvas to
\* a bin without one keeps it to itself.
Add(e, b) ==
    /\ parent[e] = None /\ state[e] = "null" /\ adds < MaxAdds
    /\ adds' = adds + 1
    /\ parent' = [parent EXCEPT ![e] = b]
    /\ IF context[b] # 0
       THEN SetContext(e, context[b]) /\ UNCHANGED apart
       ELSE /\ apart' = IF canvas[e] # 0 THEN apart \cup {b} ELSE apart
            /\ UNCHANGED <<canvas, refs>>
    /\ UNCHANGED <<state, context, named, html>>

Remove(e) ==
    /\ parent[e] # None /\ state[e] = "null"
    /\ parent' = [parent EXCEPT ![e] = None]
    /\ UNCHANGED <<state, canvas, context, refs, named, html, adds, apart>>

\* The pipeline is freed, and its context with it.
FreeBin(b) ==
    /\ context[b] # 0 /\ In(b) = {}
    /\ refs' = [refs EXCEPT ![context[b]] = @ - 1]
    /\ context' = [context EXCEPT ![b] = 0]
    /\ UNCHANGED <<parent, state, canvas, named, html, adds, apart>>

--------------------------------------------------------------------------------
(* ensure_canvas, in the thread that starts element e *)

\* canvas_found: an element that has a canvas asks nobody, and tells nobody.
Ensure(e) ==
    /\ state[e] = "null" /\ parent[e] # None
    /\ state' = [state EXCEPT ![e] = IF canvas[e] # 0 THEN "run" ELSE "need"]
    /\ UNCHANGED <<parent, canvas, context, refs, named, html, adds, apart>>

\* The elements whose base class hands them the CONTEXT queries of their pads:
\* neither GstBaseSink, GstVideoDecoder nor GstBaseTransform does.
PadQueryAnswerers == {}

\* handle_context_query: an element that is asked answers if it has a canvas.
Answers(e) == {canvas[d] : d \in {d \in In(parent[e]) \cap PadQueryAnswerers : canvas[d] # 0}}

\* query_canvas: a neighbour, or else the bin, which answers NEED_CONTEXT with
\* the context it has by now.
QueryCanvas(e) ==
    LET b == parent[e]
        found == Answers(e) \cup ({context[b]} \ {0})
    IN  /\ Go(e, "need", IF found # {} THEN "run" ELSE "create")
        /\ \/ \E c \in found : SetContext(e, c) /\ UNCHANGED apart
           \/ /\ found = {}
              /\ apart' = IF \E d \in In(b) : state[d] \in {"create", "propagate"}
                          THEN apart \cup {b} ELSE apart
              /\ UNCHANGED <<canvas, refs>>
        /\ UNCHANGED <<parent, context, named, html, adds>>

\* gst_web_canvas_new: a sink names the HTML canvas, the others do not.
New(e) ==
    /\ Go(e, "create", "propagate")
    /\ LET c == CHOOSE c \in Canvases : c \notin Made \cup named IN
        /\ canvas' = [canvas EXCEPT ![e] = c]
        /\ refs' = [refs EXCEPT ![c] = 1]
        /\ named' = IF e \in Sinks THEN named \cup {c} ELSE named
    /\ UNCHANGED <<parent, context, html, adds, apart>>

\* Mutant: the element sets its own context, and posts no HAVE_CONTEXT.
PropagateNothing(e) ==
    /\ Go(e, "propagate", "run")
    /\ SetContext(e, canvas[e])
    /\ UNCHANGED <<parent, context, named, html, adds, apart>>

\* propagate_canvas: a context with the canvas, set on the element itself, and
\* HAVE_CONTEXT: the bin keeps it in place of the one it had.
Propagate(e) ==
    LET b == parent[e]
        c == canvas[e]
    IN  /\ Go(e, "propagate", "run")
        /\ canvas' = [canvas EXCEPT ![e] = c]
        /\ context' = [context EXCEPT ![b] = c]
        /\ refs' = [d \in Canvases |->
                       CASE d = c /\ d # context[b] -> refs[d] + 2
                         [] d = c /\ d = context[b] -> refs[d] + 1
                         [] d # c /\ d = context[b] -> refs[d] - 1
                         [] OTHER -> refs[d]]
        /\ UNCHANGED <<parent, named, html, adds, apart>>

\* gst_web_canvas_get_runner and gst_web_runner_run: the worker of a canvas with
\* a name is given the HTML canvas, if nobody has it yet.
Run(e) ==
    /\ Go(e, "run", IF e \in Sinks THEN "setup" ELSE "started")
    /\ html' = IF html = 0 /\ canvas[e] \in named THEN canvas[e] ELSE html
    /\ UNCHANGED <<parent, canvas, context, refs, named, adds, apart>>

\* The sink's setup, on the runner thread: without the HTML canvas there is no
\* context to draw on, and the exception leaves the start of the sink waiting.
Setup(e) ==
    /\ Go(e, "setup", IF html = canvas[e] THEN "started" ELSE "stuck")
    /\ UNCHANGED <<parent, canvas, context, refs, named, html, adds, apart>>

\* Stop keeps the canvas for the next start.
Stop(e) ==
    /\ Go(e, "started", "null")
    /\ UNCHANGED <<parent, canvas, context, refs, named, html, adds, apart>>

\* finalize of the decoder, dispose of the upload: one reference is dropped. The
\* sink drops none.
Finalize(e) ==
    /\ parent[e] = None
    /\ Go(e, "null", "freed")
    /\ canvas' = [canvas EXCEPT ![e] = 0]
    /\ refs' = IF canvas[e] # 0 /\ e \in Codecs
               THEN [refs EXCEPT ![canvas[e]] = @ - 1] ELSE refs
    /\ UNCHANGED <<parent, context, named, html, adds, apart>>

--------------------------------------------------------------------------------
Next ==
    \/ \E e \in Elements :
        \/ \E b \in Bins : Add(e, b)
        \/ Remove(e)
        \/ Ensure(e)
        \/ QueryCanvas(e)
        \/ New(e)
        \/ Propagate(e)
        \/ Run(e)
        \/ Setup(e)
        \/ Stop(e)
        \/ Finalize(e)
    \/ \E b \in Bins : FreeBin(b)

Spec == Init /\ [][Next]_vars

--------------------------------------------------------------------------------
(* Correctness *)

\* Type invariant.
TypeOK ==
    /\ parent \in [Elements -> Bins \cup {None}]
    /\ state \in [Elements -> Starting \cup {"null", "started", "stuck", "freed"}]
    /\ canvas \in [Elements -> Canvases \cup {0}]
    /\ context \in [Bins -> Canvases \cup {0}]
    /\ refs \in [Canvases -> Nat]
    /\ named \subseteq Canvases /\ html \in named \cup {0}
    /\ adds \in 0..MaxAdds /\ apart \subseteq Bins

\* A canvas, and the runner it keeps, is never freed while an element or a bin
\* holds it, whoever made it and whoever is freed first. (And the types.)
RefsCover ==
    /\ TypeOK
    /\ \A c \in Canvases :
        refs[c] >= Cardinality({e \in Elements : canvas[e] = c})
                     + Cardinality({b \in Bins : context[b] = c})

\* The elements of a pipeline that have started share one canvas, whoever came
\* first, and whatever was stopped, removed or added in between; unless two of
\* them made one at the same time, or one of them brought its own.
OneCanvas ==
    \A d, e \in Elements :
        /\ parent[d] = parent[e] /\ parent[e] \notin apart \cup {None}
        /\ state[d] = "started" /\ state[e] = "started"
        => canvas[d] = canvas[e]

--------------------------------------------------------------------------------
(* What the code does not keep *)

\* All elements of a pipeline share the canvas, however they were started.
OneCanvasAlways ==
    \A d, e \in Elements :
        /\ parent[d] = parent[e] /\ parent[e] # None
        /\ state[d] = "started" /\ state[e] = "started"
        => canvas[d] = canvas[e]

\* When all elements and pipelines are gone, so are the canvases.
CanvasFreed ==
    (\A e \in Elements : state[e] = "freed") /\ (\A b \in Bins : context[b] = 0)
        => Made = {}

\* A sink always gets to draw.
SinkAlwaysDraws == \A e \in Sinks : state[e] # "stuck"

================================================================================
