----------------------------- MODULE WebCanvasProofs ----------------------------
(***************************************************************************)
(* Theorems about WebCanvas, for every set of elements and pipelines.      *)
(***************************************************************************)
EXTENDS WebCanvas, FiniteSetTheorems, TLAPS

(***************************************************************************)
(* The inductive invariant.                                                *)
(***************************************************************************)

\* Where an element is in its start tells if it has a canvas, and that it is in a bin.
StateInv ==
    \A e \in Elements :
        /\ state[e] \in {"need", "create", "freed"} => canvas[e] = 0
        /\ state[e] \in {"propagate", "run", "setup", "started", "stuck"} => canvas[e] # 0
        /\ state[e] \notin {"null", "freed"} => parent[e] # None

\* The elements of S that f takes to c.
Fiber(S, f, c) == {e \in S : f[e] = c}

RefsInv ==
    \A c \in Canvases :
        refs[c] >= Cardinality(Fiber(Elements, canvas, c)) + Cardinality(Fiber(Bins, context, c))

\* There is a canvas for every element to come: the canvases that were made are no more
\* than the elements that have one or are gone.
Settled == {e \in Elements : canvas[e] # 0 \/ state[e] = "freed"}
SpareInv == Cardinality(Made \cup named) <= Cardinality(Settled)

\* In a bin whose elements could tell of each other, an element that makes a canvas is
\* alone in that, and no other has one; who has one has the canvas of the bin.
SharedInv ==
    \A b \in Bins \ apart : \A e \in In(b) :
        /\ canvas[e] # 0 => canvas[e] = context[b] \/ state[e] = "propagate"
        /\ state[e] \in {"create", "propagate"} =>
              /\ context[b] = 0
              /\ \A d \in In(b) \ {e} :
                    canvas[d] = 0 /\ state[d] \notin {"create", "propagate"}

IInv ==
    /\ TypeOK
    /\ StateInv
    /\ RefsInv
    /\ SpareInv
    /\ SharedInv

--------------------------------------------------------------------------------
(* Counting *)

LEMMA SetsFinite ==
    /\ IsFiniteSet(Elements) /\ Cardinality(Elements) \in Nat
    /\ IsFiniteSet(Bins)
    /\ IsFiniteSet(Canvases) /\ Cardinality(Canvases) = Cardinality(Elements)
    /\ 0 \notin Canvases
<1>1. IsFiniteSet(Elements)
    BY CanvasAssumption, FS_Union DEF Elements
<1>2. Cardinality(Elements) \in Nat
    BY <1>1, FS_CardinalityType
<1>3. /\ IsFiniteSet(1..Cardinality(Elements))
      /\ Cardinality(1..Cardinality(Elements))
             = IF 1 > Cardinality(Elements) THEN 0 ELSE Cardinality(Elements) - 1 + 1
    BY <1>2, FS_Interval
<1>4. Cardinality(Canvases) = Cardinality(Elements)
    BY <1>2, <1>3 DEF Canvases
<1>5. 0 \notin Canvases
    BY <1>2 DEF Canvases
<1>. QED
    BY <1>1, <1>2, <1>3, <1>4, <1>5, CanvasAssumption DEF Canvases

LEMMA FiberFinite ==
    ASSUME NEW S, IsFiniteSet(S), NEW f, NEW c
    PROVE  IsFiniteSet(Fiber(S, f, c)) /\ Cardinality(Fiber(S, f, c)) \in Nat
<1>1. Fiber(S, f, c) \subseteq S
    BY DEF Fiber
<1>. QED
    BY <1>1, FS_Subset, FS_CardinalityType

LEMMA FiberMember ==
    ASSUME NEW S, IsFiniteSet(S), NEW f, NEW e \in S
    PROVE  Cardinality(Fiber(S, f, f[e])) >= 1
<1>1. IsFiniteSet(Fiber(S, f, f[e])) /\ Cardinality(Fiber(S, f, f[e])) \in Nat
    BY FiberFinite
<1>2. Fiber(S, f, f[e]) # {}
    BY DEF Fiber
<1>3. Cardinality(Fiber(S, f, f[e])) # 0
    BY <1>1, <1>2, FS_EmptySet
<1>. QED
    BY <1>1, <1>3

\* One of those that are counted at c goes from one place to another.
Counted(before, after, from, to, c) ==
    /\ before \in Nat /\ after \in Nat
    /\ after <= before + 1
    /\ c # to => after <= before
    /\ c # to /\ from = c => after + 1 <= before
    /\ from = to => after = before

\* g is f with e taken to x.
LEMMA FiberChange ==
    ASSUME NEW S, IsFiniteSet(S), NEW T, NEW f \in [S -> T], NEW e \in S, NEW x \in T,
           NEW g, g = [f EXCEPT ![e] = x], NEW c
    PROVE  Counted(Cardinality(Fiber(S, f, c)), Cardinality(Fiber(S, g, c)), f[e], x, c)
<1>. DEFINE F == Fiber(S, f, c)
            G == Fiber(S, g, c)
<1>1. IsFiniteSet(F) /\ Cardinality(F) \in Nat /\ IsFiniteSet(G) /\ Cardinality(G) \in Nat
    BY FiberFinite
<1>2. g[e] = x /\ \A d \in S : d # e => g[d] = f[d]
    OBVIOUS
<1>3. G \subseteq F \cup {e} /\ (c # x => G \subseteq F \ {e}) /\ (f[e] = x => G = F)
    BY <1>2 DEF Fiber
<1>4. f[e] = c => e \in F
    BY DEF Fiber
<1>. HIDE DEF F, G
<1>5. /\ IsFiniteSet(F \cup {e})
      /\ \/ Cardinality(F \cup {e}) = Cardinality(F)
         \/ Cardinality(F \cup {e}) = Cardinality(F) + 1
    BY <1>1, FS_AddElement, Zenon
<1>6. Cardinality(G) <= Cardinality(F \cup {e})
    BY <1>3, <1>5, FS_Subset
<1>7. Cardinality(G) <= Cardinality(F) + 1
    BY <1>1, <1>5, <1>6
<1>8. ASSUME c # x PROVE Cardinality(G) <= Cardinality(F)
    BY <1>1, <1>3, <1>8, FS_Subset
<1>9. ASSUME c # x, f[e] = c PROVE Cardinality(G) + 1 <= Cardinality(F)
    <2>1. IsFiniteSet(F \ {e}) /\ Cardinality(F \ {e}) = Cardinality(F) - 1
        BY <1>1, <1>4, <1>9, FS_RemoveElement
    <2>2. Cardinality(G) <= Cardinality(F \ {e})
        BY <1>3, <1>9, <2>1, FS_Subset
    <2>. QED
        BY <1>1, <2>1, <2>2
<1>. QED
    BY <1>1, <1>3, <1>7, <1>8, <1>9 DEF F, G, Counted

\* What is held is there.
LEMMA Held ==
    ASSUME IInv
    PROVE  /\ \A e \in Elements : canvas[e] # 0 => canvas[e] \in Canvases /\ refs[canvas[e]] >= 1
           /\ \A b \in Bins : context[b] # 0 => context[b] \in Canvases /\ refs[context[b]] >= 1
<1>1. TypeOK /\ RefsInv
    BY DEF IInv
<1>2. \A c \in Canvases : /\ Cardinality(Fiber(Elements, canvas, c)) \in Nat
                          /\ Cardinality(Fiber(Bins, context, c)) \in Nat
                          /\ refs[c] \in Nat
    BY <1>1, FiberFinite, SetsFinite DEF TypeOK
<1>3. ASSUME NEW e \in Elements, canvas[e] # 0
      PROVE  canvas[e] \in Canvases /\ refs[canvas[e]] >= 1
    <2>1. canvas[e] \in Canvases
        BY <1>1, <1>3 DEF TypeOK
    <2>2. Cardinality(Fiber(Elements, canvas, canvas[e])) >= 1
        BY FiberMember, SetsFinite
    <2>. QED
        BY <1>1, <1>2, <2>1, <2>2 DEF RefsInv
<1>4. ASSUME NEW b \in Bins, context[b] # 0
      PROVE  context[b] \in Canvases /\ refs[context[b]] >= 1
    <2>1. context[b] \in Canvases
        BY <1>1, <1>4 DEF TypeOK
    <2>2. Cardinality(Fiber(Bins, context, context[b])) >= 1
        BY FiberMember, SetsFinite
    <2>. QED
        BY <1>1, <1>2, <2>1, <2>2 DEF RefsInv
<1>. QED
    BY <1>3, <1>4

LEMMA MadeFinite ==
    ASSUME IInv
    PROVE  /\ Made \cup named \subseteq Canvases
           /\ IsFiniteSet(Made \cup named) /\ Cardinality(Made \cup named) \in Nat
           /\ IsFiniteSet(Settled) /\ Cardinality(Settled) \in Nat
<1>1. Made \cup named \subseteq Canvases
    BY DEF IInv, TypeOK, Made
<1>2. Settled \subseteq Elements
    BY DEF Settled
<1>. QED
    BY <1>1, <1>2, SetsFinite, FS_Subset, FS_CardinalityType

\* gst_web_canvas_new makes one that is not there.
Fresh == CHOOSE c \in Canvases : c \notin Made \cup named

LEMMA FreshIs ==
    ASSUME IInv, NEW e \in Elements, state[e] = "create"
    PROVE  Fresh \in Canvases /\ Fresh \notin Made \cup named
<1>1. SUFFICES ASSUME Canvases \subseteq Made \cup named PROVE FALSE
    BY DEF Fresh
<1>2. Made \cup named = Canvases
    BY <1>1, MadeFinite
<1>3. e \notin Settled
    BY DEF Settled, IInv, StateInv
<1>4. Settled \subseteq Elements \ {e}
    BY <1>3 DEF Settled
<1>5. /\ IsFiniteSet(Elements \ {e})
      /\ Cardinality(Elements \ {e}) = Cardinality(Elements) - 1
    BY SetsFinite, FS_RemoveElement
<1>6. Cardinality(Settled) <= Cardinality(Elements) - 1
    BY <1>4, <1>5, FS_Subset
<1>7. Cardinality(Canvases) <= Cardinality(Settled)
    BY <1>2 DEF IInv, SpareInv
<1>. QED
    BY <1>6, <1>7, SetsFinite, MadeFinite

LEMMA NewIs ==
    ASSUME IInv, NEW e \in Elements, New(e)
    PROVE  /\ Fresh \in Canvases /\ Fresh \notin Made \cup named
           /\ refs[Fresh] = 0
           /\ state[e] = "create" /\ state' = [state EXCEPT ![e] = "propagate"]
           /\ canvas' = [canvas EXCEPT ![e] = Fresh]
           /\ refs' = [refs EXCEPT ![Fresh] = 1]
           /\ named' \in {named, named \cup {Fresh}}
           /\ UNCHANGED <<parent, context, html, adds, apart>>
<1>1. state[e] = "create" /\ state' = [state EXCEPT ![e] = "propagate"]
    BY DEF New, Go
<1>2. Fresh \in Canvases /\ Fresh \notin Made \cup named
    BY <1>1, FreshIs
<1>3. refs[Fresh] \in Nat
    BY <1>2 DEF IInv, TypeOK
<1>4. refs[Fresh] = 0
    BY <1>2, <1>3 DEF Made
<1>5. /\ canvas' = [canvas EXCEPT ![e] = Fresh]
      /\ refs' = [refs EXCEPT ![Fresh] = 1]
      /\ named' \in {named, named \cup {Fresh}}
      /\ UNCHANGED <<parent, context, html, adds, apart>>
    BY DEF New, Fresh
<1>. QED
    BY <1>1, <1>2, <1>4, <1>5

\* Nobody answers on a pad: what is found is the canvas of the bin.
LEMMA QueryIs ==
    ASSUME NEW e \in Elements, QueryCanvas(e)
    PROVE  /\ state[e] = "need" /\ UNCHANGED <<parent, context, named, html, adds>>
           /\ \/ /\ context[parent[e]] # 0
                 /\ state' = [state EXCEPT ![e] = "run"]
                 /\ SetContext(e, context[parent[e]]) /\ UNCHANGED apart
              \/ /\ context[parent[e]] = 0
                 /\ state' = [state EXCEPT ![e] = "create"]
                 /\ apart' = IF \E d \in In(parent[e]) : state[d] \in {"create", "propagate"}
                             THEN apart \cup {parent[e]} ELSE apart
                 /\ UNCHANGED <<canvas, refs>>
<1>1. Answers(e) = {}
    BY DEF Answers, PadQueryAnswerers
<1>. QED
    BY <1>1 DEF QueryCanvas, Go

--------------------------------------------------------------------------------
(* The first state *)

LEMMA InitInv == Init => IInv
<1>. SUFFICES ASSUME Init PROVE IInv
    OBVIOUS
<1>1. TypeOK
    BY CanvasAssumption, SetsFinite DEF Init, TypeOK
<1>2. StateInv
    BY DEF Init, StateInv
<1>3. RefsInv
    <2>1. SUFFICES ASSUME NEW c \in Canvases
          PROVE refs[c] >= Cardinality(Fiber(Elements, canvas, c))
                             + Cardinality(Fiber(Bins, context, c))
        BY DEF RefsInv
    <2>2. Fiber(Elements, canvas, c) = {} /\ Fiber(Bins, context, c) = {}
        BY SetsFinite DEF Init, Fiber
    <2>3. refs[c] = 0
        BY DEF Init
    <2>. QED
        BY <2>2, <2>3, FS_EmptySet
<1>4. SpareInv
    <2>1. Made \cup named = {}
        BY DEF Init, Made
    <2>2. Settled = {}
        BY DEF Init, Settled
    <2>. QED
        BY <2>1, <2>2, FS_EmptySet DEF SpareInv
<1>5. SharedInv
    BY DEF Init, SharedInv, In
<1>. QED
    BY <1>1, <1>2, <1>3, <1>4, <1>5 DEF IInv

--------------------------------------------------------------------------------
(* The types *)

LEMMA TypeNext == IInv /\ Next => TypeOK'
<1>. SUFFICES ASSUME IInv, Next PROVE TypeOK'
    OBVIOUS
<1>. USE CanvasAssumption, SetsFinite
<1>1. TypeOK
    BY DEF IInv
<1>2. CASE \E e \in Elements : \E b \in Bins : Add(e, b)
    <2>. PICK e \in Elements, b \in Bins : Add(e, b)
        BY <1>2
    <2>1. CASE context[b] # 0
        <3>1. context[b] \in Canvases
            BY <1>1, <2>1 DEF TypeOK
        <3>. QED
            BY <1>1, <2>1, <3>1 DEF TypeOK, Add, SetContext
    <2>2. CASE context[b] = 0
        BY <1>1, <2>2 DEF TypeOK, Add
    <2>. QED
        BY <2>1, <2>2
<1>3. CASE \E e \in Elements : Remove(e) \/ Ensure(e) \/ Setup(e) \/ Stop(e)
    BY <1>1, <1>3 DEF TypeOK, Remove, Ensure, Setup, Stop, Go, Starting
<1>4. CASE \E e \in Elements : QueryCanvas(e)
    <2>. PICK e \in Elements : QueryCanvas(e)
        BY <1>4
    <2>1. parent[e] \in Bins
        BY QueryIs, <1>1 DEF TypeOK, IInv, StateInv
    <2>2. CASE context[parent[e]] # 0
        <3>1. context[parent[e]] \in Canvases
            BY <1>1, <2>1, <2>2 DEF TypeOK
        <3>. QED
            BY <1>1, <2>2, <3>1, QueryIs DEF TypeOK, SetContext, Starting
    <2>3. CASE context[parent[e]] = 0
        BY <1>1, <2>1, <2>3, QueryIs DEF TypeOK, Starting
    <2>. QED
        BY <2>2, <2>3
<1>5. CASE \E e \in Elements : New(e)
    <2>. PICK e \in Elements : New(e)
        BY <1>5
    <2>. QED
        BY <1>1, NewIs DEF TypeOK, Starting
<1>6. CASE \E e \in Elements : Propagate(e)
    <2>. PICK e \in Elements : Propagate(e)
        BY <1>6
    <2>1. state[e] = "propagate" /\ canvas[e] \in Canvases /\ parent[e] \in Bins
        BY <1>1 DEF Propagate, Go, TypeOK, IInv, StateInv
    <2>2. \A d \in Canvases : d = context[parent[e]] => refs[d] >= 1
        BY <2>1, Held
    <2>3. refs' \in [Canvases -> Nat]
        BY <1>1, <2>1, <2>2 DEF Propagate, TypeOK
    <2>. QED
        BY <1>1, <2>1, <2>3 DEF Propagate, Go, TypeOK, Starting
<1>7. CASE \E e \in Elements : Run(e)
    BY <1>1, <1>7 DEF TypeOK, Run, Go, Starting
<1>8. CASE \E e \in Elements : Finalize(e)
    <2>. PICK e \in Elements : Finalize(e)
        BY <1>8
    <2>1. canvas[e] # 0 => canvas[e] \in Canvases /\ refs[canvas[e]] >= 1
        BY Held
    <2>. QED
        BY <1>1, <2>1 DEF TypeOK, Finalize, Go, Starting
<1>9. CASE \E b \in Bins : FreeBin(b)
    <2>. PICK b \in Bins : FreeBin(b)
        BY <1>9
    <2>1. context[b] \in Canvases /\ refs[context[b]] >= 1
        BY Held DEF FreeBin
    <2>. QED
        BY <1>1, <2>1 DEF TypeOK, FreeBin
<1>. QED
    BY <1>2, <1>3, <1>4, <1>5, <1>6, <1>7, <1>8, <1>9 DEF Next

--------------------------------------------------------------------------------
(* The state of an element *)

LEMMA StateNext == IInv /\ Next => StateInv'
<1>. SUFFICES ASSUME IInv, Next PROVE StateInv'
    OBVIOUS
<1>. USE CanvasAssumption, SetsFinite
<1>1. TypeOK /\ StateInv
    BY DEF IInv
<1>2. CASE \E e \in Elements : \E b \in Bins : Add(e, b)
    BY <1>1, <1>2 DEF TypeOK, StateInv, Add, SetContext
<1>3. CASE \E e \in Elements : Remove(e) \/ Ensure(e) \/ Setup(e) \/ Stop(e) \/ Run(e)
    BY <1>1, <1>3 DEF TypeOK, StateInv, Remove, Ensure, Setup, Stop, Run, Go
<1>4. CASE \E e \in Elements : QueryCanvas(e)
    BY <1>1, <1>4, QueryIs DEF TypeOK, StateInv, SetContext
<1>5. CASE \E e \in Elements : New(e)
    BY <1>1, <1>5, NewIs DEF TypeOK, StateInv
<1>6. CASE \E e \in Elements : Propagate(e)
    BY <1>1, <1>6 DEF TypeOK, StateInv, Propagate, Go
<1>7. CASE \E e \in Elements : Finalize(e)
    BY <1>1, <1>7 DEF TypeOK, StateInv, Finalize, Go
<1>8. CASE \E b \in Bins : FreeBin(b)
    BY <1>1, <1>8 DEF TypeOK, StateInv, FreeBin
<1>. QED
    BY <1>2, <1>3, <1>4, <1>5, <1>6, <1>7, <1>8 DEF Next

--------------------------------------------------------------------------------
(* The references *)

LEMMA OneLess ==
    ASSUME NEW r \in Nat, NEW m \in Nat, NEW n \in Nat, NEW n1 \in Nat,
           r >= m + n \/ r >= n + m, n1 + 1 <= n
    PROVE  r - 1 >= m + n1 /\ r - 1 >= n1 + m
OBVIOUS

\* A reference for one that holds more, or one less held for one reference less.
LEMMA RefsNext == IInv /\ Next => RefsInv'
<1>. SUFFICES ASSUME IInv, Next, NEW c \in Canvases
     PROVE (refs[c] >= Cardinality(Fiber(Elements, canvas, c))
                         + Cardinality(Fiber(Bins, context, c)))'
    BY DEF RefsInv, Canvases
<1>. DEFINE A == Cardinality(Fiber(Elements, canvas, c))
            B == Cardinality(Fiber(Bins, context, c))
<1>. SUFFICES refs'[c] >= A' + B'
    OBVIOUS
<1>. USE SetsFinite
<1>1. TypeOK /\ refs[c] >= A + B
    BY DEF IInv, RefsInv
<1>2. refs[c] \in Nat /\ A \in Nat /\ B \in Nat /\ c # 0
    BY <1>1, FiberFinite DEF TypeOK
<1>3. canvas \in [Elements -> Canvases \cup {0}] /\ context \in [Bins -> Canvases \cup {0}]
    BY <1>1 DEF TypeOK
<1>4. ASSUME NEW e \in Elements, NEW x \in Canvases, SetContext(e, x), UNCHANGED context
      PROVE  refs'[c] >= A' + B'
    <2>1. canvas' = [canvas EXCEPT ![e] = x]
        BY <1>4 DEF SetContext
    <2>2. Counted(A, A', canvas[e], x, c)
        BY <1>3, <2>1, FiberChange
    <2>3. B' = B
        BY <1>4
    <2>4. refs'[c] = IF c = x THEN refs[c] + 1 ELSE refs[c]
        BY <1>1, <1>4 DEF SetContext, TypeOK
    <2>. HIDE DEF A, B
    <2>. QED
        BY <1>1, <1>2, <2>2, <2>3, <2>4 DEF Counted
<1>5. ASSUME UNCHANGED <<canvas, context, refs>> PROVE refs'[c] >= A' + B'
    BY <1>1, <1>5
<1>6. CASE \E e \in Elements : \E b \in Bins : Add(e, b)
    <2>. PICK e \in Elements, b \in Bins : Add(e, b)
        BY <1>6
    <2>1. context[b] # 0 => context[b] \in Canvases
        BY <1>3
    <2>. QED
        BY <1>4, <1>5, <2>1 DEF Add
<1>7. CASE \E e \in Elements : Remove(e) \/ Ensure(e) \/ Setup(e) \/ Stop(e) \/ Run(e)
    BY <1>5, <1>7 DEF Remove, Ensure, Setup, Stop, Run
<1>8. CASE \E e \in Elements : QueryCanvas(e)
    <2>. PICK e \in Elements : QueryCanvas(e)
        BY <1>8
    <2>1. parent[e] \in Bins
        BY QueryIs, <1>1 DEF TypeOK, IInv, StateInv
    <2>2. context[parent[e]] # 0 => context[parent[e]] \in Canvases
        BY <1>3, <2>1
    <2>. QED
        BY <1>4, <1>5, <2>2, QueryIs
<1>9. CASE \E e \in Elements : New(e)
    <2>. PICK e \in Elements : New(e)
        BY <1>9
    <2>1. /\ Fresh \in Canvases /\ refs[Fresh] = 0
          /\ canvas' = [canvas EXCEPT ![e] = Fresh]
          /\ refs' = [refs EXCEPT ![Fresh] = 1]
          /\ context' = context
        BY NewIs
    <2>2. Counted(A, A', canvas[e], Fresh, c)
        BY <1>3, <2>1, FiberChange
    <2>3. B' = B
        BY <2>1
    <2>4. refs'[c] = IF c = Fresh THEN 1 ELSE refs[c]
        BY <1>1, <2>1 DEF TypeOK
    <2>5. c = Fresh => refs[c] = 0
        BY <2>1
    <2>. HIDE DEF A, B
    <2>. QED
        BY <1>1, <1>2, <2>2, <2>3, <2>4, <2>5 DEF Counted
<1>10. CASE \E e \in Elements : Propagate(e)
    <2>. PICK e \in Elements : Propagate(e)
        BY <1>10
    <2>1. canvas[e] \in Canvases /\ parent[e] \in Bins
        BY <1>1 DEF Propagate, Go, TypeOK, IInv, StateInv
    <2>2. canvas' = canvas /\ context' = [context EXCEPT ![parent[e]] = canvas[e]]
        BY <1>3 DEF Propagate
    <2>3. Counted(B, B', context[parent[e]], canvas[e], c)
        BY <1>3, <2>1, <2>2, FiberChange
    <2>4. A' = A
        BY <2>2
    <2>5. refs'[c] = CASE c = canvas[e] /\ c # context[parent[e]] -> refs[c] + 2
                       [] c = canvas[e] /\ c = context[parent[e]] -> refs[c] + 1
                       [] c # canvas[e] /\ c = context[parent[e]] -> refs[c] - 1
                       [] OTHER -> refs[c]
        BY DEF Propagate
    <2>. HIDE DEF A, B
    <2>. QED
        BY <1>1, <1>2, <2>3, <2>4, <2>5 DEF Counted
<1>11. CASE \E e \in Elements : Finalize(e)
    <2>. PICK e \in Elements : Finalize(e)
        BY <1>11
    <2>1. canvas' = [canvas EXCEPT ![e] = 0] /\ context' = context
        BY DEF Finalize
    <2>2. Counted(A, A', canvas[e], 0, c)
        BY <1>3, <2>1, FiberChange
    <2>3. B' = B
        BY <2>1
    <2>4. refs'[c] \in {refs[c], refs[c] - 1} /\ (c # canvas[e] => refs'[c] = refs[c])
        BY <1>1, <1>3 DEF Finalize, TypeOK
    <2>. HIDE DEF A, B
    <2>5. A' \in Nat /\ A' <= A /\ (c = canvas[e] => A' + 1 <= A)
        BY <1>2, <2>2 DEF Counted
    <2>6. CASE c = canvas[e]
        <3>1. refs'[c] = refs[c] \/ refs'[c] = refs[c] - 1
            BY <2>4
        <3>2. A' \in Nat /\ A' + 1 <= A
            BY <2>5, <2>6
        <3>3. refs[c] - 1 >= A' + B'
            BY <1>1, <1>2, <2>3, <3>2, OneLess
        <3>. QED
            BY <1>2, <2>3, <3>1, <3>2, <3>3
    <2>7. CASE c # canvas[e]
        BY <1>1, <1>2, <2>3, <2>4, <2>5, <2>7
    <2>. QED
        BY <2>6, <2>7
<1>12. CASE \E b \in Bins : FreeBin(b)
    <2>. PICK b \in Bins : FreeBin(b)
        BY <1>12
    <2>1. canvas' = canvas /\ context' = [context EXCEPT ![b] = 0]
        BY DEF FreeBin
    <2>2. Counted(B, B', context[b], 0, c)
        BY <1>3, <2>1, FiberChange
    <2>3. A' = A
        BY <2>1
    <2>4. refs'[c] = IF c = context[b] THEN refs[c] - 1 ELSE refs[c]
        BY <1>1 DEF FreeBin, TypeOK
    <2>. HIDE DEF A, B
    <2>5. B' \in Nat /\ B' <= B /\ (c = context[b] => B' + 1 <= B)
        BY <1>2, <2>2 DEF Counted
    <2>6. CASE c = context[b]
        <3>1. refs'[c] = refs[c] \/ refs'[c] = refs[c] - 1
            BY <2>4
        <3>2. B' \in Nat /\ B' + 1 <= B
            BY <2>5, <2>6
        <3>3. refs[c] - 1 >= A' + B'
            BY <1>1, <1>2, <2>3, <3>2, OneLess
        <3>. QED
            BY <1>2, <2>3, <3>1, <3>2, <3>3
    <2>7. CASE c # context[b]
        BY <1>1, <1>2, <2>3, <2>4, <2>5, <2>7
    <2>. QED
        BY <2>6, <2>7
<1>. QED
    BY <1>6, <1>7, <1>8, <1>9, <1>10, <1>11, <1>12 DEF Next

--------------------------------------------------------------------------------
(* A canvas for every element *)

LEMMA SpareStep ==
    ASSUME IInv, Made' \subseteq Made, named' = named, Settled \subseteq Settled'
    PROVE  SpareInv'
<1>1. IsFiniteSet(Settled') /\ Cardinality(Settled') \in Nat
    <2>1. Settled' \subseteq Elements
        BY DEF Settled, Elements
    <2>. QED
        BY <2>1, SetsFinite, FS_Subset, FS_CardinalityType
<1>2. Cardinality(Settled) <= Cardinality(Settled')
    BY <1>1, FS_Subset
<1>3. Made' \cup named' \subseteq Made \cup named
    OBVIOUS
<1>4. /\ Cardinality(Made' \cup named') \in Nat
      /\ Cardinality(Made' \cup named') <= Cardinality(Made \cup named)
    BY <1>3, MadeFinite, FS_Subset, FS_CardinalityType
<1>5. Cardinality(Made \cup named) <= Cardinality(Settled)
    BY DEF IInv, SpareInv
<1>6. Cardinality(Made' \cup named') <= Cardinality(Settled')
    BY <1>1, <1>2, <1>4, <1>5, MadeFinite
<1>. QED
    BY <1>6 DEF SpareInv

LEMMA SpareNext == IInv /\ Next => SpareInv'
<1>. SUFFICES ASSUME IInv, Next PROVE SpareInv'
    OBVIOUS
<1>. USE SetsFinite
<1>1. TypeOK
    BY DEF IInv
<1>2. ASSUME NEW e \in Elements, NEW x \in Canvases, SetContext(e, x), refs[x] >= 1,
             named' = named, \A d \in Elements : state[d] = "freed" => state'[d] = "freed"
      PROVE  SpareInv'
    <2>1. Made' \subseteq Made
        BY <1>1, <1>2 DEF Made, SetContext, TypeOK, Canvases
    <2>2. Settled \subseteq Settled'
        BY <1>1, <1>2 DEF Settled, SetContext, TypeOK, Elements
    <2>. QED
        BY <1>2, <2>1, <2>2, SpareStep
<1>3. CASE \E e \in Elements : \E b \in Bins : Add(e, b)
    <2>. PICK e \in Elements, b \in Bins : Add(e, b)
        BY <1>3
    <2>1. CASE context[b] # 0
        BY <1>2, <2>1, Held DEF Add
    <2>2. CASE context[b] = 0
        BY <2>2, SpareStep DEF Add, Made, Settled
    <2>. QED
        BY <2>1, <2>2
<1>4. CASE \E e \in Elements : Remove(e) \/ Ensure(e) \/ Setup(e) \/ Stop(e) \/ Run(e)
    <2>. PICK e \in Elements : Remove(e) \/ Ensure(e) \/ Setup(e) \/ Stop(e) \/ Run(e)
        BY <1>4
    <2>1. UNCHANGED <<canvas, refs, named>>
        BY DEF Remove, Ensure, Setup, Stop, Run
    <2>2. \A d \in Elements : state[d] = "freed" => state'[d] = "freed"
        BY <1>1 DEF Remove, Ensure, Setup, Stop, Run, Go, TypeOK
    <2>. QED
        BY <2>1, <2>2, SpareStep DEF Made, Settled
<1>5. CASE \E e \in Elements : QueryCanvas(e)
    <2>. PICK e \in Elements : QueryCanvas(e)
        BY <1>5
    <2>1. parent[e] \in Bins /\ named' = named
        BY QueryIs, <1>1 DEF TypeOK, IInv, StateInv
    <2>2. \A d \in Elements : state[d] = "freed" => state'[d] = "freed"
        BY <1>1, QueryIs DEF TypeOK
    <2>3. CASE context[parent[e]] # 0
        BY <1>2, <2>1, <2>2, <2>3, Held, QueryIs
    <2>4. CASE context[parent[e]] = 0
        BY <2>1, <2>2, <2>4, SpareStep, QueryIs DEF Made, Settled
    <2>. QED
        BY <2>3, <2>4
<1>6. CASE \E e \in Elements : New(e)
    <2>. PICK e \in Elements : New(e)
        BY <1>6
    <2>1. /\ Fresh \in Canvases /\ Fresh \notin Made \cup named /\ state[e] = "create"
          /\ state' = [state EXCEPT ![e] = "propagate"]
          /\ canvas' = [canvas EXCEPT ![e] = Fresh]
          /\ refs' = [refs EXCEPT ![Fresh] = 1]
          /\ named' \in {named, named \cup {Fresh}}
        BY NewIs
    <2>2. e \notin Settled
        BY <2>1 DEF IInv, StateInv, Settled
    <2>3. Settled' = Settled \cup {e}
        BY <1>1, <2>1 DEF Settled, TypeOK, Elements
    <2>4. Made' \cup named' = (Made \cup named) \cup {Fresh}
        BY <1>1, <2>1 DEF Made, TypeOK, Canvases
    <2>5. /\ Cardinality(Settled') = Cardinality(Settled) + 1
          /\ Cardinality(Made' \cup named') = Cardinality(Made \cup named) + 1
        BY <2>1, <2>2, <2>3, <2>4, MadeFinite, FS_AddElement
    <2>6. Cardinality(Made \cup named) <= Cardinality(Settled)
        BY DEF IInv, SpareInv
    <2>7. Cardinality(Made' \cup named') <= Cardinality(Settled')
        BY <2>5, <2>6, MadeFinite
    <2>. QED
        BY <2>7 DEF SpareInv
<1>7. CASE \E e \in Elements : Propagate(e)
    <2>. PICK e \in Elements : Propagate(e)
        BY <1>7
    <2>1. state[e] = "propagate" /\ canvas[e] \in Canvases /\ canvas[e] # 0
        BY <1>1 DEF Propagate, Go, TypeOK, IInv, StateInv
    <2>2. refs[canvas[e]] >= 1
        BY <2>1, Held
    <2>3. Made' \subseteq Made
        BY <1>1, <2>1, <2>2 DEF Propagate, Made, TypeOK, Canvases
    <2>4. Settled \subseteq Settled' /\ named' = named
        BY <1>1, <2>1 DEF Propagate, Go, Settled, TypeOK, Elements
    <2>. QED
        BY <2>3, <2>4, SpareStep
<1>8. CASE \E e \in Elements : Finalize(e)
    <2>. PICK e \in Elements : Finalize(e)
        BY <1>8
    <2>1. Made' \subseteq Made /\ named' = named
        BY <1>1 DEF Finalize, Made, TypeOK, Canvases
    <2>2. Settled \subseteq Settled'
        BY <1>1 DEF Finalize, Go, Settled, TypeOK, Elements
    <2>. QED
        BY <2>1, <2>2, SpareStep
<1>9. CASE \E b \in Bins : FreeBin(b)
    <2>. PICK b \in Bins : FreeBin(b)
        BY <1>9
    <2>1. Made' \subseteq Made /\ named' = named /\ Settled' = Settled
        BY <1>1 DEF FreeBin, Made, Settled, TypeOK, Canvases
    <2>. QED
        BY <2>1, SpareStep
<1>. QED
    BY <1>3, <1>4, <1>5, <1>6, <1>7, <1>8, <1>9 DEF Next

--------------------------------------------------------------------------------
(* One canvas in a bin *)

LEMMA SharedNext == IInv /\ Next => SharedInv'
<1>. SUFFICES ASSUME IInv, Next PROVE SharedInv'
    OBVIOUS
<1>. USE CanvasAssumption, SetsFinite
<1>1. TypeOK /\ StateInv /\ SharedInv
    BY DEF IInv
<1>2. CASE \E e \in Elements : \E b \in Bins : Add(e, b)
    <2>. PICK e \in Elements, b \in Bins : Add(e, b)
        BY <1>2
    <2>1. parent[e] = None /\ state[e] = "null" /\ parent' = [parent EXCEPT ![e] = b]
          /\ UNCHANGED <<state, context>>
        BY DEF Add
    <2>2. CASE context[b] # 0
        <3>1. canvas' = [canvas EXCEPT ![e] = context[b]] /\ apart' = apart
            BY <2>2 DEF Add, SetContext
        <3>. QED
            BY <1>1, <2>1, <2>2, <3>1 DEF SharedInv, In, TypeOK
    <2>3. CASE context[b] = 0
        <3>1. /\ canvas' = canvas /\ apart \subseteq apart'
              /\ canvas[e] # 0 => b \in apart'
            BY <2>3 DEF Add
        <3>. QED
            BY <1>1, <2>1, <2>3, <3>1 DEF SharedInv, In, TypeOK
    <2>. QED
        BY <2>2, <2>3
<1>3. CASE \E e \in Elements : Remove(e)
    BY <1>1, <1>3 DEF SharedInv, In, TypeOK, Remove
<1>4. CASE \E e \in Elements : Ensure(e) \/ Setup(e) \/ Stop(e) \/ Run(e)
    <2>. PICK e \in Elements : Ensure(e) \/ Setup(e) \/ Stop(e) \/ Run(e)
        BY <1>4
    <2>1. UNCHANGED <<parent, canvas, context, apart>>
        BY DEF Ensure, Setup, Stop, Run
    <2>2. /\ state[e] # "propagate"
          /\ \A d \in Elements : state'[d] \in {"create", "propagate"} => state'[d] = state[d]
          /\ \A d \in Elements : d # e => state'[d] = state[d]
        BY <1>1 DEF Ensure, Setup, Stop, Run, Go, TypeOK
    <2>. QED
        BY <1>1, <2>1, <2>2 DEF SharedInv, In, TypeOK
<1>5. CASE \E e \in Elements : QueryCanvas(e)
    <2>. PICK e \in Elements : QueryCanvas(e)
        BY <1>5
    <2>1. parent[e] \in Bins /\ state[e] = "need" /\ UNCHANGED <<parent, context>>
        BY QueryIs, <1>1 DEF TypeOK, StateInv
    <2>2. CASE context[parent[e]] # 0
        <3>1. /\ canvas' = [canvas EXCEPT ![e] = context[parent[e]]] /\ apart' = apart
              /\ state' = [state EXCEPT ![e] = "run"]
            BY <2>2, QueryIs DEF SetContext
        <3>. QED
            BY <1>1, <2>1, <2>2, <3>1 DEF SharedInv, In, TypeOK
    <2>3. CASE context[parent[e]] = 0
        <3>1. /\ canvas' = canvas /\ apart \subseteq apart'
              /\ state' = [state EXCEPT ![e] = "create"]
              /\ (\E d \in In(parent[e]) : state[d] \in {"create", "propagate"})
                    => parent[e] \in apart'
            BY <2>3, QueryIs
        <3>. QED
            BY <1>1, <2>1, <2>3, <3>1 DEF SharedInv, In, TypeOK
    <2>. QED
        BY <2>2, <2>3
<1>6. CASE \E e \in Elements : New(e)
    <2>. PICK e \in Elements : New(e)
        BY <1>6
    <2>1. /\ state[e] = "create" /\ state' = [state EXCEPT ![e] = "propagate"]
          /\ canvas' = [canvas EXCEPT ![e] = Fresh]
          /\ UNCHANGED <<parent, context, apart>>
        BY NewIs
    <2>. QED
        BY <1>1, <2>1 DEF SharedInv, In, TypeOK
<1>7. CASE \E e \in Elements : Propagate(e)
    <2>. PICK e \in Elements : Propagate(e)
        BY <1>7
    <2>1. /\ state[e] = "propagate" /\ state' = [state EXCEPT ![e] = "run"]
          /\ canvas' = canvas /\ context' = [context EXCEPT ![parent[e]] = canvas[e]]
          /\ UNCHANGED <<parent, apart>>
        BY <1>1 DEF Propagate, Go, TypeOK
    <2>. QED
        BY <1>1, <2>1 DEF SharedInv, In, TypeOK
<1>8. CASE \E e \in Elements : Finalize(e)
    BY <1>1, <1>8 DEF SharedInv, In, TypeOK, Finalize, Go
<1>9. CASE \E b \in Bins : FreeBin(b)
    BY <1>1, <1>9 DEF SharedInv, In, TypeOK, FreeBin
<1>. QED
    BY <1>2, <1>3, <1>4, <1>5, <1>6, <1>7, <1>8, <1>9 DEF Next

--------------------------------------------------------------------------------
(* The theorems *)

LEMMA StepInv == IInv /\ [Next]_vars => IInv'
<1>. SUFFICES ASSUME IInv, [Next]_vars PROVE IInv'
    OBVIOUS
<1>1. CASE Next
    BY <1>1, TypeNext, StateNext, RefsNext, SpareNext, SharedNext DEF IInv
<1>2. CASE UNCHANGED vars
    <2>1. UNCHANGED <<parent, state, canvas, context, refs, named, html, adds, apart>>
        BY <1>2 DEF vars
    <2>2. TypeOK' /\ StateInv' /\ SharedInv'
        BY <2>1 DEF IInv, TypeOK, StateInv, SharedInv, In
    <2>3. Made' = Made /\ Settled' = Settled
        BY <2>1 DEF Made, Settled
    <2>4. RefsInv' /\ SpareInv'
        BY <2>1, <2>3 DEF IInv, RefsInv, SpareInv
    <2>. QED
        BY <2>2, <2>4 DEF IInv
<1>. QED
    BY <1>1, <1>2

\* The inductive invariant holds in every state of every run.
THEOREM Invariance == Spec => []IInv
<1>. QED
    BY InitInv, StepInv, PTL DEF Spec

\* A canvas, and the runner it keeps, has a reference for every element and every bin that
\* holds it, whatever the elements do in whatever order (gstwebcanvas.c, set_context and
\* propagate_canvas of gstwebutils.cpp).
THEOREM RefsCorrect == Spec => []RefsCover
<1>1. IInv => RefsCover
    BY DEF IInv, RefsInv, RefsCover, Fiber
<1>. QED
    BY <1>1, Invariance, PTL

\* The elements of a bin that have started share the canvas of the bin, unless two of them
\* made one at the same time or one brought its own (gst_web_utils_element_ensure_canvas).
THEOREM SharedCorrect == Spec => []OneCanvas
<1>1. IInv => OneCanvas
    <2>. SUFFICES ASSUME IInv, NEW d \in Elements, NEW e \in Elements,
                         parent[d] = parent[e], parent[e] \notin apart \cup {None},
                         state[d] = "started", state[e] = "started"
                  PROVE  canvas[d] = canvas[e]
        BY DEF OneCanvas
    <2>1. parent[e] \in Bins \ apart /\ d \in In(parent[e]) /\ e \in In(parent[e])
        BY DEF IInv, TypeOK, In
    <2>2. canvas[d] # 0 /\ canvas[e] # 0
        BY DEF IInv, StateInv
    <2>3. \A x \in In(parent[e]) : canvas[x] # 0 =>
                canvas[x] = context[parent[e]] \/ state[x] = "propagate"
        BY <2>1 DEF IInv, SharedInv
    <2>4. canvas[d] = context[parent[e]] /\ canvas[e] = context[parent[e]]
        BY <2>1, <2>2, <2>3
    <2>. QED
        BY <2>4
<1>. QED
    BY <1>1, Invariance, PTL

================================================================================
