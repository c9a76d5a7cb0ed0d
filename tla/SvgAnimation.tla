------------------------------ MODULE SvgAnimation ------------------------------
(***************************************************************************)
(* The animations of canvg.js: animate elements that are children of one   *)
(* element and change its attributes, frame by frame.  At a frame of the   *)
(* render loop (SvgLoop) every animation is updated, in the order of the   *)
(* document: one is updated in a step, and nothing else runs between the   *)
(* steps of a frame.  An animation that is past its end does what its fill *)
(* says at the next update; the frame before it may lie beyond the end.    *)
(*                                                                         *)
(* Times are whole milliseconds and a frame is FrameTime of them.  Numbers *)
(* are exact: the differences between the values of an animation are       *)
(* multiples of its length, so that a tween divides.                       *)
(***************************************************************************)
EXTENDS Integers, Sequences

CONSTANTS
    Attr,        \* attributes of the parent
    Documents,   \* sequences of animations
    FrameTime,   \* 1000 / FRAMERATE
    NaN, None

VARIABLES
    doc,         \* the animations, svg.Animations
    value,       \* of each attribute, a number or NaN
    base,        \* history: what the document gives it
    state,       \* of each animation: duration, initialValue, frozen, removed
    parent,      \* animationFrozen and animationFrozenValue
    turn,        \* how many of the animations were updated in this frame
    updated      \* one of them asked for a drawing; of all, between frames

animationVars == <<doc, value, base, state, parent, turn, updated>>

\* A time is a number of thousandths and a unit, "s", "ms" or none.  An ms is
\* taken for seconds too, because it ends in s.
ToMilliseconds(time) == IF time.unit \in {"s", "ms"} THEN time.n ELSE time.n \div 1000

Begin(a) == ToMilliseconds(a.begin)
Length(a) == ToMilliseconds(a.dur)
MaxDuration(a) == Begin(a) + Length(a)

Time == [n : Nat, unit : {"s", "ms", "none"}]
AnimationType ==
    [attr : Attr, begin : Time, dur : Time, list : BOOLEAN, values : Seq(Int),
     fill : {"freeze", "remove"}, indefinite : BOOLEAN]

\* A dur is given and is not 0, there are a from and a to, and what they differ
\* by is a multiple of the length.
ASSUME AnimationAssumption ==
    /\ FrameTime \in Nat /\ None \notin Int \cup {NaN}
    /\ Documents \subseteq Seq(AnimationType)
    /\ \A d \in Documents : \A i \in DOMAIN d :
         /\ Length(d[i]) > 0 /\ Len(d[i].values) > 1
         /\ ~d[i].list => (d[i].values[2] - d[i].values[1]) % Length(d[i]) = 0

\* The value after duration: between from and to, or between two neighbours of
\* values.  Just at one of these the fraction is 0/0, and after the last there
\* is no neighbour.
CalcValue(a, duration) ==
    LET segments == Len(a.values) - 1
        covered == (duration - Begin(a)) * segments
        lb == covered \div Length(a)
        from == a.values[lb + 1]
        to == a.values[lb + 2]
    IN  IF ~a.list
        THEN a.values[1] + ((a.values[2] - a.values[1]) * (duration - Begin(a))) \div Length(a)
        ELSE IF covered % Length(a) = 0 \/ lb >= segments THEN NaN
        ELSE from + ((to - from) * (covered - lb * Length(a))) \div Length(a)

-----------------------------------------------------------------------------
AnimationInit ==
    /\ doc \in Documents
    /\ base = [x \in Attr |-> -1] /\ value = base
    /\ state = [i \in DOMAIN doc |->
                  [duration |-> 0, initial |-> None, frozen |-> FALSE, removed |-> FALSE]]
    /\ parent = [frozen |-> FALSE, value |-> None]
    /\ turn = 0 /\ updated = FALSE

-----------------------------------------------------------------------------
\* A faulty variant: the initial value is that before each frame.
InitialAlways(i) == value[doc[i].attr]

\* The initial value is that of the first update, before the begin.
Initial(i) == IF state[i].initial = None THEN value[doc[i].attr] ELSE state[i].initial

\* An animation after an update, which returns whether it asks for a drawing.
Becomes(i, duration, frozen, removed) ==
    state' = [state EXCEPT ![i] = [duration |-> duration, initial |-> Initial(i),
                                   frozen |-> frozen, removed |-> removed]]
Returns(asks) == updated' = ((turn > 0 /\ updated) \/ asks)

\* What is done past the end.
Loop(i) ==
    /\ Becomes(i, 0, state[i].frozen, state[i].removed)
    /\ Returns(FALSE) /\ UNCHANGED <<value, parent>>
Freeze(i) ==
    /\ Becomes(i, state[i].duration, TRUE, state[i].removed)
    /\ parent' = [frozen |-> TRUE, value |-> value[doc[i].attr]]
    /\ Returns(FALSE) /\ UNCHANGED value
Restore(i) ==
    /\ Becomes(i, state[i].duration, state[i].frozen, TRUE)
    /\ value' = [value EXCEPT ![doc[i].attr] =
                    IF parent.frozen THEN parent.value ELSE Initial(i)]
    /\ Returns(TRUE) /\ UNCHANGED parent
Rest(i) ==
    /\ Becomes(i, state[i].duration, state[i].frozen, state[i].removed)
    /\ Returns(FALSE) /\ UNCHANGED <<value, parent>>

\* A faulty variant: fill is acted upon at every frame past the end.
PastEndAlways(i) ==
    IF doc[i].indefinite THEN Loop(i)
    ELSE IF doc[i].fill = "freeze" THEN Freeze(i)
    ELSE Restore(i)

PastEnd(i) ==
    IF doc[i].indefinite THEN Loop(i)
    ELSE IF doc[i].fill = "freeze" /\ ~state[i].frozen THEN Freeze(i)
    ELSE IF doc[i].fill = "remove" /\ ~state[i].removed THEN Restore(i)
    ELSE Rest(i)

Tween(i) ==
    LET duration == state[i].duration + FrameTime
        begun == Begin(doc[i]) < duration
    IN  /\ Becomes(i, duration, state[i].frozen, state[i].removed)
        /\ value' = IF begun
                    THEN [value EXCEPT ![doc[i].attr] = CalcValue(doc[i], duration)] ELSE value
        /\ Returns(begun) /\ UNCHANGED parent

Ended(i) == state[i].duration > MaxDuration(doc[i])

\* The next animation is updated; after the last the frame is over.
Update ==
    LET i == turn + 1
    IN  /\ turn < Len(doc)
        /\ IF Ended(i) THEN PastEnd(i) ELSE Tween(i)
        /\ turn' = i % Len(doc)
        /\ UNCHANGED <<doc, base>>

AnimationSpec == AnimationInit /\ [][Update]_animationVars

\* The interval of the render loop.
FairAnimationSpec == AnimationSpec /\ WF_animationVars(Update)

-----------------------------------------------------------------------------
Alone(i) == \A j \in DOMAIN doc : doc[j].attr = doc[i].attr => j = i
To(a) == a.values[2]
Abs(n) == IF n < 0 THEN -n ELSE n

\* An animation that is the only one of its attribute ends as its fill says.
\* Removed, it leaves the attribute as the document gave it, if no animation of
\* the element is frozen.  Frozen, it leaves it beyond the last value by at
\* most the step of one frame, and there it stays.
EndsAsAsked ==
    \A i \in DOMAIN doc : Alone(i) =>
        /\ state[i].removed /\ (\A j \in DOMAIN doc : doc[j].fill # "freeze") =>
             value[doc[i].attr] = base[doc[i].attr]
        /\ state[i].frozen /\ ~doc[i].list =>
             Abs(value[doc[i].attr] - To(doc[i])) * Length(doc[i])
                 <= Abs(To(doc[i]) - doc[i].values[1]) * FrameTime

\* If none repeats, the animations come to rest: no more drawing is asked for.
AnimationsEnd ==
    (\A i \in DOMAIN doc : ~doc[i].indefinite) => <>[](~updated)
=============================================================================
