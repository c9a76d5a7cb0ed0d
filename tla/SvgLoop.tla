-------------------------------- MODULE SvgLoop --------------------------------
(***************************************************************************)
(* The render loop of canvg.js.  A page calls canvg on a canvas: the loop  *)
(* that drew on it before is stopped, the document is built, it is drawn   *)
(* at once if it has no images, and then an interval draws it again when   *)
(* its images have loaded, when the mouse did something over it, or when   *)
(* an animation goes on.  The page may call canvg again, also from the     *)
(* renderCallback of the first drawing, and drawSvg calls it for the       *)
(* canvas of its context.                                                  *)
(*                                                                         *)
(* There is one thread.  stack holds the calls and ticks that have begun   *)
(* and wait for a callback to return; nothing else runs meanwhile.  A text *)
(* is parsed here and now, but the function that would fetch a URL is      *)
(* commented out of the source: such a call throws.                        *)
(***************************************************************************)
EXTENDS Integers, Sequences, FiniteSets

CONSTANTS
    Image,       \* images that a document may show
    MaxCalls,    \* bound: calls of canvg on the canvas
    MaxEvents    \* bound: events that wait

ASSUME SvgLoopAssumption == MaxCalls \in Nat /\ MaxEvents \in Nat

Call == 1..MaxCalls
NoCall == 0

VARIABLES
    calls,       \* calls so far; they are numbered
    current,     \* target.svg
    stack,       \* [call, kind, at] of what has begun, the latest last
    kind,        \* "canvg", or "drawSvg": no mouse, no animation
    images,      \* of each call: the images of its document that are
                 \* "loading", "loaded" or "broken"; "none" of the others
    waiting,     \* waitingForImages
    rendered,    \* ~isFirstRender
    interval,    \* "none" before setInterval, "on", "off" once cleared
    events,      \* svg.Mouse.events, how many
    handler,     \* the call whose handlers the canvas has
    canvas,      \* what the canvas shows: the call, and whether all of it
    under,       \* history: the calls that were being built when one began
    completed    \* history: it has drawn all of its document

instance == <<kind, images, waiting, rendered, events, completed>>
loopVars == <<calls, current, stack, interval, handler, canvas, under, instance>>

LoopInit ==
    /\ calls = 0 /\ current = NoCall /\ stack = <<>>
    /\ kind = [c \in Call |-> "canvg"]
    /\ images = [c \in Call |-> [i \in Image |-> "none"]]
    /\ waiting = [c \in Call |-> TRUE] /\ rendered = [c \in Call |-> FALSE]
    /\ interval = [c \in Call |-> "none"] /\ events = [c \in Call |-> 0]
    /\ handler = NoCall
    /\ canvas = [call |-> NoCall, all |-> TRUE]
    /\ under = [c \in Call |-> {}] /\ completed = [c \in Call |-> FALSE]

-----------------------------------------------------------------------------
Top == stack[Len(stack)]
Idle == stack = <<>>
InCallback == ~Idle /\ Top.at = "callback"
Popped == SubSeq(stack, 1, Len(stack) - 1)
Building == {stack[i].call : i \in {j \in DOMAIN stack : stack[j].kind = "build"}}

ImagesLoaded(c) == \A i \in Image : images[c][i] # "loading"
Broken(c) == \E i \in Image : images[c][i] = "broken"

\* A faulty variant: the loop is forgotten and not stopped.
Forget == UNCHANGED interval

\* target.svg.stop(): an interval that is not set yet cannot be cleared.
Stop ==
    interval' = IF current # NoCall /\ interval[current] = "on"
                THEN [interval EXCEPT ![current] = "off"] ELSE interval

\* canvg(target, text) or drawSvg(text), from the page or from a callback.
\* The document is built, its images begin to load.
Canvg(k, shown) ==
    LET c == calls + 1 IN
    /\ Idle \/ InCallback
    /\ calls < MaxCalls
    /\ calls' = c
    /\ Stop
    /\ current' = c
    /\ kind' = [kind EXCEPT ![c] = k]
    /\ images' = [images EXCEPT ![c] = [i \in Image |->
                                          IF i \in shown THEN "loading" ELSE "none"]]
    /\ handler' = IF k = "canvg" THEN c ELSE handler
    /\ under' = [under EXCEPT ![c] = Building]
    /\ stack' = Append(stack, [call |-> c, kind |-> "build", at |-> "built"])
    /\ UNCHANGED <<waiting, rendered, events, canvas, completed>>

\* canvg(target, url) throws after it has taken the place of the loop before.
\* What it was called from ends with it, up to a callback that catches this.
CanvgUrl ==
    LET c == calls + 1 IN
    /\ Idle \/ InCallback
    /\ calls < MaxCalls
    /\ calls' = c
    /\ Stop
    /\ current' = c
    /\ under' = [under EXCEPT ![c] = Building]
    /\ \E k \in 0..Len(stack) : stack' = SubSeq(stack, 1, k)
    /\ UNCHANGED <<handler, canvas, instance>>

\* draw(): all is drawn but the images that have not arrived, up to an image
\* that is broken, where drawImage throws.
Drawn(c) ==
    /\ canvas' = [call |-> c, all |-> ImagesLoaded(c) /\ ~Broken(c)]
    /\ completed' = [completed EXCEPT ![c] = @ \/ canvas'.all]

\* The document is complete: it is drawn now, and renderCallback is called.
FirstDraw ==
    LET c == Top.call IN
    /\ ~Idle /\ Top.at = "built" /\ ImagesLoaded(c)
    /\ waiting' = [waiting EXCEPT ![c] = FALSE]
    /\ Drawn(c)
    /\ rendered' = [rendered EXCEPT ![c] = TRUE]
    /\ stack' = [stack EXCEPT ![Len(stack)].at = "callback"]
    /\ UNCHANGED <<calls, current, interval, handler, under, kind, images, events>>

\* setInterval; the call returns.
SetInterval ==
    LET c == Top.call IN
    /\ ~Idle /\ Top.kind = "build"
    /\ Top.at = "callback" \/ ~ImagesLoaded(c)
    /\ interval' = [interval EXCEPT ![c] = "on"]
    /\ stack' = Popped
    /\ UNCHANGED <<calls, current, handler, canvas, under, instance>>

\* The renderCallback of a tick returns, and the events are run and cleared.
Return ==
    /\ InCallback /\ Top.kind = "tick"
    /\ events' = [events EXCEPT ![Top.call] = 0]
    /\ stack' = Popped
    /\ UNCHANGED <<calls, current, interval, handler, canvas, under, kind, images,
                   waiting, rendered, completed>>

\* A faulty variant: any drawing ends the wait for the images.
DrawEndsWaiting(c, need) == waiting[c] /\ ~need

\* waitingForImages after a tick.
StillWaiting(c, need) == waiting[c] /\ ~ImagesLoaded(c)

\* One tick of the interval of a call.  updated is what its animations and
\* forceRedraw say.  Events are cleared after the drawing, if it does not throw,
\* and after the renderCallback that the first one calls.
Tick(c, updated) ==
    LET need == \/ waiting[c] /\ ImagesLoaded(c)
                \/ kind[c] = "canvg" /\ (events[c] > 0 \/ updated)
    IN  /\ Idle /\ interval[c] = "on"
        /\ waiting' = [waiting EXCEPT ![c] = StillWaiting(c, need)]
        /\ IF need THEN Drawn(c) ELSE UNCHANGED <<canvas, completed>>
        /\ IF need /\ ~Broken(c)
           THEN /\ rendered' = [rendered EXCEPT ![c] = TRUE]
                /\ IF rendered[c]
                   THEN events' = [events EXCEPT ![c] = 0] /\ UNCHANGED stack
                   ELSE /\ stack' = <<[call |-> c, kind |-> "tick", at |-> "callback"]>>
                        /\ UNCHANGED events
           ELSE UNCHANGED <<events, rendered, stack>>
        /\ UNCHANGED <<calls, current, interval, handler, under, kind, images>>

\* onload or onerror; the image of a broken one cannot be drawn.
ImageSettles(c, i) ==
    /\ Idle /\ images[c][i] = "loading"
    /\ \E result \in {"loaded", "broken"} : images' = [images EXCEPT ![c][i] = result]
    /\ UNCHANGED <<calls, current, stack, interval, handler, canvas, under, kind,
                   waiting, rendered, events, completed>>

\* onclick or onmousemove: the handlers of a canvas stay when its loop stops.
MouseEvent ==
    /\ Idle /\ handler # NoCall /\ events[handler] < MaxEvents
    /\ events' = [events EXCEPT ![handler] = @ + 1]
    /\ UNCHANGED <<calls, current, stack, interval, handler, canvas, under, kind,
                   images, waiting, rendered, completed>>

LoopNext ==
    \/ \E shown \in SUBSET Image : Canvg("canvg", shown) \/ Canvg("drawSvg", shown)
    \/ CanvgUrl
    \/ FirstDraw \/ SetInterval \/ Return
    \/ \E c \in Call, updated \in BOOLEAN : Tick(c, updated)
    \/ \E c \in Call, i \in Image : ImageSettles(c, i)
    \/ MouseEvent

LoopSpec == LoopInit /\ [][LoopNext]_loopVars

\* The thread goes on, the browser keeps its intervals and settles its images.
\* No animation is needed for a tick to do what is left to do.
FairLoopSpec ==
    /\ LoopSpec
    /\ WF_loopVars(FirstDraw) /\ WF_loopVars(SetInterval) /\ WF_loopVars(Return)
    /\ \A c \in Call : WF_loopVars(Tick(c, FALSE))
    /\ \A c \in Call, i \in Image : WF_loopVars(ImageSettles(c, i))

-----------------------------------------------------------------------------
\* Two loops draw on the canvas only if one of them was still being built, in
\* its renderCallback, when canvg was called again: that loop cannot be stopped.
OneLoop ==
    \A c \in Call :
        interval[c] = "on" => \/ c = current
                              \/ \E d \in Call : c \in under[d]

\* Unless it is stopped or an image breaks, a loop gets to draw all of its
\* document, also when the mouse or an animation made it draw before the images
\* were there, and it serves the events that came.
LoopDoesItsWork ==
    \A c \in Call :
        /\ interval[c] = "on" ~> completed[c] \/ interval[c] = "off" \/ Broken(c)
        /\ events[c] > 0 /\ interval[c] = "on"
             ~> events[c] = 0 \/ interval[c] = "off" \/ Broken(c)
=============================================================================
