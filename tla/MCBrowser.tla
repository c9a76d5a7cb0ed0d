------------------------------- MODULE MCBrowser -------------------------------
(***************************************************************************)
(* What the event loop of a browser runs: the road map page (RoadMap), the *)
(* render loop of canvg and the animations that an interval of it updates. *)
(* The page does not use canvg, and an animation is not told which loop    *)
(* updates it: one of the three moves in each behaviour, while the others  *)
(* stand where they begin.  The browser runs the jobs that wait, keeps its *)
(* intervals, settles its images, and the driver settles the queries.      *)
(***************************************************************************)
EXTENDS RoadMap, SvgLoop, SvgAnimation

CONSTANTS
    c1, c2, c3,   \* cities
    i1            \* an image

VARIABLE part

\* Two cities and one that is added, or not, while the page is open.
Cities == {c1, c2, c3}
Roads == {<<c1, c2>>, <<c2, c3>>}
Paths == {<<c1, c2>>, <<c1, c3>>, <<c2>>}

\* One or two animations of two attributes.  A frame is 30 ms; lengths are a
\* whole number of frames (60), or not (100), or less than one (20).  Times are
\* in seconds or, for one animation alone, without a unit and in milliseconds.
Seconds(n) == [n |-> n, unit |-> "s"]
Animates ==
    {[attr |-> at, begin |-> Seconds(b), dur |-> Seconds(d), list |-> Len(v) > 2,
      values |-> v, fill |-> f, indefinite |-> r] :
        at \in {"x", "y"}, b \in {0, 40}, d \in {20, 60, 100},
        v \in {<<0, 300>>, <<300, 0, 600>>},
        f \in {"freeze", "remove"}, r \in BOOLEAN}
AnimatedDocuments ==
    {<<a>> : a \in Animates}
    \cup {<<[a EXCEPT !.begin = [n |-> 40000, unit |-> "none"], !.dur.unit = "ms"]>> :
            a \in Animates}
    \cup {<<a, b>> : a \in {x \in Animates : x.attr = "x" /\ ~x.indefinite},
                     b \in {x \in Animates : ~x.list /\ x.dur # Seconds(20)}}
    \cup {<<>>}

-----------------------------------------------------------------------------
browserVars == <<part, vars, loopVars, animationVars>>

BrowserInit ==
    /\ part \in {"page", "loop", "animation"}
    /\ Init /\ LoopInit
    /\ part # "page" => db = {}
    /\ AnimationInit /\ (doc = <<>> <=> part # "animation")

Page == part = "page" /\ Next /\ UNCHANGED <<part, loopVars, animationVars>>
LoopStep == part = "loop" /\ LoopNext /\ UNCHANGED <<part, vars, animationVars>>
AnimationStep ==
    /\ part = "animation" /\ Update
    /\ UNCHANGED <<part, vars, loopVars>>

BrowserNext == Page \/ LoopStep \/ AnimationStep

BrowserSpec ==
    /\ BrowserInit /\ [][BrowserNext]_browserVars
    /\ WF_vars(part = "page" /\ MarkPath)
    /\ \A q \in 1..MaxQueries : WF_vars(part = "page" /\ Settle(q))
    /\ WF_loopVars(part = "loop" /\ FirstDraw)
    /\ WF_loopVars(part = "loop" /\ SetInterval)
    /\ WF_loopVars(part = "loop" /\ Return)
    /\ \A c \in Call : /\ WF_loopVars(part = "loop" /\ Tick(c, FALSE))
                       /\ WF_loopVars(part = "loop" /\ ImageSettles(c, i1))
    /\ WF_animationVars(part = "animation" /\ Update)
=============================================================================
