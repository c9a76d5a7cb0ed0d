-------------------------------- MODULE SvgPath --------------------------------
(***************************************************************************)
(* The PathParser of canvg.js: the data of a path is read command by       *)
(* command and segment by segment, drawn on the canvas as it is read, and  *)
(* a marker is remembered for every point.  The data are those that the    *)
(* grammar of SVG allows; how they are cut into tokens is left out.        *)
(*                                                                         *)
(* A smooth curve takes the control point of the curve before, reflected.  *)
(* The parser finds out whether there is one from previousCommand, and     *)
(* that is written when a command begins, not when a segment does.         *)
(*                                                                         *)
(* meant is what SVG says of the same data, read beside the parser.  The   *)
(* geometry of arcs is left out, and so is what the bounding box makes of  *)
(* the curves it is given.                                                 *)
(***************************************************************************)
EXTENDS Integers, Sequences

CONSTANTS
    Point, Control,  \* end points and control points in the data
    None,
    MaxSegments      \* bound: segments and closings of a path

Letters == {"M", "L", "H", "V", "C", "S", "Q", "T", "A", "Z"}

\* None is no letter, no place and no direction.
ASSUME PathAssumption ==
    /\ MaxSegments \in Nat
    /\ Point \subseteq Int \X Int /\ Control \subseteq Int \X Int
    /\ None \notin Letters /\ None \notin Int \X Int
    /\ None \notin (Int \X Int) \X (Int \X Int)
    /\ None \notin {"arc"} \X (Int \X Int) \X (Int \X Int)

VARIABLES
    command, previousCommand, \* their letters
    relative,        \* command is of lower case
    first,           \* no segment of the command was read yet
    start, control, current,
    markers,         \* points and angles: [p, angle], an angle is <<from, to>>
    drawn,           \* the last call of the context
    meant,           \* what SVG says: [at, start, kind, control, call, markers]
    off,             \* history: the last call uses a control point that is
                     \* reflected, or not, against SVG
    read             \* segments and closings so far

pen == <<start, control, current, drawn>>
pathVars == <<command, previousCommand, relative, first, pen, markers, meant, off, read>>

Plus(p, q) == <<p[1] + q[1], p[2] + q[2]>>
Reflected(c, p) == <<2 * p[1] - c[1], 2 * p[2] - c[2]>>
Origin == <<0, 0>>
EndOf(call) == call[Len(call)]

\* reset()
PathInit ==
    /\ command = None /\ previousCommand = None /\ relative = FALSE /\ first = FALSE
    /\ start = Origin /\ control = Origin /\ current = Origin
    /\ markers = <<>> /\ drawn = <<"beginPath">>
    /\ meant = [at |-> Origin, start |-> Origin, kind |-> None, control |-> None,
                call |-> drawn, markers |-> <<>>]
    /\ off = FALSE /\ read = 0

-----------------------------------------------------------------------------
MakeAbsolute(p) == IF relative THEN Plus(current, p) ELSE p

\* A faulty variant: whatever came before, the control point is reflected.
ReflectedAlways == Reflected(control, current)

GetReflectedControlPoint ==
    IF previousCommand \in {"C", "S", "Q", "T"} THEN Reflected(control, current)
    ELSE current

\* A faulty variant: the angle of the point before stays open.
MarkersAdded(p, from, priorTo) ==
    Append(markers, [p |-> p, angle |-> IF from = None THEN None ELSE <<from, p>>])

\* addMarker: the angle of the point before is filled in if it has none.
AddMarker(p, from, priorTo) ==
    LET n == Len(markers)
        before == IF priorTo # None /\ n > 0 /\ markers[n].angle = None
                  THEN [markers EXCEPT ![n].angle = <<markers[n].p, priorTo>>]
                  ELSE markers
    IN  Append(before, [p |-> p, angle |-> IF from = None THEN None ELSE <<from, p>>])

\* nextCommand; previousCommand is written here and nowhere else.
NextCommand(c, lower) ==
    /\ ~first /\ read < MaxSegments
    /\ command = None => c = "M"
    /\ previousCommand' = command
    /\ command' = c /\ relative' = lower
    /\ IF c = "Z"
       THEN /\ current' = start /\ drawn' = <<"closePath">>
            /\ meant' = [meant EXCEPT !.at = meant.start, !.kind = "Z",
                                      !.call = <<"closePath">>]
            /\ off' = FALSE /\ first' = FALSE /\ read' = read + 1
            /\ UNCHANGED <<start, control, markers>>
       ELSE /\ first' = TRUE
            /\ UNCHANGED <<pen, markers, meant, off, read>>

\* What all segments have in common.  A segment follows its command or another
\* segment of it.
Segment(c, call, newMarkers) ==
    /\ command = c
    /\ first \/ read < MaxSegments
    /\ drawn' = call /\ current' = EndOf(call)
    /\ markers' = newMarkers
    /\ first' = FALSE /\ read' = read + 1
    /\ UNCHANGED <<command, previousCommand, relative>>

Meant(p) == IF relative THEN Plus(meant.at, p) ELSE p

\* What SVG says of a segment: a smooth curve reflects the control point of a
\* segment of its own degree.  The direction at a start marker is that of the
\* segment that leaves it; what is not said is None.
MeantReflection(kinds) ==
    IF meant.kind \in kinds THEN Reflected(meant.control, meant.at) ELSE meant.at

Means(c, call, ctl, leaving, arriving) ==
    LET n == Len(meant.markers)
        filled == IF n > 0 /\ meant.markers[n].kind = "M"
                  THEN [meant.markers EXCEPT ![n] = [p |-> @.p, kind |-> c, angle |-> leaving]]
                  ELSE meant.markers
    IN  meant' = [at |-> EndOf(call), kind |-> c, control |-> ctl, call |-> call,
                  start |-> IF c = "M" THEN EndOf(call) ELSE meant.start,
                  markers |-> Append(filled,
                                [p |-> EndOf(call), kind |-> c, angle |-> arriving])]

-----------------------------------------------------------------------------
MoveTo(p) ==
    LET to == MakeAbsolute(p) IN
    /\ first
    /\ Segment("M", <<"moveTo", to>>, AddMarker(to, None, None))
    /\ start' = to
    /\ Means("M", <<"moveTo", Meant(p)>>, None, None, None)
    /\ off' = FALSE
    /\ UNCHANGED <<control>>

\* A further point of a moveto is a lineto; its marker takes the angle from start.
ImplicitLineTo(p) ==
    LET to == MakeAbsolute(p) IN
    /\ ~first
    /\ Segment("M", <<"lineTo", to>>, AddMarker(to, start, None))
    /\ Means("L", <<"lineTo", Meant(p)>>, None, <<meant.at, Meant(p)>>,
             IF start = current THEN <<meant.at, Meant(p)>> ELSE None)
    /\ off' = FALSE
    /\ UNCHANGED <<start, control>>

\* lineto, also horizontal and vertical.
LineTo(c, to, toMeant) ==
    /\ Segment(c, <<"lineTo", to>>, AddMarker(to, current, None))
    /\ Means(c, <<"lineTo", toMeant>>, None, <<meant.at, toMeant>>, <<meant.at, toMeant>>)
    /\ off' = FALSE
    /\ UNCHANGED <<start, control>>

Line(p) == LineTo("L", MakeAbsolute(p), Meant(p))
Horizontal(p) ==
    LineTo("H", <<(IF relative THEN current[1] ELSE 0) + p[1], current[2]>>,
                <<Meant(p)[1], meant.at[2]>>)
Vertical(p) ==
    LineTo("V", <<current[1], (IF relative THEN current[2] ELSE 0) + p[2]>>,
                <<meant.at[1], Meant(p)[2]>>)

Curve(c1, c2, p) ==
    LET p1 == MakeAbsolute(c1)
        cntrl == MakeAbsolute(c2)
        cp == MakeAbsolute(p)
    IN  /\ Segment("C", <<"bezierCurveTo", p1, cntrl, cp>>, AddMarker(cp, cntrl, p1))
        /\ control' = cntrl
        /\ Means("C", <<"bezierCurveTo", Meant(c1), Meant(c2), Meant(p)>>, Meant(c2),
                 <<meant.at, Meant(c1)>>, <<Meant(c2), Meant(p)>>)
        /\ off' = FALSE
        /\ UNCHANGED start

\* The parser reflects, or does not, against SVG.
Strays(kinds) == (previousCommand \in {"C", "S", "Q", "T"}) # (meant.kind \in kinds)

SmoothCurve(c2, p) ==
    LET p1 == GetReflectedControlPoint
        cntrl == MakeAbsolute(c2)
        cp == MakeAbsolute(p)
    IN  /\ Segment("S", <<"bezierCurveTo", p1, cntrl, cp>>, AddMarker(cp, cntrl, p1))
        /\ control' = cntrl
        /\ Means("S", <<"bezierCurveTo", MeantReflection({"C", "S"}), Meant(c2), Meant(p)>>,
                 Meant(c2), <<meant.at, MeantReflection({"C", "S"})>>, <<Meant(c2), Meant(p)>>)
        /\ off' = Strays({"C", "S"})
        /\ UNCHANGED start

Quadratic(c1, p) ==
    LET cntrl == MakeAbsolute(c1)
        cp == MakeAbsolute(p)
    IN  /\ Segment("Q", <<"quadraticCurveTo", cntrl, cp>>, AddMarker(cp, cntrl, cntrl))
        /\ control' = cntrl
        /\ Means("Q", <<"quadraticCurveTo", Meant(c1), Meant(p)>>, Meant(c1),
                 <<meant.at, Meant(c1)>>, <<Meant(c1), Meant(p)>>)
        /\ off' = FALSE
        /\ UNCHANGED start

SmoothQuadratic(p) ==
    LET cntrl == GetReflectedControlPoint
        cp == MakeAbsolute(p)
        through == MeantReflection({"Q", "T"})
    IN  /\ Segment("T", <<"quadraticCurveTo", cntrl, cp>>, AddMarker(cp, cntrl, cntrl))
        /\ control' = cntrl
        /\ off' = (Strays({"Q", "T"}) \/ (off /\ meant.kind = "T"))
        /\ Means("T", <<"quadraticCurveTo", through, Meant(p)>>, through,
                 <<meant.at, through>>, IF off' THEN None ELSE <<through, Meant(p)>>)
        /\ UNCHANGED start

\* Two markers, one half way; their angles are left out.
Arc(p) ==
    LET cp == MakeAbsolute(p) IN
    /\ Segment("A", <<"arc", current, cp>>,
               markers \o <<[p |-> <<"half way", current, cp>>, angle |-> <<"arc", current, cp>>],
                            [p |-> cp, angle |-> <<"arc", current, cp>>]>>)
    /\ LET halfWay == [p |-> <<"half way", meant.at, Meant(p)>>, kind |-> "A", angle |-> None]
           last == [halfWay EXCEPT !.p = Meant(p)]
           closed == [i \in DOMAIN meant.markers |->
                        IF i = Len(meant.markers) /\ meant.markers[i].kind = "M"
                        THEN [meant.markers[i] EXCEPT !.kind = "A"] ELSE meant.markers[i]]
       IN  meant' = [meant EXCEPT !.at = Meant(p), !.kind = "A", !.control = None,
                                  !.call = <<"arc", meant.at, Meant(p)>>,
                                  !.markers = closed \o <<halfWay, last>>]
    /\ off' = FALSE
    /\ UNCHANGED <<start, control>>

PathNext ==
    \/ \E c \in Letters, lower \in BOOLEAN : NextCommand(c, lower)
    \/ \E p \in Point :
         \/ MoveTo(p) \/ ImplicitLineTo(p) \/ Line(p) \/ Horizontal(p) \/ Vertical(p)
         \/ SmoothQuadratic(p) \/ Arc(p)
         \/ \E c2 \in Control :
              \/ SmoothCurve(c2, p) \/ Quadratic(c2, p)
              \/ \E c1 \in Control : Curve(c1, c2, p)

PathSpec == PathInit /\ [][PathNext]_pathVars

-----------------------------------------------------------------------------
\* getMarkerAngles: what is still open takes the next angle that is known.
GetMarkerAngles ==
    LET Known(i) == {j \in i..Len(markers) : markers[j].angle # None}
        Nearest(i) == CHOOSE j \in Known(i) : \A k \in Known(i) : j <= k
    IN  [i \in DOMAIN markers |->
            IF Known(i) = {} THEN None ELSE markers[Nearest(i)].angle]

\* Every segment is drawn as SVG says, from the point the one before left, unless
\* it is a smooth curve whose control point the parser reflects, or not, against
\* SVG: after a curve of the other degree, and from the second segment on of a
\* command that does not follow a curve.
DrawnAsMeant == ~off => drawn = meant.call

\* Every point has its marker, and its angle is the direction in which the path
\* arrives, at the start of a subpath that in which it leaves.  (Nothing is said
\* of closing lines, of arcs, of points after the second of a moveto, and of what is off.)
MarkersFollowThePath ==
    /\ Len(markers) = Len(meant.markers)
    /\ \A i \in DOMAIN markers :
         /\ markers[i].p = meant.markers[i].p
         /\ meant.markers[i].angle # None =>
              GetMarkerAngles[i] = meant.markers[i].angle

=============================================================================
